---------------------------- MODULE MCWorkQueue ----------------------------
EXTENDS WorkQueue

(* Task 5 is larger than the budget. *)
MCTask == 1 .. 5
MCRank == [t \in MCTask |-> 6 - t]
MCMemory == [t \in MCTask |-> IF t = 5 THEN 6 ELSE t]

=============================================================================
