--------------------------- MODULE MCFeasibility ---------------------------
EXTENDS FeasibilityScheduler

CONSTANT FirstBlocks, BlocksEach, StateEach, BlockEach, FirstFinal, FinalEach

(* The first family is the long one: its results can pile up behind a      *)
(* block, and it may need more memory than the others to be finalized.     *)
MCBlocks == [f \in Family |-> IF f = 1 THEN FirstBlocks ELSE BlocksEach]
MCState == [f \in Family |-> StateEach]
MCBlock == [f \in Family |-> BlockEach]
MCFinal == [f \in Family |-> IF f = 1 THEN FirstFinal ELSE FinalEach]

=============================================================================
