-------------------------- MODULE OrderedReduction --------------------------
(***************************************************************************)
(* What the geometry pass promises about its floating-point results: the   *)
(* blocks of a family are reduced in canonical order and each once, and a  *)
(* family is finalized once, when all of its blocks are reduced.           *)
(***************************************************************************)
EXTENDS Naturals, Sequences

CONSTANTS Family, Blocks

VARIABLES
  reduced,   \* the blocks of each family, in the order they were reduced
  finished   \* the families that were finalized

Init == reduced = [f \in Family |-> <<>>] /\ finished = {}

(* The next blocks of family f, up to last. *)
Reduce(f, last) ==
  /\ f \notin finished /\ last > Len(reduced[f])
  /\ reduced' = [reduced EXCEPT ![f] = [b \in 1 .. last |-> b]]
  /\ UNCHANGED finished

Finalize(f) ==
  /\ f \notin finished /\ Len(reduced[f]) = Blocks[f]
  /\ finished' = finished \cup {f}
  /\ UNCHANGED reduced

Next == \E f \in Family : Finalize(f) \/ \E last \in 1 .. Blocks[f] : Reduce(f, last)

Spec == Init /\ [][Next]_<<reduced, finished>>

=============================================================================
