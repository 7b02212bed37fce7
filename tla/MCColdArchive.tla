--------------------------- MODULE MCColdArchive ---------------------------
EXTENDS ColdArchive, TLC

Symmetry == Permutations(Member) \cup Permutations(Process)
            \cup Permutations(Content) \cup Permutations(Stamp)

(* Without power losses nothing reads kept again. *)
Live == <<cache, truth, lease, pc, plan, todo, moved>>

=============================================================================
