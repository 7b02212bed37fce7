------------------------- MODULE MCStorageExecutor -------------------------
EXTENDS StorageExecutor, TLC

Symmetry == Permutations(Process) \cup Permutations(Target)

=============================================================================
