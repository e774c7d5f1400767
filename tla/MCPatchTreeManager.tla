------------------------- MODULE MCPatchTreeManager -------------------------
EXTENDS PatchTreeManager, TLC

\* Threads do the same and are only compared with each other.
Interchangeable == Permutations(Threads)
=============================================================================
