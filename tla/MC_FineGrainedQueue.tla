------------------------ MODULE MC_FineGrainedQueue ------------------------
\* Small instances of FineGrainedQueue for TLC.
EXTENDS FineGrainedQueue, TLC

Symmetry == Permutations(Threads) \cup Permutations(Nodes)
=============================================================================
