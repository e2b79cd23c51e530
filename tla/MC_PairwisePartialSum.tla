----------------------- MODULE MC_PairwisePartialSum -----------------------
\* A small instance of PairwisePartialSum for TLC; the values of the input are
\* powers of two, so that a sum tells which elements are in it.
EXTENDS PairwisePartialSum

Threads3 == 0 .. 2
Input3 == <<1, 2, 4>>
=============================================================================
