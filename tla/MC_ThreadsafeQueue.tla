------------------------ MODULE MC_ThreadsafeQueue ------------------------
\* Small instances of ThreadsafeQueue for TLC: all five classes.
EXTENDS ThreadsafeQueue

AllClasses == {Common, List4_1, List4_5, List6_2, List6_3}
=============================================================================
