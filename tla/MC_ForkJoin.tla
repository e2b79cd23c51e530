---------------------------- MODULE MC_ForkJoin ----------------------------
\* A small instance of ForkJoin for TLC.
EXTENDS ForkJoin
=============================================================================
