--------------------------- MODULE MC_Algorithms ---------------------------
\* The parallel algorithms on small instances: the pairwise partial sum of list
\* 8.13 over its barrier, and the algorithms of ForkJoin.  One of the two runs.
EXTENDS PairwisePartialSum

CONSTANTS MaxLength, MaxBlocks, Chunk

VARIABLES part,     \* which of the two runs
          list, length, blocks, outcome, cell, promise, done, node, died

FJ == INSTANCE ForkJoin

forkVars == <<list, length, blocks, outcome, cell, promise, done, node, died>>
partVars == <<part, allVars, forkVars>>

Threads5 == 0 .. 4
Input5 == <<1, 2, 4, 8, 16>>

\* The component that does not run stays in one initial state.
InitParts ==
    /\ part \in {"pairwise", "fork"}
    /\ InitSum /\ FJ!Init
    /\ part = "pairwise" => list = FJ!List8_4 /\ length = 0

PairwiseStep(i) == part = "pairwise" /\ ThreadStep(i) /\ UNCHANGED <<part, forkVars>>
ForkStep        == part = "fork" /\ FJ!Next /\ UNCHANGED <<part, allVars>>

FairParts ==
    /\ InitParts
    /\ [][(\E i \in Indices : PairwiseStep(i)) \/ ForkStep]_partVars
    /\ \A i \in Indices : WF_partVars(PairwiseStep(i))
    /\ WF_partVars(ForkStep)

\* A call that returns has done what the sequential algorithm does (ForkJoin).
ReturnsTheSequentialResult == FJ!ReturnsTheSequentialResult

\* No thread outlives the call that started it (ForkJoin).
NoThreadOutlivesTheCall == FJ!NoThreadOutlivesTheCall

\* std::terminate is called for the documented reasons only (ForkJoin).
DiesOnlyUnguarded == FJ!DiesOnlyUnguarded

\* Every algorithm comes to its end: the five threads of the pairwise sum through
\* their barrier, and each call of the others.
AlgorithmsEnd == (part = "pairwise" => Terminates) /\ (part = "fork" => FJ!CallEnds)
=============================================================================
