\* Five threads at the barrier; ranges of up to three elements in up to three blocks.
SPECIFICATION FairParts
CONSTANTS
    Threads <- Threads5
    Input <- Input5
    Modulus = 2
    MaxWaits = 3
    MaxLength = 3
    MaxBlocks = 3
    Chunk = 1
INVARIANTS
    NoDataRace
    SameInEverySchedule
    ReturnsTheSequentialResult
    NoThreadOutlivesTheCall
    DiesOnlyUnguarded
PROPERTIES
    ImplementsBarrier
    AlgorithmsEnd
CHECK_DEADLOCK FALSE
