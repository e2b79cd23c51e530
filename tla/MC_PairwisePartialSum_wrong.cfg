\* Three elements: the third comes out short.
SPECIFICATION SpecSum
CONSTANTS
    Threads <- Threads3
    Input <- Input3
    Modulus = 4
    MaxWaits = 2
INVARIANTS
    ComputesPartialSums
CHECK_DEADLOCK FALSE
