\* Three threads everywhere; three mutexes, two of one level; the addresses of
\* three nodes are used again; three objects own threads; three values pushed.
SPECIFICATION SpecParts
CONSTANTS
    Threads = {t1, t2, t3}
    high_level_mutex = high_level_mutex
    low_level_mutex = low_level_mutex
    twin_mutex = twin_mutex
    Mutexes = {high_level_mutex, low_level_mutex, twin_mutex}
    NoThread = NoThread
    Level <- Levels
    Top = 20000
    Nodes = {n1, n2, n3}
    Values = {v1, v2}
    Objects = {o1, o2, o3}
    null = null
    Nothing = Nothing
    MaxStackCalls = 6
    MaxCalls = 5
    MaxSpurious = 1
    MaxPushes = 3
SYMMETRY Symmetry
INVARIANTS
    NoWaitCycle
    ValueIsLowestHeld
    NoUseAfterFree
    NoLeak
    NodesAreSeparate
    NoDeadlock
    ThreadsAreOwned
    EachValueOnce
    CopyIsASnapshot
PROPERTIES
    ImplementsStack
    ImplementsFifo
CHECK_DEADLOCK FALSE
