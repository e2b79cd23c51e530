\* All five queues; three threads, four calls between them, one spurious wake-up.
SPECIFICATION FairSpec
CONSTANTS
    Threads = {t1, t2, t3}
    Values = {v1, v2}
    NoThread = NoThread
    Classes <- AllClasses
    MaxCalls = 4
    MaxSpurious = 1
INVARIANTS
    ExactlyOnceInOrder
    NoStrandedWaiter
    WakeUpPerValue
PROPERTIES
    ImplementsFifo
    BlockedPopsAreServed
CHECK_DEADLOCK FALSE
