\* One push and one wait_and_pop.
SPECIFICATION FairSpec
CONSTANTS
    Threads = {t1, t2}
    Nodes = {n1, n2, n3}
    Values = {v1}
    NoThread = NoThread
    null = null
    Nothing = Nothing
    Ops = {"push", "wait_and_pop"}
    MaxCalls = 2
    MaxSpurious = 0
PROPERTIES
    WaitersAreServed
CHECK_DEADLOCK FALSE
