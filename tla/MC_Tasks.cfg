\* Two workers and four elements; three tasks on each of the four pools; two rounds of
\* coroutines; three threads on a list of three nodes; two interrupters.
SPECIFICATION FairParts
CONSTANTS
    Workers = {2, 3}
    main = 1
    NotReady = NotReady
    Elements = {1, 2, 3, 4}
    Key <- Key4
    MaxTasks = 3
    MaxRounds = 2
    MaxN = 3
    MaxLoops = 9
    Walkers = {1, 2, 3}
    Nodes = {n1, n2, n3}
    Null = Null
    ListValues = {1, 2, 3}
    Doomed = {2}
    Interrupters = {2, 3}
    waiter = 1
    notifier = 4
    MaxWaits = 2
    MaxThreads = 5
INVARIANTS
    ReturnsSorted
    RunsOnce
    NothingUsedAfterItsEnd
    WaitTellsTheOutcome
    DeliversInOrder
    WalksAreComplete
    ReturnsForAReason
    AssertionsHold
    NoDataRace
PROPERTIES
    TasksEnd
    FuturesAreGot
CHECK_DEADLOCK FALSE
