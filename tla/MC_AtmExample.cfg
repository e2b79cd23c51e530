\* Two sessions, or one with two withdrawals of which the account covers one;
\* either can be cancelled, and the user may quit at any moment.
SPECIFICATION FairSpec
CONSTANTS
    Keys <- MCKeysClear
    PinLen = 1
    InitialBalance = 60
    Amount = 50
    MaxKeys = 6
    MaxBacklog = 1
INVARIANTS
    MenuNeedsRightPin
    ScreenFitsState
    NoMoneyCreated
    NoMoneyLost
    NoOrphanWait
PROPERTIES
    QuitEndsProgram
CHECK_DEADLOCK FALSE
