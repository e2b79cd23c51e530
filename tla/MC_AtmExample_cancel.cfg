\* A withdrawal is cancelled while the bank is answering it.
SPECIFICATION Spec
CONSTANTS
    Keys <- MCKeys
    PinLen = 1
    InitialBalance = 60
    Amount = 50
    MaxKeys = 5
    MaxBacklog = 1
INVARIANTS
    CancelledIsNotCharged
CHECK_DEADLOCK FALSE
