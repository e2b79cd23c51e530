\* Two threads; a stack is copied while up to three values are pushed and popped.
SPECIFICATION Spec
CONSTANTS
    Threads = {t1, t2}
    Null = Null
    MaxPushes = 3
INVARIANT EveryCopyIsASnapshot
CHECK_DEADLOCK FALSE
