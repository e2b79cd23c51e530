\* Two threads pop an empty stack together.
SPECIFICATION Spec
CONSTANTS
    Threads = {t1, t2, t3}
    Nodes = {n1, n2, n3}
    Values = {v1}
    null = null
    Nothing = Nothing
    MaxCalls = 4
    MaxSpurious = 1
SYMMETRY Symmetry
INVARIANTS EmptyPopReturns
CHECK_DEADLOCK FALSE
