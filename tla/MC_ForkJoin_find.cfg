\* Two blocks: the caller looks for nothing longer before the other thread has found it.
SPECIFICATION Spec
CONSTANTS
    MaxLength = 2
    MaxBlocks = 2
    Chunk = 1
INVARIANTS
    FindsWhatIsThere
CHECK_DEADLOCK FALSE
