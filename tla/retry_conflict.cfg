SPECIFICATION Spec
CONSTANTS
    Mine = mine
    Others = {other}
    DefaultMaxRetries = 3
    Idle = Idle
    MaxWrites = 1
INVARIANT RetriesResolveConflicts
CHECK_DEADLOCK FALSE
