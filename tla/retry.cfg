SPECIFICATION FairSpec
CONSTANTS
    Mine = mine
    Others = {other}
    DefaultMaxRetries = 3
    Idle = Idle
    MaxWrites = 3
INVARIANT TypeOK
PROPERTIES OtherFieldsSurvive LockedListSurvives EntryGetsIn
CHECK_DEADLOCK FALSE
