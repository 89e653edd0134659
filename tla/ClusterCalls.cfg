SPECIFICATION FairCallsSpec
CONSTANTS
    Calls <- EveryCall
    Selections <- SomeSelections
    Limit = 2
    LastConnection = 2
    MaxAttempts = 3
    MaxWrites = 3
    MaxChanges = 2
    MaxRecords = 3
    MaxRevision = 2
    MaxItems = 2
INVARIANTS
    OutcomeIsTrue
    NoMatchIsFresh
    ReadsAreHonest
PROPERTIES
    CallsReturn
CHECK_DEADLOCK FALSE
