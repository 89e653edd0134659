SPECIFICATION FairShellSpec
CONSTANTS
    MaxLines = 2
    MaxSends = 2
    InputRoom = 1
    OutputRoom = 1
INVARIANTS
    CleanExitLosesNothing
    OnlyRealFailures
PROPERTIES
    SessionEnds
CHECK_DEADLOCK FALSE
