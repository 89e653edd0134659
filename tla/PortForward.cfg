SPECIFICATION FairSpec
CONSTANTS
    f1 = f1
    s1 = s1
    a1 = a1
    Forwards <- OneForward
    Stoppers <- OneStopper
    Shutdowns <- OneShutdown
    MaxGeneration = 2
INVARIANTS
    StoppedMeansReleased
PROPERTIES
    StopReportsExit
    KeepsContract
    RequestedStopIsClean
    StartReturns
    RequestedStopEnds
    ReplacedConnectionEnds
CHECK_DEADLOCK FALSE
