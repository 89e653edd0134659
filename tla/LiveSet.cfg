SPECIFICATION FairSpec
CONSTANTS
    MaxVersion = 2
    MaxFailures = 1
INVARIANTS
    NoSendAfterClose
    QuietMeansCurrent
PROPERTIES
    ChangeIsShown
    StopReleases
CHECK_DEADLOCK FALSE
