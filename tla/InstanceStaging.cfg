SPECIFICATION FairSpec
CONSTANTS
    MinBackoff = 1
    MaxBackoff = 16
    MaxAttempts = 7
INVARIANTS
    BackoffOK
PROPERTIES
    SuccessCommits
    Ends
CHECK_DEADLOCK FALSE
