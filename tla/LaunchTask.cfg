SPECIFICATION Spec
CONSTANT Launches <- MCLaunches
INVARIANTS TypeOK CleanedUp
PROPERTIES
    NothingStartsAfterAbort
    Ends
CHECK_DEADLOCK FALSE
