CONSTANTS
    Requests = {r1, r2, r3}
    Job = job
    MaxConcurrent = 2
    AskRetry = TRUE
    ManualRetries = 2
SPECIFICATION FairSpec
INVARIANTS
    RetriesOK
    HonestSuccess
PROPERTIES
    Terminates
CHECK_DEADLOCK FALSE
