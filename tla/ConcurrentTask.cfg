CONSTANTS
    Tasks = {t1, t2, t3, t4}
    Job = job
    Abortable = {t1, t2}
    MaxConcurrent = 2
    Kinds = {"ConcurrentTask", "SequentialTask", "MultipleOptionsTask"}
    MaxRuns = 2
    ReuseAborted = FALSE
SPECIFICATION FairSpec
INVARIANTS
    TypeOK
    NoLostWakeup
    HonestSuccess
    TriedInOrder
    SingleOutcome
    NoOrphans
PROPERTIES
    Terminates
    ImplementsPool
CHECK_DEADLOCK FALSE
