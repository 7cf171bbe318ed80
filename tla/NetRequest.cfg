CONSTANTS
    MaxStarts = 2
    MaxRedirects = 1
    MaxRequests = 2
    MaxChanges = 3
SPECIFICATION FairSpec
INVARIANTS
    ReportsOK
    SuccessMeansFile
    FreshEntryMatchesFile
    EvictionHolds
PROPERTIES
    EveryStartReports
CHECK_DEADLOCK FALSE
