CONSTANTS
    Order <- MCOrder
    Versions <- MCVersions
    Meta <- MCMeta
    VolatileUids <- MCVolatile
    Important = "game"
    FollowsGame = {"mappings"}
    Fallback <- MCFallback
    Recommended <- MCRecommended
    FirstList <- MCFirstList
    MaxEdits = 3
SPECIFICATION FairSpec
INVARIANTS
    TypeOK
    SuccessMeansResolved
PROPERTIES
    UpdateEnds
CHECK_DEADLOCK FALSE
