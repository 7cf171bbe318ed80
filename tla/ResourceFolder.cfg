CONSTANTS
    Names = {p, q}
    Initial = {p}
    Packs = {p}
    Slots = 1
    MaxDuplicates = 2
    MaxChanges = 2
    MaxVisits = 1
SPECIFICATION FairFolderSpec
INVARIANTS
    FolderTypeOK
    IndexMatches
PROPERTIES
    ListAgrees
CHECK_DEADLOCK FALSE
