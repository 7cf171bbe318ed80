CONSTANTS
    Names = {p, q}
    Initial = {p}
    Packs = {p}
    Slots = 1
    MaxDuplicates = 2
    MaxChanges = 2
    MaxVisits = 1
SPECIFICATION FolderSpec
INVARIANTS
    RemovalsInRange
CHECK_DEADLOCK FALSE
