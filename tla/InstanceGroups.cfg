SPECIFICATION Spec
CONSTANTS
    Ids = {a, b}
    Groups = {g1, g2}
    Ungrouped = none
    Elsewhere <- OtherFolders
    MaxTrash = 1
    MaxRefs = 2
INVARIANT TypeOK
PROPERTIES
    RestartKeeps
    GroupSticks
    CountsKept
SYMMETRY Alike
CHECK_DEADLOCK FALSE
