SPECIFICATION MCSpec
CONSTANTS
    Path = {p, q}
    Inode = {i, j, s}
    StateFile = {s}
    NoFile = NoFile
    MaxChanges = 2
    Top = "top"
    Kind <- MCKind
    Layout <- MCLayout
    Spelling <- MCSpelling
    Fold <- MCFold
    Targets <- MCTargets
    Protected <- MCProtected
    RootPaths <- MCRootPaths
    CachePath <- MCCachePath
    Paths <- MCPaths
    Words <- MCWords
    Files <- MCFiles
    StateDir = "state"
    MaxMoves = 1
    MaxArgs = 4
    MaxDone = 2
SYMMETRY Symmetry
INVARIANTS TypesOK OneSnapshotEach BoundaryIsExact WalkIsExact SensitiveIsNeverPublic StatusTellsAll
PROPERTY ReadsAreCurrent
CHECK_DEADLOCK FALSE
