SPECIFICATION MCSpec
CONSTANTS
    None = None
    Paths <- MCPaths
    Texts <- MCTexts
    Passwords <- MCPasswords
    Params <- MCParams
    MaxKeys = 2
    MaxSeals = 2
    Files <- MCFiles
    Sealed <- MCSealed
    MaxManaged = 2
    MaxStored = 4
    MaxTogether = 4
    MaxManifest = 2
    EntrySize = 1
    MaxSize = 4
INVARIANTS
    TypesOK
    OutputIsAuthentic
    MetadataIsHarmless
    NothingStays
    StoredIsUsable
    HeldIsBounded
