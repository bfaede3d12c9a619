SPECIFICATION Spec
CONSTANTS
    Files <- MCFiles
    Sealed <- MCSealed
    MaxManaged = 2
    MaxStored = 4
    MaxTogether = 4
    MaxManifest = 1
    EntrySize = 1
    MaxSize = 4
INVARIANT
    ManifestStaysLoadable
