SPECIFICATION Spec
CONSTANTS
    Path = {1, 2}
    Data = {d1}
    Key = {k1, k2}
    NoKey = NoKey
    Missing = Missing
    Unmanaged = Unmanaged
    PowerMayFail = TRUE
    ManifestSyncMayFail = TRUE
INVARIANT ManifestForgetsFirst
