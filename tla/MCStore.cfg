SPECIFICATION Spec
CONSTANTS
    Path = {1, 2}
    Data = {d1, d2}
    Key = {k1, k2}
    NoKey = NoKey
    Missing = Missing
    Unmanaged = Unmanaged
    PowerMayFail = FALSE
    ManifestSyncMayFail = TRUE
INVARIANTS ReportHonest NoSilentOrphans
PROPERTIES OnlyUpdatesOverwrite ImplementsLedger
SYMMETRY Symmetry
