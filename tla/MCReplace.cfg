SPECIFICATION Spec
CONSTANTS
    Writer = {w1, w2}
    Leaf = leaf
    TempName = {t1, t2}
    Old = Old
    Foreign = Foreign
    None = None
INVARIANTS DestinationIsWhole ResultsHonest NoSilentResidue
PROPERTY OnlyOwnStagingRemoved
SYMMETRY Symmetry
