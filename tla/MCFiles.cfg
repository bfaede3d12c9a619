SPECIFICATION MCSpec
CONSTANTS
    w1 = w1
    w2 = w2
    r1 = r1
    n1 = n1
    n2 = n2
    a = a
    b = b
    Writers <- MCWriters
    Readers <- MCReaders
    Names <- MCNames
    Repos <- MCRepos
    Raw <- MCRaw
    MaxSaves = 2
    Node = {d1, d2, d3}
    Root = Root
    Outside = Outside
    Absent = Absent
    Symlink = Symlink
    File = File
    Name <- MCName
    Sources <- MCSources
    MaxChanges = 1
SYMMETRY MCSymmetry
INVARIANTS TypesOK ReadsAreWhole SurvivesPowerLoss NoDanglingSource
PROPERTY StaysInside
