SPECIFICATION Spec
CONSTANTS
    p1 = p1
    p2 = p2
    p3 = p3
    homeA = homeA
    homeB = homeB
    main = main
    linked = linked
    other = other
    gitX = gitX
    gitY = gitY
    Process = {p1, p2, p3}
    StateHome = {homeA, homeB}
    Root = {main, linked}
    GitDir = {gitX}
    Home <- MCHome
    Common <- MCCommon
    Outside <- MCOutside
    Absent = Absent
    Unbound = Unbound
    Nobody = Nobody
INVARIANT RepositoryExclusion
PROPERTY SerialCommands
