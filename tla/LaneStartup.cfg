SPECIFICATION NativeSpec
CONSTANTS
    h1 = h1
    h2 = h2
    p1 = p1
    p2 = p2
    p3 = p3
    s1 = s1
    s2 = s2
    Holders = {h1}
    Slots = {s1, s2}
    Pids = {p1, p2, p3}
    Null = Null
    LanesOf <- NativeLanes
    Capacities = {1}
    GrantStates = {"acquiring", "running"}
    LegacyHolders = {}
    StaleAfter = 1
    MaxTime = 1
    MaxGeneration = 2
    MaxToken = 2
SYMMETRY Symmetry
INVARIANTS
    StartupSurvivesCrashGap
CHECK_DEADLOCK FALSE
