CONSTANTS
    Holders = {h1, h2}
    Pids = {p1, p2, p3}
    Null = Null
    LanesOf <- MCLanesOf
    Capacities = {1, 2}
    GrantStates = {"reserved", "acquiring"}
    LegacyHolders = {}
    StaleAfter = 1
    MaxTime = 1
    MaxGeneration = 3
    MaxToken = 6

SPECIFICATION ScaleSetSpec

SYMMETRY PidSymmetry

INVARIANTS
    ScaleSetTypeOK
    AssignedKeepsPermit
    PermitIsNamed

PROPERTY
    AssignedCallIsKept

CHECK_DEADLOCK FALSE
