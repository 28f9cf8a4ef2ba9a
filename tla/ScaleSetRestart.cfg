CONSTANTS
    Holders = {h1}
    Pids = {p1, p2}
    Null = Null
    LanesOf <- MCLanesOf
    Capacities = {1}
    GrantStates = {"reserved", "acquiring"}
    LegacyHolders = {}
    StaleAfter = 1
    MaxTime = 1
    MaxGeneration = 2
    MaxToken = 4

SPECIFICATION ScaleSetSpec

INVARIANT
    RestartAttests

CHECK_DEADLOCK FALSE
