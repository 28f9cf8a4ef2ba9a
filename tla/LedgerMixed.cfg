SPECIFICATION LedgerSpec
CONSTANTS
    h1 = h1
    h2 = h2
    p1 = p1
    p2 = p2
    Holders = {h1, h2}
    Pids = {p1}
    Null = Null
    LanesOf <- OneOfEach
    Capacities = {2}
    GrantStates = {"acquiring"}
    LegacyHolders = {h2}
    StaleAfter = 1
    MaxTime = 1
    MaxGeneration = 1
    MaxToken = 3
PROPERTIES
    HandoverIsRecorded
    AdmitsTheOldest
CHECK_DEADLOCK FALSE
