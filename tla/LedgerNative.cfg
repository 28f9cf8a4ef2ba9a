SPECIFICATION LedgerSpec
CONSTANTS
    h1 = h1
    h2 = h2
    p1 = p1
    p2 = p2
    Holders = {h1, h2}
    Pids = {p1, p2}
    Null = Null
    LanesOf <- NativeLanes
    Capacities = {1}
    GrantStates = {"acquiring"}
    LegacyHolders = {}
    StaleAfter = 1
    MaxTime = 2
    MaxGeneration = 1
    MaxToken = 2
SYMMETRY Symmetry
INVARIANTS
    TypeOK
    HeldIsCommitted
    ReconciledAccounts
    CleanupMarkersAreSpent
PROPERTIES
    AdmitsTheOldest
    EpochFencesWriters
    LiveNativeOwnerKeepsRow
    TicketsAreKept
    ImplementsPool
CHECK_DEADLOCK FALSE
