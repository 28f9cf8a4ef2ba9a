SPECIFICATION FleetSpec
CONSTANTS
    Slots = {s1}
    JobIds = {j1, j2}
    Conclusions = {success, failure}
    Payloads = {p1, p2}
    Nothing = Nothing
    Terminal = Terminal
    MaxGeneration = 3
    MaxAttempts = 2
    MaxProbes = 1
SYMMETRY FleetSymmetry
CHECK_DEADLOCK FALSE
INVARIANTS
    SlotsMatchJobs
    OwnersStayProven
    ReadyIsProvenNow
    ReplayMatchesTables
PROPERTIES
    SendClaimSticks
    FencedForGood
    PressureAdmitsNothing
