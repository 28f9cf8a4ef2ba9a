SPECIFICATION FairCompletionSpec
CONSTANTS
    Slot = s1
    Job = j1
    Slots = {s1}
    JobIds = {j1}
    Failure = red
    Conclusions = {green, red}
    Versions = {1, 2}
    Payloads <- MCPayloads
    Nothing = Nothing
    Terminal = Terminal
    MaxGeneration = 1
    MaxAttempts = 2
    MaxProbes = 0
    MaxFaults = 0
PROPERTY
    CyclesFinish
CHECK_DEADLOCK FALSE
