SPECIFICATION FairClaimSpec
CONSTANTS
    Claimants = {c1, c2, c3}
    Sweepers = {s1}
    Jobs = {j1}
    Inodes = {i1, i2, i3}
    NoInode = NoInode
    NoOwner = NoOwner
    NoJob = NoJob
    MaxDeliveries = 4
    MaxSweeps = 1
    MaxFaults = 1
INVARIANTS OneOwner OwnerKeepsItsFile HeldIsReported
PROPERTIES RefusedByClaimant UnservedIsServed CallsEnd
CHECK_DEADLOCK FALSE
