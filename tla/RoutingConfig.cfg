CONSTANTS
    r1 = r1
    r2 = r2
    default = default
    n1 = n1
    n2 = n2
    Paths = {1, 2}
    Rules = {r1, r2, default}
    Defaults = {default}
    Names = {n1, n2}
    Requests <- Requested
    Absent = Absent
    MaxConfigs = 4
    MaxFaults = 1
    MaxEdits = 1
    MaxDrifts = 1
SPECIFICATION FairSpec
INVARIANTS
    TypeOK
    ServesWholeWishes
    AppliedIsServed
    NoConfigIsLost
PROPERTIES
    Converges
