CONSTANTS
    Units <- MCUnits
    Lossy <- MCLossy
    None = None
    MaxFaults = 1
    MaxEdits = 2
    MaxDrifts = 1
SPECIFICATION FairSpec
INVARIANTS
    TypeOK
    Consistent
    AppliedIsRemote
    Settles
    NothingIsOrphaned
PROPERTIES
    Converges
CHECK_DEADLOCK FALSE
