CONSTANTS
    a = a
    b = b
    n1 = n1
    n2 = n2
    NumBlocks = 2
    Values = {a, b}
    EmptyValue = a
    Partial = Partial
    Names = {n1, n2}
    MaxServices = 2
    MaxVersions = 4
    Requests <- PlainRequests
    Invalid <- InvalidConfigs
    Foreign <- ForeignConfigs
    MaxFaults = 2
    MaxEdits = 1
    MaxRescues = 1
    MaxForeign = 1
SPECIFICATION Spec
INVARIANTS
    TypeOK
    NothingTornGoesLive
    WorksOnItsOwnDraft
    StateDescribesActiveVersion
    NoServiceIsLost
PROPERTIES
    DestroyHonoursPolicy
    AbstractSpec
CHECK_DEADLOCK FALSE
