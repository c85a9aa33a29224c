CONSTANTS
    a = a
    b = b
    n1 = n1
    n2 = n2
    NumBlocks = 2
    Values = {a, b}
    EmptyValue = a
    Partial = Partial
    Names = {n1, n2}
    MaxServices = 3
    MaxVersions = 6
    Requests <- ForcedRequests
    Invalid <- InvalidConfigs
    Foreign <- ForeignConfigs
    MaxFaults = 1
    MaxEdits = 1
    MaxRescues = 1
    MaxForeign = 1
SPECIFICATION FairSpec
PROPERTIES
    Converges
    GoesLive
CHECK_DEADLOCK FALSE
