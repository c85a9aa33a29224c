CONSTANTS
    Kinds <- AllKinds
    Keys = {1, 2}
    Values = {"a", "b"}
    None = None
    Null = Null
    ChunkSize = 1
    MaxFaults = 1
    MaxEdits = 1
    MaxWrites = 1
SPECIFICATION FairSpec
INVARIANTS
    TypeOK
    AppliedIsThere
PROPERTIES
    LeavesOthersItems
    DestroyedEmptyOrForced
    Converges
