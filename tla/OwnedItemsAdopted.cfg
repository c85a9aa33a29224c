CONSTANTS
    Kinds <- SetBlocks
    Keys = {1, 2}
    Values = {"a"}
    None = None
    Null = Null
    ChunkSize = 1
    MaxFaults = 1
    MaxEdits = 1
    MaxWrites = 1
SPECIFICATION Spec
PROPERTIES
    KeepsTheirs
