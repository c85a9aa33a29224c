CONSTANTS
    s1 = s1
    s2 = s2
    Descriptions = {Null, "text"}
    Services = {s1, s2}
    Routings = {rc}
    Null = Null
    MaxFaults = 1
    MaxEdits = 1
SPECIFICATION FairSpec
INVARIANTS
    TypeOK
    AppliedIsLinked
PROPERTIES
    DomainKeepsLink
    Converges
