CONSTANTS
    s1 = s1
    s2 = s2
    Descriptions = {Null, "text"}
    Services = {s1, s2}
    Routings = {rc}
    Null = Null
    MaxFaults = 0
    MaxEdits = 0
SPECIFICATION Spec
INVARIANTS
    ServiceLinkSurvives
