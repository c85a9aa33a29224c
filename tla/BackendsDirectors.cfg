CONSTANTS
    Parents = {p1, p2}
    Dependents = {d1}
    Values = {v1, v2}
    Absent = Absent
    ParentsRecreated = FALSE
    RefsAreAssociations = TRUE
    APIRefuses = TRUE
    MaxFaults = 1
SPECIFICATION FairSpec
INVARIANTS
    TypeOK
    RefusedOnlyWhenStale
    NoExcess
PROPERTIES
    Completes
CHECK_DEADLOCK FALSE
