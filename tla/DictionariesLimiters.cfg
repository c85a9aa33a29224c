CONSTANTS
    Parents = {p1, p2}
    Dependents = {d1, d2}
    Values = {v1, v2}
    Absent = Absent
    ParentsRecreated = TRUE
    RefsAreAssociations = FALSE
    APIRefuses = FALSE
    MaxFaults = 1
SPECIFICATION Spec
INVARIANTS
    EndsAsWanted
    UntouchedStay
SYMMETRY Symmetry
CHECK_DEADLOCK FALSE
