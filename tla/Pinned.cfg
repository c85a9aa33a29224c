CONSTANTS
    Blocks = {l1, d1}
    Followed = {d1}
    Replaced = {}
    Loggers = {l1}
    Values = {v1, v2}
    Absent = Absent
    Careful = TRUE
    MaxVersions = 2
    MaxCommits = 1
    MaxFaults = 1
SPECIFICATION FairSpec
INVARIANTS
    TypeOK
    AppliedInPin
    RefusedOnlyForPin
PROPERTIES
    ForgottenIsGone
    Settles
