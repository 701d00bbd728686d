SPECIFICATION Spec
CONSTANTS
    Requests = {q1, q2, q3}
    Contracts = {c1, c2}
    NResources = 2
    Limit = 2
    None = None
    MaxLosses = 1
SYMMETRY UsageSymmetry
INVARIANTS
    TypeOK
    NeverOvercounted
    SoloCountsAll
    SoloWithinLimit
\* The connector stops when every request is served.
CHECK_DEADLOCK FALSE
