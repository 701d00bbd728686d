SPECIFICATION Spec
CONSTANTS
    Requests = {q1, q2, q3}
    Contracts = {c1}
    NResources = 1
    Limit = 1
    None = None
    MaxLosses = 0
SYMMETRY UsageSymmetry
INVARIANT
    UsageWithinLimit
\* The connector stops when every request is served.
CHECK_DEADLOCK FALSE
