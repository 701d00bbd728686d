SPECIFICATION Spec
CONSTANTS
    Requests = {q1, q2}
    Contracts = {c1, c2}
    NResources = 1
    Limit = 2
    None = None
    MaxLosses = 0
PROPERTY
    DeliveryIsCounted
\* The connector stops when every request is served.
CHECK_DEADLOCK FALSE
