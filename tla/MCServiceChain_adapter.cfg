SPECIFICATION Spec
CONSTANTS
    NServices = 3
    NResources = 1
    AdapterGets = {2}
    MaxFaults = 0
INVARIANTS
    ResumedWithData
\* The connectors stop when every request is served.
CHECK_DEADLOCK FALSE
