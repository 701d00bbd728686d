SPECIFICATION Spec
CONSTANTS
    NServices = 3
    NResources = 1
    AdapterGets = {}
    MaxFaults = 0
INVARIANTS
    EveryConnectorCompletes
\* The connectors stop when every request is served.
CHECK_DEADLOCK FALSE
