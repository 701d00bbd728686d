SPECIFICATION Spec
CONSTANTS
    x1 = x1
    x2 = x2
    c1 = c1
    c2 = c2
    Connectors <- TwoConnectors
    Site <- OppositeRoles
    Exchanges <- OneExchange
    NResources = 2
    NPurposes = 1
    Formats = {"binary"}
    MaxFaults = 0
INVARIANT
    MisalignedStopsExchange
\* The connectors stop when every request is served.
CHECK_DEADLOCK FALSE
