SPECIFICATION FairSpec
CONSTANTS
    x1 = x1
    x2 = x2
    c1 = c1
    c2 = c2
    Connectors <- TwoConnectors
    Site <- OppositeRoles
    Exchanges <- OneExchange
    NResources = 2
    NPurposes = 1
    Formats = {"json", "binary"}
    MaxFaults = 2
INVARIANTS
    TypeOK
    PeerToldFirst
    HandlersFindTheirRecord
    PolicyGate
    SuccessAnswerIsGrounded
    UsageNotOvercounted
    FaultFreeAgreement
PROPERTIES
    EveryTriggerEnds
    ExportDecides
    DecidedStays
    ImplementsOutcome
\* The connectors stop when every request is served.
CHECK_DEADLOCK FALSE
