SPECIFICATION Spec
CONSTANTS
    NServices = 3
    NResources = 2
    AdapterGets = {2}
    MaxFaults = 1
INVARIANTS
    TypeOK
    NodesFindTheirRecord
    SuccessWasPermitted
    CompletedWerePermitted
    OthersToldFirst
    ProviderSuccessIsComplete
    SmoothAgreement
PROPERTIES
    ImplementsOutcome
\* The connectors stop when every request is served.
CHECK_DEADLOCK FALSE
