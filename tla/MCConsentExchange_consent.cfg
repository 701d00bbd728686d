SPECIFICATION FairSpec
CONSTANTS
    Exchanges = {x1, x2}
    Settings <- MCSettings
    MaxFaults = 1
    MaxKeys = 1
INVARIANTS
    TypeOK
    ConsentedDelivery
    SuccessMeansDelivered
PROPERTIES
    EveryTriggerIsDecided
    ImplementsOutcome
\* The connectors rest when every request is served.
CHECK_DEADLOCK FALSE
