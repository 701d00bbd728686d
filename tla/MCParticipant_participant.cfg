SPECIFICATION MCSpec
CONSTANTS
    Slots = {h1, h2}
    Boot = boot
    Keys = {k1, k2}
    NoKeys = none
    FileKeys = k1
    KnownKeys = {k1}
    Origins = {o1, o2}
    Users = {u1, u2}
    MaxRequests = 3
    MaxFaults = 1
SYMMETRY Interchangeable
INVARIANTS
    TypeOK
    OneConfiguration
    RegisteredWithAppKey
    RegisteredIsListed
    IdentifierIsOwn
    NoDeadIdentifier
    StoresAgree
PROPERTY
    RemovalTakesTheNamed
\* The connector rests when every request is served.
CHECK_DEADLOCK FALSE
