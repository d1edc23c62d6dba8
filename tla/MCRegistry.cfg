CONSTANTS
    Projects = {p1}
    Identities = {d1, d2}
    NoProject = none
    Workers = {w1, w2}
    Reasons = {unknown, vector}
    Unknown = unknown
    MaxRevision = 7
    Horizon <- Horizons
    MaxGeneration = 1
    Faults = {"head", "managed"}
SPECIFICATION RegistrySpec
SYMMETRY Symmetry
CHECK_DEADLOCK FALSE
INVARIANTS
    SettlementNamesFailure
    TokenFencesChanges
    EpochNamesLifetime
    NeverStranded
    PublishedNeverLegacy
    ReservationsDistinct
PROPERTIES
    ImplementsVersionedHead
