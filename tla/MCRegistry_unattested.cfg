CONSTANTS
    Projects = {p1}
    Identities = {d1, d2}
    NoProject = none
    Workers = {w1}
    Reasons = {unknown}
    Unknown = unknown
    MaxRevision = 6
    MaxGeneration = 1
    Faults = {"head", "managed"}
    Horizon <- Horizons
SPECIFICATION RegistrySpec
SYMMETRY Symmetry
CHECK_DEADLOCK FALSE
INVARIANT UnattestedAbsenceIsOrdinary
