CONSTANTS
    Clients = {c1, c2}
    Hosts = {h1, h2}
    None = None
    MaxSessions = 2
    MaxTries = 2
    IdleTimeout = 2
SPECIFICATION FairSpec
INVARIANTS
    ClosedMeansIdle
    HandoverIsClean
PROPERTIES
    IdleHostLeaves
    ClientsSettle
