CONSTANTS
    r1 = r1
    r2 = r2
    w1 = w1
    w2 = w2
    d1 = d1
    d2 = d2
    m1 = m1
    m2 = m2
    Docs = {d1, d2}
    Models = {m1, m2}
    Readers = {r1, r2}
    Writers = {w1, w2}
    NoModel = NoModel
    NoRoute = NoRoute
    Unloaded = Unloaded
    Settings <- VectorSettings
    Files = {"a", "b"}
    Names = {"::f", "::g"}
    NoText <- Nothing
    Decls = {"f", "g1", "g2"}
    Hits = {"ka", "kb"}
    PathOf <- FileOf
    NameOf <- Called
    Mixes <- GraphMixes
    MaxRetired = 2
    MaxCrashes = 1
SPECIFICATION StoresSpec
CHECK_DEADLOCK FALSE
INVARIANTS
    RouteIsServed
    SpacesNeverMix
    ReadsKeepTable
    TablesAgree
    CallsBound
PROPERTY CompleteOnActivation
