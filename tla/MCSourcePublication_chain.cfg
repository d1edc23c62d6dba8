CONSTANTS
    Paths = {a, b}
    Workers = {w1}
    Readers = {r1}
    NoWorker = noworker
    MaxGeneration = 3
    MaxDepth = 2
    CacheEntries = 1
    ReadThrough = 3
SPECIFICATION UpdateSpec
SYMMETRY Symmetry
INVARIANTS
    SourceIsReadable
    StagedCanBeSealed
