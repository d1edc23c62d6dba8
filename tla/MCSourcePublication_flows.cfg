CONSTANTS
    Paths = {a}
    Workers = {w1, w2}
    Readers = {r1}
    NoWorker = noworker
    MaxGeneration = 3
    MaxDepth = 2
    CacheEntries = 1
    ReadThrough = 2
SPECIFICATION FlowsSpec
SYMMETRY Symmetry
INVARIANTS
    SourceIsReadable
    WritersAreSerialized
PROPERTY PublishedNeverRestaged
