CONSTANTS
    r1 = r1
    N = 8
    Parents <- TwoBranches
    Runs = {r1}
    FlushEvery = 2
    CommitEvery = 2
    Slots = 1
    Situations <- Walks
    NumOids = 5
    Limits = {1, 3, 5}
    FlushAt = 2
    ChunkOf = 1
SPECIFICATION HistorySpec
INVARIANT HistoryIsSound
PROPERTY RefreshIsSafe
CHECK_DEADLOCK FALSE
