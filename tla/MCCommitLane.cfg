CONSTANTS
    t1 = t1
    t2 = t2
    t3 = t3
    Tasks <- AllTasks
    NoTask = NoTask
    Settings <- Mixes
SPECIFICATION FairSpec
INVARIANT PayloadUnderLane
PROPERTY EveryFlowEnds
