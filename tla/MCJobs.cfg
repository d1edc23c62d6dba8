CONSTANTS
    j1 = j1
    j2 = j2
    Jobs = {j1, j2}
    MaxConcurrent = 1
    Settings <- Situations
SPECIFICATION FairSpec
INVARIANT RecordsAreTrue
PROPERTY JobsSettle
CHECK_DEADLOCK FALSE
