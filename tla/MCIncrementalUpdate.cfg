SPECIFICATION UpdateFairSpec
CONSTANTS
    f1 = f1
    f2 = f2
    Files = {f1, f2}
    Texts = {t1, t2}
    Absent = Absent
    NoNode = NoNode
    Scenarios <- Situations
INVARIANT GraphIsEvidence
PROPERTY Converges
CHECK_DEADLOCK FALSE
