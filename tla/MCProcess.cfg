CONSTANTS
    Flows = {f1, f2, f3}
    Operations = {o1, o2, o3}
    Recoveries = {r1, r2}
    Projects = {p1, p2}
    NoFlow = noflow
    NoProject = noproject
    MaxCount = 5
    MaxReservation = 4
    Threads = {t1, t2}
    Subsystems = {graph, misc}
    Sizes = {2, 3, 15}
    Budgets = {4, 5}
    Word = 16
    Callers = {c1, c2}
    Hosted = {q1, q2}
    Jobs = {job}
    NoOne = noone
    MaxCached = 1
    MaxCalls = 3
    MaxJobs = 1
SPECIFICATION ProcessSpec
SYMMETRY Symmetry
CHECK_DEADLOCK FALSE
INVARIANTS
    RecoveryIsExclusive
    UncertainIsResumable
    FaultOnlyAfterPanic
    NeverOvercommitted
    OneEngine
    UpdatesAreSerialized
