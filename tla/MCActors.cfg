CONSTANTS
    Projects = {p1, p2}
    Requests = {r1}
    Tasks = {t1, t2}
    NoTask = NoTask
    NoProject = NoProject
    ChannelCap = 1
    EventCap = 2
    MaxChanges = 2
    MaxRequests = 2
    p1 = p1
    p2 = p2
    c1 = c1
    c2 = c2
    c3 = c3
    Dreamt = {p1, p2}
    Clusters = {c1, c2, c3}
    ProjectOf <- TwoAndOne
    Settings <- Dreams
    Capacity = 2
    MaxClusters = 1
    MaxFaults = 1
SPECIFICATION ActorsSpec
CHECK_DEADLOCK FALSE
INVARIANTS
    UpdatesAreOwned
    InsightsAreSound
PROPERTIES
    ChangesAreUpdated
    LearnedIsDreamt
