SPECIFICATION MCSpec
CONSTANTS
    pod1 = pod1
    pod2 = pod2
    pod3 = pod3
    c1 = c1
    c2 = c2
    p1 = p1
    guardA = guardA
    Keys = {pod1, pod2, pod3}
    Names = {guardA}
    NameOf <- MCNameOf
    Clients = {c1, c2}
    Cancellable = {}
    Policies = {p1}
    MaxPids = 0
    MaxGuards = 1
    StateClient = TRUE
    StreamCapacity = 1
    MaxIncarnations = 3
INVARIANTS
    BoundedOvershoot
    MetricsCoverSessions

    
    
CHECK_DEADLOCK FALSE
