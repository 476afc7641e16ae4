SPECIFICATION FairSpec
CONSTANTS
    pod1 = pod1
    c1 = c1
    p1 = p1
    guardA = guardA
    Keys = {pod1}
    Names = {guardA}
    NameOf <- MCNameOf
    Clients = {c1}
    Cancellable = {}
    Policies = {p1}
    MaxPids = 1
    MaxGuards = 1
    StateClient = FALSE
    StreamCapacity = 1
    MaxIncarnations = 2
PROPERTIES
    DestroyStopsGuard
CHECK_DEADLOCK FALSE
