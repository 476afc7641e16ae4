SPECIFICATION Spec
CONSTANTS
    pod1 = pod1
    c1 = c1
    c2 = c2
    p1 = p1
    p2 = p2
    guardA = guardA
    Keys = {pod1}
    Names = {guardA}
    NameOf <- MCNameOf
    Clients = {c1, c2}
    Cancellable = {c1, c2}
    Policies = {p1, p2}
    MaxPids = 1
    MaxGuards = 1
    StateClient = TRUE
    StreamCapacity = 1
    MaxIncarnations = 2
CONSTRAINT StreamsApart
INVARIANT ReadyMeansMarked
 
SYMMETRY ClientSymmetry
CHECK_DEADLOCK FALSE
