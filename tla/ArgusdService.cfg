SPECIFICATION Spec
CONSTANTS
    pod1 = pod1
    pod2 = pod2
    c1 = c1
    c2 = c2
    Keys = {pod1, pod2}
    Clients = {c1, c2}
    Cancellable = {c1, c2}
    MaxContainers = 0
    MaxSessions = 1
    LoopErrors = FALSE
    ChannelSize = 1
    MaxIncarnations = 2
    MaxCollectors = 3
 
PROPERTY ImplementsRegistry
SYMMETRY ClientSymmetry
CHECK_DEADLOCK FALSE
