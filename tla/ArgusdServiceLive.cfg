SPECIFICATION FairSpec
CONSTANTS
    pod1 = pod1
    c1 = c1
    c2 = c2
    Keys = {pod1}
    Clients = {c1, c2}
    Cancellable = {c1}
    MaxContainers = 1
    MaxSessions = 1
    LoopErrors = TRUE
    ChannelSize = 1
    MaxIncarnations = 1
    MaxCollectors = 2
PROPERTY OnlyLoopsBlock
CHECK_DEADLOCK FALSE
