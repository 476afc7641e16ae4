SPECIFICATION Spec
CONSTANTS
    Clients = {c1, c2}
    Keys = {k1, k2}
    None = None
    Files <- MCFiles
    PrefixLens = {1, 2}
    MaxSessions = 2
    MapSize = 2
    RingSize = 1
    ChannelSize = 1
    Capacity = 1
    MaxCalls = 3
    MaxAccesses = 2
    MaxPrograms = 3
    GuardRequests <- MCGuardRequests
    DenyPatterns <- MCDenyPatterns
    WatchRequests <- MCWatchRequests
INVARIANTS
    TypeOK
    ProgramNotOlder
    
    ReportsHonest
    StreamComplete
 
CHECK_DEADLOCK FALSE
