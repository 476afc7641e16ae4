SPECIFICATION MCSpec
CONSTANTS
    secret = secret
    other = other
    Keys <- MCKeys
    Deny <- MCDeny
    Matched <- MCDeny
    Enforce = TRUE
    MaxEvents = 3
    QueueSize = 1
    ChannelSize = 1
    CacheSize = 1
    Window = 1
    MaxTime = 2
    MaxWatches = 3
    MaxQueued = 2
    MaxChanges = 3
    MaxWd = 9
INVARIANTS
    TypesOK
    DenialsHold
    ReportedIsSettled
    LossReported
    
    MovesReportedOnce
PROPERTIES
    SuppressedOnlyRecent
    PermissionsAnswered
    PendingMovesSettle
CHECK_DEADLOCK FALSE
