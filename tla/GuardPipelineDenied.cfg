SPECIFICATION Spec
CONSTANTS
    secret = secret
    other = other
    Keys <- MCKeys
    Deny <- MCDeny
    Matched <- MCDeny
    Enforce = TRUE
    MaxEvents = 3
    QueueSize = 1
    ChannelSize = 1
    CacheSize = 1
    Window = 1
    MaxTime = 2
INVARIANT DeniedLogged
CHECK_DEADLOCK FALSE
