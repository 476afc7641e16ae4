SPECIFICATION MCSpec
CONSTANTS
    n1 = n1
    c1 = c1
    c2 = c2
    c3 = c3
    Nodes = {n1}
    Callers = {c1, c2, c3}
    Threshold = 2
    ResetTimeout = 3
    RequestTimeout = 2
    FailureCap = 3
    Pods = {p1, p2}
    Kinds = {"guard", "watch"}
    ToolApi = "v1"
    ServedApis = {"v2"}
    MaxPolls = 1
    MaxChanges = 3
    MaxFaults = 1
    Hosts = {h1, h2}
INVARIANTS
    TypesOK
    ClosedBelowThreshold
    NoConnectionLeak
    StatusHonest
    DeletionCleansUp
PROPERTIES
    HalfOpenStartsClean
    OpenRecoversThroughProbe
    Converges
