SPECIFICATION MCSpec
CONSTANTS
    Pods = {p1, p2}
    Hosts = {n1, n2}
    Kinds = {"guard", "watch"}
    ToolApi = "v2"
    ServedApis = {"v2"}
    MaxPolls = 1
    MaxChanges = 2
    MaxFaults = 0
PROPERTY InjectedPodsStart
CHECK_DEADLOCK FALSE
