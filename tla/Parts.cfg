SPECIFICATION MCSpec
CONSTANTS
    Paths = {p1, p2}
    Pids = {owner}
    NoPid = NoPid
    CacheSize = 2
    Callers = {c1, c2}
    Tasks = {t1, t2}
    Recorders = {r1, r2}
    None = None
    NoFile = NoFile
SYMMETRY Interchangeable
INVARIANTS
    TypesOK
    CacheCoherent
    CountersExact
    AccessesAttributed
    AccessesRecorded
    
    
    
CHECK_DEADLOCK FALSE
