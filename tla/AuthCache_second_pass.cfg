SPECIFICATION MCFairSpec
CONSTANTS
    Procs <- MCProcs
    Caching = {p1}
    Requests = {r1, r2}
    Workers = {k1, k2}
    Writers = {a1}
    ProcOf <- MCProcOf
    Missing = {1}
    Tracked = {1}
    MaxVersion = 3
    Faults = {"redis", "database", "slow", "disconnect", "crash"}
    MaxFaults = 1
    None = None
    p1 = p1
    p2 = p2
    k1 = k1
    k2 = k2
    a1 = a1
    r1 = r1
    r2 = r2
INVARIANTS TypeOK RetiredChangeIsClean
PROPERTIES JoinsRecentFlight CachesConverge
CHECK_DEADLOCK FALSE
