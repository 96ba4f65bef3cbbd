SPECIFICATION MCFairSpec
CONSTANTS
    p1 = p1
    p2 = p2
    b1 = b1
    b2 = b2
    q1 = q1
    a1 = a1
    a2 = a2
    None = None
    Procs <- MCProcs
    Background = {b1, b2}
    Requests = {q1}
    Admins = {a1, a2}
    ProcOf <- MCProcOf
    Slow = {q1}
    Faults = {"redis", "read", "provider", "answer", "persist", "mark", "crash"}
    MaxIssued = 3
    MaxFaults = 2
INVARIANTS TypeOK  ReauthorizationKept SingleRefresh
PROPERTIES ErrorDeserved ChainKept RefreshedEventually
CHECK_DEADLOCK FALSE
