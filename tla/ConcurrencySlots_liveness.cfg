SPECIFICATION MCFairSpec
CONSTANTS
    p1 = p1
    p2 = p2
    s1 = s1
    s2 = s2
    r1 = r1
    r2 = r2
    r3 = r3
    Procs = {p1, p2}
    Requests = {s1, s2}
    LiveRequests = {s1}
    Instances <- MCLiveness
    MaxConcurrency = 0
    QueueLimit = 1
    SlotTTL = 2
    MaxLate = 1
PROPERTY LeakReclaimed
CHECK_DEADLOCK FALSE
