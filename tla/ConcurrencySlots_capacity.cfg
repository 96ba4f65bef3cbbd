SPECIFICATION MCSpec
CONSTANTS
    p1 = p1
    p2 = p2
    s1 = s1
    s2 = s2
    r1 = r1
    r2 = r2
    r3 = r3
    Procs = {p1, p2}
    Requests = {s1, s2, r1, r2, r3}
    LiveRequests = {s1}
    Instances <- MCSafety
    MaxConcurrency = 1
    QueueLimit = 1
    SlotTTL = 2
    MaxLate = 1
SYMMETRY MCSymmetry
INVARIANTS QueueBounded TypeOK CapacityRespected
PROPERTY ReleasedStaysReleased
CHECK_DEADLOCK FALSE
