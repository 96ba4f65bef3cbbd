SPECIFICATION MCFairSpec
CONSTANTS
    Buckets = {b1, b2}
    Workers = {w1}
    Refreshers = {r1}
    Publishers = {p1, p2}
    None = None
    Rank <- MCRank
    LeaseTTL = 60
    LifecycleTimeout = 32
    MaxState = 3
    MaxVersion = 2
    MaxFaults = 1
    b1 = b1
    b2 = b2
    w1 = w1
    r1 = r1
    p1 = p1
    p2 = p2
INVARIANTS TypeOK ShownIsOfThisLife
PROPERTIES ContractKept FollowsGroup
CHECK_DEADLOCK FALSE
