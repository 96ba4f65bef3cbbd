SPECIFICATION MCFairSpec
CONSTANTS
    Accounts = {a1, a2}
    Writers = {w1, w2, w3}
    TxWriters = {w2, w3}
    Workers = {k1, k2}
    Refreshers = {f1}
    Readers = {r1}
    BatchLimit = 2
    MaxId = 2
    Faults = {"abort", "enqueue", "handle", "unlock", "watermark", "crash", "expire"}
    MaxFaults = 1
    Instances <- MCAll
    a1 = a1
    a2 = a2
    w1 = w1
    w2 = w2
    w3 = w3
    k1 = k1
    k2 = k2
    f1 = f1
    r1 = r1
INVARIANTS TypeOK QuietIsFresh NothingSkipped
PROPERTIES CleanupSparesUnread ConvergesWithRebuild
