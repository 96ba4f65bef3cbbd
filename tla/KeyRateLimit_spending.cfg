SPECIFICATION FairSpec
CONSTANTS
    r1 = r1
    r2 = r2
    r3 = r3
    Requests = {r1, r2}
    Modes = {"standard", "simple"}
    Limit = 1
    Window = 2
    QueueSize = 1
    Workers = 1
    MaxUsage = 3
    NoEntry = NoEntry
INVARIANTS TypeOK SpendBounded NoChargeEscapes
PROPERTY AdmittedAgain
