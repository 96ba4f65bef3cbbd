SPECIFICATION MCFairSpec
CONSTANTS
    v1 = v1
    v2 = v2
    b1 = b1
    video = video
    chat = chat
    None = None
    Tasks = {v1, v2, b1}
    Jobs = {video, chat}
    JobOf <- MCJobOf
    Kind <- MCKind
    Instances <- MCBoth
    QueueSize = 1
    WorkerCount = 1
    MinWorkers = 1
    MaxWorkers = 2
    ScaleStep = 2
    UpPercent = 70
    DownPercent = 15
    OverflowPolicy = "sample"
    Faults = {"database", "answer", "log", "redis", "deadline", "crash"}
    MaxFaults = 2
INVARIANTS TypeOK ChargedOnce LogShowsCharge ClaimFreed
PROPERTY MandatoryCharged
CHECK_DEADLOCK FALSE
