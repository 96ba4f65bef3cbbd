SPECIFICATION MCSpec
CONSTANTS
    v1 = v1
    v2 = v2
    b1 = b1
    video = video
    chat = chat
    None = None
    Tasks = {v1, v2}
    Jobs = {video}
    JobOf <- MCJobOf
    Kind <- MCKind
    Instances <- MCPolls
    QueueSize = 1
    WorkerCount = 1
    MinWorkers = 1
    MaxWorkers = 2
    ScaleStep = 2
    UpPercent = 70
    DownPercent = 15
    OverflowPolicy = "sample"
    Faults = {"database", "deadline"}
    MaxFaults = 2
INVARIANT FailedClaimCleared
CHECK_DEADLOCK FALSE
