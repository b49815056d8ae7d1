SPECIFICATION Spec
CONSTANTS
    Workers = {w1, w2}
    WorkerIds = {1, 2, 3, 4}
    Tasks = {}
    Deferrals <- MCDeferrals
    None = None
    l1 = l1
    q1 = q1
    MaxJobs = 2
    MaxTick = 1
    MaxFaults = 2
CHECK_DEADLOCK FALSE
INVARIANTS OneRunner EventsTellStatus
PROPERTIES ImplementsBoard
