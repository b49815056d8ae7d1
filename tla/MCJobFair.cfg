SPECIFICATION FairSpec
CONSTANTS
    Workers = {w1, w2}
    WorkerIds = {1, 2, 3}
    Tasks = {sync}
    Deferrals = {}
    None = None
    l1 = l1
    q1 = q1
    MaxJobs = 3
    MaxTick = 1
    MaxFaults = 1
CHECK_DEADLOCK FALSE
INVARIANTS DoubleFireOnlyLate
PROPERTIES WaitingJobStarts
