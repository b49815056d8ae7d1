CONSTANTS
    acctA = acctA acctB = acctB
    None = None
    Users = {u1}
    Workers = {w1, w2}
    Accounts = {acctA, acctB}
    Activities = {a1}
    AccountOf <- OfFirstAccount
    Fills = {"leg0", "leg1"}
    FillsOf <- LegsOfTrade
    VendorFaults = {"network"}
    ExecTimes <- TimesAroundStart
    PostDelay = 1
    Lookback = 2
    MaxRange = 1
    Overlap = 1
    Cooldown = 1
    MaxClock = 2
    MaxQueue = 1
    MaxRuns = 2
SPECIFICATION Spec
SYMMETRY Symmetry
INVARIANTS TypeOK LockProtects WatermarkNotStale NothingMissed
    RunsAccountForRows WatermarkHasRun DeletedStaysDeleted
PROPERTIES ImplementsLedger
CHECK_DEADLOCK FALSE
