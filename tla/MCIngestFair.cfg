CONSTANTS
    acctA = acctA acctB = acctB
    None = None
    Users = {u1}
    Workers = {w1, w2}
    Accounts = {acctA}
    Activities = {a1}
    AccountOf <- OfFirstAccount
    Fills = {"leg0", "leg1"}
    FillsOf <- LegsOfTrade
    VendorFaults = {"http_401"}
    ExecTimes <- EarlyTimes
    PostDelay = 1
    Lookback = 2
    MaxRange = 1
    Overlap = 1
    Cooldown = 1
    MaxClock = 1
    MaxQueue = 1
    MaxRuns = 2
SPECIFICATION FairSpec
PROPERTY RunsEnd
CHECK_DEADLOCK FALSE
