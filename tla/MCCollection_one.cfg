SPECIFICATION Spec
CONSTANTS
    None = None
    r1 = r1
    r2 = r2
    Runners <- OneRunner
    FirstDay = 1
    FirstWeek = 3
    FreezeOpens = 3
    Cliff = 5
    FreshInterval = 1
    RecentInterval = 1
    Daily = 2
    PostLimit = 2
    MaxTime = 6
    PageSize = 2
    MaxPages = 2
    MaxPerCycle = 1
    SweepEvery = 1
    RunLimit = 1
    Budgets = {5, 100}
    Faults = {"ratelimit", "error", "withheld", "crash"}
    MaxFaults = 1
INVARIANTS
    LossNeedsMisses
    TruncationLosesNothing
    
