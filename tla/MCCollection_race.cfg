SPECIFICATION Spec
SYMMETRY Symmetry
CONSTANTS
    None = None
    r1 = r1
    r2 = r2
    Runners <- TwoRunners
    FirstDay = 1
    FirstWeek = 1
    FreezeOpens = 1
    Cliff = 3
    FreshInterval = 1
    RecentInterval = 1
    Daily = 1
    PostLimit = 2
    MaxTime = 3
    PageSize = 1
    MaxPages = 2
    MaxPerCycle = 2
    SweepEvery = 2
    RunLimit = 1
    Budgets = {4}
    Faults = {}
    MaxFaults = 0
INVARIANTS
    FreezeMarksAgree
    SucceededFroze
    
PROPERTIES
    LifeSpec
