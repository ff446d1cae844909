SPECIFICATION CadenceSpec
CHECK_DEADLOCK FALSE
CONSTANTS
    None = None
    FirstDay = 6
    FirstWeek = 18
    FreezeOpens = 42
    Cliff = 48
    FreshInterval = 1
    RecentInterval = 3
    Daily = 6
INVARIANTS
    WithinProjection
    NoLongGap
