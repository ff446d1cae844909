SPECIFICATION Spec
SYMMETRY Symmetry
CONSTANTS
    NoOne = NoOne
    w1 = w1
    w2 = w2
    Workers <- TwoWorkers
    MaxPair = 3
    LockTTL = 3
    LockWait = 2
    HoldMax = 3
    Faults = {"redis", "xerror", "lost", "crash"}
    MaxFaults = 1
    Offline = {TRUE, FALSE}
INVARIANTS
    SingleUse
    
