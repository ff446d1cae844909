SPECIFICATION Spec
SYMMETRY Symmetry
CHECK_DEADLOCK FALSE
CONSTANTS
    None = None
    r1 = r1
    r2 = r2
    s1 = s1
    s2 = s2
    f1 = f1
    f2 = f2
    Requests <- TwoRequests
    Sessions <- TwoSessions
    Flows <- TwoFlows
    MaxPassword = 2
    MaxFaults = 1
INVARIANTS
    OwnersWereAtOnce
    OldPasswordIsOut
    CodeIsSentOnce
    
