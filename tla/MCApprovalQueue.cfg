SPECIFICATION FairSpec
CONSTANTS
    None = None
    Unfit = Unfit
    a1 = a1
    a2 = a2
    n1 = n1
    r1 = r1
    r2 = r2
    Actions <- TwoActions
    Names <- OneName
    Requests <- TwoRequests
    Decisions = {"approve", "reject"}
    TTL = 1
    MaxTime = 2
    MaxCrashes = 1
INVARIANTS
    EffectIsRecorded
    OneEffectPerTopic
PROPERTIES
    OutcomeIsFinal
    ExpiredStaysDead
    
CHECK_DEADLOCK FALSE
