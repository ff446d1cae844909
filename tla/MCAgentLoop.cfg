SPECIFICATION FairSpec
CONSTANTS
    w1 = w1
    w2 = w2
    c1 = c1
    Workers <- TwoWorkers
    MaxRun = 2
    Proposals <- Increase
    Recs <- OneRec
    Decisions = {"DISMISSED"}
    MaxDay = 1
    VerifyAfter = {1}
    Faults = {"crash", "exception", "duplicate"}
    MaxFaults = 1
INVARIANTS
    GradeIsExplained
    DismissedHasNoVerdict
    AdviceHasARun
    RunningIsAlive
PROPERTIES
    GradeIsFinal
    
