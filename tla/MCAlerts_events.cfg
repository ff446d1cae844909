SPECIFICATION Spec
CONSTANTS
    None = None
    stalled = stalled
    day1 = day1
    day2 = day2
    beat = beat
    button = button
    Rules <- JustEvents
    Stateful <- NoneStateful
    Keys <- TwoEvents
    RuleOf <- RuleOfKey
    Evaluators <- TwoEvaluators
    Cooldown = 1
    Deliverable = {"WARNING", "CRITICAL"}
    Toggles = TRUE
    MaxTime = 2
    MaxCrashes = 1
INVARIANTS
    CooldownHolds
    OneEmailPerEvent
