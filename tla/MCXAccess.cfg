SPECIFICATION FairSpec
CONSTANTS
    None = None
    busy = busy
    beat = beat
    Workers <- BothWorkers
    Collectors <- JustBusy
    Probers <- BothWorkers
    Scheduled <- JustBeat
    Quota = 1
    Window = 1
    KeyTTL = 2
    MaxRetries = 2
    MaxFaults = 1
INVARIANTS
    RefusesOnlyTheSpent
    RefusalIsXs
PROPERTIES
    AccessComesBack
