SPECIFICATION Spec
SYMMETRY Symmetry
CHECK_DEADLOCK FALSE
CONSTANTS
    None = None
    e1 = e1
    e2 = e2
    e3 = e3
    e4 = e4
    i1 = i1
    i2 = i2
    g1 = g1
    g2 = g2
    Earnings <- TheEarnings
    Wording <- TheWording
    Readable <- TheReadable
    Statements <- TheStatements
    Layouts = {"plain", "ref"}
    WithRef = {"ref"}
    Importers <- TwoImporters
    HoursPerDay = 2
    MinObservations = 3
    Counts = {0, 1, 9}
    Generators <- TwoGenerators
    PeriodDays = 2
    WindowDays = 3
    ReportHour = 1
    MaxHours = 7
    MaxBusyHours = 1
    MaxBusy = 2
    MaxMails = 1
    MaxFaults = 1
INVARIANTS
    EarningsCountOnce
    SoundStatementsGoIn
    MailsAreOnRecord
    ReportHoldsWhatWasMailed
    NetChangeIsReal
    DailyReportsAddUp
    BreakoutIsFlagged
