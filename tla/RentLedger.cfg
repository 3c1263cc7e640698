SPECIFICATION Spec
CONSTANTS
    s1 = s1
    s2 = s2
    c1 = c1
    c2 = c2
    None = None
    Schedules = {s1, s2}
    Calls = {c1, c2}
    LastDay = 2
    MonthFirsts <- ShortMonths
    CadenceDays <- ShortWeek
    Terms <- TwoTerms
    EndDates <- MoveOutDays
    OneOffs <- LateFee
    PaymentLists <- Payments
    MaxEdits = 4
SYMMETRY LedgerSymmetry
INVARIANTS
    TypeOK
    SettledOldestFirst
PROPERTIES
    ReadsHeal
    DaysBilledOnce
    ReadsKeepHistory
    WaiversStand
