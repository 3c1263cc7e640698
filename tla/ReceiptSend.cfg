SPECIFICATION Spec
CONSTANTS
    r1 = r1
    r2 = r2
    a1 = a1
    a2 = a2
    a3 = a3
    g1 = g1
    g2 = g2
    e1 = e1
    e2 = e2
    y1 = y1
    None = None
    Receipts = {r1}
    Attempts = {a1, a2, a3}
    Accounts = {g1, g2}
    Addresses = {e1, e2}
    Syncs = {}
    Series = {s1}
    SeriesOf <- OneSeries
    Legacy = {}
    FilingIsBounded = TRUE
    HeaderKept = FALSE
    LogNeverFails = TRUE
    DocumentsStay = TRUE
    AddressesStay = TRUE
    MaxConnections = 2
SYMMETRY AttemptSymmetry
INVARIANTS
    TypeOK
    NumbersUnique
    AtMostOneEmail
    DocumentsBelong
    ClaimDiscipline
PROPERTIES
    SendsOnce
    FinishedIsFinal
    FreshClaimIsExclusive
CHECK_DEADLOCK FALSE
