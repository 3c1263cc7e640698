SPECIFICATION FairSpec
CONSTANTS
    r1 = r1
    r2 = r2
    a1 = a1
    a2 = a2
    a3 = a3
    g1 = g1
    g2 = g2
    e1 = e1
    e2 = e2
    y1 = y1
    None = None
    Receipts = {r1}
    Attempts = {a1, a2, a3}
    Accounts = {g1}
    Addresses = {e1}
    Syncs = {y1}
    Series = {s1}
    SeriesOf <- OneSeries
    Legacy = {a3}
    FilingIsBounded = TRUE
    HeaderKept = TRUE
    LogNeverFails = TRUE
    DocumentsStay = TRUE
    AddressesStay = FALSE
    MaxConnections = 1
INVARIANTS
    SentIsFiltered
    SentMeansEmailed
PROPERTIES
    StuckIsSettled
CHECK_DEADLOCK FALSE
