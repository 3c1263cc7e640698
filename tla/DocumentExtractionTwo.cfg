SPECIFICATION FairSpec
CONSTANTS
    invoice = invoice
    statement = statement
    letter = letter
    slip = slip
    note = note
    u1 = u1
    u2 = u2
    p1 = p1
    p2 = p2
    NoFile = NoFile
    Unpriced = Unpriced
    Payments = {p1, p2}
    Items <- ItemsOf
    Rank <- RankOfFile
    Zip <- ZipOf
    Docs = {1, 2, 3, 4}
    Users = {u1, u2}
    Files = {invoice, letter, slip, note}
    Spreadsheets = {}
    Vague = {slip}
    Unnamed = {note}
    Confirmations = {}
    Ops = {"rules"}
    Faults = {"unavailable", "crash"}
    Spare = 2
    MAX_RETRIES = 3
    MaxActs = 0
INVARIANTS
    RecordedOnce
PROPERTIES
    NothingIsDropped
    EventuallyHandled
CHECK_DEADLOCK FALSE
