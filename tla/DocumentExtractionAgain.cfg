SPECIFICATION Spec
CONSTANTS
    invoice = invoice
    statement = statement
    letter = letter
    slip = slip
    note = note
    u1 = u1
    u2 = u2
    p1 = p1
    p2 = p2
    NoFile = NoFile
    Unpriced = Unpriced
    Payments = {p1, p2}
    Items <- ItemsOf
    Rank <- RankOfFile
    Zip <- ZipOf
    Docs = {1}
    Users = {u1}
    Files = {invoice}
    Spreadsheets = {}
    Vague = {}
    Unnamed = {}
    Confirmations = {}
    Ops = {"reExtract"}
    Faults = {}
    Spare = 0
    MAX_RETRIES = 3
    MaxActs = 1
INVARIANT ReadableIsNotFailed
CHECK_DEADLOCK FALSE
