SPECIFICATION Spec
CONSTANTS
    invoice = invoice
    statement = statement
    letter = letter
    slip = slip
    note = note
    u1 = u1
    u2 = u2
    p1 = p1
    p2 = p2
    NoFile = NoFile
    Unpriced = Unpriced
    Payments = {p1, p2}
    Items <- ItemsOf
    Rank <- RankOfFile
    Zip <- ZipOf
    Docs = {1, 2}
    Users = {u1}
    Files = {invoice, statement}
    Spreadsheets = {statement}
    Vague = {}
    Unnamed = {}
    Confirmations = {}
    Ops = {"reExtract", "deleteTransaction", "deleteRace", "escrow", "reference", "delete", "replaceFile", "cancelBatch", "zip", "retryFailed", "cleanReExtract", "edit", "dismiss", "keep"}
    Faults = {"timeout", "crash", "unreadable"}
    Spare = 0
    MAX_RETRIES = 2
    MaxActs = 2
INVARIANTS
    TypeOK
    RecordedOnce
    EscrowIsNotBilled
CHECK_DEADLOCK FALSE
