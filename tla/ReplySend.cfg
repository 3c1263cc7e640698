SPECIFICATION Spec
CONSTANTS
    None = None
    Attempts = {a1, a2, a3}
    Keys = {k1}
    Texts = {t1, t2}
    Disclosing = {}
    Pets = {TRUE}
    Accounts = {g1, g2}
    HeaderKept = TRUE
    LogNeverFails = TRUE
    MaxConnections = 2
    MaxEdits = 1
SYMMETRY ReplySymmetry
INVARIANTS
    TypeOK
    AtMostOneEmail
    RecordedTogether
    AnswerIsTrue
    HeardOfPets
PROPERTIES
    SendsOnce
CHECK_DEADLOCK FALSE
