SPECIFICATION Spec
CONSTANTS
    None = None
    Attempts = {a1, a2}
    Keys = {k1}
    Texts = {t1}
    Disclosing = {}
    Pets = {TRUE, FALSE}
    Accounts = {g1}
    HeaderKept = TRUE
    LogNeverFails = TRUE
    MaxConnections = 1
    MaxEdits = 0
INVARIANTS
    ToldIsTrue
CHECK_DEADLOCK FALSE
