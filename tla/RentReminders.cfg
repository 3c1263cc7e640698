SPECIFICATION FairSpec
CONSTANTS
    None = None
    Plans <- EmailOrBoth
    Passes = {p1, p2}
    LostAnswers = TRUE
INVARIANTS
    TypeOK
    TwiceOnlyInDoubt
    SentIsOut
PROPERTIES
    NotStuck
CHECK_DEADLOCK FALSE
