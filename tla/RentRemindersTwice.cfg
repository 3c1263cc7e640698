SPECIFICATION Spec
CONSTANTS
    None = None
    Plans <- EmailOrBoth
    Passes = {p1, p2}
    LostAnswers = FALSE
INVARIANTS
    TwiceOnlyByHand
CHECK_DEADLOCK FALSE
