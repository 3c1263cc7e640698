SPECIFICATION FairSpec
CONSTANTS
    s1 = s1
    s2 = s2
    s3 = s3
    None = None
    Sessions = {s1, s2}
    MaxSecrets = 3
    Faults = {"loss", "late", "revoke", "graceEnds", "writeFails", "link"}
INVARIANTS
    SignedOutStaysOut
    NoSessionLeftBehind
PROPERTIES
    ToldOnlyIfEnded
    EndedIsNoticed
