SPECIFICATION Spec
CONSTANTS
    s1 = s1
    s2 = s2
    s3 = s3
    None = None
    Sessions = {s1, s2}
    MaxSecrets = 3
    Faults = {"loss", "kill", "revoke", "pause", "logoutLost", "loginLost", "reauth", "delete", "unreadable", "reinstall", "deleteFails"}
SYMMETRY SessionSymmetry
INVARIANTS
    TypeOK
    NeverMistakenForTheft
    StorageFollows
