SPECIFICATION Spec
CONSTANTS
    Threads = {t1, t2}
    MaxLogins = 2
    MaxKeys = 2
    MaxEvents = 1
CHECK_DEADLOCK FALSE
SYMMETRY Symmetry
INVARIANTS TypeOK NameCacheCurrent VerifiedIsCurrent RevokedIsRefused
