SPECIFICATION Spec
CONSTANTS
    Strategies = {s1}
    Threads = {t1, t2}
    Pids = {p1, p2}
    Other = Other
    None = None
    MaxCrashes = 1
    MaxLogins = 2
    MaxRequests = 2
CHECK_DEADLOCK FALSE
INVARIANTS TypeOK AdoptedIsOwn TrackedOnce RunningIsTracked JobsMatch
PROPERTIES CallsReturn
