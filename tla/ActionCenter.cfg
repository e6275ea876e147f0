SPECIFICATION Spec
CONSTANTS
    Orders = {o1, o2, o3}
    Unsupported = {o3}
    Threads = {t1, t2}
    MaxId = 2
    MaxCrashes = 1
INVARIANT TypeOK
PROPERTIES ApprovalGates ApprovedIsExecuted
CHECK_DEADLOCK FALSE
