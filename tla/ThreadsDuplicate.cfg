SPECIFICATION Spec
CONSTANTS
    o1 = o1
    o2 = o2
    o3 = o3
    OrderIds = {o1, o2}
    Ticket <- Market
    Requests = {r1}
    Engine = engine
    Nobody = nobody
    Capital = 4
    Cancels = FALSE
    MaxCrashes = 0
CHECK_DEADLOCK FALSE
INVARIANTS FillsOnce
