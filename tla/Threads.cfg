SPECIFICATION Spec
CONSTANTS
    o1 = o1
    o2 = o2
    o3 = o3
    OrderIds = {o1, o2, o3}
    Ticket <- Mixed
    Requests = {r1}
    Engine = engine
    Nobody = nobody
    Capital = 2
    Cancels = TRUE
    MaxCrashes = 1
CHECK_DEADLOCK FALSE
INVARIANTS TypeOK PositionIsTrades
PROPERTIES CashIsKept RealizedNeverLost OpenOrdersSettle CallsReturn
