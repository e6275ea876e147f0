SPECIFICATION Spec
CONSTANTS
    a = a
    b = b
    swing = swing
    day = day
    Symbols = {a, b}
    Workers = {w1, w2}
    Limit = 1
    Window = 0
    Unknown = Unknown
    MaxFailures = 1
    Platform = "strategy"
    Strategies = {swing, day}
    Mode <- MCMode
    Hours <- MCHours
    SymbolsOf <- MCSymbolsOf
    Quantity = 1
    Sizes = {1}
    Grace = 0
    LastMinute = 2
    Requests = {r1}
    MaxSmart = 1
    MaxEvents = 2
CHECK_DEADLOCK FALSE
INVARIANTS TypeOK PositionIsWanted ClosedAfterSquareoff
PROPERTIES QueuesDrain
