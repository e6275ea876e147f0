SPECIFICATION Spec
CONSTANTS
    a = a
    b = b
    swing = swing
    day = day
    Symbols = {a, b}
    Workers = {w1, w2}
    Limit = 1
    Window = 1
    Unknown = Unknown
    MaxFailures = 0
    Platform = "chartink"
    Strategies = {day}
    Mode <- MCMode
    Hours <- ScannerHours
    SymbolsOf <- ScannerSymbolsOf
    Quantity = 1
    Sizes = {0}
    Grace = 1
    LastMinute = 3
    Requests = {r1}
    MaxSmart = 1
    MaxEvents = 2
CHECK_DEADLOCK FALSE
INVARIANTS SquareoffCloses
