SPECIFICATION Spec
CONSTANTS
    OrderIds = {o1, o2}
    Traded = {"CNC", "MIS"}
    OrderTypes = {"MARKET", "LIMIT"}
    Quantities = {1, 2}
    Prices = {6, 12}
    Leverage <- MCLeverage
    Spread = 0
    Capital = 60
    AutoReset = FALSE
    CanExpire = FALSE
    QuoteFails = TRUE
SYMMETRY OrderSymmetry
CHECK_DEADLOCK FALSE
INVARIANTS FlatRowsHoldNoMargin SharesConserved
PROPERTIES CashFollowsPnl
