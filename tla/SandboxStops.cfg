SPECIFICATION Spec
CONSTANTS
    OrderIds = {o1, o2}
    Traded = {"NRML"}
    OrderTypes = {"SL", "SL-M"}
    Quantities = {1}
    Prices = {6, 12}
    Leverage <- MCLeverage
    Spread = 0
    Capital = 60
    AutoReset = TRUE
    CanExpire = TRUE
    QuoteFails = TRUE
SYMMETRY OrderSymmetry
CHECK_DEADLOCK FALSE
INVARIANTS FillsRespectPrices
