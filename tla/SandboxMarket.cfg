SPECIFICATION Spec
CONSTANTS
    OrderIds = {o1, o2, o3}
    Traded = {"MIS", "NRML"}
    OrderTypes = {"MARKET"}
    Quantities = {1, 2}
    Prices = {705600, 1411200}
    Leverage <- MCLeverage
    Spread = 705600
    Capital = 7056000
    AutoReset = FALSE
    CanExpire = TRUE
    QuoteFails = FALSE
SYMMETRY OrderSymmetry
CHECK_DEADLOCK FALSE
INVARIANTS TypeOK BooksAgree ProfitAgrees OpenPositionsAreMargined ProfitIsCashFlow
