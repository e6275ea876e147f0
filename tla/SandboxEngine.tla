----------------------------- MODULE SandboxEngine ------------------------------
(***************************************************************************)
(* The sandbox (paper trading) engine for one user and one instrument:     *)
(* order_manager.py, execution_engine.py, the square-off and settlement    *)
(* managers and the catch-up processor, over the account of fund_manager.  *)
(*                                                                         *)
(* One instrument has up to two position rows, one per product its         *)
(* exchange segment allows (_validate_order): CNC and MIS for equity, NRML *)
(* and MIS for derivatives.  They share the account, which is what couples *)
(* positions to one another in the code, whatever their symbols.           *)
(*                                                                         *)
(* Each handler is one atomic action here.  SandboxThreads takes the       *)
(* handlers apart and interleaves them.                                    *)
(***************************************************************************)
EXTENDS SandboxNetting, FiniteSets

CONSTANTS
    OrderIds,      \* the order ids a behaviour may use
    Traded,        \* products in which orders are placed
    OrderTypes,    \* price types in use
    Quantities,    \* order quantities
    Prices,        \* prices of quotes, limits and triggers
    Leverage,      \* product -> leverage (sandbox_config)
    Spread,        \* ask - ltp and ltp - bid
    QuoteFails,    \* may the quote service fail?
    Capital,       \* starting_capital
    AutoReset,     \* is a reset day configured?
    CanExpire      \* is the instrument a contract with an expiry?

Products == {"CNC", "MIS", "NRML"}
AllTypes == {"MARKET", "LIMIT", "SL", "SL-M"}

ASSUME TradedAssumption ==
    /\ Traded \subseteq Products
    /\ ~({"CNC", "NRML"} \subseteq Traded)
    /\ {CanExpire, AutoReset, QuoteFails} \subseteq BOOLEAN
    /\ CanExpire => "CNC" \notin Traded
ASSUME TypesAssumption    == OrderTypes \subseteq AllTypes
ASSUME QuantityAssumption == Quantities \subseteq Nat \ {0}
ASSUME PriceAssumption    == Prices \subseteq Nat \ {0}
ASSUME LeverageAssumption == Leverage \in [Products -> Nat \ {0}]
ASSUME AmountAssumption   == Spread \in Nat /\ Capital \in Nat

VARIABLES
    orders,      \* sandbox_orders
    trades,      \* the orders that have a row in sandbox_trades
    positions,   \* sandbox_positions, by product
    holding,     \* the sandbox_holdings row; quantity 0 is no row
    funds,       \* the sandbox_funds row
    quote,       \* what the quote service answers, 0 when it fails
    phase,       \* where the day is, against 09:00 and the square-off time
    expired      \* has the contract's expiry date passed?

vars == <<orders, trades, positions, holding, funds, quote, phase, expired>>

Status == {"none", "open", "complete", "cancelled", "rejected"}

Order == [status : Status, product : Products, side : Side, quantity : Nat,
          type : AllTypes, price : Nat, trigger : Nat, margin : Int, fill : Int]

NoOrder == [status |-> "none", product |-> "MIS", side |-> "BUY", quantity |-> 0,
            type |-> "MARKET", price |-> 0, trigger |-> 0, margin |-> 0, fill |-> 0]

\* What _validate_order lets through: a limit price for LIMIT and SL, a
\* trigger for SL and SL-M.
Ticket == { t \in [product : Traded, side : Side, quantity : Quantities,
                   type : OrderTypes, price : Prices \cup {0},
                   trigger : Prices \cup {0}] :
              /\ (t.price > 0) <=> (t.type \in {"LIMIT", "SL"})
              /\ (t.trigger > 0) <=> (t.type \in {"SL", "SL-M"}) }

TypeOK ==
    /\ orders    \in [OrderIds -> Order]
    /\ trades    \subseteq OrderIds
    /\ positions \in [Products -> Position]
    /\ holding   \in [quantity : Int, average : Int]
    /\ funds     \in Fund
    /\ quote     \in Prices \cup {0}
    /\ phase     \in {"preopen", "trading", "squareoff"}
    /\ expired   \in BOOLEAN

Init ==
    /\ orders    = [id \in OrderIds |-> NoOrder]
    /\ trades    = {}
    /\ positions = [p \in Products |-> NoPosition]
    /\ holding   = [quantity |-> 0, average |-> 0]
    /\ funds     = FreshFund(Capital)
    /\ quote     \in Prices
    /\ phase     = "trading"
    /\ expired   = FALSE

-----------------------------------------------------------------------------
(* Rules of the order manager and of the execution engine *)

\* Only an open position's margin counts; a closed row holds none.
RowMargin(position) == IF position.quantity = 0 THEN 0 ELSE position.margin

PositionMargin(book) ==
    RowMargin(book["CNC"]) + RowMargin(book["MIS"]) + RowMargin(book["NRML"])

\* The price margin is computed at; 0 when there is none and the order fails.
ReferencePrice(ticket) ==
    CASE ticket.type = "LIMIT"         -> ticket.price
      [] ticket.type \in {"SL", "SL-M"} -> ticket.trigger
      [] ticket.type = "MARKET"        ->
            IF quote > 0 THEN quote ELSE positions[ticket.product].ltp

Margin(product, quantity, price) ==
    MarginRequired(quantity, price, Leverage[product])

\* Selling shares one owns is the only kind of order that blocks nothing.
NeedsMargin(ticket) == ticket.side = "BUY" \/ ticket.product # "CNC"

Mut_MarginToBlock(ticket) ==
    IF Opposes(ticket.side, positions[ticket.product]) THEN 0
    ELSE Margin(ticket.product, ticket.quantity, ReferencePrice(ticket))

\* No margin for what reduces the position as it is now; for a reversal, the
\* margin of the excess.
MarginToBlock(ticket) ==
    LET position == positions[ticket.product]
        price    == ReferencePrice(ticket)
        excess   == ticket.quantity - Abs(position.quantity)
    IN  IF Opposes(ticket.side, position)
        THEN IF excess <= 0 THEN 0 ELSE Margin(ticket.product, excess, price)
        ELSE Margin(ticket.product, ticket.quantity, price)

\* A new MIS exposure is refused outside 09:00 .. square-off.
MisAllowed(ticket) ==
    \/ ticket.product # "MIS"
    \/ phase = "trading"
    \/ Opposes(ticket.side, positions["MIS"])

Owned(n) == IF n > 0 THEN n ELSE 0

Sellable == Owned(positions["CNC"].quantity) + Owned(holding.quantity)

CncSellRejected(ticket) ==
    /\ ticket.product = "CNC" /\ ticket.side = "SELL"
    /\ ticket.quantity > Sellable

Accepted(ticket) ==
    /\ MisAllowed(ticket)
    /\ ReferencePrice(ticket) > 0
    /\ NeedsMargin(ticket) /\ MarginToBlock(ticket) > 0
         => MarginAvailable(funds, MarginToBlock(ticket))

Mut_Row(ticket, status, margin) ==
    [status |-> status, product |-> ticket.product, side |-> ticket.side,
     quantity |-> Signed(ticket.side, ticket.quantity), type |-> ticket.type,
     price |-> ticket.price, trigger |-> ticket.trigger, margin |-> margin, fill |-> 0]

Row(ticket, status, margin) ==
    [status   |-> status,          product |-> ticket.product,
     side     |-> ticket.side,     quantity |-> ticket.quantity,
     type     |-> ticket.type,
     price    |-> IF ticket.type = "MARKET" THEN ReferencePrice(ticket)
                                            ELSE ticket.price,
     trigger  |-> ticket.trigger,  margin |-> margin,  fill |-> 0]

FundsAfterBlocking(ticket) ==
    IF NeedsMargin(ticket) THEN BlockMargin(funds, MarginToBlock(ticket)) ELSE funds

\* _process_order: may an order execute at this quote?  A stop waits for its
\* trigger, and what has a limit waits for it too.
Mut_WithinLimit(order) ==
    IF order.side = "BUY" THEN quote >= order.price ELSE quote <= order.price

WithinLimit(order) ==
    IF order.side = "BUY" THEN quote <= order.price ELSE quote >= order.price

Triggered(order) ==
    IF order.side = "BUY" THEN quote >= order.trigger ELSE quote <= order.trigger

ShouldExecute(order) ==
    /\ quote > 0
    /\ order.type \in {"LIMIT", "SL"} => WithinLimit(order)
    /\ order.type \in {"SL", "SL-M"}  => Triggered(order)

\* A market order pays the ask or receives the bid, the last price when the
\* quote has none; every other order fills at the last price.
ExecutionPrice(order) ==
    CASE order.type = "MARKET" /\ order.side = "BUY"  -> quote + Spread
      [] order.type = "MARKET" /\ order.side = "SELL" ->
            IF quote > Spread THEN quote - Spread ELSE quote
      [] OTHER -> quote

\* _execute_order and _update_position: the trade, the netting, the release
\* of margin with its profit (only when there is margin to release), and the
\* reconciliation of the account with the positions.
Execute(id, order, fund) ==
    LET price    == ExecutionPrice(order)
        net      == Net(positions[order.product], order, price)
        book     == [positions EXCEPT ![order.product] = net.position]
        released == IF net.release > 0 THEN ReleaseMargin(fund, net.release, net.pnl)
                                       ELSE fund
    IN  /\ orders'    = [orders EXCEPT ![id] =
                           [order EXCEPT !.status = "complete", !.fill = price]]
        /\ trades'    = trades \cup {id}
        /\ positions' = book
        /\ funds'     = ReconcileMargin(released, PositionMargin(book))
        /\ UNCHANGED <<holding, quote, phase, expired>>

-----------------------------------------------------------------------------
(* Orders *)

PlaceRejected(id, ticket) ==
    /\ orders[id].status = "none"
    /\ MisAllowed(ticket) /\ ReferencePrice(ticket) > 0
    /\ CncSellRejected(ticket)
    /\ orders' = [orders EXCEPT ![id] = Row(ticket, "rejected", 0)]
    /\ UNCHANGED <<trades, positions, holding, funds, quote, phase, expired>>

\* A resting order; a market order rests when only the position's last price
\* was known.
PlaceResting(id, ticket) ==
    /\ orders[id].status = "none"
    /\ Accepted(ticket) /\ ~CncSellRejected(ticket)
    /\ ticket.type = "MARKET" => quote = 0
    /\ orders' = [orders EXCEPT ![id] = Row(ticket, "open", MarginToBlock(ticket))]
    /\ funds'  = FundsAfterBlocking(ticket)
    /\ UNCHANGED <<trades, positions, holding, quote, phase, expired>>

PlaceMarket(id, ticket) ==
    /\ orders[id].status = "none"
    /\ ticket.type = "MARKET" /\ quote > 0
    /\ Accepted(ticket) /\ ~CncSellRejected(ticket)
    /\ Execute(id, Row(ticket, "open", MarginToBlock(ticket)),
               FundsAfterBlocking(ticket))

\* A price or trigger that is not given, or 0, stays as it was; the margin of
\* the order is not computed again.
Given(new, old) == IF new > 0 THEN new ELSE old

Modified(order, quantity, price, trigger) ==
    [order EXCEPT !.quantity = quantity, !.price = Given(price, @),
                  !.trigger = Given(trigger, @)]

Modify(id, quantity, price, trigger) ==
    /\ orders[id].status = "open"
    /\ orders' = [orders EXCEPT ![id] = Modified(@, quantity, price, trigger)]
    /\ UNCHANGED <<trades, positions, holding, funds, quote, phase, expired>>

\* cancel_order: the stored margin, or, when none is stored, what the order's
\* price (or the last price) says would have been blocked.
MarginToRelease(order) ==
    CASE order.margin > 0 -> order.margin
      [] order.margin <= 0 /\ NeedsMargin(order) ->
            Margin(order.product, order.quantity,
                   IF order.price > 0 THEN order.price ELSE quote)
      [] OTHER -> 0

Cancel(id) ==
    /\ orders[id].status = "open"
    /\ orders' = [orders EXCEPT ![id].status = "cancelled"]
    /\ funds'  = ReleaseMargin(funds, MarginToRelease(orders[id]), 0)
    /\ UNCHANGED <<trades, positions, holding, quote, phase, expired>>

\* The engine's pass over the pending orders, one order at a time.
ProcessPending(id) ==
    /\ orders[id].status = "open" /\ id \notin trades
    /\ ShouldExecute(orders[id])
    /\ Execute(id, orders[id], funds)

-----------------------------------------------------------------------------
(* Scheduled jobs *)

ClosingTicket(product) ==
    [product  |-> product,
     side     |-> IF positions[product].quantity > 0 THEN "SELL" ELSE "BUY",
     quantity |-> Abs(positions[product].quantity),
     type     |-> "MARKET", price |-> 0, trigger |-> 0]

\* After square-off time: cancel what is open in MIS, then close the position
\* with a market order.
SquareOffOrder(id) ==
    /\ phase = "squareoff" /\ orders[id].product = "MIS"
    /\ Cancel(id)

SquareOffPosition(id) ==
    /\ phase = "squareoff" /\ positions["MIS"].quantity # 0
    /\ \A other \in OrderIds :
         ~(orders[other].status = "open" /\ orders[other].product = "MIS")
    /\ \/ PlaceMarket(id, ClosingTicket("MIS"))
       \/ PlaceResting(id, ClosingTicket("MIS"))

Mut_SettledHolding(position) ==
    [quantity |-> position.quantity, average |-> position.average]

\* T+1 settlement of a CNC row created before today: a bought row becomes (or
\* joins) the holding, a sold one is taken from it.
SettledHolding(position) ==
    LET old   == holding.quantity
        total == Abs(old) + Abs(position.quantity)
        sum   == old + position.quantity
    IN  CASE old = 0 -> [quantity |-> position.quantity, average |-> position.average]
          [] old # 0 /\ sum = 0 -> [quantity |-> 0, average |-> 0]
          [] old # 0 /\ sum # 0 /\ position.quantity > 0 ->
               [quantity |-> sum,
                average  |-> RoundDiv(Abs(old) * holding.average
                                + position.quantity * position.average, total)]
          [] old # 0 /\ sum # 0 /\ position.quantity < 0 ->
               [holding EXCEPT !.quantity = sum]

SettledFunds(position) ==
    LET amount == Abs(position.quantity) * position.average
    IN  IF holding.quantity # 0 /\ position.quantity < 0
        THEN CreditSaleProceeds(funds, amount)
        ELSE TransferMarginToHoldings(funds, amount)

SettleCnc ==
    LET position == positions["CNC"] IN
    /\ position.row /\ position.stale
    /\ IF position.quantity = 0
       THEN UNCHANGED <<holding, funds>>
       ELSE /\ holding' = SettledHolding(position)
            /\ funds'   = SettledFunds(position)
    /\ positions' = [positions EXCEPT !["CNC"] = NoPosition]
    /\ UNCHANGED <<orders, trades, quote, phase, expired>>

SettlementPnl(position) ==
    LET price == IF position.ltp > 0 THEN position.ltp ELSE position.average
    IN  RealizedPnl(position.quantity, position.average, Abs(position.quantity), price)

Mut_ClosedRow(position) ==
    NewRow(position, 0, position.average, position.margin, position.ltp,
           SettlementPnl(position))

ClosedRow(position) ==
    NewRow(position, 0, position.average, 0, position.ltp, SettlementPnl(position))

\* Catch-up at start: a MIS row of an earlier day is closed at its last price,
\* and used_margin is clamped at zero.
CatchUpMis ==
    LET position == positions["MIS"]
        after    == ReleaseMargin(funds, position.margin, SettlementPnl(position))
    IN  /\ position.row /\ position.stale /\ position.quantity # 0
        /\ positions' = [positions EXCEPT !["MIS"] = ClosedRow(position)]
        /\ funds'     = [after EXCEPT !.used = IF after.used < 0 THEN 0 ELSE after.used]
        /\ UNCHANGED <<orders, trades, holding, quote, phase, expired>>

\* The day after expiry an open position is closed when positions are listed.
SettleExpired(product) ==
    LET position == positions[product] IN
    /\ expired /\ position.quantity # 0
    /\ positions' = [positions EXCEPT ![product] = ClosedRow(position)]
    /\ funds'     = ReleaseMargin(funds, position.margin, SettlementPnl(position))
    /\ UNCHANGED <<orders, trades, holding, quote, phase, expired>>

\* Marks the open position to market.
UpdateMtm(product) ==
    /\ positions[product].quantity # 0 /\ quote > 0
    /\ positions' = [positions EXCEPT ![product].ltp = quote]
    /\ UNCHANGED <<orders, trades, holding, funds, quote, phase, expired>>

\* The weekly reset clears the account, the positions and the holdings.
\* Orders stay.
ResetFunds ==
    /\ AutoReset
    /\ funds'     = FreshFund(Capital)
    /\ positions' = [p \in Products |-> NoPosition]
    /\ holding'   = [quantity |-> 0, average |-> 0]
    /\ UNCHANGED <<orders, trades, quote, phase, expired>>

-----------------------------------------------------------------------------
(* The outside: the clock and the quote service *)

OpenMarket ==
    /\ phase = "preopen" /\ phase' = "trading"
    /\ UNCHANGED <<orders, trades, positions, holding, funds, quote, expired>>

ReachSquareOff ==
    /\ phase = "trading" /\ phase' = "squareoff"
    /\ UNCHANGED <<orders, trades, positions, holding, funds, quote, expired>>

\* Every row that exists was created before the new day.
Midnight ==
    /\ phase = "squareoff" /\ phase' = "preopen"
    /\ positions' = [p \in Products |->
                       [positions[p] EXCEPT !.stale = positions[p].row]]
    /\ expired' \in IF CanExpire THEN {expired, TRUE} ELSE {expired}
    /\ UNCHANGED <<orders, trades, holding, funds, quote>>

MoveQuote ==
    /\ quote' \in (Prices \cup IF QuoteFails THEN {0} ELSE {}) \ {quote}
    /\ UNCHANGED <<orders, trades, positions, holding, funds, phase, expired>>

-----------------------------------------------------------------------------
Place(id) == \E ticket \in Ticket :
    \/ PlaceRejected(id, ticket)
    \/ PlaceResting(id, ticket)
    \/ PlaceMarket(id, ticket)

\* Nothing reads the trigger of an order that does not wait for one.
NewTriggers(order) == IF order.type \in {"SL", "SL-M"} THEN Prices \cup {0} ELSE {0}

ModifyOrder(id) ==
    \E quantity \in Quantities, price \in Prices \cup {0}, trigger \in NewTriggers(orders[id]) :
        Modify(id, quantity, price, trigger)

Jobs ==
    \/ SettleCnc
    \/ CatchUpMis
    \/ \E product \in Products : SettleExpired(product)
    \/ \E product \in Products : UpdateMtm(product)
    \/ ResetFunds

Outside == OpenMarket \/ ReachSquareOff \/ Midnight \/ MoveQuote

Next ==
    \/ \E id \in OrderIds :
         \/ Place(id) \/ ModifyOrder(id) \/ Cancel(id) \/ ProcessPending(id)
         \/ SquareOffOrder(id) \/ SquareOffPosition(id)
    \/ Jobs
    \/ Outside

Spec == Init /\ [][Next]_vars
=================================================================================
