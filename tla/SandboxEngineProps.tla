--------------------------- MODULE SandboxEngineProps ---------------------------
(***************************************************************************)
(* What the sandbox engine promises of its books.                          *)
(***************************************************************************)
EXTENDS SandboxEngine, FiniteSetsExt

\* A row that is flat, or was never created, holds no margin, after every
\* close, reduction, settlement, catch-up and expiry (_update_position,
\* catch_up_mis_squareoff, _settle_expired_position).  reconcile_margin skips
\* flat rows, so margin left in one would never be found again.
FlatRowsHoldNoMargin ==
    \A p \in Products : positions[p].quantity = 0 => positions[p].margin = 0

\* An order is never filled at a price its owner did not agree to, whatever
\* was modified while it rested, the limit, the trigger or both: a limit is never
\* passed, a stop never fires before its trigger (_process_order, modify_order).
FillsRespectPrices ==
    \A id \in trades :
        LET o == orders[id]
            AtMost(a, b) == IF o.side = "BUY" THEN a <= b ELSE a >= b
        IN  /\ o.type \in {"LIMIT", "SL"}  => AtMost(o.fill, o.price)
            /\ o.type \in {"SL", "SL-M"} => AtMost(o.trigger, o.fill)

\* What each order moved into the account, and which trades were for delivery.
Shares == [id \in OrderIds |-> Signed(orders[id].side, orders[id].quantity)]

Deliveries == {id \in trades : orders[id].product = "CNC"}

\* Shares are neither created nor lost between the trades of the delivery
\* product, its position row and the holding it settles into overnight.  (A
\* fund reset, which erases positions and keeps orders, is out of scope.)
SharesConserved ==
    ~AutoReset =>
      holding.quantity + positions["CNC"].quantity = SumFunctionOnSet(Shares, Deliveries)

\* What the trades of the derivative product paid, or brought in.
Amounts == [id \in OrderIds |-> orders[id].quantity * orders[id].fill]

Dealt(side) == {id \in trades : orders[id].product = "NRML" /\ orders[id].side = side}

TradedValue(side) == SumFunctionOnSet(Amounts, Dealt(side))

\* The profit a position row booked is what its trades brought in, less what
\* they cost, plus the shares still held at their average price: opening,
\* adding, reducing, closing and reversing (_update_position) agree with the
\* trades in sandbox_trades.  For NRML rows, which no job closes without a
\* trade unless the contract expires.
ProfitIsCashFlow ==
    ~AutoReset /\ ~expired =>
      positions["NRML"].accumulated =
        TradedValue("SELL") - TradedValue("BUY")
          + positions["NRML"].quantity * positions["NRML"].average

\* The cash of the account (balance plus used margin) moves by the profit that
\* is booked, whatever is placed, modified, cancelled, filled or reconciled.
\* The exceptions are the T+1 settlement, which moves the price of the settled
\* shares, the weekly reset, and the clamp of the catch-up job.
SettlementMove ==
    LET settled == positions["CNC"] IN
    /\ settled.stale /\ positions'["CNC"] = NoPosition
    /\ funds'.realized = funds.realized
    /\ Cash(funds') - Cash(funds) \in
         {Abs(settled.quantity) * settled.average,
          -(Abs(settled.quantity) * settled.average)}

ClampMove ==
    /\ positions["MIS"].stale /\ funds.used < positions["MIS"].margin
    /\ funds'.used = 0

CashStep ==
    \/ Cash(funds') - Cash(funds) = funds'.realized - funds.realized
    \/ SettlementMove
    \/ ClampMove
    \/ AutoReset /\ funds' = FreshFund(Capital)

CashFollowsPnl == [][CashStep]_vars

-----------------------------------------------------------------------------
(* Promises that hold while orders execute when they are placed *)

\* With market orders only, the account and the positions agree at all times.
BooksAgree ==
    /\ funds.used = PositionMargin(positions)
    /\ funds.available = Capital - funds.used + funds.realized

\* All profit a position ever booked is in the account, and nothing else is.
ProfitAgrees ==
    funds.realized = positions["CNC"].accumulated + positions["MIS"].accumulated
                       + positions["NRML"].accumulated

\* No position is held without margin.
OpenPositionsAreMargined ==
    \A p \in Products : positions[p].quantity # 0 => positions[p].margin > 0
=================================================================================
