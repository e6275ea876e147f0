----------------------------- MODULE SandboxNetting -----------------------------
(***************************************************************************)
(* What one execution does to one position row:                            *)
(* ExecutionEngine._update_position of sandbox/execution_engine.py, without *)
(* its database calls.  Net returns the new row, the margin it releases    *)
(* and the profit that goes with it; SandboxEngine applies them.           *)
(*                                                                         *)
(* A row that was never created is NoPosition, and a closed one keeps its  *)
(* accumulated profit and its creation date, so creating a row and         *)
(* reopening a closed one are the same change.                             *)
(***************************************************************************)
EXTENDS SandboxFunds

Side == {"BUY", "SELL"}

Position == [row : BOOLEAN, quantity : Int, average : Int, margin : Int,
             accumulated : Int, ltp : Int, stale : BOOLEAN]

NoPosition == [row |-> FALSE, quantity |-> 0, average |-> 0, margin |-> 0,
               accumulated |-> 0, ltp |-> 0, stale |-> FALSE]

Abs(n) == IF n < 0 THEN -n ELSE n

Signed(side, quantity) == IF side = "BUY" THEN quantity ELSE -quantity

\* Is an order on this side opposite to an open position?
Opposes(side, position) ==
    \/ position.quantity > 0 /\ side = "SELL"
    \/ position.quantity < 0 /\ side = "BUY"

RealizedPnl(oldQuantity, average, closed, price) ==
    IF oldQuantity > 0 THEN (price - average) * closed
                       ELSE (average - price) * closed

\* The row after an execution: what it holds now, marked at the fill price,
\* with the profit added to what the row booked before.
NewRow(position, quantity, average, margin, price, pnl) ==
    [position EXCEPT !.row = TRUE, !.quantity = quantity, !.average = average,
                     !.margin = margin, !.ltp = price,
                     !.accumulated = position.accumulated + pnl]

Netted(row, release, pnl) == [position |-> row, release |-> release, pnl |-> pnl]

Start(position, order, price) ==
    Netted(NewRow(position, Signed(order.side, order.quantity), price,
                  order.margin, price, 0), 0, 0)

Add(position, order, price) ==
    LET old     == Abs(position.quantity)
        average == RoundDiv(old * position.average + order.quantity * price,
                            old + order.quantity)
    IN  Netted(NewRow(position,
                      position.quantity + Signed(order.side, order.quantity),
                      average, position.margin + order.margin, price, 0), 0, 0)

Close(position, order, price) ==
    LET pnl == RealizedPnl(position.quantity, position.average, order.quantity, price)
    IN  Netted(NewRow(position, 0, position.average, 0, price, pnl),
               position.margin, pnl)

Reduce(position, order, price) ==
    LET pnl     == RealizedPnl(position.quantity, position.average, order.quantity, price)
        release == RoundDiv(position.margin * order.quantity, Abs(position.quantity))
    IN  Netted(NewRow(position,
                      position.quantity + Signed(order.side, order.quantity),
                      position.average, position.margin - release, price, pnl),
               release, pnl)

\* A reversal that forgets to take the new average price.
Mut_Reverse(position, order, price) ==
    LET old    == Abs(position.quantity)
        excess == order.quantity - old
        pnl    == RealizedPnl(position.quantity, position.average, old, price)
    IN  Netted(NewRow(position, Signed(order.side, excess), position.average,
                      RoundDiv(order.margin * excess, order.quantity), price, pnl),
               position.margin, pnl)

\* The row's new margin is a share of the order's, although place_order
\* already computed the order's margin for the excess quantity only.
Reverse(position, order, price) ==
    LET old    == Abs(position.quantity)
        excess == order.quantity - old
        pnl    == RealizedPnl(position.quantity, position.average, old, price)
    IN  Netted(NewRow(position, Signed(order.side, excess), price,
                      RoundDiv(order.margin * excess, order.quantity), price, pnl),
               position.margin, pnl)

Net(position, order, price) ==
    CASE position.quantity = 0               -> Start(position, order, price)
      [] /\ position.quantity # 0
         /\ ~Opposes(order.side, position)   -> Add(position, order, price)
      [] /\ Opposes(order.side, position)
         /\ order.quantity = Abs(position.quantity)
                                             -> Close(position, order, price)
      [] /\ Opposes(order.side, position)
         /\ order.quantity < Abs(position.quantity)
                                             -> Reduce(position, order, price)
      [] /\ Opposes(order.side, position)
         /\ order.quantity > Abs(position.quantity)
                                             -> Reverse(position, order, price)
=================================================================================
