--------------------------- MODULE SandboxEngineProofs --------------------------
(***************************************************************************)
(* Theorems of SandboxEngine, for every set of orders, price, quantity,    *)
(* leverage and capital.                                                   *)
(***************************************************************************)
EXTENDS SandboxEngineProps, SandboxNettingProofs

-----------------------------------------------------------------------------
(* Orders *)

\* What a handler may be asked to place: a user's ticket or a closing one.
AnyTicket == [product : Products, side : Side, quantity : Nat, type : AllTypes,
              price : Nat, trigger : Nat]

LEMMA TicketsTyped ==
    /\ Ticket \subseteq AnyTicket
    /\ \A t \in Ticket : t.quantity > 0
<1>1. \A p \in Prices \cup {0} : p \in Nat
  BY PriceAssumption
<1>2. \A q \in Quantities : q \in Nat /\ q > 0
  BY QuantityAssumption
<1>. QED
  BY <1>1, <1>2, TradedAssumption, TypesAssumption DEF Ticket, AnyTicket

LEMMA ClosingTicketTyped ==
    ASSUME TypeOK, NEW p \in Products
    PROVE  /\ ClosingTicket(p) \in AnyTicket
           /\ positions[p].quantity # 0 => ClosingTicket(p).quantity > 0
<1>1. positions[p].quantity \in Int
  BY DEF TypeOK, Position
<1>2. /\ Abs(positions[p].quantity) \in Nat
      /\ positions[p].quantity # 0 => Abs(positions[p].quantity) > 0
  BY <1>1 DEF Abs
<1>. QED  BY <1>2 DEF ClosingTicket, AnyTicket, Side, AllTypes

\* The quote is a price or the 0 of a failed quote service.
LEMMA QuoteNat == TypeOK => quote \in Nat
BY PriceAssumption DEF TypeOK

LEMMA MarginInt ==
    ASSUME NEW p \in Products, NEW q \in Int, NEW price \in Int
    PROVE  Margin(p, q, price) \in Int
<1>1. Leverage[p] \in Nat \ {0} /\ q * price \in Int
  BY LeverageAssumption
<1>. QED  BY <1>1, RoundDivInt DEF Margin, MarginRequired

LEMMA ReferencePriceInt ==
    ASSUME TypeOK, NEW t \in AnyTicket
    PROVE  ReferencePrice(t) \in Int
<1>1. /\ t.price \in Int /\ t.trigger \in Int /\ quote \in Int
      /\ positions[t.product].ltp \in Int
  BY QuoteNat DEF TypeOK, AnyTicket, Position
<1>2. t.type \in {"MARKET", "LIMIT", "SL", "SL-M"}
  BY DEF AnyTicket, AllTypes
<1>. QED  BY <1>1, <1>2 DEF ReferencePrice

LEMMA MarginToBlockInt ==
    ASSUME TypeOK, NEW t \in AnyTicket
    PROVE  MarginToBlock(t) \in Int
<1> DEFINE excess == t.quantity - Abs(positions[t.product].quantity)
<1>1. /\ t.product \in Products /\ t.quantity \in Int
      /\ positions[t.product].quantity \in Int
  BY DEF TypeOK, AnyTicket, Position
<1>2. excess \in Int
  BY <1>1 DEF Abs
<1>3. /\ Margin(t.product, excess, ReferencePrice(t)) \in Int
      /\ Margin(t.product, t.quantity, ReferencePrice(t)) \in Int
  BY <1>1, <1>2, ReferencePriceInt, MarginInt
<1>. QED  BY <1>3 DEF MarginToBlock

\* The row an order is stored in, whatever its fate, is an order row.
LEMMA RowTyped ==
    ASSUME TypeOK, NEW t \in AnyTicket, ReferencePrice(t) > 0,
           NEW status \in Status, NEW margin \in Int
    PROVE  Row(t, status, margin) \in Order
<1>1. ReferencePrice(t) \in Nat
  BY ReferencePriceInt
<1>2. (IF t.type = "MARKET" THEN ReferencePrice(t) ELSE t.price) \in Nat
  BY <1>1 DEF AnyTicket
<1>. QED  BY <1>2 DEF Row, Order, AnyTicket

LEMMA FundsAfterBlockingTyped ==
    ASSUME TypeOK, NEW t \in AnyTicket
    PROVE  FundsAfterBlocking(t) \in Fund
BY MarginToBlockInt, FundOperationsTyped DEF FundsAfterBlocking, TypeOK

-----------------------------------------------------------------------------
(* Executions *)

LEMMA ExecutionPriceNat ==
    ASSUME TypeOK, NEW order \in Order, quote > 0
    PROVE  ExecutionPrice(order) \in Nat /\ ExecutionPrice(order) \in Int
BY QuoteNat, AmountAssumption DEF ExecutionPrice, Order, Side

LEMMA PositionMarginInt ==
    ASSUME NEW book \in [Products -> Position]
    PROVE  PositionMargin(book) \in Int
<1>1. \A p \in Products : RowMargin(book[p]) \in Int
  BY DEF RowMargin, Position
<1>. QED  BY <1>1 DEF PositionMargin, Products

\* The parts of an execution: the row is netted, the account is released and
\* then reconciled, and the order completes.
LEMMA ExecuteParts ==
    ASSUME TypeOK, NEW id \in OrderIds, NEW order \in Order, NEW fund \in Fund,
           quote > 0, Execute(id, order, fund)
    PROVE  LET p   == order.product
               net == Net(positions[p], order, ExecutionPrice(order))
           IN  /\ NetResult(positions[p], order, net)
               /\ positions' = [positions EXCEPT ![p] = net.position]
               /\ positions' \in [Products -> Position]
               /\ orders' = [orders EXCEPT ![id] =
                    [order EXCEPT !.status = "complete", !.fill = ExecutionPrice(order)]]
               /\ trades' = trades \cup {id}
               /\ funds' \in Fund
               /\ funds'.used = PositionMargin(positions')
               /\ Cash(funds') - Cash(fund) = funds'.realized - fund.realized
               /\ UNCHANGED <<holding, quote, phase, expired>>
<1> DEFINE p        == order.product
           net      == Net(positions[p], order, ExecutionPrice(order))
           book     == [positions EXCEPT ![p] = net.position]
           released == IF net.release > 0 THEN ReleaseMargin(fund, net.release, net.pnl)
                                          ELSE fund
<1>1. p \in Products /\ positions[p] \in Position /\ ExecutionPrice(order) \in Int
  BY ExecutionPriceNat DEF TypeOK, Order
<1>2. NetResult(positions[p], order, net)
  <2>1. order.side \in Side /\ order.quantity \in Nat /\ order.margin \in Int
    BY DEF Order
  <2>. QED  BY <1>1, <2>1, NetCorrect
<1>3. net.position \in Position /\ net.release \in Int /\ net.pnl \in Int
  BY <1>2 DEF NetResult
<1>4. positions' = book /\ book \in [Products -> Position]
  BY <1>1, <1>3 DEF Execute, TypeOK
<1>5. PositionMargin(book) \in Int
  BY <1>4, PositionMarginInt
<1>6. released \in Fund
  BY <1>3, FundOperationsTyped
<1>7. Cash(released) - Cash(fund) = released.realized - fund.realized
  <2>1. Cash(fund) \in Int /\ fund.realized \in Int
    BY DEF Cash, Fund
  <2>. QED  BY <1>3, <2>1, FundOperationsCash
<1>8. funds' = ReconcileMargin(released, PositionMargin(book))
  BY DEF Execute
<1>9. /\ funds' \in Fund /\ funds'.used = PositionMargin(book)
      /\ Cash(funds') = Cash(released) /\ funds'.realized = released.realized
  BY <1>5, <1>6, <1>8, FundOperationsTyped, FundOperationsCash
<1>10. /\ orders' = [orders EXCEPT ![id] =
            [order EXCEPT !.status = "complete", !.fill = ExecutionPrice(order)]]
       /\ trades' = trades \cup {id}
       /\ UNCHANGED <<holding, quote, phase, expired>>
  BY DEF Execute
<1>. QED  BY <1>2, <1>4, <1>7, <1>9, <1>10

LEMMA ExecuteTyped ==
    ASSUME TypeOK, NEW id \in OrderIds, NEW order \in Order, NEW fund \in Fund,
           quote > 0, Execute(id, order, fund)
    PROVE  TypeOK'
<1>1. [order EXCEPT !.status = "complete", !.fill = ExecutionPrice(order)] \in Order
  <2>1. ASSUME NEW o \in Order, NEW f \in Nat
        PROVE  [o EXCEPT !.fill = f] \in Order
    BY DEF Order
  <2>2. [order EXCEPT !.status = "complete"] \in Order
    BY DEF Order, Status
  <2>. QED  BY <2>1, <2>2, ExecutionPriceNat
<1>2. orders' = [orders EXCEPT ![id] =
        [order EXCEPT !.status = "complete", !.fill = ExecutionPrice(order)]]
  BY ExecuteParts
<1>3. orders' \in [OrderIds -> Order]
  BY <1>1, <1>2 DEF TypeOK
<1>. QED  BY <1>3, ExecuteParts DEF TypeOK

-----------------------------------------------------------------------------
(* Type correctness *)

LEMMA InitTyped == Init => TypeOK
<1>1. NoOrder \in Order
  BY DEF NoOrder, Order, Status, Products, Side, AllTypes
<1>2. NoPosition \in Position
  BY DEF NoPosition, Position
<1>3. FreshFund(Capital) \in Fund
  BY AmountAssumption DEF FreshFund, Fund
<1>. SUFFICES ASSUME Init PROVE TypeOK
  OBVIOUS
<1>4. orders \in [OrderIds -> Order] /\ positions \in [Products -> Position]
  BY <1>1, <1>2 DEF Init
<1>5. funds \in Fund /\ trades \subseteq OrderIds /\ quote \in Prices \cup {0}
  BY <1>3 DEF Init
<1>6. holding \in [quantity : Int, average : Int]
  BY DEF Init
<1>7. phase \in {"preopen", "trading", "squareoff"} /\ expired \in BOOLEAN
  BY DEF Init
<1>. QED  BY <1>4, <1>5, <1>6, <1>7 DEF TypeOK

\* A market order that executes at once, a user's or a square-off's.
LEMMA PlaceMarketTyped ==
    ASSUME TypeOK, NEW id \in OrderIds, NEW t \in AnyTicket, PlaceMarket(id, t)
    PROVE  TypeOK'
<1>1. ReferencePrice(t) > 0 /\ quote > 0
  BY DEF PlaceMarket, Accepted
<1>2. Row(t, "open", MarginToBlock(t)) \in Order
  BY <1>1, MarginToBlockInt, RowTyped DEF Status
<1>3. FundsAfterBlocking(t) \in Fund
  BY FundsAfterBlockingTyped
<1>. QED  BY <1>1, <1>2, <1>3, ExecuteTyped DEF PlaceMarket

LEMMA PlaceRestingTyped ==
    ASSUME TypeOK, NEW id \in OrderIds, NEW t \in AnyTicket, PlaceResting(id, t)
    PROVE  TypeOK'
<1>1. Row(t, "open", MarginToBlock(t)) \in Order
  BY MarginToBlockInt, RowTyped DEF Status, PlaceResting, Accepted
<1>. QED  BY <1>1, FundsAfterBlockingTyped DEF PlaceResting, TypeOK

LEMMA CancelTyped ==
    ASSUME TypeOK, NEW id \in OrderIds, Cancel(id)
    PROVE  TypeOK'
<1>1. orders[id] \in Order
  BY DEF TypeOK
<1>2. [orders[id] EXCEPT !.status = "cancelled"] \in Order
  BY <1>1 DEF Order, Status
<1>3. MarginToRelease(orders[id]) \in Int
  <2>1. /\ orders[id].product \in Products /\ orders[id].quantity \in Int
        /\ orders[id].margin \in Int
        /\ (IF orders[id].price > 0 THEN orders[id].price ELSE quote) \in Int
    BY <1>1, QuoteNat DEF Order
  <2>. QED  BY <2>1, MarginInt DEF MarginToRelease
<1>4. funds' \in Fund
  BY <1>3, FundOperationsTyped DEF Cancel, TypeOK
<1>. QED  BY <1>2, <1>4 DEF Cancel, TypeOK

\* What a modification writes: the quantity, the price and the trigger.
LEMMA ModifiedOrder ==
    ASSUME TypeOK, NEW id \in OrderIds, ModifyOrder(id)
    PROVE  \E row \in Order :
              /\ row.quantity > 0 /\ row.product = orders[id].product
              /\ row.status = "open" /\ orders[id].status = "open"
              /\ orders' = [orders EXCEPT ![id] = row]
              /\ UNCHANGED <<trades, positions, holding, funds, quote, phase, expired>>
<1>1. PICK q \in Quantities, p \in Prices \cup {0}, t \in Prices \cup {0} : Modify(id, q, p, t)
  BY DEF ModifyOrder, NewTriggers
<1>2. q \in Nat /\ q > 0 /\ p \in Nat /\ t \in Nat
  BY QuantityAssumption, PriceAssumption
<1>3. PICK o \in Order : o = orders[id]
  BY DEF TypeOK
<1>4. Given(p, o.price) \in Nat /\ Given(t, o.trigger) \in Nat
  BY <1>2 DEF Given, Order
<1> DEFINE row == Modified(o, q, p, t)
<1>5. row \in Order /\ row.quantity = q /\ row.product = o.product /\ row.status = o.status
  BY <1>2, <1>4 DEF Modified, Order
<1>6. orders' = [orders EXCEPT ![id] = row] /\ o.status = "open"
  BY <1>1, <1>3 DEF Modify
<1> HIDE DEF row
<1>. QED  BY <1>1, <1>2, <1>3, <1>5, <1>6 DEF Modify

LEMMA ModifyTyped ==
    ASSUME TypeOK, NEW id \in OrderIds, ModifyOrder(id)
    PROVE  TypeOK'
BY ModifiedOrder DEF TypeOK

LEMMA SettleCncTyped ==
    ASSUME TypeOK, SettleCnc
    PROVE  TypeOK'
<1> DEFINE position == positions["CNC"]
           amount   == Abs(position.quantity) * position.average
<1>1. /\ position.quantity \in Int /\ position.average \in Int
      /\ holding.quantity \in Int /\ holding.average \in Int
  BY DEF TypeOK, Position, Products
<1>2. amount \in Int
  BY <1>1 DEF Abs
<1>3. SettledFunds(position) \in Fund
  BY <1>2, FundOperationsTyped DEF SettledFunds, TypeOK
<1>4. position.quantity # 0 => SettledHolding(position) \in [quantity : Int, average : Int]
  <2> DEFINE old   == holding.quantity
             total == Abs(old) + Abs(position.quantity)
             value == Abs(old) * holding.average + position.quantity * position.average
  <2>1. SUFFICES ASSUME position.quantity # 0
                 PROVE  SettledHolding(position) \in [quantity : Int, average : Int]
    OBVIOUS
  <2>2. old \in Int /\ old + position.quantity \in Int
    BY <1>1
  <2>3. total \in Nat \ {0}
    BY <1>1, <2>1 DEF Abs
  <2>a. value \in Int
    <3>1. Abs(old) \in Int
      BY <1>1 DEF Abs
    <3>. QED  BY <3>1, <1>1
  <2>4. RoundDiv(value, total) \in Int
    BY <2>3, <2>a, RoundDivInt
  <2>5. [holding EXCEPT !.quantity = old + position.quantity] \in [quantity : Int, average : Int]
    BY <2>2 DEF TypeOK
  <2>6. CASE old = 0
    BY <2>6, <1>1 DEF SettledHolding
  <2>7. CASE old # 0 /\ old + position.quantity = 0
    BY <2>7 DEF SettledHolding
  <2>8. CASE old # 0 /\ old + position.quantity # 0 /\ position.quantity > 0
    <3>1. SettledHolding(position) =
            [quantity |-> old + position.quantity, average |-> RoundDiv(value, total)]
      BY <2>8, <1>1 DEF SettledHolding
    <3>. QED  BY <3>1, <2>2, <2>4
  <2>9. CASE old # 0 /\ old + position.quantity # 0 /\ position.quantity < 0
    BY <2>9, <2>5, <1>1 DEF SettledHolding
  <2>10. position.quantity > 0 \/ position.quantity < 0
    BY <1>1, <2>1
  <2>. QED  BY <2>6, <2>7, <2>8, <2>9, <2>10
<1>5. positions' \in [Products -> Position]
  <2>1. NoPosition \in Position
    BY DEF NoPosition, Position
  <2>2. positions' = [positions EXCEPT !["CNC"] = NoPosition]
    BY DEF SettleCnc
  <2>. QED  BY <2>1, <2>2 DEF TypeOK
<1>6. funds' \in Fund /\ holding' \in [quantity : Int, average : Int]
  BY <1>3, <1>4 DEF SettleCnc, TypeOK
<1>. QED  BY <1>5, <1>6 DEF SettleCnc, TypeOK

\* Closing a row at its last price, without a trade, leaves a flat row.
LEMMA ClosedRowCorrect ==
    ASSUME NEW position \in Position
    PROVE  /\ SettlementPnl(position) \in Int
           /\ ClosedRow(position) \in Position
           /\ ClosedRow(position).quantity = 0
           /\ ClosedRow(position).margin = 0
<1>1. /\ position.quantity \in Int /\ position.average \in Int
      /\ position.ltp \in Int /\ position.accumulated \in Int
  BY DEF Position
<1>2. /\ Abs(position.quantity) \in Int
      /\ (IF position.ltp > 0 THEN position.ltp ELSE position.average) \in Int
  BY <1>1 DEF Abs
<1>3. SettlementPnl(position) \in Int
  BY <1>1, <1>2, RealizedPnlInt DEF SettlementPnl
<1>. QED  BY <1>1, <1>3, NewRowTyped DEF ClosedRow

LEMMA CatchUpTyped ==
    ASSUME TypeOK, CatchUpMis
    PROVE  TypeOK'
<1> DEFINE position == positions["MIS"]
           after    == ReleaseMargin(funds, position.margin, SettlementPnl(position))
<1>1. position \in Position /\ position.margin \in Int
  BY DEF TypeOK, Position, Products
<1>2. after \in Fund
  BY <1>1, ClosedRowCorrect, FundOperationsTyped DEF TypeOK
<1>3. [after EXCEPT !.used = IF after.used < 0 THEN 0 ELSE after.used] \in Fund
  BY <1>2 DEF Fund
<1>4. positions' \in [Products -> Position]
  BY <1>1, ClosedRowCorrect DEF CatchUpMis, TypeOK
<1>. QED  BY <1>3, <1>4 DEF CatchUpMis, TypeOK

LEMMA SettleExpiredTyped ==
    ASSUME TypeOK, NEW p \in Products, SettleExpired(p)
    PROVE  TypeOK'
<1>1. positions[p] \in Position /\ positions[p].margin \in Int
  BY DEF TypeOK, Position
<1>2. ReleaseMargin(funds, positions[p].margin, SettlementPnl(positions[p])) \in Fund
  BY <1>1, ClosedRowCorrect, FundOperationsTyped DEF TypeOK
<1>3. positions' \in [Products -> Position]
  BY <1>1, ClosedRowCorrect DEF SettleExpired, TypeOK
<1>. QED  BY <1>2, <1>3 DEF SettleExpired, TypeOK

\* Marking to market touches neither quantity nor margin.
LEMMA UpdateMtmParts ==
    ASSUME TypeOK, NEW p \in Products, UpdateMtm(p)
    PROVE  /\ TypeOK'
           /\ \A r \in Products : /\ positions'[r].quantity = positions[r].quantity
                                  /\ positions'[r].margin = positions[r].margin
<1>1. positions[p] \in Position /\ quote \in Int
  BY QuoteNat DEF TypeOK
<1>2. LET row == [positions[p] EXCEPT !.ltp = quote]
      IN  /\ row \in Position
          /\ row.quantity = positions[p].quantity
          /\ row.margin = positions[p].margin
  BY <1>1 DEF Position
<1>3. positions' = [positions EXCEPT ![p] = [positions[p] EXCEPT !.ltp = quote]]
  BY DEF UpdateMtm
<1>. QED  BY <1>2, <1>3 DEF UpdateMtm, TypeOK

\* Neither does midnight.
LEMMA MidnightParts ==
    ASSUME TypeOK, Midnight
    PROVE  /\ TypeOK'
           /\ \A r \in Products : /\ positions'[r].quantity = positions[r].quantity
                                  /\ positions'[r].margin = positions[r].margin
<1>1. ASSUME NEW position \in Position
      PROVE  LET row == [position EXCEPT !.stale = position.row]
             IN  /\ row \in Position
                 /\ row.quantity = position.quantity
                 /\ row.margin = position.margin
  BY DEF Position
<1>2. positions' = [r \in Products |->
                      [positions[r] EXCEPT !.stale = positions[r].row]]
  BY DEF Midnight
<1>3. expired' \in BOOLEAN
  BY DEF Midnight, TypeOK
<1>4. positions' \in [Products -> Position]
  BY <1>1, <1>2 DEF TypeOK
<1>5. \A r \in Products : /\ positions'[r].quantity = positions[r].quantity
                         /\ positions'[r].margin = positions[r].margin
  BY <1>1, <1>2 DEF TypeOK
<1>6. TypeOK'
  BY <1>3, <1>4 DEF Midnight, TypeOK
<1>. QED  BY <1>5, <1>6

LEMMA ResetTyped ==
    ASSUME TypeOK, ResetFunds
    PROVE  TypeOK'
<1>1. FreshFund(Capital) \in Fund
  BY AmountAssumption DEF FreshFund, Fund
<1>2. NoPosition \in Position
  BY DEF NoPosition, Position
<1>3. funds' \in Fund /\ positions' \in [Products -> Position]
  BY <1>1, <1>2 DEF ResetFunds
<1>4. holding' \in [quantity : Int, average : Int]
  BY DEF ResetFunds
<1>. QED  BY <1>3, <1>4 DEF ResetFunds, TypeOK

\* Every value the engine keeps has its type, whatever is traded.
THEOREM TypeCorrect == Spec => []TypeOK
<1>1. Init => TypeOK
  BY InitTyped
<1>2. TypeOK /\ [Next]_vars => TypeOK'
  <2>. SUFFICES ASSUME TypeOK, [Next]_vars PROVE TypeOK'
    OBVIOUS
  <2>1. ASSUME NEW id \in OrderIds, Place(id) PROVE TypeOK'
    <3>1. PICK t \in Ticket : \/ PlaceRejected(id, t)
                              \/ PlaceResting(id, t)
                              \/ PlaceMarket(id, t)
      BY <2>1 DEF Place
    <3>2. t \in AnyTicket
      BY TicketsTyped
    <3>3. CASE PlaceRejected(id, t)
      <4>1. Row(t, "rejected", 0) \in Order
        BY <3>2, <3>3, RowTyped DEF PlaceRejected, Status
      <4>. QED  BY <3>3, <4>1 DEF PlaceRejected, TypeOK
    <3>. QED  BY <3>1, <3>2, <3>3, PlaceRestingTyped, PlaceMarketTyped
  <2>2. ASSUME NEW id \in OrderIds, ProcessPending(id) PROVE TypeOK'
    <3>1. orders[id] \in Order /\ funds \in Fund /\ quote > 0
      BY <2>2 DEF ProcessPending, ShouldExecute, TypeOK
    <3>. QED  BY <2>2, <3>1, ExecuteTyped DEF ProcessPending
  <2>3. ASSUME NEW id \in OrderIds, SquareOffPosition(id) PROVE TypeOK'
    <3>1. ClosingTicket("MIS") \in AnyTicket
      BY ClosingTicketTyped DEF Products
    <3>. QED  BY <2>3, <3>1, PlaceRestingTyped, PlaceMarketTyped DEF SquareOffPosition
  <2>4. ASSUME NEW id \in OrderIds, ModifyOrder(id) \/ Cancel(id) \/ SquareOffOrder(id)
        PROVE  TypeOK'
    BY <2>4, ModifyTyped, CancelTyped DEF SquareOffOrder
  <2>5. CASE Jobs
    BY <2>5, SettleCncTyped, CatchUpTyped, SettleExpiredTyped, UpdateMtmParts,
       ResetTyped DEF Jobs
  <2>6. CASE Outside
    <3>1. CASE OpenMarket
      BY <3>1 DEF OpenMarket, TypeOK
    <3>2. CASE ReachSquareOff
      BY <3>2 DEF ReachSquareOff, TypeOK
    <3>3. CASE MoveQuote
      BY <3>3 DEF MoveQuote, TypeOK
    <3>. QED  BY <2>6, <3>1, <3>2, <3>3, MidnightParts DEF Outside
  <2>7. CASE UNCHANGED vars
    BY <2>7 DEF vars, TypeOK
  <2>. QED  BY <2>1, <2>2, <2>3, <2>4, <2>5, <2>6, <2>7 DEF Next
<1>. QED  BY <1>1, <1>2, PTL DEF Spec

-----------------------------------------------------------------------------
(* Margin of flat rows *)

\* An open order is for some shares; without it an execution could leave a
\* flat row with the order's margin in it.
OpenOrdersTrade == \A id \in OrderIds : orders[id].status = "open" => orders[id].quantity > 0

FlatInv == TypeOK /\ OpenOrdersTrade /\ FlatRowsHoldNoMargin

\* An execution keeps the invariant, whoever asked for it.
LEMMA ExecuteFlat ==
    ASSUME FlatInv, NEW id \in OrderIds, NEW order \in Order, NEW fund \in Fund,
           quote > 0, order.quantity > 0, Execute(id, order, fund)
    PROVE  OpenOrdersTrade' /\ FlatRowsHoldNoMargin'
<1> DEFINE p   == order.product
           net == Net(positions[p], order, ExecutionPrice(order))
<1>1. /\ p \in Products
      /\ NetResult(positions[p], order, net)
      /\ positions' = [positions EXCEPT ![p] = net.position]
      /\ orders' = [orders EXCEPT ![id] =
           [order EXCEPT !.status = "complete", !.fill = ExecutionPrice(order)]]
  BY ExecuteParts DEF FlatInv, Order
<1>2. orders'[id].status = "complete"
  <2>1. /\ order.status \in Status
        /\ [order EXCEPT !.status = "complete", !.fill = ExecutionPrice(order)].status
             = "complete"
    BY DEF Order
  <2>. QED  BY <1>1, <2>1 DEF FlatInv, TypeOK
<1>3. \A other \in OrderIds \ {id} : orders'[other] = orders[other]
  BY <1>1 DEF FlatInv, TypeOK
<1>4. OpenOrdersTrade'
  BY <1>2, <1>3 DEF FlatInv, OpenOrdersTrade
<1>5. \A r \in Products \ {p} : positions'[r] = positions[r]
  BY <1>1 DEF FlatInv, TypeOK
<1>6. positions'[p] = net.position
  BY <1>1 DEF FlatInv, TypeOK
<1>7. FlatRowsHoldNoMargin'
  BY <1>1, <1>5, <1>6 DEF FlatInv, FlatRowsHoldNoMargin, NetResult
<1>. QED  BY <1>4, <1>7

\* What is placed is for some shares.
LEMMA PlaceFlat ==
    ASSUME FlatInv, NEW id \in OrderIds, NEW t \in AnyTicket, t.quantity > 0,
           \/ PlaceRejected(id, t)
           \/ PlaceResting(id, t)
           \/ PlaceMarket(id, t)
    PROVE  OpenOrdersTrade' /\ FlatRowsHoldNoMargin'
<1>1. \A status, margin : Row(t, status, margin).quantity = t.quantity
  BY DEF Row
<1>2. CASE PlaceRejected(id, t)
  BY <1>1, <1>2 DEF PlaceRejected, FlatInv, TypeOK, OpenOrdersTrade, FlatRowsHoldNoMargin
<1>3. CASE PlaceResting(id, t)
  BY <1>1, <1>3 DEF PlaceResting, FlatInv, TypeOK, OpenOrdersTrade, FlatRowsHoldNoMargin
<1>4. CASE PlaceMarket(id, t)
  <2>1. ReferencePrice(t) > 0 /\ quote > 0 /\ TypeOK
    BY <1>4 DEF PlaceMarket, Accepted, FlatInv
  <2>2. Row(t, "open", MarginToBlock(t)) \in Order
    BY <2>1, MarginToBlockInt, RowTyped DEF Status
  <2>3. FundsAfterBlocking(t) \in Fund
    BY <2>1, FundsAfterBlockingTyped
  <2>. QED  BY <1>1, <1>4, <2>1, <2>2, <2>3, ExecuteFlat DEF PlaceMarket
<1>. QED  BY <1>2, <1>3, <1>4

LEMMA FlatInvAlways == Spec => []FlatInv
<1>1. Init => FlatInv
  <2>. SUFFICES ASSUME Init PROVE FlatInv
    OBVIOUS
  <2>1. OpenOrdersTrade
    BY DEF Init, OpenOrdersTrade, NoOrder
  <2>2. FlatRowsHoldNoMargin
    BY DEF Init, FlatRowsHoldNoMargin, NoPosition
  <2>. QED  BY <2>1, <2>2, InitTyped DEF FlatInv
<1>2. FlatInv /\ TypeOK' /\ [Next]_vars => FlatInv'
  <2>. SUFFICES ASSUME FlatInv, [Next]_vars
                PROVE  OpenOrdersTrade' /\ FlatRowsHoldNoMargin'
    BY DEF FlatInv
  <2>0. TypeOK
    BY DEF FlatInv
  <2>1. ASSUME NEW id \in OrderIds, Place(id)
        PROVE  OpenOrdersTrade' /\ FlatRowsHoldNoMargin'
    BY <2>1, TicketsTyped, PlaceFlat DEF Place
  <2>2. ASSUME NEW id \in OrderIds, ProcessPending(id)
        PROVE  OpenOrdersTrade' /\ FlatRowsHoldNoMargin'
    <3>1. orders[id] \in Order /\ funds \in Fund /\ quote > 0
      BY <2>0, <2>2 DEF ProcessPending, ShouldExecute, TypeOK
    <3>2. orders[id].quantity > 0
      BY <2>2 DEF ProcessPending, FlatInv, OpenOrdersTrade
    <3>. QED  BY <2>2, <3>1, <3>2, ExecuteFlat DEF ProcessPending
  <2>3. ASSUME NEW id \in OrderIds, SquareOffPosition(id)
        PROVE  OpenOrdersTrade' /\ FlatRowsHoldNoMargin'
    <3>1. ClosingTicket("MIS") \in AnyTicket /\ ClosingTicket("MIS").quantity > 0
      BY <2>0, <2>3, ClosingTicketTyped DEF SquareOffPosition, Products
    <3>. QED  BY <2>3, <3>1, PlaceFlat DEF SquareOffPosition
  <2>4. ASSUME NEW id \in OrderIds, ModifyOrder(id)
        PROVE  OpenOrdersTrade' /\ FlatRowsHoldNoMargin'
    <3>1. PICK row \in Order : /\ row.quantity > 0 /\ orders' = [orders EXCEPT ![id] = row]
                               /\ UNCHANGED positions
      BY <2>0, <2>4, ModifiedOrder
    <3>2. OpenOrdersTrade'
      BY <2>0, <3>1 DEF FlatInv, OpenOrdersTrade, TypeOK
    <3>. QED  BY <2>0, <3>1, <3>2 DEF FlatInv, FlatRowsHoldNoMargin
  <2>5. ASSUME NEW id \in OrderIds, Cancel(id) \/ SquareOffOrder(id)
        PROVE  OpenOrdersTrade' /\ FlatRowsHoldNoMargin'
    <3>1. orders' = [orders EXCEPT ![id].status = "cancelled"] /\ positions' = positions
      BY <2>5 DEF Cancel, SquareOffOrder
    <3>2. [orders[id] EXCEPT !.status = "cancelled"].status = "cancelled"
      BY <2>0 DEF TypeOK, Order
    <3>. QED  BY <2>0, <3>1, <3>2 DEF FlatInv, OpenOrdersTrade, FlatRowsHoldNoMargin, TypeOK
  <2>6. CASE SettleCnc
    BY <2>0, <2>6 DEF SettleCnc, FlatInv, OpenOrdersTrade, FlatRowsHoldNoMargin,
                      NoPosition, TypeOK
  <2>7. CASE CatchUpMis
    BY <2>0, <2>7, ClosedRowCorrect
    DEF CatchUpMis, FlatInv, OpenOrdersTrade, FlatRowsHoldNoMargin, TypeOK, Products
  <2>8. ASSUME NEW p \in Products, SettleExpired(p)
        PROVE  OpenOrdersTrade' /\ FlatRowsHoldNoMargin'
    BY <2>0, <2>8, ClosedRowCorrect
    DEF SettleExpired, FlatInv, OpenOrdersTrade, FlatRowsHoldNoMargin, TypeOK
  <2>9. CASE ResetFunds
    BY <2>9 DEF ResetFunds, FlatInv, OpenOrdersTrade, FlatRowsHoldNoMargin, NoPosition
  <2>10. ASSUME NEW p \in Products, UpdateMtm(p)
         PROVE  OpenOrdersTrade' /\ FlatRowsHoldNoMargin'
    <3>1. orders' = orders
      BY <2>10 DEF UpdateMtm
    <3>. QED  BY <2>0, <2>10, <3>1, UpdateMtmParts
              DEF FlatInv, OpenOrdersTrade, FlatRowsHoldNoMargin
  <2>11. CASE Midnight
    <3>1. orders' = orders
      BY <2>11 DEF Midnight
    <3>. QED  BY <2>0, <2>11, <3>1, MidnightParts
              DEF FlatInv, OpenOrdersTrade, FlatRowsHoldNoMargin
  <2>12. CASE OpenMarket \/ ReachSquareOff \/ MoveQuote \/ UNCHANGED vars
    BY <2>12 DEF OpenMarket, ReachSquareOff, MoveQuote, vars,
                 FlatInv, OpenOrdersTrade, FlatRowsHoldNoMargin
  <2>. QED
    BY <2>1, <2>2, <2>3, <2>4, <2>5, <2>6, <2>7, <2>8, <2>9, <2>10, <2>11, <2>12
    DEF Next, Jobs, Outside
<1>. QED  BY <1>1, <1>2, TypeCorrect, PTL DEF Spec

\* A row that ends flat holds no margin: reconcile_margin, which skips flat
\* rows, can never miss any.
THEOREM FlatRowsCorrect == Spec => []FlatRowsHoldNoMargin
<1>1. FlatInv => FlatRowsHoldNoMargin
  BY DEF FlatInv
<1>. QED  BY <1>1, FlatInvAlways, PTL

-----------------------------------------------------------------------------
(* The cash of the account *)

CashKept == Cash(funds') - Cash(funds) = funds'.realized - funds.realized

LEMMA CashInt == ASSUME NEW fund \in Fund PROVE Cash(fund) \in Int /\ fund.realized \in Int
BY DEF Cash, Fund

LEMMA BlockingKeepsCash ==
    ASSUME TypeOK, NEW t \in AnyTicket
    PROVE  /\ Cash(FundsAfterBlocking(t)) = Cash(funds)
           /\ FundsAfterBlocking(t).realized = funds.realized
BY MarginToBlockInt, FundOperationsCash DEF FundsAfterBlocking, TypeOK

LEMMA PlaceCash ==
    ASSUME TypeOK, NEW id \in OrderIds, NEW t \in AnyTicket,
           PlaceResting(id, t) \/ PlaceMarket(id, t)
    PROVE  CashKept
<1>1. Cash(funds) \in Int /\ funds.realized \in Int
  BY CashInt DEF TypeOK
<1>2. CASE PlaceResting(id, t)
  BY <1>1, <1>2, BlockingKeepsCash DEF PlaceResting, CashKept
<1>3. CASE PlaceMarket(id, t)
  <2>1. ReferencePrice(t) > 0 /\ quote > 0
    BY <1>3 DEF PlaceMarket, Accepted
  <2>2. Row(t, "open", MarginToBlock(t)) \in Order
    BY <2>1, MarginToBlockInt, RowTyped DEF Status
  <2>3. FundsAfterBlocking(t) \in Fund
    BY FundsAfterBlockingTyped
  <2>4. Cash(funds') - Cash(FundsAfterBlocking(t))
          = funds'.realized - FundsAfterBlocking(t).realized
    BY <1>3, <2>1, <2>2, <2>3, ExecuteParts DEF PlaceMarket
  <2>. QED  BY <2>4, BlockingKeepsCash DEF CashKept
<1>. QED  BY <1>2, <1>3

\* Releasing margin moves the cash by the profit that is booked.
LEMMA ReleaseKeepsCash ==
    ASSUME TypeOK, NEW amount \in Int, NEW pnl \in Int,
           funds' = ReleaseMargin(funds, amount, pnl)
    PROVE  CashKept
<1>1. Cash(funds) \in Int /\ funds.realized \in Int
  BY CashInt DEF TypeOK
<1>. QED  BY <1>1, FundOperationsCash DEF CashKept, TypeOK

LEMMA SettleCncCash ==
    ASSUME TypeOK, SettleCnc
    PROVE  CashStep
<1> DEFINE position == positions["CNC"]
           amount   == Abs(position.quantity) * position.average
<1>1. position.quantity \in Int /\ position.average \in Int /\ funds \in Fund
  BY DEF TypeOK, Position, Products
<1>2. amount \in Int
  BY <1>1 DEF Abs
<1>3. Cash(funds) \in Int /\ funds.realized \in Int
  BY <1>1, CashInt
<1>4. CASE position.quantity = 0
  BY <1>3, <1>4 DEF SettleCnc, CashStep
<1>5. CASE position.quantity # 0
  <2>1. positions'["CNC"] = NoPosition /\ position.stale
    BY DEF SettleCnc, TypeOK, Products
  <2>2. \/ funds' = CreditSaleProceeds(funds, amount)
        \/ funds' = TransferMarginToHoldings(funds, amount)
    BY <1>5 DEF SettleCnc, SettledFunds
  <2>3. /\ funds'.realized = funds.realized
        /\ Cash(funds') - Cash(funds) \in {amount, -amount}
    <3>1. CASE funds' = CreditSaleProceeds(funds, amount)
      <4>1. /\ funds'.realized = funds.realized
            /\ Cash(funds') = Cash(funds) + amount
        BY <1>1, <1>2, <3>1, FundOperationsCash
      <4>. QED  BY <1>2, <1>3, <4>1
    <3>2. CASE funds' = TransferMarginToHoldings(funds, amount)
      <4>1. /\ funds'.realized = funds.realized
            /\ Cash(funds') = Cash(funds) - amount
        BY <1>1, <1>2, <3>2, FundOperationsCash
      <4>. QED  BY <1>2, <1>3, <4>1
    <3>. QED  BY <2>2, <3>1, <3>2
  <2>. QED  BY <2>1, <2>3 DEF CashStep, SettlementMove
<1>. QED  BY <1>4, <1>5

LEMMA CatchUpCash ==
    ASSUME TypeOK, CatchUpMis
    PROVE  CashStep
<1> DEFINE position == positions["MIS"]
           pnl      == SettlementPnl(position)
           after    == ReleaseMargin(funds, position.margin, pnl)
<1>1. position \in Position /\ position.margin \in Int /\ funds \in Fund
  BY DEF TypeOK, Position, Products
<1>2. pnl \in Int
  BY <1>1, ClosedRowCorrect
<1>3. after.used = funds.used - position.margin /\ after \in Fund
  BY <1>1, <1>2, FundOperationsTyped DEF ReleaseMargin
<1>4. funds' = [after EXCEPT !.used = IF after.used < 0 THEN 0 ELSE after.used]
  BY DEF CatchUpMis
<1>5. CASE after.used < 0
  <2>1. funds.used \in Int
    BY <1>1 DEF Fund
  <2>2. funds.used < position.margin
    BY <1>1, <1>3, <1>5, <2>1
  <2>3. funds'.used = 0
    BY <1>3, <1>4, <1>5 DEF Fund
  <2>. QED  BY <2>2, <2>3 DEF CatchUpMis, CashStep, ClampMove
<1>6. CASE ~(after.used < 0)
  <2>1. Cash(funds') = Cash(after) /\ funds'.realized = after.realized
    BY <1>3, <1>4, <1>6 DEF Fund, Cash
  <2>2. Cash(funds) \in Int /\ funds.realized \in Int
    BY <1>1, CashInt
  <2>. QED  BY <1>1, <1>2, <2>1, <2>2, FundOperationsCash DEF CashStep
<1>. QED  BY <1>5, <1>6

\* No step of the engine moves cash without booking the profit, outside the
\* three jobs that are meant to.
THEOREM CashFollowsPnlCorrect == Spec => CashFollowsPnl
<1>1. TypeOK /\ [Next]_vars => [CashStep]_vars
  <2>. SUFFICES ASSUME TypeOK, Next PROVE CashStep
    OBVIOUS
  <2>0. Cash(funds) \in Int /\ funds.realized \in Int
    BY CashInt DEF TypeOK
  <2>1. ASSUME NEW id \in OrderIds, Place(id) PROVE CashKept
    <3>1. PICK t \in Ticket : \/ PlaceRejected(id, t)
                              \/ PlaceResting(id, t)
                              \/ PlaceMarket(id, t)
      BY <2>1 DEF Place
    <3>2. t \in AnyTicket
      BY TicketsTyped
    <3>3. CASE PlaceRejected(id, t)
      BY <2>0, <3>3 DEF PlaceRejected, CashKept
    <3>. QED  BY <3>1, <3>2, <3>3, PlaceCash
  <2>2. ASSUME NEW id \in OrderIds, ProcessPending(id) PROVE CashKept
    <3>1. orders[id] \in Order /\ funds \in Fund /\ quote > 0
      BY <2>2 DEF ProcessPending, ShouldExecute, TypeOK
    <3>. QED  BY <2>2, <3>1, ExecuteParts DEF ProcessPending, CashKept
  <2>3. ASSUME NEW id \in OrderIds, SquareOffPosition(id) PROVE CashKept
    <3>1. ClosingTicket("MIS") \in AnyTicket
      BY ClosingTicketTyped DEF Products
    <3>. QED  BY <2>3, <3>1, PlaceCash DEF SquareOffPosition
  <2>4. ASSUME NEW id \in OrderIds, Cancel(id) \/ SquareOffOrder(id) PROVE CashKept
    <3>1. orders[id] \in Order /\ funds' = ReleaseMargin(funds, MarginToRelease(orders[id]), 0)
      BY <2>4 DEF Cancel, SquareOffOrder, TypeOK
    <3>2. /\ orders[id].product \in Products /\ orders[id].quantity \in Int
          /\ orders[id].margin \in Int
          /\ (IF orders[id].price > 0 THEN orders[id].price ELSE quote) \in Int
      BY <3>1, QuoteNat DEF Order
    <3>3. MarginToRelease(orders[id]) \in Int
      BY <3>2, MarginInt DEF MarginToRelease
    <3>. QED  BY <3>1, <3>3, ReleaseKeepsCash
  <2>5. ASSUME NEW p \in Products, SettleExpired(p) PROVE CashKept
    <3>1. positions[p] \in Position /\ positions[p].margin \in Int
      BY DEF TypeOK, Position
    <3>. QED  BY <2>5, <3>1, ClosedRowCorrect, ReleaseKeepsCash DEF SettleExpired
  <2>6. CASE SettleCnc
    BY <2>6, SettleCncCash
  <2>7. CASE CatchUpMis
    BY <2>7, CatchUpCash
  <2>8. CASE ResetFunds
    BY <2>8 DEF ResetFunds, CashStep
  <2>9. ASSUME \/ \E id \in OrderIds : ModifyOrder(id)
               \/ \E p \in Products : UpdateMtm(p)
               \/ Outside
        PROVE  CashKept
    <3>1. funds' = funds
      BY <2>9 DEF ModifyOrder, Modify, UpdateMtm, Outside, OpenMarket, ReachSquareOff,
                  Midnight, MoveQuote
    <3>. QED  BY <2>0, <3>1 DEF CashKept
  <2>. QED
    BY <2>1, <2>2, <2>3, <2>4, <2>5, <2>6, <2>7, <2>8, <2>9
    DEF Next, Jobs, CashKept, CashStep
<1>. QED  BY <1>1, TypeCorrect, PTL DEF Spec, CashFollowsPnl

-----------------------------------------------------------------------------
(* Prices *)

\* The price o was filled at is one its limit and its trigger agree to.
Agreed(o) ==
    /\ o.type \in {"LIMIT", "SL"} =>
         IF o.side = "BUY" THEN o.fill <= o.price ELSE o.fill >= o.price
    /\ o.type \in {"SL", "SL-M"} =>
         IF o.side = "BUY" THEN o.trigger <= o.fill ELSE o.trigger >= o.fill

\* What has a trade is complete, so no later modification can reach it.
PriceInv == \A id \in trades : orders[id].status = "complete" /\ Agreed(orders[id])

\* An execution at a quote the order waits for leaves it filled as agreed, and
\* no other order touched.
LEMMA ExecuteAgreed ==
    ASSUME TypeOK, PriceInv, NEW id \in OrderIds, NEW order \in Order,
           NEW fund \in Fund, ShouldExecute(order), Execute(id, order, fund)
    PROVE  PriceInv'
<1> DEFINE filled == [order EXCEPT !.status = "complete",
                                   !.fill = ExecutionPrice(order)]
<1>1. quote > 0
  BY DEF ShouldExecute
<1>2. orders' = [orders EXCEPT ![id] = filled] /\ trades' = trades \cup {id}
  BY <1>1, ExecuteParts
<1>3. /\ filled.status = "complete"     /\ filled.type = order.type
      /\ filled.side = order.side       /\ filled.price = order.price
      /\ filled.trigger = order.trigger /\ filled.fill = ExecutionPrice(order)
  BY DEF Order
<1>4. order.type # "MARKET" => ExecutionPrice(order) = quote
  BY DEF ExecutionPrice
<1>5. Agreed(filled)
  BY <1>3, <1>4 DEF ShouldExecute, WithinLimit, Triggered, Agreed
<1>6. orders'[id] = filled /\ \A other \in trades \ {id} : orders'[other] = orders[other]
  BY <1>2 DEF TypeOK
<1>. QED  BY <1>2, <1>3, <1>5, <1>6 DEF PriceInv

\* A market order waits for nothing but a quote.
LEMMA PlaceMarketAgreed ==
    ASSUME TypeOK, PriceInv, NEW id \in OrderIds, NEW t \in AnyTicket, PlaceMarket(id, t)
    PROVE  PriceInv'
<1> DEFINE row == Row(t, "open", MarginToBlock(t))
<1>1. ReferencePrice(t) > 0 /\ quote > 0
  BY DEF PlaceMarket, Accepted
<1>2. row \in Order
  BY <1>1, MarginToBlockInt, RowTyped DEF Status
<1>3. ShouldExecute(row)
  BY <1>1 DEF PlaceMarket, Row, ShouldExecute
<1>. QED  BY <1>2, <1>3, FundsAfterBlockingTyped, ExecuteAgreed DEF PlaceMarket

\* A step that writes orders other than those with a trade.
LEMMA OtherOrdersAgreed ==
    ASSUME TypeOK, PriceInv, trades' = trades, NEW id \in OrderIds, NEW row,
           orders[id].status # "complete", orders' = [orders EXCEPT ![id] = row]
    PROVE  PriceInv'
<1>1. id \notin trades
  BY DEF PriceInv
<1>2. \A other \in trades : orders'[other] = orders[other]
  BY <1>1 DEF TypeOK
<1>. QED  BY <1>2 DEF PriceInv

LEMMA PriceInvAlways == Spec => []PriceInv
<1>1. Init => PriceInv
  BY DEF Init, PriceInv
<1>2. TypeOK /\ PriceInv /\ [Next]_vars => PriceInv'
  <2>. SUFFICES ASSUME TypeOK, PriceInv, [Next]_vars PROVE PriceInv'
    OBVIOUS
  <2>1. ASSUME NEW id \in OrderIds, NEW t \in AnyTicket,
               PlaceRejected(id, t) \/ PlaceResting(id, t) \/ PlaceMarket(id, t)
        PROVE  PriceInv'
    <3>1. CASE PlaceRejected(id, t)
      BY <3>1, OtherOrdersAgreed DEF PlaceRejected
    <3>2. CASE PlaceResting(id, t)
      BY <3>2, OtherOrdersAgreed DEF PlaceResting
    <3>. QED  BY <2>1, <3>1, <3>2, PlaceMarketAgreed
  <2>2. ASSUME NEW id \in OrderIds, Place(id) PROVE PriceInv'
    BY <2>1, <2>2, TicketsTyped DEF Place
  <2>3. ASSUME NEW id \in OrderIds, SquareOffPosition(id) PROVE PriceInv'
    <3>1. ClosingTicket("MIS") \in AnyTicket
      BY ClosingTicketTyped DEF Products
    <3>. QED  BY <2>1, <2>3, <3>1 DEF SquareOffPosition
  <2>4. ASSUME NEW id \in OrderIds, ProcessPending(id) PROVE PriceInv'
    <3>1. orders[id] \in Order /\ funds \in Fund
      BY DEF TypeOK
    <3>. QED  BY <2>4, <3>1, ExecuteAgreed DEF ProcessPending
  <2>5. ASSUME NEW id \in OrderIds, ModifyOrder(id) PROVE PriceInv'
    <3>1. PICK row \in Order : /\ orders[id].status = "open" /\ trades' = trades
                               /\ orders' = [orders EXCEPT ![id] = row]
      BY <2>5, ModifiedOrder
    <3>. QED  BY <3>1, OtherOrdersAgreed
  <2>6. ASSUME NEW id \in OrderIds, Cancel(id) \/ SquareOffOrder(id) PROVE PriceInv'
    <3>1. /\ orders[id].status = "open" /\ trades' = trades
          /\ orders' = [orders EXCEPT ![id] = [orders[id] EXCEPT !.status = "cancelled"]]
      BY <2>6 DEF Cancel, SquareOffOrder
    <3>. QED  BY <3>1, OtherOrdersAgreed
  <2>7. CASE Jobs \/ Outside \/ UNCHANGED vars
    <3>1. orders' = orders /\ trades' = trades
      BY <2>7 DEF Jobs, Outside, SettleCnc, CatchUpMis, SettleExpired, UpdateMtm,
                  ResetFunds, OpenMarket, ReachSquareOff, Midnight, MoveQuote, vars
    <3>. QED  BY <3>1 DEF PriceInv, Agreed
  <2>. QED  BY <2>2, <2>3, <2>4, <2>5, <2>6, <2>7 DEF Next
<1>. QED  BY <1>1, <1>2, TypeCorrect, PTL DEF Spec

\* No order is ever filled past its limit or before its trigger, whatever is
\* modified, squared off or reset meanwhile.
THEOREM FillsCorrect == Spec => []FillsRespectPrices
<1>1. PriceInv => FillsRespectPrices
  BY DEF PriceInv, Agreed, FillsRespectPrices
<1>. QED  BY <1>1, PriceInvAlways, PTL

-----------------------------------------------------------------------------
(* Shares *)

\* Delivery orders exist only where the instrument is traded for delivery, and
\* such an instrument does not expire: nothing but a trade or the settlement
\* moves the delivery row.
SharesInv ==
    /\ IsFiniteSet(trades)
    /\ \A id \in OrderIds :
         orders[id].status = "open" => orders[id].product \in Traded \cup {"MIS"}
    /\ expired => CanExpire
    /\ "CNC" \notin Traded => positions["CNC"].quantity = 0
    /\ SharesConserved

LEMMA SharesTyped ==
    ASSUME TypeOK
    PROVE  /\ \A id \in OrderIds : Shares[id] \in Int
           /\ Deliveries \subseteq trades /\ Deliveries \subseteq OrderIds
<1>1. ASSUME NEW id \in OrderIds PROVE Shares[id] \in Int
  <2>1. orders[id].quantity \in Nat
    BY DEF TypeOK, Order
  <2>. QED  BY <2>1 DEF Shares, Signed
<1>. QED  BY <1>1 DEF Deliveries, TypeOK

\* A step that trades nothing and keeps holding and row together the same.
LEMMA NothingTraded ==
    ASSUME TypeOK, SharesInv, trades' = trades,
           \A id \in trades : orders'[id] = orders[id],
           \A id \in OrderIds :
             orders'[id].status = "open" => orders'[id].product \in Traded \cup {"MIS"},
           expired' => CanExpire,
           "CNC" \notin Traded => positions'["CNC"].quantity = 0,
           ~AutoReset => holding'.quantity + positions'["CNC"].quantity
                           = holding.quantity + positions["CNC"].quantity
    PROVE  SharesInv'
<1>1. Deliveries' = Deliveries
  BY DEF Deliveries
<1>2. \A id \in Deliveries : Shares'[id] = Shares[id]
  BY SharesTyped DEF Shares
<1>3. IsFiniteSet(Deliveries)
  BY SharesTyped, FS_Subset DEF SharesInv
<1>4. SumFunctionOnSet(Shares', Deliveries) = SumFunctionOnSet(Shares, Deliveries)
  BY <1>2, <1>3, SumSame
<1>5. SharesConserved'
  BY <1>1, <1>4 DEF SharesInv, SharesConserved
<1>6. IsFiniteSet(trades')
  BY DEF SharesInv
<1>. QED  BY <1>5, <1>6 DEF SharesInv

\* An execution moves the row by what its trade says.
LEMMA ExecuteShares ==
    ASSUME TypeOK, PriceInv, SharesInv, NEW id \in OrderIds, id \notin trades,
           NEW order \in Order, NEW fund \in Fund, quote > 0,
           order.product \in Traded \cup {"MIS"}, Execute(id, order, fund)
    PROVE  SharesInv'
<1> DEFINE p      == order.product
           net    == Net(positions[p], order, ExecutionPrice(order))
           filled == [order EXCEPT !.status = "complete", !.fill = ExecutionPrice(order)]
           moved  == Signed(order.side, order.quantity)
<1>1. /\ NetResult(positions[p], order, net)
      /\ positions' = [positions EXCEPT ![p] = net.position]
      /\ orders' = [orders EXCEPT ![id] = filled]
      /\ trades' = trades \cup {id}
      /\ UNCHANGED <<holding, quote, phase, expired>>
  BY ExecuteParts
<1>2. /\ filled.status = "complete" /\ filled.product = p
      /\ filled.side = order.side /\ filled.quantity = order.quantity
  BY DEF Order
<1>3. p \in Products /\ order.quantity \in Nat /\ moved \in Int
  BY DEF Order, Signed
<1>4. net.position.quantity = positions[p].quantity + moved
  BY <1>1 DEF NetResult
<1> HIDE DEF p, net, filled, moved
<1>5. /\ orders'[id] = filled
      /\ \A other \in OrderIds \ {id} : orders'[other] = orders[other]
      /\ positions'[p] = net.position
      /\ \A r \in Products \ {p} : positions'[r] = positions[r]
  BY <1>1, <1>3 DEF TypeOK
<1>6. Shares'[id] = moved /\ \A other \in trades : Shares'[other] = Shares[other]
  BY <1>2, <1>5 DEF Shares, moved, TypeOK
<1>7. IsFiniteSet(Deliveries) /\ id \notin Deliveries
  BY SharesTyped, FS_Subset DEF SharesInv
<1>8. holding.quantity \in Int /\ positions["CNC"].quantity \in Int
  BY DEF TypeOK, Position, Products
<1>9. SumFunctionOnSet(Shares, Deliveries) \in Int
  BY <1>7, SharesTyped, SumInt
<1>10. SharesConserved'
  <2>1. CASE p = "CNC"
    <3>1. Deliveries' = Deliveries \cup {id}
      BY <1>1, <1>2, <1>5, <2>1 DEF Deliveries, TypeOK
    <3>2. SumFunctionOnSet(Shares', Deliveries \cup {id})
            = SumFunctionOnSet(Shares, Deliveries) + moved
      BY <1>3, <1>6, <1>7, SharesTyped, SumTrade
    <3>3. positions'["CNC"].quantity = positions["CNC"].quantity + moved
      BY <1>4, <1>5, <2>1
    <3>. QED  BY <1>1, <1>3, <1>8, <1>9, <3>1, <3>2, <3>3 DEF SharesInv, SharesConserved
  <2>2. CASE p # "CNC"
    <3>1. Deliveries' = Deliveries
      BY <1>1, <1>2, <1>5, <2>2 DEF Deliveries, TypeOK
    <3>2. SumFunctionOnSet(Shares', Deliveries) = SumFunctionOnSet(Shares, Deliveries)
      BY <1>6, <1>7, SharesTyped, SumSame
    <3>3. positions'["CNC"] = positions["CNC"]
      BY <1>5, <2>2 DEF Products
    <3>. QED  BY <1>1, <3>1, <3>2, <3>3 DEF SharesInv, SharesConserved
  <2>. QED  BY <2>1, <2>2
<1>11. IsFiniteSet(trades')
  BY <1>1, FS_AddElement DEF SharesInv
<1>12. "CNC" \notin Traded => positions'["CNC"].quantity = 0
  BY <1>5 DEF SharesInv, Products, p
<1>13. \A other \in OrderIds :
         orders'[other].status = "open" => orders'[other].product \in Traded \cup {"MIS"}
  BY <1>2, <1>5 DEF SharesInv
<1>. QED  BY <1>1, <1>10, <1>11, <1>12, <1>13 DEF SharesInv

\* Placing an order, rejected, resting or executed.
LEMMA PlaceShares ==
    ASSUME TypeOK, PriceInv, SharesInv, NEW id \in OrderIds, NEW t \in AnyTicket,
           t.product \in Traded \cup {"MIS"},
           PlaceRejected(id, t) \/ PlaceResting(id, t) \/ PlaceMarket(id, t)
    PROVE  SharesInv'
<1>1. orders[id].status = "none" /\ id \notin trades
  BY DEF PriceInv, PlaceRejected, PlaceResting, PlaceMarket
<1>2. ASSUME NEW status, NEW margin, trades' = trades,
             orders' = [orders EXCEPT ![id] = Row(t, status, margin)],
             UNCHANGED <<positions, holding, expired>>
      PROVE  SharesInv'
  <2>1. Row(t, status, margin).product = t.product
    BY DEF Row
  <2>2. /\ orders'[id] = Row(t, status, margin)
        /\ \A other \in OrderIds \ {id} : orders'[other] = orders[other]
    BY <1>2 DEF TypeOK
  <2>3. \A other \in trades : orders'[other] = orders[other]
    BY <1>1, <2>2 DEF TypeOK
  <2>4. \A other \in OrderIds : orders'[other].status = "open"
          => orders'[other].product \in Traded \cup {"MIS"}
    BY <2>1, <2>2 DEF SharesInv
  <2>. QED  BY <1>2, <2>3, <2>4, NothingTraded DEF SharesInv
<1>3. CASE PlaceRejected(id, t)
  BY <1>2, <1>3 DEF PlaceRejected
<1>4. CASE PlaceResting(id, t)
  BY <1>2, <1>4 DEF PlaceResting
<1>5. CASE PlaceMarket(id, t)
  <2> DEFINE row == Row(t, "open", MarginToBlock(t))
  <2>1. ReferencePrice(t) > 0 /\ quote > 0
    BY <1>5 DEF PlaceMarket, Accepted
  <2>2. row \in Order /\ row.product = t.product
    <3>1. row.product = t.product
      BY DEF Row
    <3>. QED  BY <2>1, <3>1, MarginToBlockInt, RowTyped DEF Status
  <2>3. FundsAfterBlocking(t) \in Fund
    BY FundsAfterBlockingTyped
  <2>4. Execute(id, row, FundsAfterBlocking(t))
    BY <1>5 DEF PlaceMarket
  <2> HIDE DEF row
  <2>. QED  BY <1>1, <2>1, <2>2, <2>3, <2>4, ExecuteShares
<1>. QED  BY <1>3, <1>4, <1>5

LEMMA SharesInvAlways == Spec => []SharesInv
<1>1. Init => SharesInv
  <2>. SUFFICES ASSUME Init PROVE SharesInv
    OBVIOUS
  <2>1. trades = {} /\ Deliveries = {} /\ holding.quantity = 0
        /\ positions["CNC"].quantity = 0
    BY DEF Init, Deliveries, NoPosition, Products
  <2>2. SharesConserved
    BY <2>1, SumEmpty DEF SharesConserved
  <2>3. \A id \in OrderIds : orders[id].status # "open"
    BY DEF Init, NoOrder
  <2>4. ~expired
    BY DEF Init
  <2>. QED  BY <2>1, <2>2, <2>3, <2>4, FS_EmptySet DEF SharesInv
<1>2. TypeOK /\ PriceInv /\ SharesInv /\ [Next]_vars => SharesInv'
  <2>. SUFFICES ASSUME TypeOK, PriceInv, SharesInv, [Next]_vars PROVE SharesInv'
    OBVIOUS
  <2>1. ASSUME NEW id \in OrderIds, Place(id) PROVE SharesInv'
    <3>1. PICK t \in Ticket :
            PlaceRejected(id, t) \/ PlaceResting(id, t) \/ PlaceMarket(id, t)
      BY <2>1 DEF Place
    <3>2. t \in AnyTicket
      BY TicketsTyped
    <3>3. t.product \in Traded
      BY DEF Ticket
    <3>. QED  BY <3>1, <3>2, <3>3, PlaceShares
  <2>2. ASSUME NEW id \in OrderIds, SquareOffPosition(id) PROVE SharesInv'
    <3>1. ClosingTicket("MIS") \in AnyTicket
      BY ClosingTicketTyped DEF Products
    <3>2. ClosingTicket("MIS").product = "MIS"
      BY DEF ClosingTicket
    <3>. QED  BY <2>2, <3>1, <3>2, PlaceShares DEF SquareOffPosition
  <2>3. ASSUME NEW id \in OrderIds, ProcessPending(id) PROVE SharesInv'
    <3>1. orders[id] \in Order /\ funds \in Fund
      BY DEF TypeOK
    <3>2. /\ quote > 0 /\ id \notin trades /\ Execute(id, orders[id], funds)
          /\ orders[id].product \in Traded \cup {"MIS"}
      BY <2>3 DEF ProcessPending, ShouldExecute, SharesInv
    <3>. QED  BY <3>1, <3>2, ExecuteShares
  <2>4. ASSUME NEW id \in OrderIds, NEW row, orders[id].status = "open",
               row.product = orders[id].product, trades' = trades,
               orders' = [orders EXCEPT ![id] = row],
               UNCHANGED <<positions, holding, expired>>
        PROVE  SharesInv'
    <3>1. id \notin trades
      BY <2>4 DEF PriceInv
    <3>2. /\ orders'[id] = row
          /\ \A other \in OrderIds \ {id} : orders'[other] = orders[other]
      BY <2>4 DEF TypeOK
    <3>3. \A other \in trades : orders'[other] = orders[other]
      BY <3>1, <3>2 DEF TypeOK
    <3>4. \A other \in OrderIds : orders'[other].status = "open"
            => orders'[other].product \in Traded \cup {"MIS"}
      BY <2>4, <3>2 DEF SharesInv
    <3>. QED  BY <2>4, <3>3, <3>4, NothingTraded DEF SharesInv
  <2>5. ASSUME NEW id \in OrderIds, ModifyOrder(id) PROVE SharesInv'
    <3>1. PICK row \in Order :
             /\ row.product = orders[id].product /\ orders[id].status = "open"
             /\ orders' = [orders EXCEPT ![id] = row]
             /\ UNCHANGED <<trades, positions, holding, funds, quote, phase, expired>>
      BY <2>5, ModifiedOrder
    <3>. QED  BY <2>4, <3>1
  <2>6. ASSUME NEW id \in OrderIds, Cancel(id) \/ SquareOffOrder(id) PROVE SharesInv'
    <3>1. PICK o \in Order : o = orders[id]
      BY DEF TypeOK
    <3> DEFINE row == [o EXCEPT !.status = "cancelled"]
    <3>2. row.product = o.product
      BY DEF Order
    <3>3. /\ orders[id].status = "open" /\ trades' = trades
          /\ orders' = [orders EXCEPT ![id] = row]
          /\ UNCHANGED <<positions, holding, expired>>
      BY <2>6, <3>1 DEF Cancel, SquareOffOrder
    <3> HIDE DEF row
    <3>. QED  BY <2>4, <3>1, <3>2, <3>3
  <2>7. ASSUME orders' = orders, trades' = trades, expired' => CanExpire,
               "CNC" \notin Traded => positions'["CNC"].quantity = 0,
               ~AutoReset => holding'.quantity + positions'["CNC"].quantity
                               = holding.quantity + positions["CNC"].quantity
        PROVE  SharesInv'
    BY <2>7, NothingTraded DEF SharesInv
  <2>8. CASE SettleCnc
    <3> DEFINE row == positions["CNC"]
    <3>1. holding.quantity \in Int /\ row.quantity \in Int
          /\ holding \in [quantity : Int, average : Int]
      BY DEF TypeOK, Position, Products
    <3>2. positions'["CNC"].quantity = 0
      BY <2>8 DEF SettleCnc, TypeOK, Products, NoPosition
    <3>3. row.quantity # 0 => SettledHolding(row).quantity = holding.quantity + row.quantity
      BY <3>1 DEF SettledHolding
    <3>4. holding'.quantity = holding.quantity + row.quantity
      BY <2>8, <3>1, <3>3 DEF SettleCnc
    <3>5. orders' = orders /\ trades' = trades /\ expired' = expired
      BY <2>8 DEF SettleCnc
    <3>. QED  BY <2>7, <3>1, <3>2, <3>4, <3>5 DEF SharesInv
  <2>9. ASSUME positions'["CNC"].quantity = positions["CNC"].quantity,
               UNCHANGED <<orders, trades, holding>>, expired' => CanExpire
        PROVE  SharesInv'
    BY <2>7, <2>9 DEF SharesInv
  <2>10. CASE CatchUpMis
    <3>1. positions'["CNC"] = positions["CNC"]
      BY <2>10 DEF CatchUpMis, TypeOK, Products
    <3>. QED  BY <2>9, <2>10, <3>1 DEF CatchUpMis, SharesInv
  <2>11. ASSUME NEW p \in Products, SettleExpired(p) PROVE SharesInv'
    <3>1. p # "CNC"
      BY <2>11, TradedAssumption DEF SettleExpired, SharesInv
    <3>2. positions'["CNC"] = positions["CNC"]
      BY <2>11, <3>1 DEF SettleExpired, TypeOK, Products
    <3>. QED  BY <2>9, <2>11, <3>2 DEF SettleExpired, SharesInv
  <2>12. ASSUME NEW p \in Products, UpdateMtm(p) PROVE SharesInv'
    <3>1. positions'["CNC"].quantity = positions["CNC"].quantity
      BY <2>12, UpdateMtmParts DEF Products
    <3>. QED  BY <2>9, <2>12, <3>1 DEF UpdateMtm, SharesInv
  <2>13. CASE ResetFunds
    <3>1. AutoReset /\ positions'["CNC"].quantity = 0
      BY <2>13 DEF ResetFunds, NoPosition, Products
    <3>2. orders' = orders /\ trades' = trades /\ expired' = expired
      BY <2>13 DEF ResetFunds
    <3>. QED  BY <2>7, <3>1, <3>2 DEF SharesInv
  <2>14. CASE Midnight
    <3>1. positions'["CNC"].quantity = positions["CNC"].quantity
      BY <2>14, MidnightParts DEF Products
    <3>2. UNCHANGED <<orders, trades, holding>> /\ (expired' => CanExpire)
      BY <2>14 DEF Midnight, SharesInv
    <3>. QED  BY <2>9, <3>1, <3>2
  <2>15. CASE OpenMarket \/ ReachSquareOff \/ MoveQuote \/ UNCHANGED vars
    BY <2>9, <2>15 DEF OpenMarket, ReachSquareOff, MoveQuote, vars, SharesInv
  <2>. QED  BY <2>1, <2>2, <2>3, <2>5, <2>6, <2>8, <2>10, <2>11, <2>12, <2>13, <2>14,
                <2>15
            DEF Next, Jobs, Outside
<1>. QED  BY <1>1, <1>2, TypeCorrect, PriceInvAlways, PTL DEF Spec

\* Shares are conserved: what the delivery trades say is in the row or, once
\* settled, in the holding.  Every way a row is settled is covered: opening a
\* holding, joining it, being taken from it and emptying it.
THEOREM SharesCorrect == Spec => []SharesConserved
<1>1. SharesInv => SharesConserved
  BY DEF SharesInv
<1>. QED  BY <1>1, SharesInvAlways, PTL

-----------------------------------------------------------------------------
(* Profit and cash flow *)

\* No average price of the derivative row is rounded.
ExactAverages == AverageExact(positions["NRML"], positions'["NRML"])

\* The row's ledger is the cash flow of its trades.
CashFlowInv ==
    ~AutoReset /\ ~expired =>
      Ledger(positions["NRML"]) = TradedValue("SELL") - TradedValue("BUY")

LEMMA DealsTyped ==
    ASSUME TypeOK, IsFiniteSet(trades)
    PROVE  /\ \A id \in OrderIds : Amounts[id] \in Int
           /\ \A side \in Side : /\ IsFiniteSet(Dealt(side))
                                 /\ Dealt(side) \subseteq trades
                                 /\ TradedValue(side) \in Int
<1>1. ASSUME NEW id \in OrderIds PROVE Amounts[id] \in Int
  <2>1. orders[id].quantity \in Int /\ orders[id].fill \in Int
    BY DEF TypeOK, Order
  <2>. QED  BY <2>1 DEF Amounts
<1>2. ASSUME NEW side \in Side
      PROVE  /\ IsFiniteSet(Dealt(side)) /\ Dealt(side) \subseteq trades
             /\ TradedValue(side) \in Int
  <2>1. Dealt(side) \subseteq trades
    BY DEF Dealt
  <2>2. IsFiniteSet(Dealt(side))
    BY <2>1, FS_Subset
  <2>3. \A id \in Dealt(side) : Amounts[id] \in Int
    BY <1>1, <2>1 DEF TypeOK
  <2>. QED  BY <2>1, <2>2, <2>3, SumInt DEF TradedValue
<1>. QED  BY <1>1, <1>2

\* A step that trades nothing, and books nothing but an expiry.
LEMMA NothingDealt ==
    ASSUME TypeOK, IsFiniteSet(trades), CashFlowInv, trades' = trades,
           \A id \in trades : orders'[id] = orders[id],
           expired => expired',
           ~AutoReset /\ ~expired' =>
             Ledger(positions'["NRML"]) = Ledger(positions["NRML"])
    PROVE  CashFlowInv'
<1>1. ASSUME NEW side \in Side PROVE TradedValue(side)' = TradedValue(side)
  <2>1. Dealt(side)' = Dealt(side)
    BY DEF Dealt
  <2>2. \A id \in Dealt(side) : Amounts'[id] = Amounts[id]
    BY DEF Dealt, Amounts, TypeOK
  <2>3. SumFunctionOnSet(Amounts', Dealt(side)) = SumFunctionOnSet(Amounts, Dealt(side))
    BY <2>2, DealsTyped, SumSame
  <2>. QED  BY <2>1, <2>3 DEF TradedValue
<1>. QED  BY <1>1 DEF CashFlowInv, Side

\* An execution adds what it paid or received to one side.
LEMMA ExecuteCashFlow ==
    ASSUME TypeOK, PriceInv, IsFiniteSet(trades), CashFlowInv, NEW id \in OrderIds,
           id \notin trades, NEW order \in Order, order.quantity > 0, NEW fund \in Fund,
           quote > 0, Execute(id, order, fund), ExactAverages
    PROVE  CashFlowInv'
<1> DEFINE p      == order.product
           price  == ExecutionPrice(order)
           net    == Net(positions[p], order, price)
           filled == [order EXCEPT !.status = "complete", !.fill = price]
           value  == order.quantity * price
<1>1. /\ positions' = [positions EXCEPT ![p] = net.position]
      /\ orders' = [orders EXCEPT ![id] = filled]
      /\ trades' = trades \cup {id} /\ expired' = expired
  BY ExecuteParts
<1>2. price \in Int /\ order.quantity \in Nat /\ order.margin \in Int
      /\ p \in Products /\ order.side \in Side
  BY ExecutionPriceNat DEF Order
<1>3. value \in Int
  BY <1>2
<1>4. /\ filled.product = p /\ filled.side = order.side
      /\ filled.quantity = order.quantity /\ filled.fill = price
  BY <1>2 DEF Order
<1> HIDE DEF p, price, net, filled, value
<1>5. /\ orders'[id] = filled
      /\ \A other \in OrderIds \ {id} : orders'[other] = orders[other]
      /\ positions'[p] = net.position
      /\ \A r \in Products \ {p} : positions'[r] = positions[r]
  BY <1>1, <1>2 DEF TypeOK
<1>6. Amounts'[id] = value /\ \A other \in trades : Amounts'[other] = Amounts[other]
  BY <1>4, <1>5 DEF Amounts, value, TypeOK
<1>7. ASSUME NEW side \in Side, side # order.side \/ p # "NRML"
      PROVE  TradedValue(side)' = TradedValue(side)
  <2>1. Dealt(side)' = Dealt(side)
    BY <1>1, <1>4, <1>5, <1>7 DEF Dealt, TypeOK
  <2>2. SumFunctionOnSet(Amounts', Dealt(side)) = SumFunctionOnSet(Amounts, Dealt(side))
    BY <1>6, DealsTyped, SumSame
  <2>. QED  BY <2>1, <2>2 DEF TradedValue
<1>8. CASE p # "NRML"
  <2>1. positions'["NRML"] = positions["NRML"]
    BY <1>5, <1>8 DEF Products
  <2>. QED  BY <1>1, <1>7, <1>8, <2>1 DEF CashFlowInv, Side
<1>9. CASE p = "NRML"
  <2>1. TradedValue(order.side)' = TradedValue(order.side) + value
    <3>1. Dealt(order.side)' = Dealt(order.side) \cup {id} /\ id \notin Dealt(order.side)
      BY <1>1, <1>4, <1>5, <1>9 DEF Dealt, TypeOK
    <3>2. \A other \in Dealt(order.side) : Amounts[other] \in Int
                                           /\ Amounts'[other] = Amounts[other]
      BY <1>2, <1>6, DealsTyped DEF TypeOK
    <3>3. SumFunctionOnSet(Amounts', Dealt(order.side) \cup {id})
            = SumFunctionOnSet(Amounts, Dealt(order.side)) + value
      BY <1>2, <1>3, <1>6, <3>1, <3>2, DealsTyped, SumTrade
    <3>. QED  BY <3>1, <3>3 DEF TradedValue
  <2>2. Ledger(net.position)
          = Ledger(positions["NRML"]) - Signed(order.side, order.quantity) * price
    <3>1. positions["NRML"] \in Position
      BY DEF TypeOK, Products
    <3>2. AverageExact(positions["NRML"], Net(positions["NRML"], order, price).position)
      BY <1>5, <1>9 DEF ExactAverages, net
    <3>. QED  BY <1>2, <1>9, <3>1, <3>2, NetCashFlow DEF net
  <2>3. Signed(order.side, order.quantity) * price
          = IF order.side = "BUY" THEN value ELSE -value
    <3>1. (-order.quantity) * price = -(order.quantity * price)
      BY <1>2
    <3>. QED  BY <3>1 DEF Signed, value
  <2>4. TradedValue("BUY") \in Int /\ TradedValue("SELL") \in Int
    BY DealsTyped DEF Side
  <2>5. CASE order.side = "BUY"
    <3>1. TradedValue("SELL")' = TradedValue("SELL")
      BY <1>7, <2>5 DEF Side
    <3>2. TradedValue("BUY")' = TradedValue("BUY") + value
      BY <2>1, <2>5
    <3>. QED  BY <1>1, <1>3, <1>5, <1>9, <2>2, <2>3, <2>4, <2>5, <3>1, <3>2 DEF CashFlowInv
  <2>6. CASE order.side = "SELL"
    <3>1. TradedValue("BUY")' = TradedValue("BUY")
      BY <1>7, <2>6 DEF Side
    <3>2. TradedValue("SELL")' = TradedValue("SELL") + value
      BY <2>1, <2>6
    <3>. QED  BY <1>1, <1>3, <1>5, <1>9, <2>2, <2>3, <2>4, <2>6, <3>1, <3>2 DEF CashFlowInv
  <2>. QED  BY <1>2, <2>5, <2>6 DEF Side
<1>. QED  BY <1>8, <1>9

LEMMA PlaceCashFlow ==
    ASSUME TypeOK, PriceInv, IsFiniteSet(trades), CashFlowInv, NEW id \in OrderIds,
           NEW t \in AnyTicket, t.quantity > 0, ExactAverages,
           PlaceRejected(id, t) \/ PlaceResting(id, t) \/ PlaceMarket(id, t)
    PROVE  CashFlowInv'
<1>1. id \notin trades
  BY DEF PriceInv, PlaceRejected, PlaceResting, PlaceMarket
<1>2. ASSUME NEW row, trades' = trades, orders' = [orders EXCEPT ![id] = row],
             UNCHANGED <<positions, expired>>
      PROVE  CashFlowInv'
  <2>1. \A other \in trades : orders'[other] = orders[other]
    BY <1>1, <1>2 DEF TypeOK
  <2>. QED  BY <1>2, <2>1, NothingDealt
<1>3. CASE PlaceRejected(id, t)
  BY <1>2, <1>3 DEF PlaceRejected
<1>4. CASE PlaceResting(id, t)
  BY <1>2, <1>4 DEF PlaceResting
<1>5. CASE PlaceMarket(id, t)
  <2> DEFINE row == Row(t, "open", MarginToBlock(t))
  <2>1. ReferencePrice(t) > 0 /\ quote > 0
    BY <1>5 DEF PlaceMarket, Accepted
  <2>2. row \in Order /\ row.quantity = t.quantity
    <3>1. row.quantity = t.quantity
      BY DEF Row
    <3>. QED  BY <2>1, <3>1, MarginToBlockInt, RowTyped DEF Status
  <2>3. FundsAfterBlocking(t) \in Fund
    BY FundsAfterBlockingTyped
  <2>4. Execute(id, row, FundsAfterBlocking(t))
    BY <1>5 DEF PlaceMarket
  <2> HIDE DEF row
  <2>. QED  BY <1>1, <2>1, <2>2, <2>3, <2>4, ExecuteCashFlow
<1>. QED  BY <1>3, <1>4, <1>5

LEMMA CashFlowStep ==
    ASSUME FlatInv, PriceInv, SharesInv, CashFlowInv, [Next]_vars, [ExactAverages]_vars
    PROVE  CashFlowInv'
<1>0. TypeOK /\ OpenOrdersTrade /\ IsFiniteSet(trades)
  BY DEF FlatInv, SharesInv
<1>1. CASE UNCHANGED vars
  BY <1>0, <1>1, NothingDealt DEF vars
<1>2. CASE Next /\ ExactAverages
  <2>1. ASSUME NEW id \in OrderIds, Place(id) PROVE CashFlowInv'
    BY <1>0, <1>2, <2>1, TicketsTyped, PlaceCashFlow DEF Place
  <2>2. ASSUME NEW id \in OrderIds, SquareOffPosition(id) PROVE CashFlowInv'
    <3>1. ClosingTicket("MIS") \in AnyTicket /\ ClosingTicket("MIS").quantity > 0
      BY <1>0, <2>2, ClosingTicketTyped DEF SquareOffPosition, Products
    <3>. QED  BY <1>0, <1>2, <2>2, <3>1, PlaceCashFlow DEF SquareOffPosition
  <2>3. ASSUME NEW id \in OrderIds, ProcessPending(id) PROVE CashFlowInv'
    <3>1. orders[id] \in Order /\ funds \in Fund
      BY <1>0 DEF TypeOK
    <3>2. /\ quote > 0 /\ id \notin trades /\ Execute(id, orders[id], funds)
          /\ orders[id].quantity > 0
      BY <1>0, <2>3 DEF ProcessPending, ShouldExecute, OpenOrdersTrade
    <3>. QED  BY <1>0, <1>2, <3>1, <3>2, ExecuteCashFlow
  <2>4. ASSUME NEW id \in OrderIds, NEW row, orders[id].status = "open",
               trades' = trades, orders' = [orders EXCEPT ![id] = row],
               UNCHANGED <<positions, expired>>
        PROVE  CashFlowInv'
    <3>1. id \notin trades
      BY <2>4 DEF PriceInv
    <3>2. \A other \in trades : orders'[other] = orders[other]
      BY <1>0, <2>4, <3>1 DEF TypeOK
    <3>. QED  BY <1>0, <2>4, <3>2, NothingDealt
  <2>5. ASSUME NEW id \in OrderIds, ModifyOrder(id) PROVE CashFlowInv'
    <3>1. PICK row \in Order :
             /\ orders[id].status = "open" /\ orders' = [orders EXCEPT ![id] = row]
             /\ UNCHANGED <<trades, positions, holding, funds, quote, phase, expired>>
      BY <1>0, <2>5, ModifiedOrder
    <3>. QED  BY <2>4, <3>1
  <2>6. ASSUME NEW id \in OrderIds, Cancel(id) \/ SquareOffOrder(id) PROVE CashFlowInv'
    <3>1. /\ orders[id].status = "open" /\ trades' = trades
          /\ orders' = [orders EXCEPT ![id] = [orders[id] EXCEPT !.status = "cancelled"]]
          /\ UNCHANGED <<positions, expired>>
      BY <2>6 DEF Cancel, SquareOffOrder
    <3>. QED  BY <2>4, <3>1
  <2>7. ASSUME UNCHANGED <<orders, trades>>, expired => expired',
               ~AutoReset /\ ~expired' =>
                 Ledger(positions'["NRML"]) = Ledger(positions["NRML"])
        PROVE  CashFlowInv'
    BY <1>0, <2>7, NothingDealt
  <2>8. CASE SettleCnc \/ CatchUpMis
    <3>1. positions'["NRML"] = positions["NRML"]
      BY <1>0, <2>8 DEF SettleCnc, CatchUpMis, TypeOK, Products
    <3>. QED  BY <2>7, <2>8, <3>1 DEF SettleCnc, CatchUpMis
  <2>9. ASSUME NEW p \in Products, SettleExpired(p) PROVE CashFlowInv'
    BY <2>7, <2>9 DEF SettleExpired
  <2>10. ASSUME NEW row \in Position, NEW quoted, NEW old
         PROVE  /\ Ledger([row EXCEPT !.ltp = quoted]) = Ledger(row)
                /\ Ledger([row EXCEPT !.stale = old]) = Ledger(row)
    BY DEF Ledger, Position
  <2>11. positions["NRML"] \in Position
    BY <1>0 DEF TypeOK, Products
  <2>12. ASSUME NEW p \in Products, UpdateMtm(p) PROVE CashFlowInv'
    <3>1. \/ positions'["NRML"] = positions["NRML"]
          \/ positions'["NRML"] = [positions["NRML"] EXCEPT !.ltp = quote]
      BY <1>0, <2>12 DEF UpdateMtm, TypeOK, Products
    <3>. QED  BY <2>7, <2>10, <2>11, <2>12, <3>1 DEF UpdateMtm
  <2>13. CASE ResetFunds
    BY <2>7, <2>13 DEF ResetFunds
  <2>14. CASE Midnight
    <3>1. positions'["NRML"]
            = [positions["NRML"] EXCEPT !.stale = positions["NRML"].row]
      BY <2>14 DEF Midnight, Products
    <3>2. expired => expired'
      BY <2>14 DEF Midnight
    <3>3. Ledger(positions'["NRML"]) = Ledger(positions["NRML"])
      BY <2>10, <2>11, <3>1
    <3>. QED  BY <2>7, <2>14, <3>2, <3>3 DEF Midnight
  <2>15. CASE OpenMarket \/ ReachSquareOff \/ MoveQuote
    BY <2>7, <2>15 DEF OpenMarket, ReachSquareOff, MoveQuote
  <2>. QED  BY <1>2, <2>1, <2>2, <2>3, <2>5, <2>6, <2>8, <2>9, <2>12, <2>13, <2>14, <2>15
            DEF Next, Jobs, Outside
<1>. QED  BY <1>1, <1>2

\* The profit a derivative row booked is the cash flow of its trades, for all
\* orders, prices and quantities, as long as no average price is rounded: the
\* rounding of an average, when shares are added to an open position, is the
\* only way the row and the trades can part.
THEOREM CashFlowCorrect ==
    Spec /\ [][ExactAverages]_vars => []ProfitIsCashFlow
<1>1. Init => CashFlowInv
  <2>. SUFFICES ASSUME Init PROVE CashFlowInv
    OBVIOUS
  <2>1. Dealt("BUY") = {} /\ Dealt("SELL") = {}
    BY DEF Init, Dealt
  <2>2. positions["NRML"] = NoPosition
    BY DEF Init, Products
  <2>3. Ledger(NoPosition) = 0
    BY DEF Ledger, NoPosition
  <2>. QED  BY <2>1, <2>2, <2>3, SumEmpty DEF CashFlowInv, TradedValue
<1>2. FlatInv /\ PriceInv /\ SharesInv /\ CashFlowInv /\ [Next]_vars /\ [ExactAverages]_vars
        => CashFlowInv'
  BY CashFlowStep
<1>3. TypeOK /\ SharesInv /\ CashFlowInv => ProfitIsCashFlow
  <2>. SUFFICES ASSUME TypeOK, SharesInv, CashFlowInv, ~AutoReset, ~expired
                PROVE  positions["NRML"].accumulated
                         = TradedValue("SELL") - TradedValue("BUY")
                             + positions["NRML"].quantity * positions["NRML"].average
    BY DEF ProfitIsCashFlow
  <2>1. PICK a \in Int, q \in Int, avg \in Int :
          /\ a = positions["NRML"].accumulated /\ q = positions["NRML"].quantity
          /\ avg = positions["NRML"].average
    BY DEF TypeOK, Position, Products
  <2>2. PICK bought \in Int, sold \in Int :
          bought = TradedValue("BUY") /\ sold = TradedValue("SELL")
    BY DealsTyped DEF Side, SharesInv
  <2>3. PICK held \in Int : held = q * avg
    OBVIOUS
  <2>4. a - held = sold - bought
    BY <2>1, <2>2, <2>3 DEF CashFlowInv, Ledger
  <2>. QED  BY <2>1, <2>2, <2>3, <2>4
<1>. QED  BY <1>1, <1>2, <1>3, TypeCorrect, FlatInvAlways, PriceInvAlways,
             SharesInvAlways, PTL DEF Spec

-----------------------------------------------------------------------------
(* Account and rows, while orders execute when they are placed *)

\* Only market orders, no delivery product, a quote service that answers:
\* nothing rests, and what is closed without a trade (catch-up, expiry)
\* releases just the margin its row holds.  The catch-up's clamp does nothing
\* because the margins of the other rows are not negative.
ImmediateOnly == OrderTypes = {"MARKET"} /\ "CNC" \notin Traded /\ ~QuoteFails

NothingRests == quote > 0 /\ \A id \in OrderIds : orders[id].status # "open"

MarginsNat == /\ positions["CNC"].quantity = 0
              /\ \A p \in Products : positions[p].margin \in Nat

BooksInv == NothingRests /\ MarginsNat /\ BooksAgree

LEMMA MarginToBlockNat ==
    ASSUME TypeOK, NEW t \in AnyTicket, ReferencePrice(t) > 0
    PROVE  MarginToBlock(t) \in Nat
<1> DEFINE price  == ReferencePrice(t)
           excess == t.quantity - Abs(positions[t.product].quantity)
<1>1. /\ t.product \in Products /\ t.quantity \in Nat
      /\ positions[t.product].quantity \in Int
  BY DEF TypeOK, AnyTicket, Position
<1>2. price \in Nat /\ Abs(positions[t.product].quantity) \in Nat
  BY <1>1, ReferencePriceInt, AbsNat
<1>3. ASSUME NEW n \in Nat PROVE Margin(t.product, n, price) \in Nat
  <2>1. n * price \in Nat /\ Leverage[t.product] \in Nat \ {0}
    BY <1>1, <1>2, LeverageAssumption
  <2>. QED  BY <2>1, RoundDivNat DEF Margin, MarginRequired
<1>4. excess <= 0 \/ excess \in Nat
  BY <1>1, <1>2
<1>. QED  BY <1>1, <1>3, <1>4 DEF MarginToBlock

\* Marking, or closing, one row of a book: what happens to the sum of margins.
LEMMA ClosingMargin ==
    ASSUME TypeOK, NEW p \in Products, positions[p].quantity # 0,
           positions' = [positions EXCEPT ![p] = ClosedRow(positions[p])]
    PROVE  /\ PositionMargin(positions') = PositionMargin(positions) - positions[p].margin
           /\ positions'[p].quantity = 0 /\ positions'[p].margin = 0
           /\ \A r \in Products \ {p} : positions'[r] = positions[r]
<1>1. \A r \in Products : /\ positions[r] \in Position
                          /\ positions[r].margin \in Int
                          /\ RowMargin(positions[r]) \in Int
  BY DEF TypeOK, Position, RowMargin
<1>2. positions'[p] = ClosedRow(positions[p])
  BY DEF TypeOK
<1>3. positions'[p].quantity = 0 /\ positions'[p].margin = 0
  BY <1>1, <1>2, ClosedRowCorrect
<1>4. \A r \in Products \ {p} : positions'[r] = positions[r]
  BY DEF TypeOK
<1>5. RowMargin(positions'[p]) = 0 /\ RowMargin(positions[p]) = positions[p].margin
  BY <1>3 DEF RowMargin
<1>6. PositionMargin(positions') = PositionMargin(positions) - positions[p].margin
  <2>1. CASE p = "CNC"
    BY <1>1, <1>4, <1>5, <2>1 DEF PositionMargin, Products
  <2>2. CASE p = "MIS"
    BY <1>1, <1>4, <1>5, <2>2 DEF PositionMargin, Products
  <2>3. CASE p = "NRML"
    BY <1>1, <1>4, <1>5, <2>3 DEF PositionMargin, Products
  <2>. QED  BY <2>1, <2>2, <2>3 DEF Products
<1>. QED  BY <1>3, <1>4, <1>6

\* The account after margin of a closed row is released with its profit.
LEMMA ReleaseAgrees ==
    ASSUME TypeOK, BooksAgree, NEW margin \in Int, NEW pnl \in Int,
           funds' = ReleaseMargin(funds, margin, pnl),
           PositionMargin(positions') = PositionMargin(positions) - margin
    PROVE  BooksAgree'
<1>1. funds.used \in Int /\ funds.available \in Int /\ funds.realized \in Int
  BY DEF TypeOK, Fund
<1>2. /\ funds'.used = funds.used - margin
      /\ funds'.available = funds.available + margin + pnl
      /\ funds'.realized = funds.realized + pnl
  BY DEF ReleaseMargin
<1>. QED  BY <1>1, <1>2, AmountAssumption DEF BooksAgree

LEMMA PlaceMarketAgrees ==
    ASSUME TypeOK, BooksInv, NEW id \in OrderIds, NEW t \in AnyTicket,
           t.product # "CNC", PlaceMarket(id, t)
    PROVE  BooksInv'
<1> DEFINE row  == Row(t, "open", MarginToBlock(t))
           fund == FundsAfterBlocking(t)
           net  == Net(positions[t.product], row, ExecutionPrice(row))
<1>1. /\ ReferencePrice(t) > 0 /\ quote > 0 /\ row \in Order
      /\ row.product = t.product /\ row.margin \in Nat /\ t.product \in Products
  <2>1. ReferencePrice(t) > 0 /\ quote > 0
    BY DEF PlaceMarket, Accepted
  <2>2. row \in Order
    BY <2>1, MarginToBlockInt, RowTyped DEF Status
  <2>3. row.product = t.product /\ row.margin = MarginToBlock(t)
    BY DEF Row
  <2>. QED  BY <2>1, <2>2, <2>3, MarginToBlockNat DEF AnyTicket
<1>2. fund \in Fund /\ Cash(fund) = Cash(funds) /\ fund.realized = funds.realized
  BY FundsAfterBlockingTyped, BlockingKeepsCash
<1>3. Execute(id, row, fund)
  BY DEF PlaceMarket
<1> HIDE DEF row, fund
<1>4. /\ positions' = [positions EXCEPT ![t.product] = net.position]
      /\ orders' = [orders EXCEPT ![id] =
           [row EXCEPT !.status = "complete", !.fill = ExecutionPrice(row)]]
      /\ funds' \in Fund /\ funds'.used = PositionMargin(positions')
      /\ Cash(funds') - Cash(fund) = funds'.realized - fund.realized
      /\ quote' = quote
  BY <1>1, <1>2, <1>3, ExecuteParts
<1>5. NothingRests'
  <2>1. [row EXCEPT !.status = "complete", !.fill = ExecutionPrice(row)].status = "complete"
    BY <1>1 DEF Order
  <2>. QED  BY <1>1, <1>4, <2>1 DEF BooksInv, NothingRests, TypeOK
<1>6. net.position.margin \in Nat
  <2>1. /\ positions[t.product] \in Position /\ positions[t.product].margin \in Nat
        /\ row.side \in Side /\ row.quantity \in Nat /\ ExecutionPrice(row) \in Int
    BY <1>1, ExecutionPriceNat DEF TypeOK, BooksInv, MarginsNat, Order
  <2>. QED  BY <1>1, <2>1, NetMarginNat
<1>7. MarginsNat'
  <2> HIDE DEF net
  <2>. QED  BY <1>1, <1>4, <1>6 DEF BooksInv, MarginsNat, TypeOK, Products
<1>8. BooksAgree'
  <2>1. /\ funds.available \in Int /\ funds.used \in Int /\ funds.realized \in Int
        /\ funds'.available \in Int /\ funds'.used \in Int /\ funds'.realized \in Int
    BY <1>4 DEF TypeOK, Fund
  <2>2. funds.available = Capital - funds.used + funds.realized
    BY DEF BooksInv, BooksAgree
  <2>3. (funds'.available + funds'.used) - (funds.available + funds.used)
          = funds'.realized - funds.realized
    BY <1>2, <1>4 DEF Cash
  <2>4. funds'.available = Capital - funds'.used + funds'.realized
    BY <2>1, <2>2, <2>3, AmountAssumption
  <2>. QED  BY <1>4, <2>4 DEF BooksAgree
<1>. QED  BY <1>5, <1>7, <1>8 DEF BooksInv

LEMMA CatchUpAgrees ==
    ASSUME TypeOK, BooksInv, CatchUpMis
    PROVE  BooksInv'
<1> DEFINE position == positions["MIS"]
           pnl      == SettlementPnl(position)
           after    == ReleaseMargin(funds, position.margin, pnl)
<1>1. position \in Position /\ position.margin \in Int /\ pnl \in Int
  BY ClosedRowCorrect DEF TypeOK, Products, Position
<1>2. /\ PositionMargin(positions') = PositionMargin(positions) - position.margin
      /\ positions'["MIS"].quantity = 0 /\ positions'["MIS"].margin = 0
      /\ \A r \in Products \ {"MIS"} : positions'[r] = positions[r]
  BY ClosingMargin DEF CatchUpMis, Products
<1>3. MarginsNat'
  BY <1>2 DEF BooksInv, MarginsNat, Products
<1>4. PositionMargin(positions') >= 0
  <2>1. \A r \in Products : RowMargin(positions'[r]) \in Nat
    BY <1>3 DEF MarginsNat, RowMargin
  <2>. QED  BY <2>1 DEF PositionMargin, Products
<1>5. after.used = PositionMargin(positions') /\ after \in Fund
  BY <1>1, <1>2, FundOperationsTyped DEF BooksInv, BooksAgree, ReleaseMargin, TypeOK
<1>6. funds' = after
  <2>1. ~(after.used < 0)
    <3>1. after.used \in Int
      BY <1>5 DEF Fund
    <3>. QED  BY <1>4, <1>5, <3>1
  <2>2. funds' = [after EXCEPT !.used = after.used]
    BY <2>1 DEF CatchUpMis
  <2> HIDE DEF after
  <2>. QED  BY <1>5, <2>2 DEF Fund
<1>7. BooksAgree'
  BY <1>1, <1>2, <1>6, ReleaseAgrees DEF BooksInv
<1>. QED  BY <1>3, <1>7 DEF BooksInv, NothingRests, CatchUpMis

LEMMA SettleExpiredAgrees ==
    ASSUME TypeOK, BooksInv, NEW p \in Products, SettleExpired(p)
    PROVE  BooksInv'
<1>1. /\ positions[p].margin \in Int /\ SettlementPnl(positions[p]) \in Int
      /\ positions[p].quantity # 0
  BY ClosedRowCorrect DEF TypeOK, Position, SettleExpired
<1>2. /\ PositionMargin(positions') = PositionMargin(positions) - positions[p].margin
      /\ positions'[p].quantity = 0 /\ positions'[p].margin = 0
      /\ \A r \in Products \ {p} : positions'[r] = positions[r]
  BY <1>1, ClosingMargin DEF SettleExpired
<1>3. MarginsNat'
  BY <1>2 DEF BooksInv, MarginsNat, Products
<1>4. BooksAgree'
  BY <1>1, <1>2, ReleaseAgrees DEF BooksInv, SettleExpired
<1>. QED  BY <1>3, <1>4 DEF BooksInv, NothingRests, SettleExpired

\* Steps that leave the account, and every row's quantity and margin, alone.
LEMMA UntouchedAgree ==
    ASSUME TypeOK, BooksInv, funds' = funds, orders' = orders, quote' > 0,
           \A r \in Products : /\ positions'[r].quantity = positions[r].quantity
                               /\ positions'[r].margin = positions[r].margin
    PROVE  BooksInv'
<1>1. PositionMargin(positions') = PositionMargin(positions)
  BY DEF PositionMargin, RowMargin, Products
<1>. QED  BY <1>1 DEF BooksInv, NothingRests, MarginsNat, BooksAgree, Products

LEMMA BooksInvAlways ==
    ASSUME ImmediateOnly
    PROVE  Spec => []BooksInv
<1>1. Init => BooksInv
  <2>. SUFFICES ASSUME Init PROVE BooksInv
    OBVIOUS
  <2>1. NothingRests
    BY PriceAssumption DEF Init, NothingRests, NoOrder
  <2>2. MarginsNat
    BY DEF Init, MarginsNat, NoPosition, Products
  <2>3. BooksAgree
    BY AmountAssumption DEF Init, BooksAgree, PositionMargin, RowMargin, NoPosition,
                            Products, FreshFund
  <2>. QED  BY <2>1, <2>2, <2>3 DEF BooksInv
<1>2. TypeOK /\ BooksInv /\ [Next]_vars => BooksInv'
  <2>. SUFFICES ASSUME TypeOK, BooksInv, [Next]_vars PROVE BooksInv'
    OBVIOUS
  <2>0. /\ quote > 0 /\ positions["CNC"].quantity = 0
        /\ \A id \in OrderIds : orders[id].status # "open"
    BY DEF BooksInv, NothingRests, MarginsNat
  <2>1. ASSUME NEW id \in OrderIds, Place(id) PROVE BooksInv'
    <3>1. PICK t \in Ticket : \/ PlaceRejected(id, t)
                              \/ PlaceResting(id, t)
                              \/ PlaceMarket(id, t)
      BY <2>1 DEF Place
    <3>2. t \in AnyTicket /\ t.product # "CNC" /\ t.type = "MARKET"
      BY <3>1, TicketsTyped DEF Ticket, ImmediateOnly
    <3>. QED  BY <2>0, <3>1, <3>2, PlaceMarketAgrees
              DEF PlaceRejected, CncSellRejected, PlaceResting
  <2>2. ASSUME NEW id \in OrderIds, SquareOffPosition(id) PROVE BooksInv'
    <3>1. ClosingTicket("MIS") \in AnyTicket
      BY ClosingTicketTyped DEF Products
    <3>2. ClosingTicket("MIS").product = "MIS" /\ ClosingTicket("MIS").type = "MARKET"
      BY DEF ClosingTicket
    <3>. QED  BY <2>0, <2>2, <3>1, <3>2, PlaceMarketAgrees DEF SquareOffPosition, PlaceResting
  <2>3. ASSUME NEW id \in OrderIds,
               \/ ModifyOrder(id) \/ Cancel(id) \/ ProcessPending(id) \/ SquareOffOrder(id)
        PROVE  FALSE
    BY <2>0, <2>3 DEF ModifyOrder, Modify, Cancel, ProcessPending, SquareOffOrder
  <2>4. CASE SettleCnc
    <3>1. /\ funds' = funds /\ orders' = orders /\ quote' = quote
          /\ positions' = [positions EXCEPT !["CNC"] = NoPosition]
      BY <2>0, <2>4 DEF SettleCnc
    <3>2. /\ positions'["CNC"] = NoPosition
          /\ \A r \in Products \ {"CNC"} : positions'[r] = positions[r]
      BY <3>1 DEF TypeOK, Products
    <3>3. PositionMargin(positions') = PositionMargin(positions)
      BY <2>0, <3>2 DEF PositionMargin, RowMargin, NoPosition, Products
    <3>4. MarginsNat'
      BY <3>2 DEF BooksInv, MarginsNat, NoPosition, Products
    <3>. QED  BY <3>1, <3>3, <3>4 DEF BooksInv, NothingRests, BooksAgree
  <2>5. CASE CatchUpMis
    BY <2>5, CatchUpAgrees
  <2>6. ASSUME NEW p \in Products, SettleExpired(p) PROVE BooksInv'
    BY <2>6, SettleExpiredAgrees
  <2>7. ASSUME NEW p \in Products, UpdateMtm(p) PROVE BooksInv'
    BY <2>0, <2>7, UpdateMtmParts, UntouchedAgree DEF UpdateMtm
  <2>8. CASE ResetFunds
    <3>1. /\ orders' = orders /\ quote' = quote /\ funds' = FreshFund(Capital)
          /\ \A r \in Products : positions'[r] = NoPosition
      BY <2>8 DEF ResetFunds
    <3>2. MarginsNat' /\ NothingRests'
      BY <2>0, <3>1 DEF MarginsNat, NothingRests, NoPosition, Products
    <3>3. BooksAgree'
      BY <3>1, AmountAssumption DEF BooksAgree, PositionMargin, RowMargin, NoPosition,
                                    Products, FreshFund
    <3>. QED  BY <3>2, <3>3 DEF BooksInv
  <2>9. CASE Midnight
    BY <2>0, <2>9, MidnightParts, UntouchedAgree DEF Midnight
  <2>10. CASE MoveQuote
    <3>1. quote' > 0
      BY <2>10, PriceAssumption DEF MoveQuote, ImmediateOnly
    <3>. QED  BY <2>10, <3>1, UntouchedAgree DEF MoveQuote
  <2>11. CASE OpenMarket \/ ReachSquareOff \/ UNCHANGED vars
    BY <2>0, <2>11, UntouchedAgree DEF OpenMarket, ReachSquareOff, vars
  <2>. QED  BY <2>1, <2>2, <2>3, <2>4, <2>5, <2>6, <2>7, <2>8, <2>9, <2>10, <2>11
            DEF Next, Jobs, Outside
<1>. QED  BY <1>1, <1>2, TypeCorrect, PTL DEF Spec

\* With market orders only, the account and the rows agree at every moment,
\* for every price, leverage and rounding.
THEOREM BooksCorrect ==
    ASSUME ImmediateOnly
    PROVE  Spec => []BooksAgree
<1>1. BooksInv => BooksAgree
  BY DEF BooksInv
<1>. QED  BY <1>1, BooksInvAlways, PTL

-----------------------------------------------------------------------------
(* Profit and margin, while orders execute when they are placed *)

\* Prices at which even the last share of an order that reverses a position
\* needs a unit of margin.  Below them a margin can round to nothing, and the
\* profit of a row without margin is not credited.
AmplePrices ==
    \A price \in Prices, quantity \in Quantities, p \in Products :
        Leverage[p] * quantity <= price

\* Neither property is inductive: a row could hold too little margin for its
\* shares, and lose it all in a reduction.  A unit for every share is enough.
ProfitInv == /\ positions["CNC"] = NoPosition
             /\ \A p \in Products : Margined(positions[p])
             /\ ProfitAgrees

LEMMA AmpleMargin ==
    ASSUME AmplePrices, TypeOK, NEW t \in AnyTicket, t.type = "MARKET", quote > 0, quote \in Prices,
           t.quantity > 0,
           \/ t.quantity \in Quantities
           \/ /\ Opposes(t.side, positions[t.product])
              /\ t.quantity <= Abs(positions[t.product].quantity),
           \/ ~Opposes(t.side, positions[t.product])
           \/ t.quantity > Abs(positions[t.product].quantity)
    PROVE  t.quantity <= MarginToBlock(t)
<1> DEFINE q      == t.quantity
           old    == Abs(positions[t.product].quantity)
           excess == q - old
           lev    == Leverage[t.product]
<1>1. /\ t.product \in Products /\ q \in Nat \ {0} /\ lev \in Nat \ {0} /\ quote \in Nat
      /\ positions[t.product].quantity \in Int
  BY LeverageAssumption, QuoteNat DEF AnyTicket, TypeOK, Position
<1>2. old \in Nat
  BY <1>1, AbsNat
<1>3. ReferencePrice(t) = quote
  BY DEF ReferencePrice
<1>4. q \in Quantities
  BY <1>1, <1>2
<1>5. lev * q <= quote
  BY <1>1, <1>4 DEF AmplePrices
<1>6. ASSUME NEW n \in Nat \ {0} PROVE q <= Margin(t.product, n, quote)
  <2>1. lev * q \in Nat /\ n * quote \in Nat
    BY <1>1
  <2>2. q * lev = lev * q
    BY <1>1
  <2>3. q * lev <= n * quote
    <3>1. quote <= n * quote
      BY <1>1
    <3>. QED  BY <1>1, <1>5, <2>1, <2>2, <3>1
  <2>4. RoundDiv(n * quote, lev) >= q
    BY <1>1, <2>1, <2>3, RoundDivAtLeast
  <2>5. RoundDiv(n * quote, lev) \in Int
    BY <1>1, <2>1, RoundDivInt
  <2>. QED  BY <1>1, <2>4, <2>5 DEF Margin, MarginRequired
<1>7. CASE ~Opposes(t.side, positions[t.product])
  <2>1. MarginToBlock(t) = Margin(t.product, q, quote)
    BY <1>3, <1>7 DEF MarginToBlock
  <2>. QED  BY <1>1, <1>6, <2>1
<1>8. CASE Opposes(t.side, positions[t.product]) /\ q > old
  <2>1. excess \in Nat \ {0}
    BY <1>1, <1>2, <1>8
  <2>2. MarginToBlock(t) = Margin(t.product, excess, quote)
    BY <1>3, <1>8, <2>1 DEF MarginToBlock
  <2>. QED  BY <1>6, <2>1, <2>2
<1>. QED  BY <1>7, <1>8

LEMMA PlaceMarketProfit ==
    ASSUME AmplePrices, TypeOK, ProfitInv, NEW id \in OrderIds, NEW t \in AnyTicket,
           t.product # "CNC", t.type = "MARKET", quote > 0, quote \in Prices, t.quantity > 0,
           \/ t.quantity \in Quantities
           \/ /\ Opposes(t.side, positions[t.product])
              /\ t.quantity <= Abs(positions[t.product].quantity),
           PlaceMarket(id, t)
    PROVE  ProfitInv'
<1> DEFINE p    == t.product
           row  == Row(t, "open", MarginToBlock(t))
           fund == FundsAfterBlocking(t)
           net  == Net(positions[p], row, ExecutionPrice(row))
<1>1. /\ p \in Products /\ row \in Order /\ row.product = p /\ row.side = t.side
      /\ row.quantity = t.quantity /\ row.margin = MarginToBlock(t)
  <2>1. row \in Order
    BY MarginToBlockInt, RowTyped DEF PlaceMarket, Accepted, Status
  <2>. QED  BY <2>1 DEF Row, AnyTicket
<1>2. fund \in Fund /\ fund.realized = funds.realized
  BY FundsAfterBlockingTyped, BlockingKeepsCash
<1>3. Execute(id, row, fund)
  BY DEF PlaceMarket
<1>4. /\ positions[p] \in Position /\ ExecutionPrice(row) \in Int
      /\ row.side \in Side /\ row.quantity \in Nat /\ row.margin \in Int
  BY <1>1, ExecutionPriceNat DEF TypeOK, Order
<1>5. NetResult(positions[p], row, net)
  BY <1>4, NetCorrect
<1>6. /\ net.position.accumulated = positions[p].accumulated + net.pnl
      /\ Margined(net.position) /\ (net.release > 0 \/ net.pnl = 0)
  <2>1. ~Opposes(row.side, positions[p]) \/ row.quantity > Abs(positions[p].quantity)
           => row.quantity <= row.margin
    BY <1>1, AmpleMargin
  <2>2. Margined(positions[p]) /\ row.quantity > 0
    BY <1>1 DEF ProfitInv
  <2> HIDE DEF row
  <2>. QED  BY <1>4, <2>1, <2>2, NetProfit
<1>7. /\ positions' = [positions EXCEPT ![p] = net.position]
      /\ funds'.realized = funds.realized + net.pnl
  <2> DEFINE released == IF net.release > 0 THEN ReleaseMargin(fund, net.release, net.pnl)
                                            ELSE fund
             book     == [positions EXCEPT ![p] = net.position]
  <2>1. positions' = book /\ funds' = ReconcileMargin(released, PositionMargin(book))
    BY <1>1, <1>3 DEF Execute
  <2>2. net.release \in Int /\ net.pnl \in Int /\ net.position \in Position
    BY <1>5 DEF NetResult
  <2>3. released.realized = funds.realized + net.pnl
    BY <1>2, <1>6, <2>2 DEF ReleaseMargin, Fund, TypeOK
  <2> HIDE DEF released, book
  <2>4. funds'.realized = released.realized
    BY <2>1 DEF ReconcileMargin
  <2>. QED  BY <2>1, <2>3, <2>4 DEF book
<1>8. net.pnl \in Int
  BY <1>5 DEF NetResult
<1> HIDE DEF net, row, fund
<1>9. positions'[p] = net.position /\ \A r \in Products \ {p} : positions'[r] = positions[r]
  BY <1>1, <1>7 DEF TypeOK
<1>10. ProfitAgrees'
  <2>1. /\ \A r \in Products : positions[r].accumulated \in Int
        /\ funds.realized \in Int
    BY DEF TypeOK, Position, Fund
  <2>2. p \in {"MIS", "NRML"}
    BY <1>1 DEF Products
  <2>3. CASE p = "MIS"
    BY <1>6, <1>7, <1>8, <1>9, <2>1, <2>3 DEF ProfitInv, ProfitAgrees, Products
  <2>4. CASE p = "NRML"
    BY <1>6, <1>7, <1>8, <1>9, <2>1, <2>4 DEF ProfitInv, ProfitAgrees, Products
  <2>. QED  BY <2>2, <2>3, <2>4
<1>11. positions'["CNC"] = NoPosition /\ \A r \in Products : Margined(positions'[r])
  BY <1>1, <1>6, <1>9 DEF ProfitInv, Products
<1>12. \A r \in Products : Margined(positions[r])'
  BY <1>11 DEF Margined
<1>. QED  BY <1>10, <1>11, <1>12 DEF ProfitInv

\* A row that is closed without a trade: catch-up and expiry.
LEMMA ClosingProfit ==
    ASSUME TypeOK, ProfitInv, NEW p \in Products, p # "CNC",
           positions' = [positions EXCEPT ![p] = ClosedRow(positions[p])],
           funds'.realized = funds.realized + SettlementPnl(positions[p])
    PROVE  ProfitInv'
<1>1. positions[p] \in Position /\ SettlementPnl(positions[p]) \in Int
  BY ClosedRowCorrect DEF TypeOK
<1>2. positions'[p] = ClosedRow(positions[p])
      /\ \A r \in Products \ {p} : positions'[r] = positions[r]
  BY DEF TypeOK
<1>3. /\ ClosedRow(positions[p]).accumulated
            = positions[p].accumulated + SettlementPnl(positions[p])
      /\ Margined(ClosedRow(positions[p]))
  <2>1. PICK row \in Position : row = positions[p]
    BY <1>1
  <2>2. PICK pnl \in Int : pnl = SettlementPnl(row)
    BY <1>1, <2>1
  <2>3. [row EXCEPT !.row = TRUE, !.quantity = 0, !.average = row.average, !.margin = 0,
                    !.ltp = row.ltp, !.accumulated = row.accumulated + pnl].accumulated
          = row.accumulated + pnl
    BY DEF Position
  <2>4. ClosedRow(row).accumulated = row.accumulated + pnl
    BY <2>2, <2>3 DEF ClosedRow, NewRow
  <2>5. ClosedRow(row).quantity = 0 /\ ClosedRow(row).margin = 0
    BY ClosedRowCorrect
  <2>6. Margined(ClosedRow(row))
    BY <2>5 DEF Margined, Abs
  <2>. QED  BY <2>1, <2>2, <2>4, <2>6
<1>4. ProfitAgrees'
  <2>1. /\ \A r \in Products : positions[r].accumulated \in Int
        /\ funds.realized \in Int
    BY DEF TypeOK, Position, Fund
  <2>2. CASE p = "MIS"
    BY <1>1, <1>2, <1>3, <2>1, <2>2 DEF ProfitInv, ProfitAgrees, Products
  <2>3. CASE p = "NRML"
    BY <1>1, <1>2, <1>3, <2>1, <2>3 DEF ProfitInv, ProfitAgrees, Products
  <2>. QED  BY <2>2, <2>3 DEF Products
<1>5. positions'["CNC"] = NoPosition /\ \A r \in Products : Margined(positions'[r])
  BY <1>2, <1>3 DEF ProfitInv, Products
<1>6. \A r \in Products : Margined(positions[r])'
  BY <1>5 DEF Margined
<1>. QED  BY <1>4, <1>5, <1>6 DEF ProfitInv

\* Steps that book nothing.
LEMMA UntouchedProfit ==
    ASSUME TypeOK, ProfitInv, funds'.realized = funds.realized,
           positions'["CNC"] = NoPosition,
           \A r \in Products : /\ positions'[r].quantity = positions[r].quantity
                               /\ positions'[r].margin = positions[r].margin
                               /\ positions'[r].accumulated = positions[r].accumulated
    PROVE  ProfitInv'
<1>1. \A r \in Products : Margined(positions[r])'
  BY DEF ProfitInv, Margined
<1>. QED  BY <1>1 DEF ProfitInv, ProfitAgrees, Products

LEMMA ProfitInvAlways ==
    ASSUME ImmediateOnly, AmplePrices
    PROVE  Spec => []ProfitInv
<1>1. Init => ProfitInv
  <2>. SUFFICES ASSUME Init PROVE ProfitInv
    OBVIOUS
  <2>1. \A p \in Products : positions[p] = NoPosition
    BY DEF Init
  <2>2. Margined(NoPosition)
    BY DEF Margined, NoPosition, Abs
  <2>3. ProfitAgrees
    BY <2>1 DEF Init, FreshFund, ProfitAgrees, NoPosition, Products
  <2>. QED  BY <2>1, <2>2, <2>3 DEF ProfitInv, Products
<1>2. TypeOK /\ BooksInv /\ ProfitInv /\ [Next]_vars => ProfitInv'
  <2>. SUFFICES ASSUME TypeOK, BooksInv, ProfitInv, [Next]_vars PROVE ProfitInv'
    OBVIOUS
  <2>0. /\ quote > 0 /\ quote \in Prices
        /\ \A id \in OrderIds : orders[id].status # "open"
        /\ positions["CNC"] = NoPosition
    BY DEF BooksInv, NothingRests, TypeOK, ProfitInv
  <2>1. ASSUME NEW id \in OrderIds, Place(id) PROVE ProfitInv'
    <3>1. PICK t \in Ticket : \/ PlaceRejected(id, t)
                              \/ PlaceResting(id, t)
                              \/ PlaceMarket(id, t)
      BY <2>1 DEF Place
    <3>2. /\ t \in AnyTicket /\ t.product # "CNC" /\ t.type = "MARKET"
          /\ t.quantity > 0 /\ t.quantity \in Quantities
      BY <3>1, TicketsTyped DEF Ticket, ImmediateOnly
    <3>. QED  BY <2>0, <3>1, <3>2, PlaceMarketProfit
              DEF PlaceRejected, CncSellRejected, PlaceResting
  <2>2. ASSUME NEW id \in OrderIds, SquareOffPosition(id) PROVE ProfitInv'
    <3> DEFINE t == ClosingTicket("MIS")
    <3>1. t \in AnyTicket /\ t.quantity > 0
      BY <2>2, ClosingTicketTyped DEF Products, SquareOffPosition
    <3>2. t.product = "MIS" /\ t.type = "MARKET" /\ t.quantity = Abs(positions["MIS"].quantity)
      BY DEF ClosingTicket
    <3>3. Opposes(t.side, positions["MIS"])
      BY <2>2 DEF ClosingTicket, Opposes, SquareOffPosition, TypeOK, Position, Products
    <3>4. PlaceMarket(id, t)
      BY <2>0, <2>2, <3>2 DEF SquareOffPosition, PlaceResting
    <3>5. t.quantity <= Abs(positions["MIS"].quantity)
      BY <3>1, <3>2 DEF AnyTicket
    <3> HIDE DEF t
    <3>. QED  BY <2>0, <3>1, <3>2, <3>3, <3>4, <3>5, PlaceMarketProfit
  <2>3. ASSUME NEW id \in OrderIds,
               \/ ModifyOrder(id) \/ Cancel(id) \/ ProcessPending(id) \/ SquareOffOrder(id)
        PROVE  FALSE
    BY <2>0, <2>3 DEF ModifyOrder, Modify, Cancel, ProcessPending, SquareOffOrder
  <2>4. CASE SettleCnc
    BY <2>0, <2>4 DEF SettleCnc, NoPosition
  <2>5. CASE CatchUpMis
    <3> DEFINE after == ReleaseMargin(funds, positions["MIS"].margin,
                                      SettlementPnl(positions["MIS"]))
    <3>1. funds' = [after EXCEPT !.used = IF after.used < 0 THEN 0 ELSE after.used]
      BY <2>5 DEF CatchUpMis
    <3>2. funds'.realized = funds.realized + SettlementPnl(positions["MIS"])
      BY <3>1 DEF ReleaseMargin
    <3>. QED  BY <2>5, <3>2, ClosingProfit DEF CatchUpMis, Products
  <2>6. ASSUME NEW p \in Products, SettleExpired(p) PROVE ProfitInv'
    <3>1. p # "CNC"
      BY <2>0, <2>6 DEF SettleExpired, NoPosition
    <3>2. funds'.realized = funds.realized + SettlementPnl(positions[p])
      BY <2>6 DEF SettleExpired, ReleaseMargin
    <3>. QED  BY <2>6, <3>1, <3>2, ClosingProfit DEF SettleExpired
  <2>7. ASSUME NEW p \in Products, UpdateMtm(p) PROVE ProfitInv'
    <3>1. p # "CNC"
      BY <2>0, <2>7 DEF UpdateMtm, NoPosition
    <3>2. positions' = [positions EXCEPT ![p] = [positions[p] EXCEPT !.ltp = quote]]
          /\ funds' = funds
      BY <2>7 DEF UpdateMtm
    <3>3. positions'[p].accumulated = positions[p].accumulated
          /\ \A r \in Products \ {p} : positions'[r] = positions[r]
      BY <3>2 DEF TypeOK, Position
    <3>4. \A r \in Products : /\ positions'[r].quantity = positions[r].quantity
                              /\ positions'[r].margin = positions[r].margin
      BY <2>7, UpdateMtmParts
    <3>. QED  BY <2>0, <3>1, <3>2, <3>3, <3>4, UntouchedProfit DEF Products
  <2>8. CASE ResetFunds
    <3>1. funds' = FreshFund(Capital) /\ \A r \in Products : positions'[r] = NoPosition
      BY <2>8 DEF ResetFunds
    <3>2. \A r \in Products : Margined(positions[r])'
      BY <3>1 DEF Margined, NoPosition, Abs
    <3>3. ProfitAgrees'
      BY <3>1 DEF FreshFund, ProfitAgrees, NoPosition, Products
    <3>. QED  BY <3>1, <3>2, <3>3 DEF ProfitInv, Products
  <2>9. CASE Midnight
    <3>1. /\ positions' = [r \in Products |-> [positions[r] EXCEPT !.stale = positions[r].row]]
          /\ funds' = funds
      BY <2>9 DEF Midnight
    <3>2. \A r \in Products : positions'[r].accumulated = positions[r].accumulated
      BY <3>1 DEF TypeOK, Position
    <3>3. positions'["CNC"] = NoPosition
      <4>1. NoPosition.row = FALSE /\ NoPosition.stale = FALSE
        BY DEF NoPosition
      <4>2. PICK row \in Position : row = NoPosition
        BY <2>0 DEF TypeOK, Products
      <4>3. [row EXCEPT !.stale = FALSE] = row
        BY <4>1, <4>2 DEF Position
      <4>4. positions'["CNC"] = [positions["CNC"] EXCEPT !.stale = positions["CNC"].row]
        BY <3>1 DEF Products
      <4>. QED  BY <2>0, <4>1, <4>2, <4>3, <4>4
    <3>. QED  BY <2>9, <3>1, <3>2, <3>3, MidnightParts, UntouchedProfit
  <2>10. CASE OpenMarket \/ ReachSquareOff \/ MoveQuote \/ UNCHANGED vars
    BY <2>0, <2>10, UntouchedProfit DEF OpenMarket, ReachSquareOff, MoveQuote, vars
  <2>. QED  BY <2>1, <2>2, <2>3, <2>4, <2>5, <2>6, <2>7, <2>8, <2>9, <2>10
            DEF Next, Jobs, Outside
<1>. QED  BY <1>1, <1>2, TypeCorrect, BooksInvAlways, PTL DEF Spec

\* With market orders only, and prices at which no margin rounds to nothing,
\* the account has booked exactly what the rows have: opened, added to,
\* reduced, closed, reversed, caught up or expired.
THEOREM ProfitCorrect ==
    ASSUME ImmediateOnly, AmplePrices
    PROVE  Spec => []ProfitAgrees
<1>1. ProfitInv => ProfitAgrees
  BY DEF ProfitInv
<1>. QED  BY <1>1, ProfitInvAlways, PTL

\* And no position is held without margin: reductions and reversals, which
\* share a margin out and round it, leave some for every share.
THEOREM MarginedCorrect ==
    ASSUME ImmediateOnly, AmplePrices
    PROVE  Spec => []OpenPositionsAreMargined
<1>1. TypeOK /\ ProfitInv => OpenPositionsAreMargined
  <2>. SUFFICES ASSUME TypeOK, ProfitInv, NEW p \in Products, positions[p].quantity # 0
                PROVE  positions[p].margin > 0
    BY DEF OpenPositionsAreMargined
  <2>1. positions[p].quantity \in Int /\ positions[p].margin \in Int
    BY DEF TypeOK, Position
  <2>2. Abs(positions[p].quantity) <= positions[p].margin
    BY DEF ProfitInv, Margined
  <2>. QED  BY <2>1, <2>2 DEF Abs
<1>. QED  BY <1>1, TypeCorrect, ProfitInvAlways, PTL
=================================================================================
