--------------------------- MODULE SandboxNettingProofs --------------------------
(***************************************************************************)
(* Lemmas about the account and netting operators, for the modules that    *)
(* prove theorems of the engine and of its threads.                        *)
(***************************************************************************)
EXTENDS SandboxNetting, FiniteSetsExt, FiniteSetTheorems, TLAPS

-----------------------------------------------------------------------------
(* Account and netting operators *)

\* Rounding to the smallest unit stays in the integers.
LEMMA RoundDivInt ==
    ASSUME NEW a \in Int, NEW b \in Nat \ {0}
    PROVE  RoundDiv(a, b) \in Int
BY DEF RoundDiv

\* The magnitude of an integer is a natural number, zero only for zero.
LEMMA AbsNat ==
    ASSUME NEW n \in Int
    PROVE  /\ Abs(n) \in Nat
           /\ n # 0 => Abs(n) \in Nat \ {0}
BY DEF Abs

\* Every fund operation turns a fund row into a fund row.
LEMMA FundOperationsTyped ==
    ASSUME NEW fund \in Fund, NEW amount \in Int, NEW pnl \in Int
    PROVE  /\ BlockMargin(fund, amount) \in Fund
           /\ ReleaseMargin(fund, amount, pnl) \in Fund
           /\ TransferMarginToHoldings(fund, amount) \in Fund
           /\ CreditSaleProceeds(fund, amount) \in Fund
           /\ ReconcileMargin(fund, amount) \in Fund
BY DEF Fund, BlockMargin, ReleaseMargin, TransferMarginToHoldings,
       CreditSaleProceeds, ReconcileMargin

\* What each fund operation does to the cash of the account: only booked
\* profit, settlements and sale proceeds move it.
LEMMA FundOperationsCash ==
    ASSUME NEW fund \in Fund, NEW amount \in Int, NEW pnl \in Int
    PROVE  /\ Cash(BlockMargin(fund, amount)) = Cash(fund)
           /\ Cash(ReleaseMargin(fund, amount, pnl)) = Cash(fund) + pnl
           /\ Cash(TransferMarginToHoldings(fund, amount)) = Cash(fund) - amount
           /\ Cash(CreditSaleProceeds(fund, amount)) = Cash(fund) + amount
           /\ Cash(ReconcileMargin(fund, amount)) = Cash(fund)
           /\ BlockMargin(fund, amount).realized = fund.realized
           /\ ReleaseMargin(fund, amount, pnl).realized = fund.realized + pnl
           /\ TransferMarginToHoldings(fund, amount).realized = fund.realized
           /\ CreditSaleProceeds(fund, amount).realized = fund.realized
           /\ ReconcileMargin(fund, amount).realized = fund.realized
           /\ ReconcileMargin(fund, amount).used = amount
BY DEF Fund, Cash, BlockMargin, ReleaseMargin, TransferMarginToHoldings,
       CreditSaleProceeds, ReconcileMargin

\* Profit on closed shares is an integer amount.
LEMMA RealizedPnlInt ==
    ASSUME NEW q \in Int, NEW avg \in Int, NEW closed \in Int, NEW price \in Int
    PROVE  RealizedPnl(q, avg, closed, price) \in Int
BY DEF RealizedPnl

\* A row rebuilt by an execution is a row.
LEMMA NewRowTyped ==
    ASSUME NEW position \in Position, NEW q \in Int, NEW average \in Int,
           NEW margin \in Int, NEW price \in Int, NEW pnl \in Int
    PROVE  LET row == NewRow(position, q, average, margin, price, pnl) IN
           /\ row \in Position
           /\ row.quantity = q
           /\ row.margin = margin
<1>1. position.accumulated + pnl \in Int
  BY DEF Position
<1>2. ASSUME NEW a \in Int
      PROVE  LET row == [position EXCEPT !.row = TRUE, !.quantity = q,
                           !.average = average, !.margin = margin, !.ltp = price,
                           !.accumulated = a]
             IN  /\ row \in Position
                 /\ row.quantity = q
                 /\ row.margin = margin
  BY DEF Position
<1>. QED  BY <1>1, <1>2 DEF NewRow

\* Netting an execution into a position row yields a row, an amount to
\* release and a profit; the quantity moves by exactly what was traded, and a
\* row that ends flat holds no margin, if the order traded something.
NetResult(position, order, net) ==
    /\ net \in [position : Position, release : Int, pnl : Int]
    /\ net.position \in Position
    /\ net.release \in Int
    /\ net.pnl \in Int
    /\ net.position.quantity = position.quantity + Signed(order.side, order.quantity)
    /\ order.quantity > 0 /\ net.position.quantity = 0 => net.position.margin = 0

LEMMA NetCorrect ==
    ASSUME NEW position \in Position, NEW order, NEW price \in Int,
           order.side \in Side, order.quantity \in Nat, order.margin \in Int
    PROVE  NetResult(position, order, Net(position, order, price))
<1> DEFINE old    == Abs(position.quantity)
           signed == Signed(order.side, order.quantity)
           net    == Net(position, order, price)
<1>0. /\ position.quantity \in Int /\ position.average \in Int
      /\ position.margin \in Int
      /\ order.quantity \in Nat /\ order.quantity \in Int /\ order.margin \in Int
      /\ order.side \in {"BUY", "SELL"}
  BY DEF Position, Side
<1>a. old \in Nat /\ old \in Int /\ signed \in Int
  BY <1>0 DEF Abs, Signed
<1>b. RealizedPnl(position.quantity, position.average, old, price) \in Int
  BY <1>0, <1>a, RealizedPnlInt
<1>c. RealizedPnl(position.quantity, position.average, order.quantity, price) \in Int
  BY <1>0, RealizedPnlInt
<1>1. CASE position.quantity = 0
  <2>1. net = Start(position, order, price)
    BY <1>1, <1>0 DEF Net, Opposes
  <2>2. LET row == NewRow(position, signed, price, order.margin, price, 0)
        IN  row \in Position /\ row.quantity = signed /\ row.margin = order.margin
    BY <1>0, <1>a, NewRowTyped
  <2>3. order.quantity > 0 => signed # 0
    BY <1>0 DEF Signed
  <2>. QED  BY <2>1, <2>2, <2>3, <1>a, <1>0, <1>1 DEF Start, Netted, NetResult
<1>2. CASE position.quantity # 0 /\ ~Opposes(order.side, position)
  <2> DEFINE average == RoundDiv(old * position.average + order.quantity * price,
                                 old + order.quantity)
  <2>1. net = Add(position, order, price)
    BY <1>2, <1>0 DEF Net
  <2>2. old + order.quantity \in Nat \ {0}
    BY <1>2, <1>0 DEF Abs
  <2>3. old * position.average + order.quantity * price \in Int
    BY <1>0, <1>a
  <2>4. average \in Int
    BY <2>2, <2>3, RoundDivInt
  <2>5. position.quantity + signed \in Int /\ position.margin + order.margin \in Int
    BY <1>0, <1>a
  <2>6. LET row == NewRow(position, position.quantity + signed, average,
                          position.margin + order.margin, price, 0)
        IN  row \in Position /\ row.quantity = position.quantity + signed
    BY <2>4, <2>5, NewRowTyped
  <2>7. position.quantity + signed # 0
    BY <1>0, <1>2 DEF Opposes, Signed
  <2>. QED  BY <2>1, <2>6, <2>7 DEF Add, Netted, NetResult
<1>3. CASE Opposes(order.side, position) /\ order.quantity = old
  <2> DEFINE pnl == RealizedPnl(position.quantity, position.average,
                                order.quantity, price)
  <2>1. net = Close(position, order, price)
    BY <1>3, <1>0 DEF Net, Opposes
  <2>2. LET row == NewRow(position, 0, position.average, 0, price, pnl)
        IN  row \in Position /\ row.quantity = 0 /\ row.margin = 0
    BY <1>0, <1>c, NewRowTyped
  <2>3. position.quantity + signed = 0
    BY <1>0, <1>3 DEF Opposes, Signed, Abs
  <2>. QED  BY <2>1, <2>2, <2>3, <1>0, <1>c DEF Close, Netted, NetResult
<1>4. CASE Opposes(order.side, position) /\ order.quantity < old
  <2> DEFINE pnl     == RealizedPnl(position.quantity, position.average,
                                    order.quantity, price)
             release == RoundDiv(position.margin * order.quantity, old)
  <2>1. net = Reduce(position, order, price)
    BY <1>4, <1>0, <1>a DEF Net, Opposes
  <2>2. position.margin * order.quantity \in Int /\ old \in Nat \ {0}
    BY <1>0, <1>4, <1>a
  <2>3. release \in Int
    BY <2>2, RoundDivInt
  <2>4. position.quantity + signed \in Int /\ position.margin - release \in Int
    BY <1>0, <1>a, <2>3
  <2>5. LET row == NewRow(position, position.quantity + signed, position.average,
                          position.margin - release, price, pnl)
        IN  row \in Position /\ row.quantity = position.quantity + signed
    BY <2>4, <1>0, <1>c, NewRowTyped
  <2>6. position.quantity + signed # 0
    BY <1>0, <1>4 DEF Opposes, Signed, Abs
  <2>. QED  BY <2>1, <2>3, <2>5, <2>6, <1>c DEF Reduce, Netted, NetResult
<1>5. CASE Opposes(order.side, position) /\ order.quantity > old
  <2> DEFINE excess == order.quantity - old
             pnl    == RealizedPnl(position.quantity, position.average, old, price)
             margin == RoundDiv(order.margin * excess, order.quantity)
  <2>1. net = Reverse(position, order, price)
    BY <1>5, <1>0, <1>a DEF Net, Opposes
  <2>2. order.margin * excess \in Int /\ order.quantity \in Nat \ {0}
    BY <1>0, <1>5, <1>a
  <2>3. margin \in Int
    BY <2>2, RoundDivInt
  <2>4. Signed(order.side, excess) \in Int
    BY <1>0, <1>a DEF Signed
  <2>5. LET row == NewRow(position, Signed(order.side, excess), price, margin, price, pnl)
        IN  row \in Position /\ row.quantity = Signed(order.side, excess)
    BY <2>3, <2>4, <1>b, NewRowTyped
  <2>6. /\ Signed(order.side, excess) = position.quantity + signed
        /\ Signed(order.side, excess) # 0
    BY <1>0, <1>5 DEF Opposes, Signed, Abs
  <2>. QED  BY <2>1, <2>5, <2>6, <1>0, <1>b DEF Reverse, Netted, NetResult
<1>. QED
  BY <1>0, <1>a, <1>1, <1>2, <1>3, <1>4, <1>5 DEF Opposes

-----------------------------------------------------------------------------
(* Margins are not negative *)

LEMMA DivisionBounds ==
    ASSUME NEW x \in Int, NEW y \in Nat \ {0}
    PROVE  /\ x \div y \in Int
           /\ y * (x \div y) <= x
           /\ x < y * (x \div y) + y
OBVIOUS

\* A share of an amount rounds to no less than nothing.
LEMMA RoundDivNat ==
    ASSUME NEW a \in Nat, NEW b \in Nat \ {0}
    PROVE  RoundDiv(a, b) \in Nat
<1> DEFINE x == 2 * a + b
           y == 2 * b
           q == x \div y
<1>1. x \in Nat /\ y \in Nat \ {0}
  OBVIOUS
<1> HIDE DEF x, y
<1>2. q \in Int /\ x < y * q + y
  BY <1>1, DivisionBounds
<1> HIDE DEF q
<1>3. q >= 0
  <2>1. SUFFICES ASSUME q <= -1 PROVE FALSE
    BY <1>2
  <2>2. y * q + y = y * (q + 1) /\ y * (q + 1) <= 0
    BY <1>1, <1>2, <2>1
  <2>. QED  BY <1>1, <1>2, <2>2
<1>. QED  BY <1>2, <1>3 DEF RoundDiv, q, x, y

\* And to no more than the whole.
LEMMA RoundDivShare ==
    ASSUME NEW m \in Nat, NEW part \in Nat, NEW whole \in Nat \ {0}, part < whole
    PROVE  RoundDiv(m * part, whole) <= m
<1> DEFINE x == 2 * (m * part) + whole
           y == 2 * whole
           q == x \div y
<1>1. m * part \in Nat /\ m * part <= m * whole /\ m * whole \in Nat
  <2>1. m * part \in Nat /\ m * whole \in Nat /\ m * (whole - part) \in Nat
    OBVIOUS
  <2>2. m * whole = m * part + m * (whole - part)
    OBVIOUS
  <2>. QED  BY <2>1, <2>2
<1>2. x \in Int /\ y \in Nat \ {0} /\ x < y * (m + 1)
  <2>1. y * (m + 1) = 2 * (m * whole) + 2 * whole
    OBVIOUS
  <2>. QED  BY <1>1, <2>1
<1> HIDE DEF x, y
<1>3. q \in Int /\ y * q <= x
  BY <1>2, DivisionBounds
<1> HIDE DEF q
<1>4. y * q < y * (m + 1)
  BY <1>2, <1>3
<1>5. q <= m
  BY <1>2, <1>3, <1>4
<1>. QED  BY <1>5 DEF RoundDiv, q, x, y

\* An execution leaves no negative margin in the row.
LEMMA NetMarginNat ==
    ASSUME NEW position \in Position, NEW order, order.side \in Side,
           order.quantity \in Nat, order.margin \in Nat, position.margin \in Nat,
           NEW price \in Int
    PROVE  Net(position, order, price).position.margin \in Nat
<1> DEFINE old == Abs(position.quantity)
<1>1. old \in Nat /\ (position.quantity # 0 => old \in Nat \ {0})
  BY AbsNat DEF Position
<1>2. ASSUME NEW q, NEW avg, NEW margin, NEW p, NEW pnl
      PROVE  NewRow(position, q, avg, margin, p, pnl).margin = margin
  BY DEF NewRow, Position
<1>3. Start(position, order, price).position.margin = order.margin
  BY <1>2 DEF Start, Netted
<1>4. Add(position, order, price).position.margin = position.margin + order.margin
  BY <1>2 DEF Add, Netted
<1>5. Close(position, order, price).position.margin = 0
  BY <1>2 DEF Close, Netted
<1>6. ASSUME position.quantity # 0, order.quantity < old
      PROVE  Reduce(position, order, price).position.margin \in Nat
  <2> DEFINE release == RoundDiv(position.margin * order.quantity, old)
  <2>1. Reduce(position, order, price).position.margin = position.margin - release
    BY <1>2 DEF Reduce, Netted
  <2>2. position.margin * order.quantity \in Nat
    OBVIOUS
  <2>3. release \in Nat /\ release <= position.margin
    BY <1>1, <1>6, <2>2, RoundDivNat, RoundDivShare
  <2> HIDE DEF release
  <2>. QED  BY <2>1, <2>3
<1>7. ASSUME order.quantity > old
      PROVE  Reverse(position, order, price).position.margin \in Nat
  <2> DEFINE excess == order.quantity - old
             margin == RoundDiv(order.margin * excess, order.quantity)
  <2>1. Reverse(position, order, price).position.margin = margin
    BY <1>2 DEF Reverse, Netted
  <2>2. excess \in Nat /\ order.quantity \in Nat \ {0}
    BY <1>1, <1>7
  <2>3. order.margin * excess \in Nat
    BY <2>2
  <2>. QED  BY <2>1, <2>2, <2>3, RoundDivNat
<1>8. CASE position.quantity = 0
  <2>1. Net(position, order, price) = Start(position, order, price)
    BY <1>8 DEF Net, Opposes
  <2>. QED  BY <1>3, <2>1
<1>9. CASE position.quantity # 0 /\ ~Opposes(order.side, position)
  <2>1. Net(position, order, price) = Add(position, order, price)
    BY <1>9 DEF Net
  <2>. QED  BY <1>4, <2>1
<1>10. CASE position.quantity # 0 /\ Opposes(order.side, position)
  <2>1. \/ order.quantity = old
        \/ order.quantity < old
        \/ order.quantity > old
    BY <1>1
  <2>2. CASE order.quantity = old
    <3>1. Net(position, order, price) = Close(position, order, price)
      BY <1>10, <2>2 DEF Net
    <3>. QED  BY <1>5, <3>1
  <2>3. CASE order.quantity < old
    <3>1. Net(position, order, price) = Reduce(position, order, price)
      BY <1>1, <1>10, <2>3 DEF Net
    <3>. QED  BY <1>6, <1>10, <2>3, <3>1
  <2>4. CASE order.quantity > old
    <3>1. Net(position, order, price) = Reverse(position, order, price)
      BY <1>1, <1>10, <2>4 DEF Net
    <3>. QED  BY <1>7, <2>4, <3>1
  <2>. QED  BY <2>1, <2>2, <2>3, <2>4
<1>. QED  BY <1>8, <1>9, <1>10

-----------------------------------------------------------------------------
(* What an execution books *)

\* Rounding keeps a lower bound that is a whole number.
LEMMA RoundDivAtLeast ==
    ASSUME NEW a \in Int, NEW b \in Nat \ {0}, NEW k \in Int, k * b <= a
    PROVE  RoundDiv(a, b) >= k
<1> DEFINE x == 2 * a + b
           y == 2 * b
           q == x \div y
<1>1. x \in Int /\ y \in Nat \ {0} /\ y * k < x
  <2>1. y * k = 2 * (k * b)
    OBVIOUS
  <2>. QED  BY <2>1
<1> HIDE DEF x, y
<1>2. q \in Int /\ x < y * q + y
  BY <1>1, DivisionBounds
<1> HIDE DEF q
<1>3. y * q + y = y * (q + 1)
  BY <1>1, <1>2
<1>4. y * k < y * (q + 1)
  <2>1. y * k \in Int /\ y * (q + 1) \in Int /\ y * q + y \in Int
    BY <1>1, <1>2
  <2>. QED  BY <1>1, <1>2, <1>3, <2>1
<1>5. k < q + 1
  BY <1>1, <1>2, <1>4
<1>. QED  BY <1>2, <1>5 DEF RoundDiv, q, x, y

\* A margin of a unit for every share is kept when shares leave with theirs.
LEMMA ShareLeavesEnough ==
    ASSUME NEW m \in Nat, NEW part \in Nat, NEW whole \in Nat \ {0},
           part < whole, whole <= m
    PROVE  m - RoundDiv(m * part, whole) >= whole - part
<1> DEFINE x == 2 * (m * part) + whole
           y == 2 * whole
           q == x \div y
           rest == whole - part
           d == m - whole
<1>1. x \in Int /\ y \in Nat \ {0} /\ rest \in Nat \ {0} /\ d \in Nat /\ d * rest \in Nat
      /\ m * part \in Int
  OBVIOUS
<1>2. x < y * (d + part + 1)
  <2>1. m * part = m * whole - m * rest /\ m * rest = d * rest + whole * rest
    OBVIOUS
  <2>2. y * (d + part + 1) = 2 * (whole * (d + part)) + 2 * whole
    OBVIOUS
  <2>3. d + part = m - rest
    OBVIOUS
  <2>4. whole * (m - rest) = m * whole - whole * rest
    OBVIOUS
  <2>5. m * whole \in Int /\ whole * rest \in Int
    OBVIOUS
  <2> HIDE DEF d, rest
  <2>. QED  BY <1>1, <2>1, <2>2, <2>3, <2>4, <2>5
<1> HIDE DEF x, y
<1>3. q \in Int /\ y * q <= x
  BY <1>1, DivisionBounds
<1> HIDE DEF q
<1>4. y * q < y * (d + part + 1) /\ d + part + 1 \in Int
  <2>1. y * q \in Int /\ y * (d + part + 1) \in Int
    BY <1>1, <1>3
  <2>. QED  BY <1>1, <1>2, <1>3, <2>1
<1> HIDE DEF d
<1>5. q < d + part + 1
  BY <1>1, <1>3, <1>4
<1>. QED  BY <1>1, <1>3, <1>5 DEF RoundDiv, q, x, y, d

\* At least one unit of margin for every share held.
Margined(position) == Abs(position.quantity) <= position.margin

\* What an execution books is the profit it returns; a row with ample margin
\* keeps it, and returns no profit without releasing some.
LEMMA NetProfit ==
    ASSUME NEW position \in Position, NEW order, NEW price \in Int,
           order.side \in Side, order.quantity \in Nat, order.quantity > 0,
           order.margin \in Int
    PROVE  LET net == Net(position, order, price)
           IN  /\ net.position.accumulated = position.accumulated + net.pnl
               /\ Margined(position)
                  /\ (~Opposes(order.side, position) \/ order.quantity > Abs(position.quantity)
                        => order.quantity <= order.margin)
                  => Margined(net.position) /\ (net.release > 0 \/ net.pnl = 0)
<1> DEFINE old    == Abs(position.quantity)
           signed == Signed(order.side, order.quantity)
           net    == Net(position, order, price)
           ample  == /\ Margined(position)
                     /\ (~Opposes(order.side, position) \/ order.quantity > old
                           => order.quantity <= order.margin)
<1>0. /\ position.quantity \in Int /\ position.average \in Int /\ position.margin \in Int
      /\ position.accumulated \in Int /\ order.quantity \in Int
      /\ order.side \in {"BUY", "SELL"}
  BY DEF Position, Side
<1>1. /\ old \in Nat /\ (position.quantity # 0 => old # 0)
      /\ signed \in Int /\ Abs(signed) = order.quantity
  BY <1>0 DEF Abs, Signed
<1>2. ASSUME NEW q \in Int, NEW average, NEW margin \in Int, NEW pnl \in Int
      PROVE  LET row == NewRow(position, q, average, margin, price, pnl)
             IN  /\ row.accumulated = position.accumulated + pnl
                 /\ row.quantity = q /\ row.margin = margin
                 /\ Margined(row) <=> Abs(q) <= margin
  BY DEF NewRow, Position, Margined
<1>3. CASE position.quantity = 0
  <2>1. net = Start(position, order, price)
    BY <1>3, <1>0 DEF Net, Opposes
  <2>2. net = Netted(NewRow(position, signed, price, order.margin, price, 0), 0, 0)
    BY <2>1 DEF Start
  <2>3. ~Opposes(order.side, position)
    BY <1>3 DEF Opposes
  <2>. QED  BY <1>1, <1>2, <2>2, <2>3 DEF Netted
<1>4. CASE position.quantity # 0 /\ ~Opposes(order.side, position)
  <2>1. net = Add(position, order, price)
    BY <1>4, <1>0 DEF Net
  <2>2. PICK average : net = Netted(NewRow(position, position.quantity + signed, average,
                                           position.margin + order.margin, price, 0), 0, 0)
    BY <2>1 DEF Add
  <2>3. Abs(position.quantity + signed) = old + order.quantity
    BY <1>0, <1>4 DEF Opposes, Signed, Abs
  <2>4. /\ net.position.accumulated = position.accumulated + 0
        /\ Margined(net.position) <=> old + order.quantity <= position.margin + order.margin
        /\ net.pnl = 0
    BY <1>0, <1>1, <1>2, <2>2, <2>3 DEF Netted
  <2>. QED  BY <1>0, <1>1, <1>4, <2>4 DEF Margined
<1>5. CASE Opposes(order.side, position) /\ order.quantity = old
  <2> DEFINE pnl == RealizedPnl(position.quantity, position.average, order.quantity, price)
  <2>1. net = Close(position, order, price)
    BY <1>5, <1>0 DEF Net, Opposes
  <2>2. net = Netted(NewRow(position, 0, position.average, 0, price, pnl), position.margin, pnl)
    BY <2>1 DEF Close
  <2>a. pnl \in Int
    BY <1>0, RealizedPnlInt
  <2>3. pnl \in Int /\ Abs(0) = 0 /\ old > 0
    BY <1>5, <2>a DEF Abs
  <2> HIDE DEF pnl
  <2>4. /\ net.position.accumulated = position.accumulated + net.pnl
        /\ Margined(net.position) /\ net.release = position.margin
    BY <1>2, <2>2, <2>3 DEF Netted
  <2>. QED  BY <1>0, <1>1, <2>3, <2>4 DEF Margined
<1>6. CASE Opposes(order.side, position) /\ order.quantity < old
  <2> DEFINE pnl     == RealizedPnl(position.quantity, position.average, order.quantity, price)
             release == RoundDiv(position.margin * order.quantity, old)
  <2>1. net = Reduce(position, order, price)
    BY <1>6, <1>0, <1>1 DEF Net, Opposes
  <2>2. net = Netted(NewRow(position, position.quantity + signed, position.average,
                            position.margin - release, price, pnl), release, pnl)
    BY <2>1 DEF Reduce
  <2>3. pnl \in Int
    BY <1>0, RealizedPnlInt
  <2>4. position.margin * order.quantity \in Int /\ old \in Nat \ {0}
    BY <1>0, <1>1, <1>6
  <2>5. release \in Int /\ position.margin - release \in Int
    BY <1>0, <2>4, RoundDivInt
  <2>6. Abs(position.quantity + signed) = old - order.quantity
    BY <1>0, <1>6 DEF Opposes, Signed, Abs
  <2>7. ASSUME Margined(position)
        PROVE  release > 0 /\ old - order.quantity <= position.margin - release
    <3>1. old <= position.margin /\ position.margin \in Nat
      BY <1>0, <1>1, <2>7 DEF Margined
    <3>2. 1 * old <= position.margin * order.quantity
      <4>1. position.margin * order.quantity >= position.margin
        BY <3>1
      <4>. QED  BY <1>1, <2>4, <3>1, <4>1
    <3>3. release >= 1
      BY <2>4, <3>2, RoundDivAtLeast
    <3>4. position.margin - release >= old - order.quantity
      BY <1>6, <2>4, <3>1, ShareLeavesEnough
    <3> HIDE DEF release
    <3>. QED  BY <1>0, <1>1, <2>5, <3>3, <3>4
  <2> HIDE DEF pnl, release
  <2>8. /\ net.position.accumulated = position.accumulated + net.pnl
        /\ Margined(net.position) <=> old - order.quantity <= position.margin - release
        /\ net.release = release
    BY <1>0, <1>1, <1>2, <2>2, <2>3, <2>5, <2>6 DEF Netted
  <2>. QED  BY <2>7, <2>8
<1>7. CASE Opposes(order.side, position) /\ order.quantity > old
  <2> DEFINE excess == order.quantity - old
             pnl    == RealizedPnl(position.quantity, position.average, old, price)
             margin == RoundDiv(order.margin * excess, order.quantity)
  <2>1. net = Reverse(position, order, price)
    BY <1>7, <1>0, <1>1 DEF Net, Opposes
  <2>2. net = Netted(NewRow(position, Signed(order.side, excess), price, margin, price, pnl),
                     position.margin, pnl)
    BY <2>1 DEF Reverse
  <2>3. /\ excess \in Nat \ {0} /\ order.margin * excess \in Int
        /\ order.quantity \in Nat \ {0} /\ old > 0
    BY <1>0, <1>1, <1>7 DEF Opposes
  <2>a. pnl \in Int
    <3>1. old \in Int
      BY <1>1
    <3>. QED  BY <1>0, <3>1, RealizedPnlInt
  <2>4. pnl \in Int /\ margin \in Int
    BY <2>3, <2>a, RoundDivInt
  <2>5. Signed(order.side, excess) \in Int /\ Abs(Signed(order.side, excess)) = excess
    BY <2>3 DEF Signed, Abs
  <2>6. ASSUME order.quantity <= order.margin PROVE excess <= margin
    <3>1. excess * order.quantity <= order.margin * excess
      <4>1. excess * order.quantity = order.quantity * excess
        BY <2>3
      <4>2. order.quantity * excess <= order.margin * excess
        BY <2>3, <2>6
      <4>. QED  BY <4>1, <4>2
    <3>2. margin >= excess
      BY <2>3, <3>1, RoundDivAtLeast
    <3> HIDE DEF margin, excess
    <3>. QED  BY <2>3, <2>4, <3>2
  <2> HIDE DEF pnl, margin, excess
  <2>7. /\ net.position.accumulated = position.accumulated + net.pnl
        /\ Margined(net.position) <=> excess <= margin
        /\ net.release = position.margin
    BY <1>2, <2>2, <2>4, <2>5 DEF Netted
  <2>. QED  BY <1>0, <1>1, <1>7, <2>3, <2>6, <2>7 DEF Margined
<1>. QED  BY <1>0, <1>1, <1>3, <1>4, <1>5, <1>6, <1>7

\* What a row has booked, less what it still holds at its average price.
Ledger(row) == row.accumulated - row.quantity * row.average

\* When shares are added to an open row, its average price is rounded to a
\* paisa; here it comes out even.
AverageExact(old, new) ==
    \/ old.quantity > 0 /\ new.quantity > old.quantity
    \/ old.quantity < 0 /\ new.quantity < old.quantity
    => new.quantity * new.average
         = old.quantity * old.average + (new.quantity - old.quantity) * new.ltp

\* The arithmetic of a ledger: at the old average price, and at a new one.
LEMMA LedgerReduced ==
    ASSUME NEW a \in Int, NEW q \in Int, NEW average \in Int, NEW s \in Int,
           NEW price \in Int
    PROVE  a + (average - price) * s - (q + s) * average = (a - q * average) - s * price
OBVIOUS

LEMMA LedgerReversed ==
    ASSUME NEW a \in Int, NEW q \in Int, NEW average \in Int, NEW s \in Int,
           NEW price \in Int
    PROVE  a + (average - price) * (-q) - (q + s) * price = (a - q * average) - s * price
OBVIOUS

\* An execution moves the ledger of its row by what was paid or received,
\* whether it opens, reduces, closes or reverses, and when it adds unless the
\* average is rounded.
LEMMA NetCashFlow ==
    ASSUME NEW position \in Position, NEW order, NEW price \in Int,
           order.side \in Side, order.quantity \in Nat, order.quantity > 0,
           order.margin \in Int,
           AverageExact(position, Net(position, order, price).position)
    PROVE  Ledger(Net(position, order, price).position)
             = Ledger(position) - Signed(order.side, order.quantity) * price
<1> DEFINE old    == Abs(position.quantity)
           signed == Signed(order.side, order.quantity)
           net    == Net(position, order, price)
<1>0. /\ position.quantity \in Int /\ position.average \in Int
      /\ position.accumulated \in Int /\ order.quantity \in Int /\ position.margin \in Int
      /\ order.side \in {"BUY", "SELL"}
  BY DEF Position, Side
<1>1. old \in Nat /\ (position.quantity # 0 => old # 0) /\ signed \in Int
  BY <1>0 DEF Abs, Signed
<1>2. PICK a \in Int, q \in Int, avg \in Int, n \in Int, s \in Int :
        /\ a = position.accumulated /\ q = position.quantity /\ avg = position.average
        /\ n = order.quantity /\ s = signed
  BY <1>0, <1>1
<1>3. ASSUME NEW q1 \in Int, NEW avg1 \in Int, NEW margin, NEW pnl \in Int, NEW release,
             net = Netted(NewRow(position, q1, avg1, margin, price, pnl), release, pnl)
      PROVE  /\ Ledger(net.position) = a + pnl - q1 * avg1
             /\ net.position.quantity = q1 /\ net.position.average = avg1
             /\ net.position.ltp = price
  <2>1. LET row == NewRow(position, q1, avg1, margin, price, pnl)
        IN  /\ row.accumulated = a + pnl /\ row.quantity = q1
            /\ row.average = avg1 /\ row.ltp = price
    BY <1>2 DEF NewRow, Position
  <2>. QED  BY <1>3, <2>1 DEF Netted, Ledger
<1> SUFFICES Ledger(net.position) = (a - q * avg) - s * price
  BY <1>2 DEF Ledger
<1>4. CASE position.quantity = 0
  <2>1. net = Start(position, order, price)
    BY <1>4, <1>0 DEF Net, Opposes
  <2>2. net = Netted(NewRow(position, s, price, order.margin, price, 0), 0, 0)
    BY <1>2, <2>1 DEF Start
  <2>3. Ledger(net.position) = a + 0 - s * price
    BY <1>3, <2>2
  <2>4. q = 0 /\ a + 0 - s * price = (a - 0 * avg) - s * price
    BY <1>2, <1>4
  <2>. QED  BY <2>3, <2>4
<1>5. CASE position.quantity # 0 /\ ~Opposes(order.side, position)
  <2> DEFINE average == RoundDiv(old * position.average + order.quantity * price,
                                 old + order.quantity)
             sum     == position.quantity + signed
  <2>1. net = Add(position, order, price)
    BY <1>5, <1>0 DEF Net
  <2>2. net = Netted(NewRow(position, sum, average, position.margin + order.margin, price, 0),
                     0, 0)
    BY <2>1 DEF Add
  <2>3. average \in Int
    <3>1. /\ old * position.average + order.quantity * price \in Int
          /\ old + order.quantity \in Nat \ {0}
      BY <1>0, <1>1
    <3>. QED  BY <3>1, RoundDivInt
  <2>4. \/ q > 0 /\ sum > q
        \/ q < 0 /\ sum < q
    BY <1>0, <1>2, <1>5 DEF Opposes, Signed
  <2>5. sum \in Int /\ sum - q = s
    BY <1>1, <1>2
  <2> HIDE DEF average, sum
  <2>6. PICK avg1 \in Int, q1 \in Int : avg1 = average /\ q1 = sum
    BY <2>3, <2>5
  <2>7. /\ Ledger(net.position) = a + 0 - q1 * avg1
        /\ net.position.quantity = q1 /\ net.position.average = avg1
        /\ net.position.ltp = price
    BY <1>3, <2>2, <2>6
  <2>8. q1 * avg1 = q * avg + s * price
    <3>1. net.position.quantity * net.position.average
            = position.quantity * position.average
                + (net.position.quantity - position.quantity) * net.position.ltp
      <4> HIDE DEF net
      <4>. QED  BY <1>2, <2>4, <2>6, <2>7 DEF AverageExact, net
    <3> HIDE DEF net
    <3>. QED  BY <1>2, <2>5, <2>6, <2>7, <3>1
  <2>9. a + 0 - (q * avg + s * price) = (a - q * avg) - s * price
    OBVIOUS
  <2>. QED  BY <2>7, <2>8, <2>9
<1>6. CASE Opposes(order.side, position) /\ order.quantity = old
  <2>1. net = Close(position, order, price)
    BY <1>6, <1>0 DEF Net, Opposes
  <2>2. net = Netted(NewRow(position, 0, avg, 0, price, RealizedPnl(q, avg, n, price)),
                     position.margin, RealizedPnl(q, avg, n, price))
    BY <1>2, <2>1 DEF Close
  <2>3. /\ q + s = 0
        /\ \/ q > 0 /\ s = -n
           \/ ~(q > 0) /\ s = n
    BY <1>0, <1>2, <1>6 DEF Opposes, Signed, Abs
  <2>4. RealizedPnl(q, avg, n, price) \in Int
    BY RealizedPnlInt
  <2>5. RealizedPnl(q, avg, n, price) = (avg - price) * s
    BY <2>3 DEF RealizedPnl
  <2>6. Ledger(net.position) = a + (avg - price) * s - (q + s) * avg
    BY <1>3, <2>2, <2>3, <2>4, <2>5
  <2>. QED  BY <2>6, LedgerReduced
<1>7. CASE Opposes(order.side, position) /\ order.quantity < old
  <2> DEFINE release == RoundDiv(position.margin * order.quantity, old)
  <2>1. net = Reduce(position, order, price)
    BY <1>7, <1>0, <1>1 DEF Net, Opposes
  <2>2. net = Netted(NewRow(position, q + s, avg, position.margin - release, price,
                            RealizedPnl(q, avg, n, price)),
                     release, RealizedPnl(q, avg, n, price))
    BY <1>2, <2>1 DEF Reduce
  <2>3. \/ q > 0 /\ s = -n
        \/ ~(q > 0) /\ s = n
    BY <1>0, <1>2, <1>7 DEF Opposes, Signed
  <2>4. RealizedPnl(q, avg, n, price) \in Int
    BY RealizedPnlInt
  <2>5. RealizedPnl(q, avg, n, price) = (avg - price) * s
    BY <2>3 DEF RealizedPnl
  <2> HIDE DEF release
  <2>6. Ledger(net.position) = a + (avg - price) * s - (q + s) * avg
    BY <1>3, <2>2, <2>4, <2>5
  <2>. QED  BY <2>6, LedgerReduced
<1>8. CASE Opposes(order.side, position) /\ order.quantity > old
  <2> DEFINE excess == order.quantity - old
             margin == RoundDiv(order.margin * excess, order.quantity)
  <2>1. net = Reverse(position, order, price)
    BY <1>8, <1>0, <1>1 DEF Net, Opposes
  <2>2. net = Netted(NewRow(position, Signed(order.side, excess), price, margin, price,
                            RealizedPnl(q, avg, old, price)),
                     position.margin, RealizedPnl(q, avg, old, price))
    BY <1>2, <2>1 DEF Reverse
  <2>3. Signed(order.side, excess) = q + s
    BY <1>0, <1>2, <1>8 DEF Opposes, Signed, Abs
  <2>4. PICK m \in Int : m = old
    BY <1>1
  <2>5. \/ q > 0 /\ -q = -m
        \/ ~(q > 0) /\ -q = m
    BY <1>2, <2>4 DEF Abs
  <2>6. RealizedPnl(q, avg, m, price) \in Int
    BY RealizedPnlInt
  <2>7. RealizedPnl(q, avg, m, price) = (avg - price) * (-q)
    BY <2>5 DEF RealizedPnl
  <2> HIDE DEF margin, old
  <2>8. Ledger(net.position) = a + (avg - price) * (-q) - (q + s) * price
    BY <1>3, <2>2, <2>3, <2>4, <2>6, <2>7
  <2>. QED  BY <2>8, LedgerReversed
<1>. QED  BY <1>0, <1>1, <1>4, <1>5, <1>6, <1>7, <1>8

-----------------------------------------------------------------------------
(* Sums over trades *)

\* What SumFunctionOnSet picks first, and the recursion it follows.
Chosen(S) == CHOOSE x \in S : TRUE

IsSum(f, S, g) == g = [s \in SUBSET S |->
                         IF s = {} THEN 0 ELSE f[Chosen(s)] + g[s \ {Chosen(s)}]]

PartialSums(f, S) == CHOOSE g : IsSum(f, S, g)

LEMMA SumsByRecursion ==
    ASSUME NEW f, NEW S
    PROVE  SumFunctionOnSet(f, S) = PartialSums(f, S)[S]
BY DEF SumFunctionOnSet, FoldFunctionOnSet, MapThenFoldSet, PartialSums, IsSum, Chosen

\* Among subsets of a finite set, one is least.  (What induction is for: an
\* argument about sums takes the smallest set that refutes it.)
LEMMA Smallest ==
    ASSUME NEW S, IsFiniteSet(S), NEW Bad \in SUBSET SUBSET S, Bad # {}
    PROVE  \E T \in Bad : \A U \in SUBSET T : U # T => U \notin Bad
<1>1. IsWellFoundedOn(StrictSubsetOrdering(S), SUBSET S)
  BY FS_StrictSubsetOrderingWellFounded, FS_FiniteSubsetsOfFinite
<1>2. PICK T \in Bad : \A U \in Bad : <<U, T>> \notin StrictSubsetOrdering(S)
  BY <1>1, WFMin
<1>3. ASSUME NEW U \in SUBSET T, U # T, U \in Bad PROVE FALSE
  <2>1. <<U, T>> \in StrictSubsetOrdering(S)
    BY <1>3 DEF StrictSubsetOrdering
  <2>. QED  BY <1>2, <1>3, <2>1
<1>. QED  BY <1>2, <1>3

\* One step of the recursion.
LEMMA SumStep ==
    ASSUME NEW f, NEW S, NEW g, IsSum(f, S, g), NEW T \in SUBSET S
    PROVE  g[T] = IF T = {} THEN 0 ELSE f[Chosen(T)] + g[T \ {Chosen(T)}]
BY DEF IsSum

LEMMA ChosenIn == ASSUME NEW S, S # {} PROVE Chosen(S) \in S
BY DEF Chosen

\* Two sums of one function agree where both are defined.
LEMMA SumsAgree ==
    ASSUME NEW f, NEW h, NEW S, NEW T, NEW g, NEW k, IsSum(f, S, g), IsSum(h, T, k),
           IsFiniteSet(S), NEW U \in SUBSET S, U \subseteq T,
           \A x \in U : f[x] = h[x]
    PROVE  g[U] = k[U]
<1> DEFINE Bad == {V \in SUBSET U : g[V] # k[V]}
<1> SUFFICES ASSUME g[U] # k[U] PROVE FALSE
  OBVIOUS
<1>1. IsFiniteSet(U) /\ Bad \in SUBSET SUBSET U /\ Bad # {}
  BY FS_Subset
<1>2. PICK V \in Bad : \A W \in SUBSET V : W # V => W \notin Bad
  <2> HIDE DEF Bad
  <2>. QED  BY <1>1, Smallest
<1>3. V \in SUBSET S /\ V \in SUBSET T /\ V \in SUBSET U
  OBVIOUS
<1>4. V # {}
  <2>1. {} \in SUBSET S /\ {} \in SUBSET T
    OBVIOUS
  <2>2. g[{}] = 0 /\ k[{}] = 0
    BY <2>1, SumStep
  <2>. QED  BY <1>2, <2>2
<1>5. Chosen(V) \in V
  BY <1>4, ChosenIn
<1>6. g[V \ {Chosen(V)}] = k[V \ {Chosen(V)}]
  BY <1>2, <1>3, <1>5
<1>7. /\ g[V] = f[Chosen(V)] + g[V \ {Chosen(V)}]
      /\ k[V] = h[Chosen(V)] + k[V \ {Chosen(V)}]
  BY <1>3, <1>4, SumStep
<1>. QED  BY <1>2, <1>3, <1>5, <1>6, <1>7

\* The recursion has a solution on every finite set.
LEMMA SumsExist ==
    ASSUME NEW f, NEW S, IsFiniteSet(S)
    PROVE  IsSum(f, S, PartialSums(f, S))
<1> DEFINE Bad == {V \in SUBSET S : ~ IsSum(f, V, PartialSums(f, V))}
<1> SUFFICES ASSUME S \in Bad PROVE FALSE
  OBVIOUS
<1>1. PICK T \in Bad : \A W \in SUBSET T : W # T => W \notin Bad
  <2>1. Bad \in SUBSET SUBSET S /\ Bad # {}
    OBVIOUS
  <2> HIDE DEF Bad
  <2>. QED  BY <2>1, Smallest
<1> DEFINE Total(V) == PartialSums(f, V)[V]
           g == [V \in SUBSET T |->
                   IF V = {} THEN 0 ELSE f[Chosen(V)] + Total(V \ {Chosen(V)})]
<1>2. ASSUME NEW V \in SUBSET T, V # T PROVE g[V] = Total(V)
  <2>1. IsSum(f, V, PartialSums(f, V)) /\ IsFiniteSet(V)
    BY <1>1, <1>2, FS_Subset
  <2>2. CASE V = {}
    BY <2>1, <2>2, SumStep
  <2>3. CASE V # {}
    <3> DEFINE W == V \ {Chosen(V)}
    <3>1. W \in SUBSET V /\ W \in SUBSET T /\ W # T
      BY <1>2
    <3>2. IsSum(f, W, PartialSums(f, W)) /\ IsFiniteSet(W)
      BY <1>1, <3>1, FS_Subset
    <3>3. PartialSums(f, V)[W] = PartialSums(f, W)[W]
      <4> HIDE DEF W
      <4>. QED  BY <2>1, <3>1, <3>2, SumsAgree
    <3>4. PartialSums(f, V)[V] = f[Chosen(V)] + PartialSums(f, V)[W]
      <4>1. V \in SUBSET V
        OBVIOUS
      <4>2. PartialSums(f, V)[V]
              = f[Chosen(V)] + PartialSums(f, V)[V \ {Chosen(V)}]
        <5>1. PICK k : k = PartialSums(f, V)
          OBVIOUS
        <5>2. k[V] = IF V = {} THEN 0 ELSE f[Chosen(V)] + k[V \ {Chosen(V)}]
          BY <2>1, <4>1, <5>1, SumStep
        <5>. QED  BY <2>3, <5>1, <5>2
      <4>. QED  BY <4>2
    <3>. QED  BY <2>3, <3>3, <3>4
  <2>. QED  BY <2>2, <2>3
<1>3. ASSUME NEW V \in SUBSET T, V # {}
      PROVE  g[V] = f[Chosen(V)] + g[V \ {Chosen(V)}]
  <2>1. V \ {Chosen(V)} \in SUBSET T /\ V \ {Chosen(V)} # T
    BY <1>3, ChosenIn
  <2>. QED  BY <1>2, <1>3, <2>1
<1>4. IsSum(f, T, g)
  <2>1. g = [V \in SUBSET T |-> g[V]]
    OBVIOUS
  <2>2. \A V \in SUBSET T : g[V] = IF V = {} THEN 0
                                   ELSE f[Chosen(V)] + g[V \ {Chosen(V)}]
    BY <1>3
  <2> HIDE DEF g
  <2>. QED  BY <2>1, <2>2 DEF IsSum
<1>5. IsSum(f, T, PartialSums(f, T))
  <2> HIDE DEF g
  <2>. QED  BY <1>4 DEF PartialSums
<1>. QED  BY <1>1, <1>5

\* A sum is what is added last plus the sum of the rest, whichever is last.
LEMMA SumEmpty == ASSUME NEW f PROVE SumFunctionOnSet(f, {}) = 0
<1>1. IsSum(f, {}, PartialSums(f, {}))
  BY FS_EmptySet, SumsExist
<1>2. {} \in SUBSET {}
  OBVIOUS
<1>3. PartialSums(f, {})[{}] = 0
  BY <1>1, <1>2, SumStep
<1>. QED  BY <1>3, SumsByRecursion

LEMMA SumChosen ==
    ASSUME NEW f, NEW S, IsFiniteSet(S), S # {}
    PROVE  SumFunctionOnSet(f, S)
             = f[Chosen(S)] + SumFunctionOnSet(f, S \ {Chosen(S)})
<1> DEFINE R == S \ {Chosen(S)}
<1>1. IsSum(f, S, PartialSums(f, S)) /\ S \in SUBSET S
  BY SumsExist
<1>2. PartialSums(f, S)[S] = f[Chosen(S)] + PartialSums(f, S)[R]
  BY <1>1, SumStep
<1>3. R \in SUBSET S /\ IsFiniteSet(R)
  BY FS_Subset
<1>4. IsSum(f, R, PartialSums(f, R))
  BY <1>3, SumsExist
<1>5. PartialSums(f, S)[R] = PartialSums(f, R)[R]
  <2> HIDE DEF R
  <2>. QED  BY <1>1, <1>3, <1>4, SumsAgree
<1>. QED  BY <1>2, <1>5, SumsByRecursion

LEMMA SumSame ==
    ASSUME NEW f, NEW h, NEW S, IsFiniteSet(S), \A x \in S : f[x] = h[x]
    PROVE  SumFunctionOnSet(f, S) = SumFunctionOnSet(h, S)
<1>1. /\ IsSum(f, S, PartialSums(f, S)) /\ IsSum(h, S, PartialSums(h, S))
      /\ S \in SUBSET S
  BY SumsExist
<1>2. PartialSums(f, S)[S] = PartialSums(h, S)[S]
  BY <1>1, SumsAgree
<1>. QED  BY <1>2, SumsByRecursion

LEMMA SumInt ==
    ASSUME NEW f, NEW S, IsFiniteSet(S), \A x \in S : f[x] \in Int
    PROVE  SumFunctionOnSet(f, S) \in Int
<1> DEFINE Bad == {V \in SUBSET S : SumFunctionOnSet(f, V) \notin Int}
<1> SUFFICES ASSUME S \in Bad PROVE FALSE
  OBVIOUS
<1>1. PICK T \in Bad : \A W \in SUBSET T : W # T => W \notin Bad
  <2>1. Bad \in SUBSET SUBSET S /\ Bad # {}
    OBVIOUS
  <2> HIDE DEF Bad
  <2>. QED  BY <2>1, Smallest
<1>2. T # {} /\ IsFiniteSet(T)
  <2>1. SumFunctionOnSet(f, T) # 0
    OBVIOUS
  <2>. QED  BY <2>1, SumEmpty, FS_Subset
<1>3. Chosen(T) \in T
  BY <1>2, ChosenIn
<1>4. SumFunctionOnSet(f, T) = f[Chosen(T)] + SumFunctionOnSet(f, T \ {Chosen(T)})
  BY <1>2, SumChosen
<1>5. SumFunctionOnSet(f, T \ {Chosen(T)}) \in Int
  BY <1>1, <1>3
<1>. QED  BY <1>1, <1>3, <1>4, <1>5

LEMMA SumRemove ==
    ASSUME NEW f, NEW S, IsFiniteSet(S), \A x \in S : f[x] \in Int, NEW y \in S
    PROVE  SumFunctionOnSet(f, S) = f[y] + SumFunctionOnSet(f, S \ {y})
<1> DEFINE Good(V) == \A z \in V :
                        SumFunctionOnSet(f, V) = f[z] + SumFunctionOnSet(f, V \ {z})
           Bad == {V \in SUBSET S : ~Good(V)}
<1> SUFFICES ASSUME S \in Bad PROVE FALSE
  OBVIOUS
<1>1. PICK T \in Bad : \A W \in SUBSET T : W # T => W \notin Bad
  <2>1. Bad \in SUBSET SUBSET S /\ Bad # {}
    OBVIOUS
  <2> HIDE DEF Bad
  <2>. QED  BY <2>1, Smallest
<1>2. PICK z \in T : SumFunctionOnSet(f, T) # f[z] + SumFunctionOnSet(f, T \ {z})
  OBVIOUS
<1>3. T \in SUBSET S /\ IsFiniteSet(T) /\ T # {} /\ Chosen(T) \in T
  BY <1>2, FS_Subset, ChosenIn
<1>4. SumFunctionOnSet(f, T) = f[Chosen(T)] + SumFunctionOnSet(f, T \ {Chosen(T)})
  BY <1>3, SumChosen
<1>5. Chosen(T) # z
  BY <1>2, <1>4
<1> DEFINE c == Chosen(T)
           R == (T \ {c}) \ {z}
<1>6. SumFunctionOnSet(f, T \ {c}) = f[z] + SumFunctionOnSet(f, R)
  <2>1. Good(T \ {c})
    BY <1>1, <1>3
  <2>. QED  BY <1>5, <2>1
<1>7. SumFunctionOnSet(f, T \ {z}) = f[c] + SumFunctionOnSet(f, R)
  <2>1. Good(T \ {z})
    BY <1>1, <1>2, <1>3
  <2>2. (T \ {z}) \ {c} = R
    OBVIOUS
  <2>. QED  BY <1>3, <1>5, <2>1, <2>2
<1>8. /\ f[c] \in Int /\ f[z] \in Int
      /\ SumFunctionOnSet(f, R) \in Int
  <2>1. R \in SUBSET S /\ IsFiniteSet(R)
    BY <1>3, FS_Subset
  <2>. QED  BY <1>3, <2>1, SumInt
<1> HIDE DEF c, R, Good, Bad
<1>. QED  BY <1>2, <1>4, <1>6, <1>7, <1>8 DEF c

\* What one more element adds.
LEMMA SumAdd ==
    ASSUME NEW f, NEW S, IsFiniteSet(S), NEW y, y \notin S,
           f[y] \in Int, \A x \in S : f[x] \in Int
    PROVE  SumFunctionOnSet(f, S \cup {y}) = f[y] + SumFunctionOnSet(f, S)
<1> DEFINE T == S \cup {y}
<1>1. IsFiniteSet(T) /\ T \ {y} = S /\ y \in T /\ \A x \in T : f[x] \in Int
  BY FS_AddElement
<1> HIDE DEF T
<1>2. SumFunctionOnSet(f, T) = f[y] + SumFunctionOnSet(f, T \ {y})
  BY <1>1, SumRemove
<1>. QED  BY <1>1, <1>2 DEF T

\* A trade is recorded: the sum grows by what it is about, the rest being as
\* it was.
LEMMA SumTrade ==
    ASSUME NEW f, NEW g, NEW S, IsFiniteSet(S), NEW id, id \notin S,
           g[id] \in Int, \A x \in S : f[x] \in Int /\ g[x] = f[x]
    PROVE  SumFunctionOnSet(g, S \cup {id}) = SumFunctionOnSet(f, S) + g[id]
<1>1. SumFunctionOnSet(g, S \cup {id}) = g[id] + SumFunctionOnSet(g, S)
  BY SumAdd
<1>2. SumFunctionOnSet(g, S) = SumFunctionOnSet(f, S)
  BY SumSame
<1>3. SumFunctionOnSet(f, S) \in Int
  BY SumInt
<1>. QED  BY <1>1, <1>2, <1>3

\* One value of the sum changes.
LEMMA SumUpdate ==
    ASSUME NEW f, NEW g, NEW S, IsFiniteSet(S), NEW id \in S, g[id] \in Int,
           \A x \in S : f[x] \in Int, \A x \in S \ {id} : g[x] = f[x]
    PROVE  SumFunctionOnSet(g, S) = SumFunctionOnSet(f, S) - f[id] + g[id]
<1>1. IsFiniteSet(S \ {id}) /\ \A x \in S : g[x] \in Int
  BY FS_RemoveElement
<1>2. SumFunctionOnSet(g, S) = g[id] + SumFunctionOnSet(g, S \ {id})
  BY <1>1, SumRemove
<1>3. SumFunctionOnSet(f, S) = f[id] + SumFunctionOnSet(f, S \ {id})
  BY SumRemove
<1>4. SumFunctionOnSet(g, S \ {id}) = SumFunctionOnSet(f, S \ {id})
  BY <1>1, SumSame
<1>5. SumFunctionOnSet(f, S \ {id}) \in Int
  BY <1>1, SumInt
<1>. QED  BY <1>2, <1>3, <1>4, <1>5

\* Nothing adds up to nothing.
LEMMA SumZero ==
    ASSUME NEW f, NEW S, IsFiniteSet(S), \A x \in S : f[x] = 0
    PROVE  SumFunctionOnSet(f, S) = 0
<1> DEFINE Bad == {V \in SUBSET S : SumFunctionOnSet(f, V) # 0}
<1> SUFFICES ASSUME S \in Bad PROVE FALSE
  OBVIOUS
<1>1. PICK T \in Bad : \A W \in SUBSET T : W # T => W \notin Bad
  <2>1. Bad \in SUBSET SUBSET S /\ Bad # {}
    OBVIOUS
  <2> HIDE DEF Bad
  <2>. QED  BY <2>1, Smallest
<1>2. T # {} /\ IsFiniteSet(T)
  <2>1. SumFunctionOnSet(f, T) # 0
    OBVIOUS
  <2>. QED  BY <2>1, SumEmpty, FS_Subset
<1>3. Chosen(T) \in T
  BY <1>2, ChosenIn
<1>4. SumFunctionOnSet(f, T) = f[Chosen(T)] + SumFunctionOnSet(f, T \ {Chosen(T)})
  BY <1>2, SumChosen
<1>5. SumFunctionOnSet(f, T \ {Chosen(T)}) = 0
  BY <1>1, <1>3
<1>. QED  BY <1>1, <1>3, <1>4, <1>5
=================================================================================
