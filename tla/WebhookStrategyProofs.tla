-------------------------- MODULE WebhookStrategyProofs --------------------------
(***************************************************************************)
(* The order queues and the strategies that fill them: types, the rate     *)
(* limit, that the account ends at what was asked for, and that what the   *)
(* square-off closes stays closed; for any strategies, symbols, signals,   *)
(* failures and restarts.                                                  *)
(***************************************************************************)
EXTENDS WebhookStrategy, FiniteSetTheorems, SequenceTheorems, TLAPS

-----------------------------------------------------------------------------
(* What a sequence of orders adds up to for one symbol *)

Part(o, s) == IF o.symbol = s THEN Effect(o.action, o.quantity) ELSE 0

\* The orders of q take the position of s from n to m; f says where it is after
\* each of them.
Sums(q, s, n, m) ==
    \E f \in [0 .. Len(q) -> Int] :
        /\ f[0] = n /\ f[Len(q)] = m
        /\ \A i \in 1 .. Len(q) : f[i] = f[i - 1] + Part(q[i], s)

LEMMA PartType == ASSUME NEW o \in Order, NEW s PROVE Part(o, s) \in Int
  BY DEF Part, Effect, Order

LEMMA SumsAppend ==
    ASSUME NEW q \in Seq(Order), NEW o \in Order, NEW s, NEW n \in Int, NEW m \in Int,
           Sums(q, s, n, m)
    PROVE  Sums(Append(q, o), s, n, m + Part(o, s))
  <1> DEFINE k == Len(q)
  <1>1. PICK f \in [0 .. k -> Int] :
          /\ f[0] = n /\ f[k] = m
          /\ \A i \in 1 .. k : f[i] = f[i - 1] + Part(q[i], s)
    BY DEF Sums
  <1>2. Len(Append(q, o)) = k + 1 /\ k \in Nat
    OBVIOUS
  <1> DEFINE g == [i \in 0 .. k + 1 |-> IF i = k + 1 THEN m + Part(o, s) ELSE f[i]]
  <1>3. g \in [0 .. k + 1 -> Int]
    BY <1>2, PartType
  <1>4. ASSUME NEW i \in 1 .. k + 1 PROVE g[i] = g[i - 1] + Part(Append(q, o)[i], s)
    <2>1. CASE i = k + 1
      BY <1>1, <1>2, <2>1
    <2>2. CASE i # k + 1
      <3>1. i \in 1 .. k /\ Append(q, o)[i] = q[i]
        BY <1>2, <2>2
      <3> QED
        BY <1>1, <1>2, <3>1
    <2> QED
      BY <2>1, <2>2
  <1>5. g[0] = n /\ g[k + 1] = m + Part(o, s)
    BY <1>1, <1>2
  <1> HIDE DEF g, k
  <1> QED
    BY <1>2, <1>3, <1>4, <1>5 DEF Sums

LEMMA SumsTail ==
    ASSUME NEW q \in Seq(Order), q # <<>>, NEW s, NEW n \in Int, NEW m \in Int,
           Sums(q, s, n, m)
    PROVE  Sums(Tail(q), s, n + Part(Head(q), s), m)
  <1> DEFINE k == Len(q)
  <1>1. PICK f \in [0 .. k -> Int] :
          /\ f[0] = n /\ f[k] = m
          /\ \A i \in 1 .. k : f[i] = f[i - 1] + Part(q[i], s)
    BY DEF Sums
  <1>2. k \in Nat \ {0} /\ Len(Tail(q)) = k - 1 /\ Head(q) = q[1]
    OBVIOUS
  <1> DEFINE g == [i \in 0 .. k - 1 |-> f[i + 1]]
  <1>3. g \in [0 .. k - 1 -> Int]
    BY <1>2
  <1>4. ASSUME NEW i \in 1 .. k - 1 PROVE g[i] = g[i - 1] + Part(Tail(q)[i], s)
    <2>1. Tail(q)[i] = q[i + 1] /\ i + 1 \in 1 .. k
      BY <1>2
    <2>2. g[i] = f[i + 1] /\ g[i - 1] = f[i] /\ f[i + 1] = f[(i + 1) - 1] + Part(q[i + 1], s)
      BY <1>1, <1>2, <2>1
    <2> QED
      BY <1>2, <2>1, <2>2
  <1>5. g[0] = n + Part(Head(q), s) /\ g[k - 1] = m
    BY <1>1, <1>2
  <1> HIDE DEF g, k
  <1> QED
    BY <1>2, <1>3, <1>4, <1>5 DEF Sums

\* A set of numbers has a least one.
LEMMA Least ==
    ASSUME NEW T \in SUBSET Nat, T # {}
    PROVE  \E x \in T : \A y \in T : x <= y
  <1>1. \E x \in T : \A y \in T : <<y, x>> \notin OpToRel(<, Nat)
    BY NatLessThanWellFounded, WFMin
  <1>2. PICK x \in T : \A y \in T : <<y, x>> \notin OpToRel(<, Nat)
    BY <1>1
  <1>3. ASSUME NEW y \in T PROVE x <= y
    <2>1. <<y, x>> \notin {ss \in Nat \X Nat : ss[1] < ss[2]}
      BY <1>2 DEF OpToRel
    <2> QED
      BY <2>1
  <1> QED
    BY <1>3

\* Orders of other symbols add nothing.
LEMMA SumsNone ==
    ASSUME NEW q \in Seq(Order), NEW s, ~Outstanding(q, s), NEW n \in Int, NEW m \in Int
    PROVE  Sums(q, s, n, m) <=> n = m
  <1>1. \A i \in 1 .. Len(q) : Part(q[i], s) = 0
    BY DEF Outstanding, Part
  <1>2. Len(q) \in Nat
    OBVIOUS
  <1>3. ASSUME Sums(q, s, n, m) PROVE n = m
    <2>1. PICK f \in [0 .. Len(q) -> Int] :
            /\ f[0] = n /\ f[Len(q)] = m
            /\ \A i \in 1 .. Len(q) : f[i] = f[i - 1] + Part(q[i], s)
      BY <1>3 DEF Sums
    <2>2. \A i \in 1 .. Len(q) : f[i] = f[i - 1]
      BY <1>1, <1>2, <2>1
    <2> DEFINE T == {i \in 0 .. Len(q) : f[i] # n}
    <2>3. T = {}
      <3> SUFFICES ASSUME T # {} PROVE FALSE
        OBVIOUS
      <3>1. T \in SUBSET Nat
        BY <1>2
      <3>2. PICK x \in T : \A y \in T : x <= y
        BY <3>1, Least
      <3>3. x # 0 /\ x \in 1 .. Len(q)
        BY <1>2, <2>1
      <3>4. x - 1 \in T
        BY <1>2, <2>2, <3>3
      <3> QED
        BY <3>2, <3>3, <3>4
    <2> QED
      BY <1>2, <2>1, <2>3
  <1>4. ASSUME n = m PROVE Sums(q, s, n, m)
    <2> DEFINE g == [i \in 0 .. Len(q) |-> n]
    <2>1. /\ g \in [0 .. Len(q) -> Int]
          /\ g[0] = n /\ g[Len(q)] = m
          /\ \A i \in 1 .. Len(q) : g[i] = g[i - 1] + Part(q[i], s)
      BY <1>1, <1>2, <1>4
    <2> HIDE DEF g
    <2> QED
      BY <2>1 DEF Sums
  <1> QED
    BY <1>3, <1>4

-----------------------------------------------------------------------------
(* The window of the rate limit *)

LEMMA WithinType ==
    ASSUME NEW S, NEW ages \in Seq(S)
    PROVE  Within(ages) \in Seq(S) /\ Len(Within(ages)) <= Len(ages)
  <1> DEFINE E == Expired(ages)
             k == Cardinality(E)
  <1>1. Len(ages) \in Nat /\ E \subseteq 1 .. Len(ages)
    BY DEF Expired
  <1>2. k \in Nat /\ k <= Len(ages)
    <2>1. IsFiniteSet(1 .. Len(ages)) /\ Cardinality(1 .. Len(ages)) = Len(ages)
      <3> DEFINE l == Len(ages)
      <3>1. l \in Int /\ (1 > l => l = 0)
        BY <1>1
      <3> HIDE DEF l
      <3>2. /\ IsFiniteSet(1 .. l)
            /\ Cardinality(1 .. l) = IF 1 > l THEN 0 ELSE l - 1 + 1
        BY <3>1, FS_Interval
      <3> QED
        BY <3>1, <3>2 DEF l
    <2> HIDE DEF E
    <2>2. IsFiniteSet(E) /\ k <= Len(ages)
      BY <1>1, <2>1, FS_Subset
    <2> QED
      BY <2>2, FS_CardinalityType
  <1> HIDE DEF E, k
  <1>3. k + 1 \in 1 .. Len(ages) + 1 /\ Len(ages) \in k .. Len(ages)
    BY <1>1, <1>2
  <1>4. SubSeq(ages, k + 1, Len(ages)) \in Seq(S)
        /\ Len(SubSeq(ages, k + 1, Len(ages))) = Len(ages) - k
    BY <1>1, <1>2, <1>3, SubSeqProperties
  <1> QED
    BY <1>1, <1>2, <1>4 DEF Within, E, k

-----------------------------------------------------------------------------
(* Types, and the one processor *)

Processor == [at : {"off", "smart", "regular", "read", "trade", "post"},
        order : Order, seen : Int, age : 0 .. Window + 1]

\* A smart order that asks for nothing carries no shares of its own.
Asks(o) == o.size = 0 => o.quantity = 0

OneProcessor ==
    /\ \A v, w \in Workers : ~IsOff(v) /\ ~IsOff(w) => v = w
    /\ ~running => \A w \in Workers : IsOff(w)

\* An order that is being sent has a place in the window.
Room == \A w \in Workers : worker[w].at = "post" => Len(recent) < Limit

AsksOK ==
    /\ \A i \in 1 .. Len(smart) : Asks(smart[i])
    /\ \A w \in Workers : worker[w].at \in {"read", "trade"} => Asks(worker[w].order)

QueueInv == QueueTypeOK /\ OneProcessor /\ Room /\ AsksOK

LEMMA ToRead ==
    ASSUME NEW r \in Processor, NEW o \in Order
    PROVE  LET q == [r EXCEPT !.at = "read", !.order = o]
           IN  q \in Processor /\ q.at = "read" /\ q.order = o
  BY DEF Processor

LEMMA ToTrade ==
    ASSUME NEW r \in Processor, NEW n \in Int
    PROVE  LET q == [r EXCEPT !.at = "trade", !.seen = n]
           IN  q \in Processor /\ q.at = "trade" /\ q.seen = n /\ q.order = r.order
  BY DEF Processor

LEMMA ToQueue ==
    ASSUME NEW r \in Processor, NEW a \in {"smart", "regular"}
    PROVE  [r EXCEPT !.at = a] \in Processor /\ [r EXCEPT !.at = a].at = a
  BY DEF Processor

LEMMA Ages ==
    ASSUME NEW r \in Processor, NEW n \in 0 .. Window + 1
    PROVE  LET q == [r EXCEPT !.age = n]
           IN  q \in Processor /\ q.at = r.at /\ q.order = r.order /\ q.seen = r.seen
  BY DEF Processor

LEMMA OffType ==
    /\ Off \in Processor /\ Off.at = "off"
    /\ [Off EXCEPT !.at = "smart"] \in Processor /\ [Off EXCEPT !.at = "smart"].at = "smart"
    /\ \A o \in Order : LET r == [Off EXCEPT !.at = "post", !.order = o]
                        IN  r \in Processor /\ r.at = "post" /\ r.order = o
  <1>1. PICK y \in Symbols : y = CHOOSE x \in Symbols : TRUE
    BY QueueAssumption
  <1>2. [symbol |-> y, action |-> "SELL", quantity |-> 0, size |-> 0] \in Order
    BY DEF Order, Action
  <1>3. 0 \in 0 .. Window + 1
    BY QueueAssumption
  <1>4. PICK n \in Order : Off = [at |-> "off", order |-> n, seen |-> 0, age |-> 0]
    BY <1>1, <1>2 DEF Off
  <1>5. Off \in Processor /\ Off.at = "off"
    BY <1>3, <1>4 DEF Processor
  <1>6. \A o \in Order : LET r == [Off EXCEPT !.at = "post", !.order = o]
                         IN  r \in Processor /\ r.at = "post" /\ r.order = o
    BY <1>5 DEF Processor
  <1> QED
    BY <1>5, <1>6, ToQueue

\* The processor goes on.
LEMMA WorkerStep ==
    ASSUME QueueInv, NEW w \in Workers, ~IsOff(w), NEW r \in Processor, r.at # "off",
           worker' = [worker EXCEPT ![w] = r], running' = running
    PROVE  /\ worker' \in [Workers -> Processor] /\ OneProcessor'
           /\ worker[w] \in Processor /\ worker'[w] = r
           /\ \A v \in Workers \ {w} : worker'[v] = worker[v] /\ IsOff(v)
  BY DEF QueueInv, QueueTypeOK, OneProcessor, IsOff, Processor

\* queue_order starts one if there is none.
LEMMA Ensured ==
    ASSUME QueueInv, EnsureOrderProcessor
    PROVE  /\ worker' \in [Workers -> Processor] /\ running' = TRUE /\ OneProcessor'
           /\ \A w \in Workers : \/ worker'[w] = worker[w]
                                 \/ worker[w].at = "off" /\ worker'[w].at = "smart"
  <1>1. worker \in [Workers -> Processor] /\ running \in BOOLEAN
    BY DEF QueueInv, QueueTypeOK, Processor
  <1>2. CASE running
    BY <1>1, <1>2 DEF QueueInv, OneProcessor, EnsureOrderProcessor, IsOff
  <1>3. CASE ~running
    <2>1. \A w \in Workers : IsOff(w)
      BY <1>3 DEF QueueInv, OneProcessor
    <2>2. Idle \in Workers
      BY <2>1, QueueAssumption DEF Idle
    <2>3. worker' = [worker EXCEPT ![Idle].at = "smart"]
      BY <1>3 DEF EnsureOrderProcessor
    <2> HIDE DEF Idle
    <2>4. /\ worker'[Idle] = [worker[Idle] EXCEPT !.at = "smart"]
          /\ \A w \in Workers \ {Idle} : worker'[w] = worker[w]
          /\ DOMAIN worker' = Workers /\ worker' = [w \in Workers |-> worker'[w]]
      BY <1>1, <2>2, <2>3
    <2>5. worker'[Idle] \in Processor /\ worker'[Idle].at = "smart"
      BY <1>1, <2>2, <2>4 DEF Processor
    <2> QED
      BY <1>1, <2>1, <2>2, <2>4, <2>5 DEF EnsureOrderProcessor, OneProcessor, IsOff
  <1> QED
    BY <1>1, <1>2, <1>3 DEF EnsureOrderProcessor

LEMMA QueueSmartInv ==
    ASSUME QueueInv, NEW o \in Order, Asks(o), QueueSmart(o)
    PROVE  QueueInv'
  <1>1. EnsureOrderProcessor /\ smart' = Append(smart, o)
        /\ UNCHANGED <<regular, recent, position, failures>>
    BY DEF QueueSmart
  <1>2. smart \in Seq(Order) /\ want \in [Symbols -> Int \cup {Unknown}]
    BY DEF QueueInv, QueueTypeOK
  <1>3. want' \in [Symbols -> Int \cup {Unknown}]
    BY <1>2 DEF QueueSmart, WantTarget, Order
  <1>4. smart' \in Seq(Order)
    BY <1>1, <1>2
  <1>5. QueueTypeOK'
    BY <1>1, <1>3, <1>4, Ensured DEF QueueInv, QueueTypeOK, Processor
  <1>6. Room'
    BY <1>1, Ensured DEF QueueInv, Room
  <1>7. AsksOK'
    <2>1. \A i \in 1 .. Len(smart') : Asks(smart'[i])
      BY <1>1, <1>2 DEF QueueInv, AsksOK
    <2> QED
      BY <1>1, <2>1, Ensured DEF QueueInv, AsksOK
  <1> QED
    BY <1>1, <1>5, <1>6, <1>7, Ensured DEF QueueInv

LEMMA QueueRegularInv ==
    ASSUME QueueInv, NEW o \in Order, QueueRegular(o)
    PROVE  QueueInv'
  <1>1. EnsureOrderProcessor /\ regular' = Append(regular, o)
        /\ UNCHANGED <<smart, recent, position, failures>>
    BY DEF QueueRegular
  <1>2. regular \in Seq(Order) /\ want \in [Symbols -> Int \cup {Unknown}]
    BY DEF QueueInv, QueueTypeOK
  <1>3. want' \in [Symbols -> Int \cup {Unknown}]
    BY <1>2 DEF QueueRegular, WantMore, Effect, Order
  <1>4. regular' \in Seq(Order)
    BY <1>1, <1>2
  <1>5. QueueTypeOK'
    BY <1>1, <1>3, <1>4, Ensured DEF QueueInv, QueueTypeOK, Processor
  <1>6. Room'
    BY <1>1, Ensured DEF QueueInv, Room
  <1>7. AsksOK'
    BY <1>1, Ensured DEF QueueInv, AsksOK
  <1> QED
    BY <1>1, <1>5, <1>6, <1>7, Ensured DEF QueueInv

LEMMA LostType ==
    ASSUME QueueInv, NEW s, Lost(s)
    PROVE  want' \in [Symbols -> Int \cup {Unknown}]
  BY DEF QueueInv, QueueTypeOK, Lost

LEMMA EffectType ==
    ASSUME NEW a, NEW n \in Int
    PROVE  Effect(a, n) \in Int
  BY DEF Effect

LEMMA SmartOrderType ==
    ASSUME NEW a, NEW q \in Int, NEW target \in Int, NEW current \in Int
    PROVE  SmartOrder(a, q, target, current).quantity \in Int
  BY DEF SmartOrder, Adjustment, Magnitude

LEMMA SmartInv ==
    ASSUME QueueInv, NEW w \in Workers,
           TakeSmart(w) \/ ReadPosition(w) \/ ReadFails(w) \/ Trade(w) \/ TradeRefused(w)
    PROVE  QueueInv'
  <1>1. /\ ~IsOff(w) /\ worker \in [Workers -> Processor] /\ smart \in Seq(Order)
        /\ position \in [Symbols -> Int] /\ running' = running
        /\ regular' = regular /\ recent' = recent
    BY DEF TakeSmart, ReadPosition, ReadFails, Trade, TradeRefused, IsOff, QueueInv,
           QueueTypeOK, Processor
  <1>2. worker[w] \in Processor /\ worker[w].order \in Order /\ worker[w].seen \in Int
        /\ worker[w].order.symbol \in Symbols
    BY <1>1 DEF Processor, Order
  <1>3. PICK r \in Processor :
          /\ worker' = [worker EXCEPT ![w] = r] /\ r.at \in {"smart", "read", "trade"}
          /\ r.at \in {"read", "trade"} => Asks(r.order)
    <2>1. CASE TakeSmart(w)
      <3> DEFINE r == [worker[w] EXCEPT !.at = "read", !.order = Head(smart)]
      <3>1. Head(smart) \in Order /\ Asks(Head(smart))
        <4>1. Head(smart) = smart[1] /\ 1 \in 1 .. Len(smart)
          BY <1>1, <2>1 DEF TakeSmart
        <4> QED
          BY <1>1, <4>1 DEF QueueInv, AsksOK
      <3>2. r \in Processor /\ r.at = "read" /\ r.order = Head(smart)
        BY <1>2, <3>1, ToRead
      <3>3. worker' = [worker EXCEPT ![w] = r]
        BY <1>1, <2>1 DEF TakeSmart
      <3> QED
        BY <3>1, <3>2, <3>3
    <2>2. ASSUME NEW n \in Int, worker' = [worker EXCEPT ![w].at = "trade", ![w].seen = n],
                 worker[w].at = "read"
          PROVE  \E r \in Processor :
                   /\ worker' = [worker EXCEPT ![w] = r] /\ r.at \in {"smart", "read", "trade"}
                   /\ r.at \in {"read", "trade"} => Asks(r.order)
      <3> DEFINE r == [worker[w] EXCEPT !.at = "trade", !.seen = n]
      <3>1. r \in Processor /\ r.at = "trade" /\ r.order = worker[w].order
        BY <1>2, ToTrade
      <3>2. worker' = [worker EXCEPT ![w] = r]
        BY <1>1, <2>2
      <3>3. Asks(worker[w].order)
        BY <2>2 DEF QueueInv, AsksOK
      <3> QED
        BY <3>1, <3>2, <3>3
    <2>3. CASE ReadPosition(w)
      BY <1>1, <1>2, <2>2, <2>3 DEF ReadPosition
    <2>4. CASE ReadFails(w)
      <3>1. PICK n \in Int : n = 0
        OBVIOUS
      <3>2. worker' = [worker EXCEPT ![w].at = "trade", ![w].seen = n] /\ worker[w].at = "read"
        BY <2>4, <3>1 DEF ReadFails
      <3> QED
        BY <2>2, <3>2
    <2>5. CASE Trade(w) \/ TradeRefused(w)
      BY <2>5, OffType DEF Trade, TradeRefused
    <2> QED
      BY <2>1, <2>3, <2>4, <2>5
  <1>4. smart' \in Seq(Order) /\ \A i \in 1 .. Len(smart') : Asks(smart'[i])
    <2>1. CASE TakeSmart(w)
      <3>1. smart' = Tail(smart) /\ smart # <<>>
        BY <2>1 DEF TakeSmart
      <3>2. /\ Tail(smart) \in Seq(Order)
            /\ \A i \in 1 .. Len(Tail(smart)) : Tail(smart)[i] = smart[i + 1]
                                              /\ i + 1 \in 1 .. Len(smart)
        BY <1>1, <3>1
      <3> QED
        BY <3>1, <3>2 DEF QueueInv, AsksOK
    <2>2. CASE ~TakeSmart(w)
      BY <1>1, <2>2 DEF ReadPosition, ReadFails, Trade, TradeRefused, QueueInv, AsksOK
    <2> QED
      BY <2>1, <2>2
  <1>5. position' \in [Symbols -> Int]
    <2>1. CASE Trade(w)
      <3> DEFINE o == worker[w].order
                 so == SmartOrder(o.action, o.quantity, o.size, worker[w].seen)
                 e == Effect(so.action, so.quantity)
      <3>1. position' = [position EXCEPT ![o.symbol] = @ + e]
        BY <2>1 DEF Trade
      <3>2. o.quantity \in Int /\ o.size \in Int
        BY <1>2 DEF Order
      <3>3. so.quantity \in Int
        BY <1>2, <3>2, SmartOrderType
      <3>4. e \in Int
        <4> HIDE DEF so
        <4> QED
          BY <3>3, EffectType
      <3>5. o.symbol \in Symbols
        BY <1>2
      <3> HIDE DEF e, o
      <3> QED
        BY <1>1, <3>1, <3>4, <3>5
    <2>2. CASE ~Trade(w)
      BY <1>1, <2>2 DEF TakeSmart, ReadPosition, ReadFails, TradeRefused
    <2> QED
      BY <2>1, <2>2
  <1>6. want' \in [Symbols -> Int \cup {Unknown}] /\ failures' \in 0 .. MaxFailures
    <2>1. CASE ReadFails(w) \/ TradeRefused(w)
      <3>1. want' \in [Symbols -> Int \cup {Unknown}]
        BY <2>1, LostType DEF ReadFails, TradeRefused
      <3>2. failures < MaxFailures /\ failures' = failures + 1
        BY <2>1 DEF ReadFails, TradeRefused
      <3> QED
        BY <3>1, <3>2, QueueAssumption DEF QueueInv, QueueTypeOK
    <2>2. CASE ~(ReadFails(w) \/ TradeRefused(w))
      BY <2>2 DEF TakeSmart, ReadPosition, Trade, QueueInv, QueueTypeOK
    <2> QED
      BY <2>1, <2>2
  <1>7. /\ worker' \in [Workers -> Processor] /\ OneProcessor' /\ worker'[w] = r
        /\ \A v \in Workers \ {w} : worker'[v] = worker[v] /\ IsOff(v)
    BY <1>1, <1>3, WorkerStep
  <1>8. QueueTypeOK'
    BY <1>1, <1>4, <1>5, <1>6, <1>7 DEF QueueInv, QueueTypeOK, Processor
  <1>9. Room' /\ AsksOK'
    BY <1>1, <1>3, <1>4, <1>7 DEF QueueInv, Room, AsksOK, IsOff
  <1> QED
    BY <1>7, <1>8, <1>9 DEF QueueInv

\* A step of the processor that changes its place and the accepted orders only.
LEMMA RegularInv ==
    ASSUME QueueInv, NEW w \in Workers,
           NoSmart(w) \/ NoRegular(w) \/ TakeRegular(w) \/ Post(w) \/ PostFails(w)
    PROVE  QueueInv'
  <1>1. /\ ~IsOff(w) /\ worker \in [Workers -> Processor] /\ regular \in Seq(Order)
        /\ recent \in Seq(0 .. Window + 1) /\ Len(recent) <= Limit
        /\ position \in [Symbols -> Int] /\ running' = running /\ smart' = smart
    BY DEF NoSmart, NoRegular, TakeRegular, Post, PostFails, IsOff, QueueInv, QueueTypeOK, Processor
  <1>2. worker[w] \in Processor /\ worker[w].order \in Order /\ worker[w].age \in 0 .. Window + 1
    BY <1>1 DEF Processor
  <1>3. Limit \in Nat /\ Len(recent) \in Nat
    BY <1>1, QueueAssumption
  <1>4. PICK r \in Processor :
          /\ worker' = [worker EXCEPT ![w] = r] /\ r.at \in {"smart", "regular", "post"}
          /\ r.at = "post" => TakeRegular(w)
    <2>1. CASE NoSmart(w) \/ NoRegular(w)
      <3>1. PICK a \in {"smart", "regular"} : worker' = [worker EXCEPT ![w].at = a]
        BY <2>1 DEF NoSmart, NoRegular
      <3>2. worker' = [worker EXCEPT ![w] = [worker[w] EXCEPT !.at = a]]
        BY <1>1, <3>1
      <3> QED
        BY <1>2, <3>2, ToQueue
    <2>2. CASE TakeRegular(w)
      <3>1. Head(regular) \in Order
        BY <1>1, <2>2 DEF TakeRegular
      <3> QED
        BY <2>2, <3>1, OffType DEF TakeRegular
    <2>3. CASE Post(w) \/ PostFails(w)
      BY <2>3, OffType DEF Post, PostFails
    <2> QED
      BY <2>1, <2>2, <2>3
  <1>5. /\ worker' \in [Workers -> Processor] /\ OneProcessor' /\ worker'[w] = r
        /\ \A v \in Workers \ {w} : worker'[v] = worker[v] /\ IsOff(v)
    BY <1>1, <1>4, WorkerStep
  <1>6. /\ recent' \in Seq(0 .. Window + 1) /\ Len(recent') <= Limit
        /\ TakeRegular(w) => Len(recent') < Limit
    <2>1. Within(recent) \in Seq(0 .. Window + 1) /\ Len(Within(recent)) <= Len(recent)
      BY <1>1, WithinType
    <2>2. CASE NoRegular(w) \/ TakeRegular(w)
      <3>1. recent' = Within(recent) /\ (TakeRegular(w) => Len(Within(recent)) < Limit)
        BY <2>2 DEF NoRegular, TakeRegular
      <3>2. Len(Within(recent)) \in Nat
        BY <2>1
      <3> QED
        BY <1>1, <1>3, <2>1, <3>1, <3>2
    <2>3. CASE Post(w)
      <3>1. recent' = Append(recent, worker[w].age) /\ worker[w].at = "post"
        BY <2>3 DEF Post
      <3>2. Len(recent) < Limit
        BY <3>1 DEF QueueInv, Room
      <3> QED
        BY <1>1, <1>2, <1>3, <2>3, <3>1, <3>2 DEF Post, TakeRegular
    <2>4. CASE NoSmart(w) \/ PostFails(w)
      BY <1>1, <2>4 DEF NoSmart, PostFails, TakeRegular
    <2> QED
      BY <2>2, <2>3, <2>4
  <1>7. regular' \in Seq(Order)
    <2>1. CASE TakeRegular(w)
      <3>1. regular' = Tail(regular) /\ regular # <<>>
        BY <2>1 DEF TakeRegular
      <3> QED
        BY <1>1, <3>1
    <2>2. CASE ~TakeRegular(w)
      BY <1>1, <2>2 DEF NoSmart, NoRegular, Post, PostFails
    <2> QED
      BY <2>1, <2>2
  <1>8. position' \in [Symbols -> Int]
    <2>1. CASE Post(w) \/ PostFails(w)
      <3> DEFINE o == worker[w].order
                 e == Effect(o.action, o.quantity)
      <3>1. position' \in {position, [position EXCEPT ![o.symbol] = @ + e]}
        BY <2>1 DEF Post, PostFails
      <3>2. o.symbol \in Symbols /\ e \in Int
        BY <1>2, EffectType DEF Order
      <3> HIDE DEF o, e
      <3> QED
        BY <1>1, <3>1, <3>2
    <2>2. CASE ~(Post(w) \/ PostFails(w))
      BY <1>1, <2>2 DEF NoSmart, NoRegular, TakeRegular
    <2> QED
      BY <2>1, <2>2
  <1>9. want' \in [Symbols -> Int \cup {Unknown}] /\ failures' \in 0 .. MaxFailures
    <2>1. CASE PostFails(w)
      <3>1. want' \in [Symbols -> Int \cup {Unknown}]
        BY <2>1, LostType DEF PostFails, QueueInv, QueueTypeOK
      <3>2. failures < MaxFailures /\ failures' = failures + 1
        BY <2>1 DEF PostFails
      <3> QED
        BY <3>1, <3>2, QueueAssumption DEF QueueInv, QueueTypeOK
    <2>2. CASE ~PostFails(w)
      BY <2>2 DEF NoSmart, NoRegular, TakeRegular, Post, QueueInv, QueueTypeOK
    <2> QED
      BY <2>1, <2>2
  <1>10. QueueTypeOK'
    BY <1>1, <1>5, <1>6, <1>7, <1>8, <1>9 DEF QueueInv, QueueTypeOK, Processor
  <1>11. Room'
    BY <1>4, <1>5, <1>6 DEF Room, IsOff
  <1>12. AsksOK'
    BY <1>1, <1>4, <1>5 DEF QueueInv, AsksOK, IsOff
  <1> QED
    BY <1>5, <1>10, <1>11, <1>12 DEF QueueInv

LEMMA OlderType ==
    ASSUME NEW n \in 0 .. Window + 1
    PROVE  Older(n) \in 0 .. Window + 1
  BY QueueAssumption DEF Older

\* What ageing does to the processors.
LEMMA Aged ==
    ASSUME QueueInv, Tick
    PROVE  /\ worker' \in [Workers -> Processor]
           /\ \A w \in Workers : /\ worker'[w].at = worker[w].at
                                 /\ worker'[w].order = worker[w].order
                                 /\ worker'[w].seen = worker[w].seen
  <1>1. worker \in [Workers -> Processor]
    BY DEF QueueInv, QueueTypeOK, Processor
  <1>2. \A w \in Workers : worker[w] \in Processor /\ Older(worker[w].age) \in 0 .. Window + 1
                           /\ worker[w].age \in 0 .. Window + 1
    BY <1>1, OlderType DEF Processor
  <1>3. worker' = [w \in Workers |-> [worker[w] EXCEPT !.age =
                     IF worker[w].at = "post" THEN Older(@) ELSE @]]
    BY DEF Tick
  <1>4. ASSUME NEW w \in Workers
        PROVE  /\ worker'[w] \in Processor /\ worker'[w].at = worker[w].at
               /\ worker'[w].order = worker[w].order /\ worker'[w].seen = worker[w].seen
    <2> DEFINE n == IF worker[w].at = "post" THEN Older(worker[w].age) ELSE worker[w].age
    <2>1. n \in 0 .. Window + 1
      BY <1>2
    <2>2. worker'[w] = [worker[w] EXCEPT !.age = n]
      BY <1>3
    <2> HIDE DEF n
    <2> QED
      BY <1>2, <2>1, <2>2, Ages
  <1>5. DOMAIN worker' = Workers /\ worker' = [w \in Workers |-> worker'[w]]
    BY <1>3
  <1> QED
    BY <1>4, <1>5

LEMMA TickInv == ASSUME QueueInv, Tick PROVE QueueInv'
  <1>1. UNCHANGED <<smart, regular, running, position, want, failures>>
    BY DEF Tick
  <1>2. recent' = [i \in DOMAIN recent |-> Older(recent[i])]
    BY DEF Tick
  <1>3. recent \in Seq(0 .. Window + 1)
    BY DEF QueueInv, QueueTypeOK
  <1>4. recent' \in Seq(0 .. Window + 1) /\ Len(recent') = Len(recent)
    <2>1. DOMAIN recent = 1 .. Len(recent) /\ Len(recent) \in Nat
      BY <1>3
    <2> DEFINE A == 0 .. Window + 1
    <2>2. \A i \in 1 .. Len(recent) : recent[i] \in A
      <3> HIDE DEF A
      <3>1. recent \in Seq(A)
        BY <1>3 DEF A
      <3> QED
        BY <3>1
    <2>3. \A i \in 1 .. Len(recent) : Older(recent[i]) \in 0 .. Window + 1
      BY <2>2, OlderType
    <2>4. recent' = [i \in 1 .. Len(recent) |-> Older(recent[i])]
      BY <1>2, <2>1
    <2> QED
      BY <2>1, <2>3, <2>4
  <1> QED
    BY <1>1, <1>4, Aged DEF QueueInv, QueueTypeOK, Processor, OneProcessor, IsOff, Room, AsksOK

LEMMA ForgetInv == ASSUME QueueInv, Forget PROVE QueueInv'
  <1>1. want' \in [Symbols -> Int \cup {Unknown}]
    BY DEF Forget, QueueInv, QueueTypeOK
  <1>2. /\ smart' = <<>> /\ regular' = <<>> /\ recent' = <<>> /\ running' = FALSE
        /\ position' = position /\ failures' = failures
        /\ worker' = [w \in Workers |-> Off]
    BY DEF Forget
  <1>3. \A w \in Workers : worker'[w] = Off
    BY <1>2
  <1>4. worker' \in [Workers -> Processor]
    BY <1>2, OffType
  <1>5. Limit \in Nat \ {0} /\ Len(recent') = 0 /\ Len(smart') = 0
    BY <1>2, QueueAssumption
  <1>7. /\ smart' \in Seq(Order) /\ regular' \in Seq(Order)
        /\ recent' \in Seq(0 .. Window + 1) /\ Len(recent') <= Limit /\ running' \in BOOLEAN
    <2>1. smart' \in Seq(Order) /\ regular' \in Seq(Order)
      BY <1>2, EmptySeq
    <2>2. recent' \in Seq(0 .. Window + 1)
      BY <1>2, EmptySeq
    <2>3. Len(recent') <= Limit
      BY <1>5
    <2> QED
      BY <1>2, <2>1, <2>2, <2>3
  <1>6. QueueTypeOK'
    BY <1>1, <1>2, <1>4, <1>7 DEF QueueInv, QueueTypeOK, Processor
  <1>8. \A w \in Workers : worker'[w].at = "off"
    BY <1>3, OffType
  <1> QED
    BY <1>2, <1>5, <1>6, <1>8 DEF QueueInv, OneProcessor, IsOff, Room, AsksOK

LEMMA QueueInitInv == QueueInit => QueueInv
  <1> SUFFICES ASSUME QueueInit PROVE QueueInv
    OBVIOUS
  <1>1. /\ smart = <<>> /\ regular = <<>> /\ recent = <<>> /\ running = FALSE
        /\ position \in [Symbols -> Int] /\ want \in [Symbols -> Int \cup {Unknown}]
        /\ failures \in 0 .. MaxFailures /\ worker = [w \in Workers |-> Off]
    BY QueueAssumption DEF QueueInit
  <1>2. Limit \in Nat \ {0} /\ Len(recent) = 0 /\ Len(smart) = 0
    BY <1>1, QueueAssumption
  <1>5. /\ smart \in Seq(Order) /\ regular \in Seq(Order)
        /\ recent \in Seq(0 .. Window + 1) /\ Len(recent) <= Limit /\ running \in BOOLEAN
    <2>1. smart \in Seq(Order) /\ regular \in Seq(Order)
      BY <1>1, EmptySeq
    <2>2. recent \in Seq(0 .. Window + 1)
      BY <1>1, EmptySeq
    <2>3. Len(recent) <= Limit
      BY <1>2
    <2> QED
      BY <1>1, <2>1, <2>2, <2>3
  <1>3. worker \in [Workers -> Processor] /\ \A w \in Workers : worker[w] = Off
    BY <1>1, OffType
  <1>4. QueueTypeOK
    BY <1>1, <1>3, <1>5 DEF QueueTypeOK, Processor
  <1>6. \A w \in Workers : worker[w].at = "off"
    BY <1>3, OffType
  <1> QED
    BY <1>1, <1>2, <1>4, <1>6 DEF QueueInv, OneProcessor, IsOff, Room, AsksOK

LEMMA QueueSame == ASSUME QueueInv, UNCHANGED queueVars PROVE QueueInv'
  BY DEF QueueInv, queueVars, QueueTypeOK, OneProcessor, IsOff, Room, AsksOK

-----------------------------------------------------------------------------
(* What is wanted and what the account will hold *)

\* Where the position of s will be once the order that is being sent is through.
StartsAt(n, s) ==
    /\ ~Sending({"post"}, s) => n = position[s]
    /\ \A w \in Workers : worker[w].at = "post" /\ worker[w].order.symbol = s =>
          n = position[s] + Effect(worker[w].order.action, worker[w].order.quantity)

Adds(s) == \E n \in Int : StartsAt(n, s) /\ Sums(regular, s, n, want[s])

\* The last target in the queue is what is wanted.
LastTarget(s) ==
    \E i \in 1 .. Len(smart) : /\ smart[i].symbol = s /\ smart[i].size = want[s]
                               /\ \A j \in i + 1 .. Len(smart) : smart[j].symbol # s

\* So is the one being sent, if it is the last, and it saw the position.
Aims(w, s) == worker[w].at \in {"read", "trade"} /\ worker[w].order.symbol = s =>
    /\ worker[w].order.size = want[s]
    /\ worker[w].at = "trade" => worker[w].seen = position[s]

Agreed(s) ==
    want[s] # Unknown =>
      /\ ~(SmartOutstanding(s) /\ RegularOutstanding(s))
      /\ Outstanding(smart, s) => LastTarget(s)
      /\ ~Outstanding(smart, s) => \A w \in Workers : Aims(w, s)
      /\ ~SmartOutstanding(s) => Adds(s)

\* PositionIsWanted says nothing of orders that are under way, so it is not
\* inductive; Agreed says what each stage of them still owes.
WantInv == \A s \in Symbols : Agreed(s)

\* What the invariant of one symbol depends on.
SameWork(s) ==
    /\ \A w \in Workers :
         LET mine(x) == x.at \in {"read", "trade", "post"} /\ x.order.symbol = s
         IN  mine(worker[w]) \/ mine(worker'[w]) =>
               /\ worker'[w].at = worker[w].at /\ worker'[w].order = worker[w].order
               /\ worker'[w].seen = worker[w].seen
    /\ position'[s] = position[s] /\ want'[s] = want[s]

LEMMA SameSending ==
    ASSUME NEW s, SameWork(s)
    PROVE  /\ \A w \in Workers : Aims(w, s) => Aims(w, s)'
           /\ Sending({"read", "trade"}, s)' = Sending({"read", "trade"}, s)
           /\ Sending({"post"}, s)' = Sending({"post"}, s)
           /\ \A n \in Int : StartsAt(n, s) => StartsAt(n, s)'
  BY DEF SameWork, Aims, Sending, StartsAt

LEMMA SameAgreed ==
    ASSUME NEW s, SameWork(s), smart' = smart, regular' = regular, Agreed(s)
    PROVE  Agreed(s)'
  <1>1. want'[s] = want[s]
    BY DEF SameWork
  <1>2. Outstanding(smart, s)' = Outstanding(smart, s)
        /\ Outstanding(regular, s)' = Outstanding(regular, s)
    BY DEF Outstanding
  <1>3. SmartOutstanding(s)' = SmartOutstanding(s) /\ RegularOutstanding(s)' = RegularOutstanding(s)
    BY <1>2, SameSending DEF SmartOutstanding, RegularOutstanding
  <1>4. LastTarget(s) => LastTarget(s)'
    BY <1>1 DEF LastTarget
  <1>5. Adds(s) => Adds(s)'
    BY <1>1, SameSending DEF Adds
  <1> QED
    BY <1>1, <1>2, <1>3, <1>4, <1>5, SameSending DEF Agreed

\* An order of another symbol joins a queue or leaves it.
LEMMA OtherSymbol ==
    ASSUME QueueInv, NEW s \in Symbols, SameWork(s), Agreed(s),
           NEW o \in Order, o.symbol # s,
           \/ smart' = Append(smart, o) /\ regular' = regular
           \/ smart # <<>> /\ o = Head(smart) /\ smart' = Tail(smart) /\ regular' = regular
           \/ smart' = smart /\ regular' = Append(regular, o)
           \/ regular # <<>> /\ o = Head(regular) /\ smart' = smart /\ regular' = Tail(regular)
    PROVE  Agreed(s)'
  <1>1. want'[s] = want[s]
    BY DEF SameWork
  <1>2. smart \in Seq(Order) /\ regular \in Seq(Order)
    BY DEF QueueInv, QueueTypeOK
  <1>3. ASSUME NEW q \in Seq(Order), NEW r,
               \/ r = Append(q, o)
               \/ q # <<>> /\ o = Head(q) /\ r = Tail(q)
        PROVE  Outstanding(r, s) <=> Outstanding(q, s)
    <2>1. CASE r = Append(q, o)
      BY <2>1, <1>3 DEF Outstanding
    <2>2. CASE q # <<>> /\ o = Head(q) /\ r = Tail(q)
      <3>1. /\ DOMAIN q = 1 .. Len(q) /\ DOMAIN r = 1 .. Len(q) - 1 /\ Len(q) \in Nat
            /\ \A i \in 1 .. Len(q) - 1 : r[i] = q[i + 1]
            /\ q[1] = o
        BY <2>2, <1>3
      <3>2. ASSUME NEW i \in 1 .. Len(q), q[i].symbol = s
            PROVE  i - 1 \in 1 .. Len(q) - 1 /\ r[i - 1].symbol = s
        BY <3>1, <3>2
      <3>3. ASSUME NEW i \in 1 .. Len(q) - 1, r[i].symbol = s
            PROVE  i + 1 \in 1 .. Len(q) /\ q[i + 1].symbol = s
        BY <3>1, <3>3
      <3> QED
        BY <3>1, <3>2, <3>3 DEF Outstanding
    <2> QED
      BY <1>3, <2>1, <2>2
  <1>4. Outstanding(smart, s)' = Outstanding(smart, s)
        /\ Outstanding(regular, s)' = Outstanding(regular, s)
    <2>1. Outstanding(smart', s) = Outstanding(smart, s)
          /\ Outstanding(regular', s) = Outstanding(regular, s)
      <3>1. Outstanding(smart', s) = Outstanding(smart, s)
        <4>1. CASE smart' = smart
          BY <4>1
        <4>2. CASE \/ smart' = Append(smart, o)
                   \/ smart # <<>> /\ o = Head(smart) /\ smart' = Tail(smart)
          BY <1>2, <1>3, <4>2 DEF Outstanding
        <4> QED
          BY <4>1, <4>2
      <3>2. Outstanding(regular', s) = Outstanding(regular, s)
        <4>1. CASE regular' = regular
          BY <4>1
        <4>2. CASE \/ regular' = Append(regular, o)
                   \/ regular # <<>> /\ o = Head(regular) /\ regular' = Tail(regular)
          BY <1>2, <1>3, <4>2 DEF Outstanding
        <4> QED
          BY <4>1, <4>2
      <3> QED
        BY <3>1, <3>2
    <2> QED
      BY <2>1 DEF Outstanding
  <1>5. SmartOutstanding(s)' = SmartOutstanding(s) /\ RegularOutstanding(s)' = RegularOutstanding(s)
    BY <1>4, SameSending DEF SmartOutstanding, RegularOutstanding
  <1>6. ASSUME LastTarget(s) PROVE LastTarget(s)'
    <2> PICK i \in 1 .. Len(smart) : /\ smart[i].symbol = s /\ smart[i].size = want[s]
                                     /\ \A j \in i + 1 .. Len(smart) : smart[j].symbol # s
      BY <1>6 DEF LastTarget
    <2>1. CASE smart' = smart
      BY <1>1, <2>1 DEF LastTarget
    <2>2. CASE smart' = Append(smart, o)
      <3>1. /\ Len(smart') = Len(smart) + 1 /\ Len(smart) \in Nat
            /\ \A j \in 1 .. Len(smart) : smart'[j] = smart[j]
            /\ smart'[Len(smart) + 1] = o
        BY <1>2, <2>2
      <3>2. \A j \in i + 1 .. Len(smart') : smart'[j].symbol # s
        BY <3>1
      <3> QED
        BY <1>1, <3>1, <3>2 DEF LastTarget
    <2>3. CASE smart # <<>> /\ o = Head(smart) /\ smart' = Tail(smart)
      <3>1. /\ Len(smart') = Len(smart) - 1 /\ Len(smart) \in Nat
            /\ \A j \in 1 .. Len(smart') : smart'[j] = smart[j + 1]
            /\ smart[1] = o
        BY <1>2, <2>3
      <3>2. i - 1 \in 1 .. Len(smart') /\ smart'[i - 1] = smart[i]
        BY <3>1
      <3>3. \A j \in i .. Len(smart') : smart'[j].symbol # s
        BY <3>1
      <3> QED
        BY <1>1, <3>2, <3>3 DEF LastTarget
    <2> QED
      BY <2>1, <2>2, <2>3
  <1>7. ASSUME want[s] \in Int, Adds(s) PROVE Adds(s)'
    <2>1. PICK n \in Int : StartsAt(n, s) /\ Sums(regular, s, n, want[s])
      BY <1>7 DEF Adds
    <2>2. Part(o, s) = 0
      BY DEF Part
    <2>3. Sums(regular', s, n, want[s])
      <3>1. n + 0 = n /\ want[s] + 0 = want[s]
        BY <1>7
      <3> QED
        BY <1>2, <1>7, <2>1, <2>2, <3>1, SumsAppend, SumsTail
    <2> QED
      BY <1>1, <2>1, <2>3, SameSending DEF Adds
  <1>8. want[s] # Unknown => want[s] \in Int
    BY DEF QueueInv, QueueTypeOK
  <1> QED
    BY <1>1, <1>4, <1>5, <1>6, <1>7, <1>8, SameSending DEF Agreed

-----------------------------------------------------------------------------
(* Every step keeps it *)

\* Processors that are not busy before or after a step do not count.
LEMMA StepSame ==
    ASSUME QueueInv, NEW s \in Symbols, NEW w \in Workers,
           \A v \in Workers \ {w} : worker'[v] = worker[v],
           worker[w].at \in {"read", "trade", "post"} => worker[w].order.symbol # s,
           worker'[w].at \in {"read", "trade", "post"} => worker'[w].order.symbol # s,
           position'[s] = position[s], want'[s] = want[s]
    PROVE  SameWork(s)
  BY DEF SameWork

\* What a step of the processor does, as far as types go.
LEMMA OneMoves ==
    ASSUME QueueInv, NEW w \in Workers, Process(w)
    PROVE  /\ ~IsOff(w) /\ worker[w] \in Processor /\ worker[w].order \in Order
           /\ \A v \in Workers \ {w} : worker'[v] = worker[v] /\ worker[v].at = "off"
  <1>1. ~IsOff(w)
    BY DEF Process, Loop, Answer, TakeSmart, ReadPosition, ReadFails, Trade, TradeRefused, NoSmart,
           NoRegular,
           TakeRegular, Post, PostFails, IsOff
  <1>2. worker \in [Workers -> Processor]
    BY DEF QueueInv, QueueTypeOK, Processor
  <1>3. \A v \in Workers \ {w} : worker'[v] = worker[v]
    BY <1>2 DEF Process, Loop, Answer, TakeSmart, ReadPosition, ReadFails, Trade, TradeRefused,
           NoSmart,
                NoRegular, TakeRegular, Post, PostFails
  <1> QED
    BY <1>1, <1>2, <1>3 DEF QueueInv, OneProcessor, IsOff, Processor

\* The processor's next place and order.
LEMMA Places ==
    ASSUME QueueInv, NEW w \in Workers
    PROVE  /\ TakeSmart(w) => worker'[w].at = "read" /\ worker'[w].order = Head(smart)
           /\ ReadPosition(w) => /\ worker'[w].at = "trade" /\ worker'[w].order = worker[w].order
                                 /\ worker'[w].seen = position[worker[w].order.symbol]
           /\ ReadFails(w) => worker'[w].at = "trade" /\ worker'[w].order = worker[w].order
           /\ Trade(w) \/ TradeRefused(w) \/ Post(w) \/ PostFails(w) => worker'[w].at = "smart"
           /\ NoSmart(w) => worker'[w].at = "regular"
           /\ NoRegular(w) => worker'[w].at = "smart"
           /\ TakeRegular(w) => worker'[w].at = "post" /\ worker'[w].order = Head(regular)
  <1>1. worker \in [Workers -> Processor] /\ worker[w] \in Processor
    BY DEF QueueInv, QueueTypeOK, Processor
  <1>2. ASSUME TakeSmart(w) PROVE worker'[w].at = "read" /\ worker'[w].order = Head(smart)
    BY <1>1, <1>2 DEF TakeSmart, Processor
  <1>3. ASSUME ReadPosition(w)
        PROVE  /\ worker'[w].at = "trade" /\ worker'[w].order = worker[w].order
               /\ worker'[w].seen = position[worker[w].order.symbol]
    BY <1>1, <1>3 DEF ReadPosition, Processor
  <1>4. ASSUME ReadFails(w) PROVE worker'[w].at = "trade" /\ worker'[w].order = worker[w].order
    BY <1>1, <1>4 DEF ReadFails, Processor
  <1>5. ASSUME Trade(w) \/ TradeRefused(w) \/ Post(w) \/ PostFails(w)
        PROVE  worker'[w].at = "smart"
    <2>1. worker' = [worker EXCEPT ![w] = [Off EXCEPT !.at = "smart"]]
      BY <1>5 DEF Trade, TradeRefused, Post, PostFails
    <2> QED
      BY <1>1, <2>1, OffType
  <1>6. ASSUME NoSmart(w) PROVE worker'[w].at = "regular"
    BY <1>1, <1>6 DEF NoSmart, Processor
  <1>7. ASSUME NoRegular(w) PROVE worker'[w].at = "smart"
    BY <1>1, <1>7 DEF NoRegular, Processor
  <1>8. ASSUME TakeRegular(w) PROVE worker'[w].at = "post" /\ worker'[w].order = Head(regular)
    <2>1. Head(regular) \in Order
      BY <1>8 DEF TakeRegular, QueueInv, QueueTypeOK
    <2>2. worker' = [worker EXCEPT ![w] = [Off EXCEPT !.at = "post", !.order = Head(regular)]]
      BY <1>8 DEF TakeRegular
    <2> QED
      BY <1>1, <2>1, <2>2, OffType
  <1> QED
    BY <1>2, <1>3, <1>4, <1>5, <1>6, <1>7, <1>8

LEMMA TakeSmartWant ==
    ASSUME QueueInv, WantInv, NEW w \in Workers, TakeSmart(w)
    PROVE  WantInv'
  <1>1. /\ worker[w].at = "smart" /\ smart # <<>> /\ smart' = Tail(smart)
        /\ UNCHANGED <<regular, position, want>>
    BY DEF TakeSmart
  <1>2. /\ worker'[w].at = "read" /\ worker'[w].order = Head(smart)
        /\ \A v \in Workers \ {w} : worker'[v] = worker[v] /\ worker[v].at = "off"
    BY Places, OneMoves DEF Process, Loop, Answer
  <1>3. /\ smart \in Seq(Order) /\ Head(smart) = smart[1] /\ Head(smart) \in Order
        /\ Len(smart) \in Nat \ {0}
    BY <1>1 DEF QueueInv, QueueTypeOK
  <1>4. /\ Len(Tail(smart)) = Len(smart) - 1
        /\ \A j \in 1 .. Len(smart) - 1 : Tail(smart)[j] = smart[j + 1]
    BY <1>1, <1>3
  <1> SUFFICES ASSUME NEW s \in Symbols PROVE Agreed(s)'
    BY DEF WantInv
  <1>5. Agreed(s)
    BY DEF WantInv
  <1>6. CASE Head(smart).symbol # s
    <2>1. SameWork(s)
      BY <1>1, <1>2, <1>6, StepSame
    <2> QED
      BY <1>1, <1>3, <1>5, <1>6, <2>1, OtherSymbol
  <1>7. CASE Head(smart).symbol = s /\ want[s] # Unknown
    <2>1. Outstanding(smart, s)
      BY <1>3, <1>7 DEF Outstanding
    <2>2. ~RegularOutstanding(s) /\ LastTarget(s)
      BY <1>5, <1>7, <2>1 DEF Agreed, SmartOutstanding
    <2>3. ~RegularOutstanding(s)' /\ SmartOutstanding(s)'
      BY <1>1, <1>2, <1>7, <2>2 DEF RegularOutstanding, SmartOutstanding, Outstanding, Sending
    <2>4. PICK i \in 1 .. Len(smart) : /\ smart[i].symbol = s /\ smart[i].size = want[s]
                                       /\ \A j \in i + 1 .. Len(smart) : smart[j].symbol # s
      BY <2>2 DEF LastTarget
    <2>5. CASE i = 1
      <3>1. ~Outstanding(smart', s)
        <4>1. \A j \in 1 .. Len(smart) - 1 : smart'[j].symbol # s
          BY <1>1, <1>3, <1>4, <2>4, <2>5
        <4>2. DOMAIN smart' = 1 .. Len(smart) - 1
          BY <1>1, <1>3
        <4> QED
          BY <4>1, <4>2 DEF Outstanding
      <3>2. \A v \in Workers : Aims(v, s)'
        BY <1>1, <1>2, <1>3, <2>4, <2>5 DEF Aims
      <3>3. ~Outstanding(smart, s)'
        BY <3>1 DEF Outstanding
      <3> QED
        BY <2>3, <3>2, <3>3 DEF Agreed
    <2>6. CASE i # 1
      <3>1. i - 1 \in 1 .. Len(smart') /\ smart'[i - 1] = smart[i]
        BY <1>1, <1>3, <1>4, <2>6
      <3>2. \A j \in (i - 1) + 1 .. Len(smart') : smart'[j].symbol # s
        BY <1>1, <1>3, <1>4, <2>4
      <3>3. LastTarget(s)'
        <4>1. smart'[i - 1].symbol = s /\ smart'[i - 1].size = want'[s]
          BY <1>1, <2>4, <3>1
        <4> QED
          BY <3>1, <3>2, <4>1 DEF LastTarget
      <3>4. DOMAIN smart' = 1 .. Len(smart')
        BY <1>1, <1>3
      <3>5. Outstanding(smart, s)'
        BY <2>4, <3>1, <3>4 DEF Outstanding
      <3> QED
        BY <2>3, <3>3, <3>5 DEF Agreed
    <2> QED
      BY <2>5, <2>6
  <1> QED
    BY <1>1, <1>6, <1>7 DEF Agreed

LEMMA ReadWant ==
    ASSUME QueueInv, WantInv, NEW w \in Workers, ReadPosition(w)
    PROVE  WantInv'
  <1>1. worker[w].at = "read" /\ UNCHANGED <<smart, regular, position, want>>
    BY DEF ReadPosition
  <1>2. /\ worker'[w].at = "trade" /\ worker'[w].order = worker[w].order
        /\ worker'[w].seen = position[worker[w].order.symbol]
        /\ \A v \in Workers \ {w} : worker'[v] = worker[v] /\ worker[v].at = "off"
    BY Places, OneMoves DEF Process, Loop, Answer
  <1> SUFFICES ASSUME NEW s \in Symbols PROVE Agreed(s)'
    BY DEF WantInv
  <1>3. Agreed(s)
    BY DEF WantInv
  <1>4. CASE worker[w].order.symbol # s
    <2>1. SameWork(s)
      BY <1>1, <1>2, <1>4, StepSame
    <2> QED
      BY <1>1, <1>3, <2>1, SameAgreed
  <1>5. CASE worker[w].order.symbol = s /\ want[s] # Unknown
    <2>1. SmartOutstanding(s)
      BY <1>1, <1>5 DEF SmartOutstanding, Sending
    <2>2. SmartOutstanding(s)' /\ ~RegularOutstanding(s)'
      BY <1>1, <1>2, <1>3, <1>5, <2>1
      DEF SmartOutstanding, RegularOutstanding, Sending, Outstanding, Agreed
    <2>3. /\ Outstanding(smart, s)' = Outstanding(smart, s)
          /\ LastTarget(s) => LastTarget(s)'
      BY <1>1 DEF Outstanding, LastTarget
    <2>4. \A v \in Workers : Aims(v, s) => Aims(v, s)'
      BY <1>1, <1>2, <1>5 DEF Aims
    <2> QED
      BY <1>1, <1>3, <2>2, <2>3, <2>4 DEF Agreed
  <1> QED
    BY <1>1, <1>4, <1>5 DEF Agreed

\* An order that is lost leaves only a later target to go by.
LEMMA LostWant ==
    ASSUME QueueInv, WantInv, NEW w \in Workers, ReadFails(w) \/ TradeRefused(w)
    PROVE  WantInv'
  <1>1. /\ worker[w].at \in {"read", "trade"} /\ UNCHANGED <<smart, regular, position>>
        /\ Lost(worker[w].order.symbol)
    BY DEF ReadFails, TradeRefused
  <1>2. /\ worker'[w].at \in {"trade", "smart"}
        /\ worker'[w].at = "trade" => worker'[w].order = worker[w].order
        /\ \A v \in Workers \ {w} : worker'[v] = worker[v] /\ worker[v].at = "off"
    BY Places, OneMoves DEF Process, Loop, Answer
  <1> SUFFICES ASSUME NEW s \in Symbols PROVE Agreed(s)'
    BY DEF WantInv
  <1>3. Agreed(s)
    BY DEF WantInv
  <1>4. want \in [Symbols -> Int \cup {Unknown}]
    BY DEF QueueInv, QueueTypeOK
  <1>5. CASE worker[w].order.symbol # s
    <2>1. want'[s] = want[s]
      BY <1>1, <1>4, <1>5 DEF Lost
    <2>2. SameWork(s)
      BY <1>1, <1>2, <1>5, <2>1, StepSame
    <2> QED
      BY <1>1, <1>3, <2>2, SameAgreed
  <1>6. CASE worker[w].order.symbol = s /\ want'[s] # Unknown
    <2>1. Outstanding(smart, s) /\ want'[s] = want[s]
      BY <1>1, <1>4, <1>6 DEF Lost
    <2>2. SmartOutstanding(s)
      BY <2>1 DEF SmartOutstanding
    <2>3. LastTarget(s) /\ ~RegularOutstanding(s)
      BY <1>3, <1>6, <2>1, <2>2 DEF Agreed
    <2>4. Outstanding(smart, s)' /\ LastTarget(s)'
      BY <1>1, <2>1, <2>3 DEF Outstanding, LastTarget
    <2>5. ~RegularOutstanding(s)' /\ SmartOutstanding(s)'
      BY <1>1, <1>2, <2>3, <2>4 DEF RegularOutstanding, SmartOutstanding, Sending, Outstanding
    <2> QED
      BY <2>4, <2>5 DEF Agreed
  <1> QED
    BY <1>5, <1>6 DEF Agreed

\* Trading the difference takes the account to the target.
LEMMA OnTarget ==
    ASSUME NEW a, NEW q \in Nat, NEW target \in Int, NEW current \in Int,
           target = 0 => q = 0
    PROVE  LET so == SmartOrder(a, q, target, current)
           IN  current + Effect(so.action, so.quantity) = target
  BY DEF SmartOrder, IsFreshTrade, Adjustment, Magnitude, Effect

LEMMA TradeWant ==
    ASSUME QueueInv, WantInv, NEW w \in Workers, Trade(w)
    PROVE  WantInv'
  <1> DEFINE o == worker[w].order
             so == SmartOrder(o.action, o.quantity, o.size, worker[w].seen)
             e == Effect(so.action, so.quantity)
  <1>1. /\ worker[w].at = "trade" /\ UNCHANGED <<smart, regular, want>>
        /\ position' = [position EXCEPT ![o.symbol] = @ + e]
    BY DEF Trade
  <1>2. /\ worker'[w].at = "smart"
        /\ \A v \in Workers \ {w} : worker'[v] = worker[v] /\ worker[v].at = "off"
    BY Places, OneMoves DEF Process, Loop, Answer
  <1>3. o \in Order /\ Asks(o) /\ worker[w].seen \in Int
    BY <1>1, OneMoves DEF Process, Loop, Answer, QueueInv, AsksOK, Processor
  <1>4. o.symbol \in Symbols /\ o.quantity \in Nat /\ o.size \in Int
    BY <1>3 DEF Order
  <1>5. worker[w].seen + e = o.size
    BY <1>3, <1>4, OnTarget DEF Asks
  <1> HIDE DEF so, e
  <1> SUFFICES ASSUME NEW s \in Symbols PROVE Agreed(s)'
    BY DEF WantInv
  <1>6. Agreed(s) /\ position \in [Symbols -> Int]
    BY DEF WantInv, QueueInv, QueueTypeOK
  <1>7. CASE o.symbol # s
    <2>1. SameWork(s)
      BY <1>1, <1>2, <1>6, <1>7, StepSame
    <2> QED
      BY <1>1, <1>6, <2>1, SameAgreed
  <1>8. CASE o.symbol = s /\ want[s] # Unknown
    <2>1. SmartOutstanding(s) /\ ~RegularOutstanding(s)
      BY <1>1, <1>6, <1>8 DEF Agreed, SmartOutstanding, Sending
    <2>2. ~RegularOutstanding(s)'
      BY <1>1, <1>2, <2>1 DEF RegularOutstanding, Outstanding, Sending
    <2>3. CASE Outstanding(smart, s)
      <3>1. Outstanding(smart, s)' /\ LastTarget(s)' /\ SmartOutstanding(s)'
        BY <1>1, <1>6, <1>8, <2>3 DEF Agreed, Outstanding, LastTarget, SmartOutstanding
      <3> QED
        BY <2>2, <3>1 DEF Agreed
    <2>4. CASE ~Outstanding(smart, s)
      <3>1. o.size = want[s] /\ worker[w].seen = position[s]
        BY <1>1, <1>6, <1>8, <2>4 DEF Agreed, Aims
      <3>2. e \in Int
        BY <1>3, <1>4, SmartOrderType, EffectType DEF e, so
      <3>3. position'[s] = want[s]
        BY <1>1, <1>5, <1>6, <1>8, <3>1
      <3>4. ~Outstanding(regular, s) /\ regular \in Seq(Order) /\ want[s] \in Int
        BY <1>8, <2>1 DEF RegularOutstanding, QueueInv, QueueTypeOK
      <3>5. Sums(regular, s, want[s], want[s])
        BY <3>4, SumsNone
      <3>6. StartsAt(want[s], s)'
        BY <1>1, <1>2, <3>3 DEF StartsAt, Sending
      <3>7. Adds(s)'
        BY <1>1, <3>4, <3>5, <3>6 DEF Adds
      <3>8. ~Outstanding(smart, s)' /\ \A v \in Workers : Aims(v, s)'
        BY <1>1, <1>2, <2>4 DEF Outstanding, Aims
      <3> QED
        BY <2>2, <3>7, <3>8 DEF Agreed
    <2> QED
      BY <2>3, <2>4
  <1> QED
    BY <1>1, <1>7, <1>8 DEF Agreed

LEMMA IdleWant ==
    ASSUME QueueInv, WantInv, NEW w \in Workers, NoSmart(w) \/ NoRegular(w)
    PROVE  WantInv'
  <1>1. /\ worker[w].at \in {"smart", "regular"} /\ worker'[w].at \in {"smart", "regular"}
        /\ \A v \in Workers \ {w} : worker'[v] = worker[v]
        /\ UNCHANGED <<smart, regular, position, want>>
    BY Places, OneMoves DEF Process, Loop, Answer, NoSmart, NoRegular
  <1> SUFFICES ASSUME NEW s \in Symbols PROVE Agreed(s)'
    BY DEF WantInv
  <1>2. SameWork(s)
    BY <1>1, StepSame
  <1> QED
    BY <1>1, <1>2, SameAgreed DEF WantInv

LEMMA TakeRegularWant ==
    ASSUME QueueInv, WantInv, NEW w \in Workers, TakeRegular(w)
    PROVE  WantInv'
  <1>1. /\ worker[w].at = "regular" /\ regular # <<>> /\ regular' = Tail(regular)
        /\ UNCHANGED <<smart, position, want>>
    BY DEF TakeRegular
  <1>2. /\ worker'[w].at = "post" /\ worker'[w].order = Head(regular)
        /\ \A v \in Workers \ {w} : worker'[v] = worker[v] /\ worker[v].at = "off"
    BY Places, OneMoves DEF Process, Loop, Answer
  <1>3. regular \in Seq(Order) /\ Head(regular) = regular[1] /\ Head(regular) \in Order
        /\ Len(regular) \in Nat \ {0}
    BY <1>1 DEF QueueInv, QueueTypeOK
  <1> SUFFICES ASSUME NEW s \in Symbols PROVE Agreed(s)'
    BY DEF WantInv
  <1>4. Agreed(s)
    BY DEF WantInv
  <1>5. CASE Head(regular).symbol # s
    <2>1. SameWork(s)
      BY <1>1, <1>2, <1>5, StepSame
    <2> QED
      BY <1>1, <1>3, <1>4, <1>5, <2>1, OtherSymbol
  <1>6. CASE Head(regular).symbol = s /\ want[s] # Unknown
    <2>1. Outstanding(regular, s)
      BY <1>3, <1>6 DEF Outstanding
    <2>2. ~SmartOutstanding(s) /\ Adds(s)
      BY <1>4, <1>6, <2>1 DEF Agreed, RegularOutstanding
    <2>3. ~SmartOutstanding(s)' /\ ~Outstanding(smart, s)' /\ \A v \in Workers : Aims(v, s)'
      BY <1>1, <1>2, <2>2 DEF SmartOutstanding, Outstanding, Sending, Aims
    <2>4. PICK n \in Int : StartsAt(n, s) /\ Sums(regular, s, n, want[s])
      BY <2>2 DEF Adds
    <2>5. ~Sending({"post"}, s)
      BY <1>1, <1>2 DEF Sending
    <2>6. n = position[s] /\ want[s] \in Int
      BY <1>6, <2>4, <2>5 DEF StartsAt, QueueInv, QueueTypeOK
    <2>7. PICK e \in Int : /\ e = Effect(Head(regular).action, Head(regular).quantity)
                           /\ Part(Head(regular), s) = e
      BY <1>3, <1>6, EffectType DEF Part, Order
    <2>8. Sums(regular', s, n + e, want'[s])
      BY <1>1, <1>3, <2>4, <2>6, <2>7, SumsTail
    <2>9. StartsAt(n + e, s)'
      <3>1. Sending({"post"}, s)'
        BY <1>2, <1>6 DEF Sending
      <3>2. \A v \in Workers : worker'[v].at = "post" => v = w
        BY <1>2
      <3> QED
        BY <1>1, <1>2, <2>6, <2>7, <3>1, <3>2 DEF StartsAt
    <2>10. Adds(s)'
      BY <2>6, <2>7, <2>8, <2>9 DEF Adds
    <2> QED
      BY <2>3, <2>10 DEF Agreed
  <1> QED
    BY <1>1, <1>5, <1>6 DEF Agreed

\* The request of the order: it fills, or it is refused and the order is lost.
LEMMA PostWant ==
    ASSUME QueueInv, WantInv, NEW w \in Workers, Post(w) \/ PostFails(w)
    PROVE  WantInv'
  <1> DEFINE o == worker[w].order
             e == Effect(o.action, o.quantity)
  <1>1. /\ worker[w].at = "post" /\ UNCHANGED <<smart, regular>>
        /\ \/ /\ position' = [position EXCEPT ![o.symbol] = @ + e]
              /\ position' = position => Lost(o.symbol) \/ want' = want
              /\ position' # position => want' = want
           \/ position' = position /\ Lost(o.symbol)
    BY DEF Post, PostFails
  <1>2. /\ worker'[w].at = "smart"
        /\ \A v \in Workers \ {w} : worker'[v] = worker[v] /\ worker[v].at = "off"
    BY Places, OneMoves DEF Process, Loop, Answer
  <1>3. o \in Order /\ o.symbol \in Symbols /\ e \in Int
    BY OneMoves, EffectType DEF Process, Loop, Answer, Order
  <1>4. position \in [Symbols -> Int] /\ want \in [Symbols -> Int \cup {Unknown}]
    BY DEF QueueInv, QueueTypeOK
  <1> HIDE DEF e
  <1> SUFFICES ASSUME NEW s \in Symbols PROVE Agreed(s)'
    BY DEF WantInv
  <1>5. Agreed(s)
    BY DEF WantInv
  <1>6. CASE o.symbol # s
    <2>1. position'[s] = position[s] /\ want'[s] = want[s]
      BY <1>1, <1>4, <1>6 DEF Lost
    <2>2. SameWork(s)
      BY <1>1, <1>2, <1>6, <2>1, StepSame
    <2> QED
      BY <1>1, <1>5, <2>2, SameAgreed
  <1>7. CASE o.symbol = s /\ want'[s] # Unknown
    <2>1. RegularOutstanding(s)
      BY <1>1, <1>7 DEF RegularOutstanding, Sending
    <2>2. want'[s] = want[s]
      BY <1>1, <1>4, <1>7 DEF Lost
    <2>3. ~SmartOutstanding(s) /\ Adds(s)
      BY <1>5, <1>7, <2>1, <2>2 DEF Agreed
    <2>4. position'[s] = position[s] + e
      <3>1. ~Outstanding(smart, s)
        BY <2>3 DEF SmartOutstanding
      <3>2. ~Lost(s)
        BY <1>4, <1>7, <3>1 DEF Lost
      <3> QED
        BY <1>1, <1>3, <1>4, <1>7, <3>2
    <2>5. PICK n \in Int : StartsAt(n, s) /\ Sums(regular, s, n, want[s])
      BY <2>3 DEF Adds
    <2>6. n = position'[s]
      BY <1>1, <1>7, <2>4, <2>5 DEF StartsAt, e
    <2>7. StartsAt(n, s)'
      BY <1>2, <2>6 DEF StartsAt
    <2>8. Adds(s)'
      BY <1>1, <2>2, <2>5, <2>7 DEF Adds
    <2>9. ~SmartOutstanding(s)' /\ ~Outstanding(smart, s)' /\ \A v \in Workers : Aims(v, s)'
      BY <1>1, <1>2, <2>3 DEF SmartOutstanding, Outstanding, Sending, Aims
    <2> QED
      BY <2>8, <2>9 DEF Agreed
  <1> QED
    BY <1>6, <1>7 DEF Agreed

\* Starting a processor sends nothing.
LEMMA EnsuredSame ==
    ASSUME QueueInv, EnsureOrderProcessor, UNCHANGED position, NEW s \in Symbols
    PROVE  /\ want'[s] = want[s] => SameWork(s)
           /\ \A w \in Workers : worker'[w].at \in {"read", "trade", "post"} =>
                                  worker'[w] = worker[w]
           /\ \A n \in Int : StartsAt(n, s) => StartsAt(n, s)'
  <1>1. \A w \in Workers : \/ worker'[w] = worker[w]
                           \/ worker[w].at = "off" /\ worker'[w].at = "smart"
    BY Ensured
  <1> QED
    BY <1>1 DEF SameWork, StartsAt, Sending

LEMMA QueueSmartWant ==
    ASSUME QueueInv, WantInv, NEW o \in Order, QueueSmart(o)
    PROVE  WantInv'
  <1>1. /\ EnsureOrderProcessor /\ smart' = Append(smart, o)
        /\ WantTarget(o.symbol, o.size) /\ UNCHANGED <<regular, position>>
    BY DEF QueueSmart
  <1>2. /\ smart \in Seq(Order) /\ want \in [Symbols -> Int \cup {Unknown}]
        /\ o.symbol \in Symbols /\ o.size \in Int
    BY DEF QueueInv, QueueTypeOK, Order
  <1> SUFFICES ASSUME NEW s \in Symbols PROVE Agreed(s)'
    BY DEF WantInv
  <1>3. Agreed(s)
    BY DEF WantInv
  <1>4. CASE o.symbol # s
    <2>1. SameWork(s)
      BY <1>1, <1>2, <1>4, EnsuredSame DEF WantTarget
    <2> QED
      BY <1>1, <1>3, <1>4, <2>1, OtherSymbol
  <1>5. CASE o.symbol = s /\ want'[s] # Unknown
    <2>1. ~RegularOutstanding(s) /\ want'[s] = o.size
      BY <1>1, <1>2, <1>5 DEF WantTarget
    <2>2. ~RegularOutstanding(s)'
      <3>1. ~Sending({"post"}, s)'
        BY <1>1, <2>1, EnsuredSame DEF RegularOutstanding, Sending
      <3> QED
        BY <1>1, <2>1, <3>1 DEF RegularOutstanding, Outstanding
    <2>3. /\ Len(smart') = Len(smart) + 1 /\ Len(smart) \in Nat
          /\ smart'[Len(smart) + 1] = o /\ DOMAIN smart' = 1 .. Len(smart) + 1
      BY <1>1, <1>2
    <2>4. Outstanding(smart, s)'
      BY <1>5, <2>3 DEF Outstanding
    <2>5. LastTarget(s)'
      <3> DEFINE k == Len(smart) + 1
      <3>1. k \in 1 .. Len(smart') /\ smart'[k].symbol = s /\ smart'[k].size = want'[s]
        BY <1>5, <2>1, <2>3
      <3>2. \A j \in k + 1 .. Len(smart') : smart'[j].symbol # s
        BY <2>3
      <3> HIDE DEF k
      <3> QED
        BY <3>1, <3>2 DEF LastTarget
    <2> QED
      BY <2>2, <2>4, <2>5 DEF Agreed, SmartOutstanding
  <1> QED
    BY <1>4, <1>5 DEF Agreed

LEMMA QueueRegularWant ==
    ASSUME QueueInv, WantInv, NEW o \in Order, QueueRegular(o)
    PROVE  WantInv'
  <1> DEFINE e == Effect(o.action, o.quantity)
  <1>1. /\ EnsureOrderProcessor /\ regular' = Append(regular, o)
        /\ WantMore(o.symbol, e) /\ UNCHANGED <<smart, position>>
    BY DEF QueueRegular
  <1>2. /\ regular \in Seq(Order) /\ want \in [Symbols -> Int \cup {Unknown}]
        /\ o.symbol \in Symbols /\ e \in Int
    BY EffectType DEF QueueInv, QueueTypeOK, Order
  <1> HIDE DEF e
  <1> SUFFICES ASSUME NEW s \in Symbols PROVE Agreed(s)'
    BY DEF WantInv
  <1>3. Agreed(s)
    BY DEF WantInv
  <1>4. CASE o.symbol # s
    <2>1. SameWork(s)
      BY <1>1, <1>2, <1>4, EnsuredSame DEF WantMore
    <2> QED
      BY <1>1, <1>3, <1>4, <2>1, OtherSymbol
  <1>5. CASE o.symbol = s /\ want'[s] # Unknown
    <2>1. ~SmartOutstanding(s) /\ want[s] # Unknown /\ want'[s] = want[s] + e
      BY <1>1, <1>2, <1>5 DEF WantMore
    <2>2. PICK n \in Int : StartsAt(n, s) /\ Sums(regular, s, n, want[s])
      BY <1>3, <2>1 DEF Agreed, Adds
    <2>3. Part(o, s) = e /\ want[s] \in Int
      BY <1>2, <1>5, <2>1 DEF Part, e
    <2>4. Sums(regular', s, n, want'[s])
      BY <1>1, <1>2, <2>1, <2>2, <2>3, SumsAppend
    <2>5. Adds(s)'
      BY <1>1, <2>2, <2>4, EnsuredSame DEF Adds
    <2>6. /\ ~SmartOutstanding(s)' /\ ~Outstanding(smart, s)'
          /\ \A v \in Workers : Aims(v, s)'
      <3>1. \A v \in Workers : worker'[v].at \in {"read", "trade"} => worker'[v].order.symbol # s
        BY <1>1, <2>1, EnsuredSame DEF SmartOutstanding, Sending
      <3> QED
        BY <1>1, <2>1, <3>1 DEF SmartOutstanding, Outstanding, Sending, Aims
    <2> QED
      BY <2>5, <2>6 DEF Agreed
  <1> QED
    BY <1>4, <1>5 DEF Agreed

LEMMA TickWant == ASSUME QueueInv, WantInv, Tick PROVE WantInv'
  <1> SUFFICES ASSUME NEW s \in Symbols PROVE Agreed(s)'
    BY DEF WantInv
  <1>1. SameWork(s) /\ smart' = smart /\ regular' = regular
    BY Aged DEF Tick, SameWork
  <1> QED
    BY <1>1, SameAgreed DEF WantInv

\* With nothing under way the account holds what was asked for.
LEMMA QuietWant ==
    ASSUME QueueInv, WantInv, NEW s \in Symbols, Quiet(s), want[s] # Unknown
    PROVE  position[s] = want[s]
  <1>1. PICK n \in Int : StartsAt(n, s) /\ Sums(regular, s, n, want[s])
    BY DEF WantInv, Agreed, Adds, Quiet
  <1>2. /\ ~Outstanding(regular, s) /\ ~Sending({"post"}, s)
        /\ regular \in Seq(Order) /\ want[s] \in Int
    BY DEF Quiet, RegularOutstanding, QueueInv, QueueTypeOK
  <1>3. n = position[s]
    BY <1>1, <1>2 DEF StartsAt
  <1> QED
    BY <1>1, <1>2, <1>3, SumsNone

\* Nothing is queued and nothing sent.
Nothing ==
    /\ position \in [Symbols -> Int] /\ smart = <<>> /\ regular = <<>>
    /\ \A w \in Workers : worker[w].at = "off"
    /\ \A s \in Symbols : want[s] # Unknown => want[s] = position[s]

LEMMA NothingWant == Nothing => WantInv
  <1> SUFFICES ASSUME Nothing, NEW s \in Symbols, want[s] # Unknown PROVE Agreed(s)
    BY DEF WantInv, Agreed
  <1> USE DEF Nothing
  <1>1. /\ ~Outstanding(smart, s) /\ ~Outstanding(regular, s)
        /\ regular \in Seq(Order) /\ want[s] \in Int
    BY EmptySeq DEF Outstanding
  <1>2. Sums(regular, s, want[s], want[s])
    BY <1>1, SumsNone
  <1>3. Adds(s)
    BY <1>1, <1>2 DEF Adds, StartsAt
  <1> QED
    BY <1>1, <1>3 DEF Agreed, SmartOutstanding, RegularOutstanding, Sending, Aims

LEMMA ForgetWant == ASSUME QueueInv, WantInv, Forget PROVE WantInv'
  <1>1. QueueInv'
    BY ForgetInv
  <1>2. /\ position' \in [Symbols -> Int] /\ smart' = <<>> /\ regular' = <<>>
        /\ \A w \in Workers : worker'[w] = Off
    BY DEF Forget, QueueInv, QueueTypeOK
  <1>3. \A w \in Workers : worker'[w].at = "off"
    BY <1>2, OffType
  <1>4. ASSUME NEW s \in Symbols, want'[s] # Unknown PROVE want'[s] = position'[s]
    <2>1. Quiet(s) /\ want'[s] = want[s] /\ position'[s] = position[s]
      BY <1>4 DEF Forget, Quiet
    <2> QED
      BY <1>4, <2>1, QuietWant
  <1>5. Nothing'
    BY <1>2, <1>3, <1>4 DEF Nothing
  <1> QED
    BY <1>5, NothingWant, PTL

-----------------------------------------------------------------------------
(* The strategies: types *)

\* What a webhook has accepted asks the way OrderOf does.
RequestOK ==
    \A r \in Requests : \A i \in 1 .. Len(request[r]) :
        request[r][i].queue = "smart" => Asks(request[r][i].order)

\* A job that is running has fired: TypeOK does not say so, and needs it.
Closers == \A s \in Strategies : closing[s] # <<>> => s \in fired

IInv == TypeOK /\ QueueInv /\ RequestOK /\ Closers

LEMMA OrderOfType ==
    ASSUME NEW s \in Strategies, NEW y \in Symbols, NEW a \in Action, NEW n \in Int
    PROVE  LET q == OrderOf(s, y, a, n)
           IN  /\ q \in Queued /\ q.order.symbol = y
               /\ q.queue = "smart" => Asks(q.order)
               /\ IsExit(s, a, n) => q.queue = "smart" /\ q.order.size = 0
  <1> DEFINE row(quantity, target) == [symbol |-> y, action |-> a,
                                       quantity |-> quantity, size |-> target]
  <1>1. Quantity \in Nat /\ Quantity # 0 /\ Magnitude(n) \in Nat
        /\ Mode[s] \in {"LONG", "SHORT", "BOTH"}
    BY StrategyAssumption DEF Magnitude
  <1>2. \A q \in Nat, m \in Int : /\ row(q, m) \in Order /\ row(q, m).symbol = y
                                  /\ row(q, m).quantity = q /\ row(q, m).size = m
    BY DEF Order
  <1> HIDE DEF row
  <1>3. CASE Mode[s] = "BOTH"
    <2>1. OrderOf(s, y, a, n) = [queue |-> "smart", order |-> row(IF n = 0 THEN 0 ELSE Quantity, n)]
      BY <1>3 DEF OrderOf, row
    <2>2. IsExit(s, a, n) <=> n = 0
      BY <1>3 DEF IsExit
    <2>3. PICK k \in Nat : k = IF n = 0 THEN 0 ELSE Quantity
      BY <1>1
    <2> QED
      BY <1>2, <2>1, <2>2, <2>3 DEF Queued, Asks
  <1>4. CASE Mode[s] # "BOTH" /\ IsExit(s, a, n)
    <2>1. OrderOf(s, y, a, n) = [queue |-> "smart", order |-> row(0, 0)]
      BY <1>4 DEF OrderOf, row
    <2> QED
      BY <1>2, <2>1 DEF Queued, Asks
  <1>5. CASE Mode[s] # "BOTH" /\ ~IsExit(s, a, n)
    <2>1. OrderOf(s, y, a, n) = [queue |-> "regular",
                                 order |-> row(IF n # 0 THEN Magnitude(n) ELSE Quantity, 0)]
      BY <1>5 DEF OrderOf, row
    <2>2. PICK k \in Nat : k = IF n # 0 THEN Magnitude(n) ELSE Quantity
      BY <1>1
    <2> QED
      BY <1>2, <1>5, <2>1, <2>2 DEF Queued, Asks
  <1> QED
    BY <1>3, <1>4, <1>5

LEMMA AlertsType ==
    ASSUME NEW s \in Strategies, NEW alert \in Alerts(s)
    PROVE  /\ Mapped(s) \subseteq Symbols
           /\ DOMAIN alert = 1 .. Len(alert) /\ Len(alert) \in Nat
           /\ \A i \in 1 .. Len(alert) : alert[i] \in Mapped(s)
  <1>1. SymbolsOf[s] \in Seq(Symbols)
    BY StrategyAssumption
  <1>2. Mapped(s) \subseteq Symbols
    BY <1>1 DEF Mapped
  <1>3. CASE alert = SymbolsOf[s]
    BY <1>1, <1>2, <1>3 DEF Mapped
  <1>4. CASE \E y \in Mapped(s) : alert = <<y>>
    BY <1>2, <1>4
  <1> QED
    BY <1>2, <1>3, <1>4 DEF Alerts

\* What one request is left with.
LEMMA ReceiveRequest ==
    ASSUME IInv, NEW r \in Requests, NEW s \in Strategies, NEW alert \in Alerts(s),
           NEW a \in Action, NEW n \in Sizes, Receive(r, s, alert, a, n)
    PROVE  /\ request' \in [Requests -> Seq(Queued)]
           /\ \A v \in Requests \ {r} : request'[v] = request[v]
           /\ \A i \in 1 .. Len(request'[r]) :
                 /\ request'[r][i] = OrderOf(s, alert[i], a, n) /\ alert[i] \in Mapped(s)
                 /\ WithinHours(s, IsExit(s, a, n))
  <1>1. /\ Mapped(s) \subseteq Symbols
        /\ DOMAIN alert = 1 .. Len(alert) /\ Len(alert) \in Nat
        /\ \A i \in 1 .. Len(alert) : alert[i] \in Mapped(s)
    BY AlertsType
  <1>2. n \in Int
    BY StrategyAssumption
  <1> DEFINE q == [i \in 1 .. Len(alert) |-> OrderOf(s, alert[i], a, n)]
  <1>3. \A i \in 1 .. Len(alert) : OrderOf(s, alert[i], a, n) \in Queued
    BY <1>1, <1>2, OrderOfType
  <1>4. q \in Seq(Queued) /\ Len(q) = Len(alert)
        /\ \A i \in 1 .. Len(q) : q[i] = OrderOf(s, alert[i], a, n)
    BY <1>1, <1>3
  <1>5. request \in [Requests -> Seq(Queued)]
    BY DEF IInv, TypeOK
  <1>6. CASE WithinHours(s, IsExit(s, a, n)) /\ request' = [request EXCEPT ![r] = q]
    <2> HIDE DEF q
    <2> QED
      BY <1>1, <1>4, <1>5, <1>6
  <1>7. CASE request' = [request EXCEPT ![r] = <<>>]
    <2>1. <<>> \in Seq(Queued) /\ Len(<<>>) = 0
      BY EmptySeq
    <2>2. request'[r] = <<>> /\ request' \in [Requests -> Seq(Queued)]
          /\ \A v \in Requests \ {r} : request'[v] = request[v]
      BY <1>5, <1>7, <2>1
    <2>3. 1 .. Len(request'[r]) = {}
      BY <2>1, <2>2
    <2> QED
      BY <2>2, <2>3
  <1> QED
    BY <1>1, <1>6, <1>7 DEF Receive, Accepted

LEMMA ReceiveInv ==
    ASSUME IInv, NEW r \in Requests, NEW s \in Strategies, NEW alert \in Alerts(s),
           NEW a \in Action, NEW n \in Sizes, Receive(r, s, alert, a, n)
    PROVE  IInv'
  <1>1. QueueInv'
    BY QueueSame DEF Receive, Accepted, IInv
  <1>2. cached' \in [Strategies -> {"none", "on", "off"}] /\ events' \in 0 .. MaxEvents
    <2>1. events' = events \/ (events < MaxEvents /\ events' = events + 1)
      BY DEF Receive, Count
    <2>2. cached' \in [Strategies -> {"none", "on", "off"}]
      BY DEF Receive, IInv, TypeOK
    <2> QED
      BY <2>1, <2>2, StrategyAssumption DEF IInv, TypeOK
  <1>3. TypeOK'
    BY <1>1, <1>2, ReceiveRequest DEF Receive, Accepted, IInv, TypeOK, QueueInv
  <1>4. RequestOK'
    <2>1. Mapped(s) \subseteq Symbols /\ n \in Int
      BY AlertsType, StrategyAssumption
    <2>2. ASSUME NEW v \in Requests, NEW i \in 1 .. Len(request'[v]),
                 request'[v][i].queue = "smart"
          PROVE  Asks(request'[v][i].order)
      <3>1. CASE v = r
        <4>1. request'[v][i] = OrderOf(s, alert[i], a, n) /\ alert[i] \in Symbols
          BY <2>1, <3>1, ReceiveRequest
        <4> QED
          BY <2>1, <2>2, <4>1, OrderOfType
      <3>2. CASE v # r
        BY <2>2, <3>2, ReceiveRequest DEF IInv, RequestOK
      <3> QED
        BY <3>1, <3>2
    <2> QED
      BY <2>2 DEF RequestOK, Asks
  <1>5. Closers'
    BY DEF Receive, Accepted, IInv, Closers
  <1> QED
    BY <1>1, <1>3, <1>4, <1>5 DEF IInv

\* The first order of a request.
LEMMA HeadRequest ==
    ASSUME IInv, NEW r \in Requests, request[r] # <<>>
    PROVE  /\ Head(request[r]) = request[r][1] /\ 1 \in 1 .. Len(request[r])
           /\ Head(request[r]) \in Queued
           /\ Head(request[r]).queue = "smart" => Asks(Head(request[r]).order)
           /\ Tail(request[r]) \in Seq(Queued)
           /\ \A i \in 1 .. Len(Tail(request[r])) : Tail(request[r])[i] = request[r][i + 1]
                                                 /\ i + 1 \in 1 .. Len(request[r])
  <1>1. request[r] \in Seq(Queued)
    BY DEF IInv, TypeOK
  <1>2. Head(request[r]) = request[r][1] /\ 1 \in 1 .. Len(request[r])
    BY <1>1
  <1> QED
    BY <1>1, <1>2 DEF IInv, RequestOK

LEMMA PutInv == ASSUME IInv, NEW r \in Requests, Put(r) PROVE IInv'
  <1>1. request[r] # <<>> /\ request' = [request EXCEPT ![r] = Tail(@)]
    BY DEF Put
  <1>2. PICK o \in Order : /\ o = Head(request[r]).order
                           /\ \/ QueueSmart(o) /\ Asks(o)
                              \/ QueueRegular(o)
    BY <1>1, HeadRequest DEF Put, Queued
  <1>3. QueueInv'
    BY <1>2, QueueSmartInv, QueueRegularInv DEF IInv
  <1>4. request \in [Requests -> Seq(Queued)]
    BY DEF IInv, TypeOK
  <1>5. request' \in [Requests -> Seq(Queued)] /\ request'[r] = Tail(request[r])
        /\ \A v \in Requests \ {r} : request'[v] = request[v]
    BY <1>1, <1>4, HeadRequest
  <1>6. TypeOK'
    BY <1>3, <1>5 DEF Put, IInv, TypeOK, QueueInv
  <1>7. RequestOK'
    <2>1. ASSUME NEW v \in Requests, NEW i \in 1 .. Len(request'[v]),
                 request'[v][i].queue = "smart"
          PROVE  Asks(request'[v][i].order)
      <3>1. CASE v = r
        BY <1>1, <1>5, <2>1, <3>1, HeadRequest DEF IInv, RequestOK
      <3>2. CASE v # r
        BY <1>5, <2>1, <3>2 DEF IInv, RequestOK
      <3> QED
        BY <3>1, <3>2
    <2> QED
      BY <2>1 DEF RequestOK, Asks
  <1>8. Closers'
    BY DEF Put, IInv, Closers
  <1> QED
    BY <1>3, <1>6, <1>7, <1>8 DEF IInv

\* The pages, the start of the job and the clock leave queues and requests alone.
LEMMA PageInv ==
    ASSUME IInv, NEW s \in Strategies, Page(s) \/ CacheExpires(s) \/ StartSquareoff(s) \/ Misfire(s)
    PROVE  IInv'
  <1>1. UNCHANGED <<queueVars, squared, overrun, request, clock>>
    BY DEF Page, Create, Toggle, Delete, CacheExpires, StartSquareoff, Misfire
  <1>2. QueueInv'
    BY <1>1, QueueSame DEF IInv
  <1>3. /\ status' \in [Strategies -> {"none", "on", "off", "deleted"}]
        /\ cached' \in [Strategies -> {"none", "on", "off"}]
        /\ jobs' \subseteq Strategies /\ fired' \subseteq Strategies /\ fired \subseteq fired'
        /\ events' \in 0 .. MaxEvents
    <2> USE DEF IInv, TypeOK
    <2>1. CASE Create(s)
      BY <2>1 DEF Create, Schedule
    <2>2. CASE Toggle(s)
      BY <2>2, StrategyAssumption DEF Toggle, Schedule, Count
    <2>3. CASE Delete(s)
      BY <2>3, StrategyAssumption DEF Delete, Count
    <2>4. CASE CacheExpires(s) \/ StartSquareoff(s) \/ Misfire(s)
      BY <2>4 DEF CacheExpires, StartSquareoff, Misfire
    <2> QED
      BY <2>1, <2>2, <2>3, <2>4 DEF Page
  <1>4. closing' \in [Strategies -> Seq(Symbols)]
    BY StrategyAssumption
    DEF Page, Create, Toggle, Delete, CacheExpires, StartSquareoff, Misfire, IInv, TypeOK
  <1>5. TypeOK'
    BY <1>1, <1>2, <1>3, <1>4 DEF IInv, TypeOK, QueueInv
  <1>6. RequestOK'
    BY <1>1 DEF IInv, RequestOK, Asks
  <1>7. Closers'
    BY <1>3 DEF Page, Create, Toggle, Delete, CacheExpires, StartSquareoff, Misfire, IInv, TypeOK,
               Closers
  <1> QED
    BY <1>2, <1>5, <1>6, <1>7 DEF IInv

\* The order that closes a position.
LEMMA ClosingOrder ==
    ASSUME IInv, NEW s \in Strategies, closing[s] # <<>>
    PROVE  /\ [symbol |-> Head(closing[s]), action |-> "SELL", quantity |-> 0, size |-> 0] \in Order
           /\ closing[s] \in Seq(Symbols) /\ Tail(closing[s]) \in Seq(Symbols)
           /\ Head(closing[s]) = closing[s][1] /\ Len(closing[s]) \in Nat \ {0}
           /\ Len(Tail(closing[s])) = Len(closing[s]) - 1
           /\ \A i \in 1 .. Len(closing[s]) - 1 : Tail(closing[s])[i] = closing[s][i + 1]
  <1>1. closing[s] \in Seq(Symbols)
    BY DEF IInv, TypeOK
  <1>2. Head(closing[s]) \in Symbols
    BY <1>1
  <1> QED
    BY <1>1, <1>2 DEF Order, Action

LEMMA SquareoffInv == ASSUME IInv, NEW s \in Strategies, SquareoffPosition(s) PROVE IInv'
  <1>1. PICK o \in Order : /\ QueueSmart(o) /\ Asks(o)
                           /\ o = [symbol |-> Head(closing[s]), action |-> "SELL",
                                   quantity |-> 0, size |-> 0]
    BY ClosingOrder DEF SquareoffPosition, Asks
  <1>2. QueueInv'
    BY <1>1, QueueSmartInv DEF IInv
  <1>3. closing' \in [Strategies -> Seq(Symbols)]
    BY ClosingOrder DEF SquareoffPosition, IInv, TypeOK
  <1>4. squared' \subseteq fired'
    BY DEF SquareoffPosition, IInv, TypeOK, Closers
  <1>5. TypeOK'
    BY <1>2, <1>3, <1>4 DEF SquareoffPosition, IInv, TypeOK, QueueInv
  <1>6. RequestOK'
    BY DEF SquareoffPosition, IInv, RequestOK, Asks
  <1>7. Closers'
    BY DEF SquareoffPosition, IInv, TypeOK, Closers
  <1> QED
    BY <1>2, <1>5, <1>6, <1>7 DEF IInv

LEMMA RestartInv == ASSUME IInv, Restart PROVE IInv'
  <1>1. QueueInv'
    BY ForgetInv DEF Restart, IInv
  <1>2. \A r \in Requests : request'[r] = <<>> /\ Len(request'[r]) = 0
    BY EmptySeq DEF Restart
  <1>3. /\ request' \in [Requests -> Seq(Queued)]
        /\ closing' \in [Strategies -> Seq(Symbols)]
        /\ \A s \in Strategies : closing'[s] = <<>>
    BY EmptySeq DEF Restart
  <1>4. cached' \in [Strategies -> {"none", "on", "off"}] /\ events' \in 0 .. MaxEvents
    BY StrategyAssumption DEF Restart, Count, IInv, TypeOK
  <1>5. TypeOK'
    BY <1>1, <1>3, <1>4 DEF Restart, IInv, TypeOK, QueueInv
  <1>6. RequestOK' /\ Closers'
    BY <1>2, <1>3 DEF RequestOK, Closers
  <1> QED
    BY <1>1, <1>5, <1>6 DEF IInv

LEMMA MinuteInv == ASSUME IInv, Minute PROVE IInv'
  <1>1. QueueInv' /\ clock' \in 0 .. LastMinute
    BY QueueSame, StrategyAssumption DEF Minute, IInv, TypeOK
  <1>2. TypeOK' /\ RequestOK' /\ Closers'
    BY <1>1 DEF Minute, IInv, TypeOK, QueueInv, RequestOK, Asks, Closers
  <1> QED
    BY <1>1, <1>2 DEF IInv

\* Steps of the queues alone.
LEMMA WorkInv ==
    ASSUME IInv, (Tick \/ \E w \in Workers : Process(w)) \/ UNCHANGED queueVars,
           UNCHANGED strategyVars
    PROVE  IInv'
  <1>1. QueueInv'
    BY SmartInv, RegularInv, TickInv, QueueSame DEF IInv, Process, Loop, Answer
  <1> QED
    BY <1>1 DEF strategyVars, IInv, TypeOK, QueueInv, RequestOK, Asks, Closers

LEMMA InitInv == Init => IInv
  <1> SUFFICES ASSUME Init PROVE IInv
    OBVIOUS
  <1>1. QueueInv
    BY QueueInitInv DEF Init
  <1>2. \A r \in Requests : request[r] = <<>> /\ Len(request[r]) = 0
    BY EmptySeq DEF Init
  <1>3. /\ request \in [Requests -> Seq(Queued)]
        /\ closing \in [Strategies -> Seq(Symbols)]
        /\ \A s \in Strategies : closing[s] = <<>>
    BY EmptySeq DEF Init
  <1>4. TypeOK
    BY <1>1, <1>3, StrategyAssumption DEF Init, TypeOK, QueueInv
  <1>5. RequestOK /\ Closers
    BY <1>2, <1>3 DEF RequestOK, Closers
  <1> QED
    BY <1>1, <1>4, <1>5 DEF IInv

LEMMA StepInv == IInv /\ [Next]_vars => IInv'
  <1> SUFFICES ASSUME IInv, [Next]_vars PROVE IInv'
    OBVIOUS
  <1>1. CASE \E s \in Strategies : Page(s) \/ CacheExpires(s) \/ Job(s)
    BY <1>1, PageInv, SquareoffInv DEF Job
  <1>2. CASE \E r \in Requests : Webhook(r) \/ Put(r)
    BY <1>2, ReceiveInv, PutInv DEF Webhook
  <1>3. CASE \E w \in Workers : Run(w)
    BY <1>3, WorkInv DEF Run
  <1>4. CASE Tick /\ UNCHANGED strategyVars
    BY <1>4, WorkInv
  <1>5. CASE Minute
    BY <1>5, MinuteInv
  <1>6. CASE Restart
    BY <1>6, RestartInv
  <1>7. CASE UNCHANGED vars
    BY <1>7, WorkInv DEF vars
  <1> QED
    BY <1>1, <1>2, <1>3, <1>4, <1>5, <1>6, <1>7 DEF Next

LEMMA AlwaysInv == Spec => []IInv
  BY InitInv, StepInv, PTL DEF Spec

\* Types, and with them the rate: no more than Limit regular orders are
\* accepted within a window, whatever is queued, lost or restarted.
THEOREM Types == Spec => []TypeOK
  <1>1. IInv => TypeOK
    BY DEF IInv
  <1> QED
    BY AlwaysInv, <1>1, PTL

-----------------------------------------------------------------------------
(* The account holds what was asked for *)

LEMMA StepWant == IInv /\ WantInv /\ [Next]_vars => WantInv'
  <1> SUFFICES ASSUME IInv, WantInv, [Next]_vars PROVE WantInv'
    OBVIOUS
  <1>1. QueueInv
    BY DEF IInv
  <1>2. CASE \E w \in Workers : Run(w)
    BY <1>1, <1>2, TakeSmartWant, ReadWant, LostWant, TradeWant, IdleWant, TakeRegularWant, PostWant
    DEF Run, Process, Loop, Answer
  <1>3. CASE \E r \in Requests : Put(r)
    <2> PICK r \in Requests : Put(r)
      BY <1>3
    <2>1. Head(request[r]).order \in Order
      BY HeadRequest DEF Put, Queued
    <2> QED
      BY <1>1, <2>1, QueueSmartWant, QueueRegularWant DEF Put
  <1>4. CASE \E s \in Strategies : SquareoffPosition(s)
    BY <1>1, <1>4, ClosingOrder, QueueSmartWant DEF SquareoffPosition
  <1>5. CASE Tick /\ UNCHANGED strategyVars
    BY <1>1, <1>5, TickWant
  <1>6. CASE Restart
    BY <1>1, <1>6, ForgetWant DEF Restart
  <1>7. ASSUME UNCHANGED queueVars PROVE WantInv'
    <2>1. ASSUME NEW s \in Symbols PROVE Agreed(s)'
      <3>1. SameWork(s) /\ smart' = smart /\ regular' = regular
        BY <1>7 DEF queueVars, SameWork
      <3> QED
        BY <3>1, SameAgreed DEF WantInv
    <2> QED
      BY <2>1 DEF WantInv
  <1>8. \/ \E w \in Workers : Run(w)
        \/ \E r \in Requests : Put(r)
        \/ \E s \in Strategies : SquareoffPosition(s)
        \/ Tick /\ UNCHANGED strategyVars
        \/ Restart
        \/ UNCHANGED queueVars
    BY DEF Next, vars, Page, Create, Toggle, Delete, CacheExpires, Job, StartSquareoff, Misfire,
           Webhook, Receive, Minute
  <1> QED
    BY <1>2, <1>3, <1>4, <1>5, <1>6, <1>7, <1>8

LEMMA InitWant == Init => WantInv
  <1>1. Init => Nothing
    <2> SUFFICES ASSUME Init PROVE Nothing
      OBVIOUS
    <2>1. \A w \in Workers : worker[w].at = "off"
      BY OffType DEF Init, QueueInit
    <2> QED
      BY <2>1 DEF Init, QueueInit, Nothing
  <1> QED
    BY <1>1, NothingWant

LEMMA AlwaysWant == Spec => []WantInv
  <1>1. IInv /\ WantInv /\ [Next]_vars => WantInv'
    BY StepWant
  <1> QED
    BY AlwaysInv, InitWant, <1>1, PTL DEF Spec

\* When the orders of a symbol are through, the account holds what they asked
\* for, whatever the two queues, the one processor and their failures did in
\* between, as long as entries and exits of it were not queued at once.
THEOREM Wanted == Spec => []PositionIsWanted
  <1>1. IInv /\ WantInv => PositionIsWanted
    BY QuietWant DEF IInv, PositionIsWanted
  <1> QED
    BY AlwaysInv, AlwaysWant, <1>1, PTL

-----------------------------------------------------------------------------
(* What is squared off stays closed *)

Ends(s) == Hours[s].end < Hours[s].squareoff
Flat(y) == want[y] \in {0, Unknown}

\* The job is done with the symbol.
Passed(s, y) ==
    s \in squared \/ (closing[s] # <<>> /\ \A i \in 1 .. Len(closing[s]) : closing[s][i] # y)

TimesInv ==
    /\ \A s \in jobs : Intraday(s)
    /\ \A s \in Strategies : closing[s] # <<>> \/ s \in squared =>
          Intraday(s) /\ clock >= Hours[s].squareoff

\* ClosedAfterSquareoff is about what is through; DayInv is what keeps the
\* rest from reopening it: of the symbols a job has passed, no entry is on its
\* way, and none can be accepted any more, unless it was when the job passed.
DayInv ==
    /\ TimesInv
    /\ \A s \in Strategies : Ends(s) =>
         \A y \in Own(s) \ overrun : Passed(s, y) => Flat(y) /\ ~OnItsWay(y)

LEMMA HoursType ==
    ASSUME NEW s \in Strategies
    PROVE  /\ Hours[s].start \in Nat /\ Hours[s].end \in Nat /\ Hours[s].squareoff \in Nat
           /\ SymbolsOf[s] \in Seq(Symbols)
           /\ Own(s) \subseteq Mapped(s) /\ Own(s) \subseteq Symbols
           /\ \A r \in Strategies \ {s} : Own(s) \cap Mapped(r) = {}
  BY StrategyAssumption DEF Own, Mapped

\* What a step owes DayInv for the symbols the jobs had passed before it.
LEMMA KeepDay ==
    ASSUME DayInv, TimesInv', UNCHANGED overrun,
           \A s \in Strategies : \A y \in Own(s) : Passed(s, y)' => Passed(s, y),
           \A s \in Strategies : \A y \in Own(s) \ overrun :
              Ends(s) /\ Passed(s, y) /\ Flat(y) /\ ~OnItsWay(y) => Flat(y)' /\ ~OnItsWay(y)'
    PROVE  DayInv'
  <1> SUFFICES ASSUME NEW s \in Strategies, Ends(s), NEW y \in Own(s) \ overrun, Passed(s, y)'
               PROVE  Flat(y)' /\ ~OnItsWay(y)'
    BY DEF DayInv, Ends, Own, Mapped
  <1>1. Passed(s, y) /\ Flat(y) /\ ~OnItsWay(y)
    BY DEF DayInv
  <1> QED
    BY <1>1

\* A step that gives no symbol a new target, and no request an order.
LEMMA FlatDay ==
    ASSUME IInv, DayInv, \A y \in Symbols : want'[y] \in {want[y], Unknown},
           UNCHANGED <<jobs, closing, squared, overrun, request, clock>>
    PROVE  DayInv'
  <1>1. TimesInv'
    BY DEF DayInv, TimesInv, Intraday
  <1>2. \A s \in Strategies : \A y \in Own(s) : Passed(s, y)' => Passed(s, y)
    BY DEF Passed
  <1>3. \A s \in Strategies : \A y \in Own(s) : Flat(y) => Flat(y)'
    BY HoursType DEF Flat
  <1>4. \A y : OnItsWay(y)' => OnItsWay(y)
    BY DEF OnItsWay
  <1> QED
    BY <1>1, <1>2, <1>3, <1>4, KeepDay

LEMMA SmartWants ==
    ASSUME QueueInv, NEW o \in Order, QueueSmart(o)
    PROVE  /\ \A y \in Symbols : y # o.symbol => want'[y] = want[y]
           /\ want'[o.symbol] \in {o.size, Unknown}
  BY DEF QueueInv, QueueTypeOK, QueueSmart, WantTarget, Order

LEMMA WorkDay ==
    ASSUME IInv, DayInv, Tick \/ \E w \in Workers : Process(w), UNCHANGED strategyVars
    PROVE  DayInv'
  <1>1. want \in [Symbols -> Int \cup {Unknown}]
    BY DEF IInv, QueueInv, QueueTypeOK
  <1>2. UNCHANGED want \/ \E s : Lost(s)
    BY DEF Process, Loop, Answer, TakeSmart, ReadPosition, ReadFails, Trade, TradeRefused, NoSmart,
           NoRegular, TakeRegular, Post, PostFails, Tick
  <1>3. \A y \in Symbols : want'[y] \in {want[y], Unknown}
    BY <1>1, <1>2 DEF Lost
  <1> QED
    BY <1>3, FlatDay DEF strategyVars

\* What is put of a symbol that no entry is on its way of asks for nothing.
LEMMA PutDay == ASSUME IInv, DayInv, NEW r \in Requests, Put(r) PROVE DayInv'
  <1>1. /\ request[r] # <<>> /\ request' = [request EXCEPT ![r] = Tail(@)]
        /\ UNCHANGED <<jobs, closing, squared, overrun, clock>>
    BY DEF Put
  <1>2. PICK n \in Queued : n = Head(request[r]) /\ n = request[r][1] /\ 1 \in DOMAIN request[r]
    BY <1>1, HeadRequest
  <1>3. n.order \in Order /\ n.order.symbol \in Symbols
    BY DEF Queued, Order
  <1>4. ASSUME NEW y \in Symbols, ~OnItsWay(y), Flat(y)
        PROVE  Flat(y)'
    <2>1. n.order.symbol = y => n.queue = "smart" /\ n.order.size = 0
      BY <1>2, <1>4 DEF OnItsWay, Enters, Queued
    <2>2. CASE n.queue = "smart"
      <3>1. /\ y # n.order.symbol => want'[y] = want[y]
            /\ want'[n.order.symbol] \in {n.order.size, Unknown}
        BY <1>2, <1>3, <2>2, SmartWants DEF Put, IInv
      <3> QED
        BY <1>4, <2>1, <3>1 DEF Flat
    <2>3. CASE n.queue # "smart"
      <3>1. want'[y] = want[y]
        BY <1>2, <2>1, <2>3 DEF Put, QueueRegular, WantMore, IInv, QueueInv, QueueTypeOK
      <3> QED
        BY <1>4, <3>1 DEF Flat
    <2> QED
      BY <2>2, <2>3
  <1>5. \A y : OnItsWay(y)' => OnItsWay(y)
    <2>1. request'[r] = Tail(request[r]) /\ \A v \in Requests \ {r} : request'[v] = request[v]
      BY <1>1 DEF IInv, TypeOK
    <2>2. \A i \in DOMAIN request'[r] : \E j \in DOMAIN request[r] : request'[r][i] = request[r][j]
      BY <1>1, <2>1, HeadRequest
    <2> SUFFICES ASSUME NEW y, NEW v \in Requests, NEW i \in DOMAIN request'[v],
                        request'[v][i].order.symbol = y, Enters(request'[v][i])
                 PROVE  \E j \in DOMAIN request[v] : request'[v][i] = request[v][j]
      BY DEF OnItsWay, Enters
    <2> QED
      BY <2>1, <2>2
  <1>6. TimesInv'
    BY <1>1 DEF DayInv, TimesInv, Intraday
  <1>7. \A s \in Strategies : \A y \in Own(s) : Passed(s, y)' => Passed(s, y)
    BY <1>1 DEF Passed
  <1> QED
    BY <1>1, <1>4, <1>5, <1>6, <1>7, KeepDay, HoursType

\* After the last entry a webhook accepts exits only; the symbols are its own.
LEMMA ReceiveDay ==
    ASSUME IInv, DayInv, NEW r \in Requests, NEW q \in Strategies, NEW alert \in Alerts(q),
           NEW a \in Action, NEW n \in Sizes, Receive(r, q, alert, a, n)
    PROVE  DayInv'
  <1>1. UNCHANGED <<want, jobs, closing, squared, overrun, clock>>
    BY DEF Receive, queueVars
  <1>2. clock \in Nat /\ n \in Int /\ Mapped(q) \subseteq Symbols
    BY StrategyAssumption, AlertsType DEF IInv, TypeOK
  <1>3. ASSUME NEW s \in Strategies, NEW y \in Own(s), Ends(s), Passed(s, y), ~OnItsWay(y)
        PROVE  ~OnItsWay(y)'
    <2>1. Intraday(s) /\ clock > Hours[s].end
      BY <1>2, <1>3, HoursType DEF DayInv, TimesInv, Passed, Ends
    <2> SUFFICES ASSUME NEW v \in Requests, NEW i \in DOMAIN request'[v],
                        request'[v][i].order.symbol = y
                 PROVE  ~Enters(request'[v][i])
      BY DEF OnItsWay, Enters
    <2>2. CASE v # r
      BY <1>3, <2>2, ReceiveRequest DEF OnItsWay
    <2>3. CASE v = r
      <3>1. i \in 1 .. Len(request'[v])
        BY ReceiveRequest
      <3>2. /\ request'[v][i] = OrderOf(q, alert[i], a, n) /\ alert[i] \in Mapped(q)
            /\ WithinHours(q, IsExit(q, a, n))
        BY <2>3, <3>1, ReceiveRequest
      <3>3. request'[v][i].order.symbol = alert[i]
        BY <1>2, <3>2, OrderOfType
      <3>4. s = q
        BY <3>2, <3>3, HoursType
      <3>5. IsExit(q, a, n)
        BY <1>2, <2>1, <3>2, <3>4, HoursType DEF WithinHours, UpTo
      <3> QED
        BY <1>2, <3>2, <3>5, OrderOfType DEF Enters
    <2> QED
      BY <2>2, <2>3
  <1>4. TimesInv'
    BY <1>1 DEF DayInv, TimesInv, Intraday
  <1>5. \A s \in Strategies : \A y \in Own(s) :
          (Passed(s, y)' => Passed(s, y)) /\ (Flat(y) => Flat(y)')
    BY <1>1 DEF Passed, Flat
  <1> QED
    BY <1>1, <1>3, <1>4, <1>5, KeepDay

LEMMA PageDay ==
    ASSUME IInv, DayInv, NEW s \in Strategies, Page(s) \/ CacheExpires(s) \/ Misfire(s)
    PROVE  DayInv'
  <1>1. /\ UNCHANGED <<want, closing, squared, overrun, request, clock>>
        /\ \A r \in jobs' : r \in jobs \/ Intraday(r)
    BY DEF Page, Create, Toggle, Delete, CacheExpires, Misfire, Schedule, queueVars
  <1>2. TimesInv'
    BY <1>1 DEF DayInv, TimesInv, Intraday
  <1>3. \A r \in Strategies : \A y \in Own(r) :
          /\ Passed(r, y)' => Passed(r, y)
          /\ Flat(y) => Flat(y)'
          /\ OnItsWay(y)' => OnItsWay(y)
    BY <1>1 DEF Passed, Flat, OnItsWay
  <1> QED
    BY <1>1, <1>2, <1>3, KeepDay

LEMMA StartDay == ASSUME IInv, DayInv, NEW s \in Strategies, StartSquareoff(s) PROVE DayInv'
  <1>1. /\ UNCHANGED <<want, jobs, squared, overrun, request, clock>>
        /\ closing' = [closing EXCEPT ![s] = SymbolsOf[s]]
        /\ Intraday(s) /\ clock >= Hours[s].squareoff
    BY DEF StartSquareoff, IsDue, queueVars, DayInv, TimesInv
  <1>2. closing'[s] = SymbolsOf[s] /\ \A r \in Strategies \ {s} : closing'[r] = closing[r]
    BY <1>1 DEF IInv, TypeOK
  <1>3. \A y \in Own(s) : \E i \in 1 .. Len(closing'[s]) : closing'[s][i] = y
    <2>1. SymbolsOf[s] \in Seq(Symbols) /\ Own(s) \subseteq Mapped(s)
      BY HoursType
    <2> QED
      BY <1>2, <2>1 DEF Mapped
  <1>4. TimesInv'
    BY <1>1, <1>2 DEF DayInv, TimesInv, Intraday
  <1>5. \A r \in Strategies : \A y \in Own(r) : Passed(r, y)' => Passed(r, y)
    BY <1>1, <1>2, <1>3 DEF Passed
  <1>6. \A y : (Flat(y) => Flat(y)') /\ (OnItsWay(y)' => OnItsWay(y))
    BY <1>1 DEF Flat, OnItsWay
  <1> QED
    BY <1>1, <1>4, <1>5, <1>6, KeepDay

LEMMA SquareoffDay ==
    ASSUME IInv, DayInv, NEW s \in Strategies, SquareoffPosition(s)
    PROVE  DayInv'
  <1>1. /\ closing[s] # <<>> /\ closing' = [closing EXCEPT ![s] = Tail(@)]
        /\ squared' = IF Len(closing[s]) = 1 THEN squared \cup {s} ELSE squared
        /\ overrun \subseteq overrun'
        /\ OnItsWay(Head(closing[s])) => Head(closing[s]) \in overrun'
        /\ UNCHANGED <<jobs, request, clock>>
    BY DEF SquareoffPosition
  <1>2. PICK o \in Order : QueueSmart(o) /\ o.symbol = Head(closing[s]) /\ o.size = 0
    BY ClosingOrder DEF SquareoffPosition
  <1>3. \A y \in Symbols : y # o.symbol => want'[y] = want[y]
    BY <1>2, SmartWants DEF IInv
  <1>4. want'[o.symbol] \in {0, Unknown}
    BY <1>2, SmartWants DEF IInv
  <1>5. \A y \in Symbols : Flat(y) => Flat(y)'
    BY <1>3, <1>4 DEF Flat
  <1>6. closing'[s] = Tail(closing[s]) /\ \A r \in Strategies \ {s} : closing'[r] = closing[r]
    BY <1>1 DEF IInv, TypeOK
  <1>7. \A y : OnItsWay(y)' => OnItsWay(y)
    BY <1>1 DEF OnItsWay
  <1>8. ASSUME NEW r \in Strategies, NEW y, y # o.symbol, Passed(r, y)'
        PROVE  Passed(r, y)
    <2>1. CASE r \in squared \/ r # s
      BY <1>1, <1>6, <1>8, <2>1 DEF Passed
    <2>2. CASE r = s /\ r \notin squared
      <3>1. SUFFICES ASSUME NEW i \in 1 .. Len(closing[s]), closing[s][i] = y
                     PROVE  FALSE
        BY <1>1, <2>2 DEF Passed
      <3>2. i # 1
        BY <1>1, <1>2, <1>8, <3>1, ClosingOrder
      <3>3. Len(closing[s]) # 1
        <4> SUFFICES ASSUME Len(closing[s]) = 1 PROVE i \in 1 .. 1
          BY <3>2
        <4> QED
          OBVIOUS
      <3>4. i - 1 \in 1 .. Len(Tail(closing[s])) /\ (i - 1) + 1 = i
        BY <1>1, <3>2, ClosingOrder
      <3>5. Tail(closing[s])[i - 1] = closing[s][(i - 1) + 1]
        BY <1>1, <3>4, ClosingOrder
      <3>6. \A k \in 1 .. Len(Tail(closing[s])) : Tail(closing[s])[k] # y
        BY <1>1, <1>6, <1>8, <2>2, <3>3 DEF Passed
      <3> QED
        BY <3>1, <3>4, <3>5, <3>6
    <2> QED
      BY <2>1, <2>2
  <1>9. TimesInv'
    <2>1. Intraday(s) /\ clock >= Hours[s].squareoff
      BY <1>1 DEF DayInv, TimesInv
    <2> QED
      BY <1>1, <1>6, <2>1 DEF DayInv, TimesInv, Intraday
  <1>10. ASSUME NEW r \in Strategies, Ends(r), NEW y \in Own(r) \ overrun', Passed(r, y)'
         PROVE  Flat(y)' /\ ~OnItsWay(y)'
    <2>1. y \in Symbols /\ y \in Own(r) \ overrun
      BY <1>1, HoursType
    <2>2. CASE y = o.symbol
      BY <1>1, <1>2, <1>4, <1>7, <2>2 DEF Flat
    <2>3. CASE y # o.symbol
      BY <1>5, <1>7, <1>8, <1>10, <2>1, <2>3 DEF DayInv
    <2> QED
      BY <2>2, <2>3
  <1> QED
    BY <1>9, <1>10 DEF DayInv, Ends, Own, Mapped

LEMMA RestartDay == ASSUME IInv, DayInv, Restart PROVE DayInv'
  <1>1. /\ UNCHANGED <<squared, overrun, clock>> /\ jobs' = {}
        /\ \A s \in Strategies : closing'[s] = <<>>
        /\ \A r \in Requests : request'[r] = <<>> /\ DOMAIN request'[r] = {}
    BY EmptySeq DEF Restart
  <1>2. \A y \in Symbols : want'[y] \in {want[y], Unknown}
    BY DEF Restart, Forget
  <1>3. \A s \in Strategies : \A y \in Own(s) : Flat(y) => Flat(y)'
    BY <1>2, HoursType DEF Flat
  <1>4. TimesInv'
    BY <1>1 DEF DayInv, TimesInv, Intraday
  <1>5. \A s \in Strategies : \A y \in Own(s) : (Passed(s, y)' => Passed(s, y)) /\ ~OnItsWay(y)'
    BY <1>1 DEF Passed, OnItsWay
  <1> QED
    BY <1>1, <1>3, <1>4, <1>5, KeepDay

LEMMA MinuteDay == ASSUME IInv, DayInv, Minute PROVE DayInv'
  <1>1. /\ UNCHANGED <<want, jobs, closing, squared, overrun, request>> /\ clock' = clock + 1
    BY DEF Minute, queueVars
  <1>2. clock \in Nat
    BY StrategyAssumption DEF IInv, TypeOK
  <1>3. TimesInv'
    BY <1>1, <1>2, HoursType DEF DayInv, TimesInv, Intraday
  <1>4. \A r \in Strategies : \A y \in Own(r) :
          /\ Passed(r, y)' => Passed(r, y)
          /\ Flat(y) => Flat(y)'
          /\ OnItsWay(y)' => OnItsWay(y)
    BY <1>1 DEF Passed, Flat, OnItsWay
  <1> QED
    BY <1>1, <1>3, <1>4, KeepDay

LEMMA StepDay == IInv /\ DayInv /\ [Next]_vars => DayInv'
  <1> SUFFICES ASSUME IInv, DayInv, [Next]_vars PROVE DayInv'
    OBVIOUS
  <1>1. CASE \E s \in Strategies : Page(s) \/ CacheExpires(s) \/ Job(s)
    BY <1>1, PageDay, StartDay, SquareoffDay DEF Job
  <1>2. CASE \E r \in Requests : Webhook(r) \/ Put(r)
    BY <1>2, ReceiveDay, PutDay DEF Webhook
  <1>3. CASE \E w \in Workers : Run(w)
    BY <1>3, WorkDay DEF Run
  <1>4. CASE Tick /\ UNCHANGED strategyVars
    BY <1>4, WorkDay
  <1>5. CASE Minute
    BY <1>5, MinuteDay
  <1>6. CASE Restart
    BY <1>6, RestartDay
  <1>7. CASE UNCHANGED vars
    BY <1>7, FlatDay DEF vars, queueVars, strategyVars
  <1> QED
    BY <1>1, <1>2, <1>3, <1>4, <1>5, <1>6, <1>7 DEF Next

LEMMA InitDay == Init => DayInv
  BY DEF Init, DayInv, TimesInv, Passed

\* A strategy that was squared off holds nothing of its own symbols when their
\* orders are through: no signal, edit, stale cached row, late job, lost order
\* or restart reopens them that day, however long a webhook takes between its
\* time check and its order; provided its entries end before the square-off and
\* none of the symbol was between the two when the job came to it.
THEOREM StaysClosed == Spec => []ClosedAfterSquareoff
  <1>1. IInv /\ DayInv /\ [Next]_vars => DayInv'
    BY StepDay
  <1>2. Spec => []DayInv
    BY AlwaysInv, InitDay, <1>1, PTL DEF Spec
  <1>3. PositionIsWanted /\ IInv /\ DayInv => ClosedAfterSquareoff
    BY HoursType DEF PositionIsWanted, IInv, TypeOK, DayInv, Passed, Ends, Flat, Closed,
                     ClosedAfterSquareoff
  <1> QED
    BY AlwaysInv, Wanted, <1>2, <1>3, PTL
=================================================================================
