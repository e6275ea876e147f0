------------------------------- MODULE OrderQueue --------------------------------
(***************************************************************************)
(* The two order queues of a webhook blueprint and the thread that empties *)
(* them (process_orders), up to the account the orders change.  Smart      *)
(* orders, which ask for a position, go before regular ones, which add to  *)
(* it; at most Limit regular orders are accepted within Window.            *)
(*                                                                         *)
(* An order is sent by an HTTP request of the processor to its own         *)
(* application.  A smart order reads the position and then trades the      *)
(* difference; orders are market orders and fill at once.  What a request  *)
(* answers is logged and not tried again.                                  *)
(***************************************************************************)
EXTENDS SmartOrder, Sequences, FiniteSets

CONSTANTS
    Symbols,
    Workers,       \* processor threads there may be
    Limit,         \* regular orders accepted per window (10 in the code)
    Window,        \* length of the window, in ticks (1 second)
    Unknown,       \* no position in particular
    MaxFailures    \* bound on requests that fail

ASSUME QueueAssumption ==
    /\ Symbols # {} /\ Workers # {}
    /\ Limit \in Nat \ {0} /\ Window \in Nat /\ MaxFailures \in Nat
    /\ Unknown \notin Int

VARIABLES
    smart, regular,    \* the queues
    running,           \* order_processor_running
    worker,            \* where each processor is, and with which order
    recent,            \* ages of the regular orders accepted last
    position,          \* the account
    want,              \* history: what the orders of a symbol ask for
    failures

queueVars == <<smart, regular, running, worker, recent, position, want, failures>>

\* size is a smart order's target; a regular order's quantity has its own.
Order == [symbol : Symbols, action : Action, quantity : Nat, size : Int]

Off == [at |-> "off", order |-> [symbol |-> CHOOSE s \in Symbols : TRUE, action |-> "SELL",
                                 quantity |-> 0, size |-> 0],
        seen |-> 0, age |-> 0]

QueueTypeOK ==
    /\ smart \in Seq(Order) /\ regular \in Seq(Order)
    /\ running \in BOOLEAN
    /\ worker \in [Workers -> [at : {"off", "smart", "regular", "read", "trade", "post"},
                               order : Order, seen : Int, age : 0 .. Window + 1]]
    /\ recent \in Seq(0 .. Window + 1) /\ Len(recent) <= Limit
    /\ position \in [Symbols -> Int]
    /\ want \in [Symbols -> Int \cup {Unknown}]
    /\ failures \in 0 .. MaxFailures

QueueInit ==
    /\ smart = <<>> /\ regular = <<>>
    /\ running = FALSE
    /\ worker   = [w \in Workers |-> Off]
    /\ recent   = <<>>
    /\ position = [s \in Symbols |-> 0]
    /\ want     = position
    /\ failures = 0

-----------------------------------------------------------------------------
(* What the orders of a symbol ask for *)

Outstanding(q, s) == \E i \in DOMAIN q : q[i].symbol = s
Sending(ats, s) == \E w \in Workers : worker[w].at \in ats /\ worker[w].order.symbol = s

SmartOutstanding(s) == Outstanding(smart, s) \/ Sending({"read", "trade"}, s)
RegularOutstanding(s) == Outstanding(regular, s) \/ Sending({"post"}, s)

\* A target counts from where it is queued, unless an order is ahead of it in
\* the other queue: which of the two is sent first is open.
WantTarget(s, target) ==
    want' = [want EXCEPT ![s] = IF RegularOutstanding(s) THEN Unknown ELSE target]

WantMore(s, effect) ==
    want' = [want EXCEPT ![s] = IF SmartOutstanding(s) \/ want[s] = Unknown
                                THEN Unknown ELSE want[s] + effect]

\* A lost order is made good by the next target.
Lost(s) == want' = [want EXCEPT ![s] = IF Outstanding(smart, s) THEN want[s] ELSE Unknown]

-----------------------------------------------------------------------------
(* queue_order *)

IsOff(w) == worker[w].at = "off"
Idle == CHOOSE w \in Workers : IsOff(w)

\* A thread more for every order.
Mut_EnsureOrderProcessor ==
    /\ running' = TRUE
    /\ worker' = IF \E w \in Workers : IsOff(w) THEN [worker EXCEPT ![Idle].at = "smart"]
                                               ELSE worker

\* Under order_processor_lock.
EnsureOrderProcessor ==
    /\ running' = TRUE
    /\ worker' = IF running THEN worker ELSE [worker EXCEPT ![Idle].at = "smart"]

QueueSmart(order) ==
    /\ EnsureOrderProcessor
    /\ smart' = Append(smart, order)
    /\ WantTarget(order.symbol, order.size)
    /\ UNCHANGED <<regular, recent, position, failures>>

QueueRegular(order) ==
    /\ EnsureOrderProcessor
    /\ regular' = Append(regular, order)
    /\ WantMore(order.symbol, Effect(order.action, order.quantity))
    /\ UNCHANGED <<smart, recent, position, failures>>

-----------------------------------------------------------------------------
(* process_orders *)

TakeSmart(w) ==
    /\ worker[w].at = "smart" /\ smart # <<>>
    /\ worker' = [worker EXCEPT ![w].at = "read", ![w].order = Head(smart)]
    /\ smart'  = Tail(smart)
    /\ UNCHANGED <<regular, running, recent, position, want, failures>>

\* get_open_position answers 0 for a symbol it does not find, and for a request
\* for the positions that failed.
ReadPosition(w) ==
    /\ worker[w].at = "read"
    /\ worker' = [worker EXCEPT ![w].at = "trade", ![w].seen = position[worker[w].order.symbol]]
    /\ UNCHANGED <<smart, regular, running, recent, position, want, failures>>

ReadFails(w) ==
    LET s == worker[w].order.symbol IN
    /\ worker[w].at = "read" /\ position[s] # 0
    /\ failures < MaxFailures /\ failures' = failures + 1
    /\ worker' = [worker EXCEPT ![w].at = "trade", ![w].seen = 0]
    /\ Lost(s)
    /\ UNCHANGED <<smart, regular, running, recent, position>>

Trade(w) ==
    LET o  == worker[w].order
        so == SmartOrder(o.action, o.quantity, o.size, worker[w].seen)
    IN  /\ worker[w].at = "trade"
        /\ position' = [position EXCEPT ![o.symbol] = @ + Effect(so.action, so.quantity)]
        /\ worker'   = [worker EXCEPT ![w] = [Off EXCEPT !.at = "smart"]]
        /\ UNCHANGED <<smart, regular, running, recent, want, failures>>

TradeRefused(w) ==
    /\ worker[w].at = "trade"
    /\ failures < MaxFailures /\ failures' = failures + 1
    /\ worker' = [worker EXCEPT ![w] = [Off EXCEPT !.at = "smart"]]
    /\ Lost(worker[w].order.symbol)
    /\ UNCHANGED <<smart, regular, running, recent, position>>

NoSmart(w) ==
    /\ worker[w].at = "smart" /\ smart = <<>>
    /\ worker' = [worker EXCEPT ![w].at = "regular"]
    /\ UNCHANGED <<smart, regular, running, recent, position, want, failures>>

\* Never forgets an order.
Mut_Within(ages) == ages

\* The oldest are popped, up to the first that is not too old.
Expired(ages) == {i \in DOMAIN ages : \A j \in 1 .. i : ages[j] > Window}
Within(ages) == SubSeq(ages, Cardinality(Expired(ages)) + 1, Len(ages))

\* The rate is exhausted, or nothing is queued.
NoRegular(w) ==
    /\ worker[w].at = "regular"
    /\ regular = <<>> \/ Len(Within(recent)) >= Limit
    /\ recent' = Within(recent)
    /\ worker' = [worker EXCEPT ![w].at = "smart"]
    /\ UNCHANGED <<smart, regular, running, position, want, failures>>

\* One order too many.
Mut_TakeRegular(w) ==
    /\ worker[w].at = "regular" /\ regular # <<>>
    /\ Len(Within(recent)) <= Limit
    /\ recent'  = Within(recent)
    /\ worker'  = [worker EXCEPT ![w] = [Off EXCEPT !.at = "post", !.order = Head(regular)]]
    /\ regular' = Tail(regular)
    /\ UNCHANGED <<smart, running, position, want, failures>>

TakeRegular(w) ==
    /\ worker[w].at = "regular" /\ regular # <<>>
    /\ Len(Within(recent)) < Limit
    /\ recent'  = Within(recent)
    /\ worker'  = [worker EXCEPT ![w] = [Off EXCEPT !.at = "post", !.order = Head(regular)]]
    /\ regular' = Tail(regular)
    /\ UNCHANGED <<smart, running, position, want, failures>>

\* The time noted is that before the request.
Post(w) ==
    LET o == worker[w].order IN
    /\ worker[w].at = "post"
    /\ position' = [position EXCEPT ![o.symbol] = @ + Effect(o.action, o.quantity)]
    /\ recent'   = Append(recent, worker[w].age)
    /\ worker'   = [worker EXCEPT ![w] = [Off EXCEPT !.at = "smart"]]
    /\ UNCHANGED <<smart, regular, running, want, failures>>

\* Refused, or accepted and the answer lost; neither counts against the rate.
PostFails(w) ==
    LET o == worker[w].order IN
    /\ worker[w].at = "post"
    /\ failures < MaxFailures /\ failures' = failures + 1
    /\ position' \in {position, [position EXCEPT ![o.symbol] = @ + Effect(o.action, o.quantity)]}
    /\ IF position' = position THEN Lost(o.symbol) ELSE UNCHANGED want
    /\ worker'   = [worker EXCEPT ![w] = [Off EXCEPT !.at = "smart"]]
    /\ UNCHANGED <<smart, regular, running, recent>>

Older(age) == IF age > Window THEN age ELSE age + 1

Tick ==
    LET aged == [w \in Workers |-> [worker[w] EXCEPT !.age =
                   IF worker[w].at = "post" THEN Older(@) ELSE @]]
        ages == [i \in DOMAIN recent |-> Older(recent[i])]
    IN  /\ aged # worker \/ ages # recent
        /\ worker' = aged /\ recent' = ages
        /\ UNCHANGED <<smart, regular, running, position, want, failures>>

\* The process dies, and the queues with it.
Forget ==
    /\ smart' = <<>> /\ regular' = <<>>
    /\ running' = FALSE
    /\ worker'  = [w \in Workers |-> Off]
    /\ recent'  = <<>>
    /\ want'    = [s \in Symbols |-> IF SmartOutstanding(s) \/ RegularOutstanding(s)
                                     THEN Unknown ELSE want[s]]
    /\ UNCHANGED <<position, failures>>

\* What the loop does by itself, and what waits for the answer to a request,
\* which is sent without a timeout.
Loop(w) == TakeSmart(w) \/ NoSmart(w) \/ NoRegular(w) \/ TakeRegular(w)
Answer(w) == \/ ReadPosition(w) \/ ReadFails(w) \/ Trade(w) \/ TradeRefused(w)
             \/ Post(w) \/ PostFails(w)
Process(w) == Loop(w) \/ Answer(w)

-----------------------------------------------------------------------------
(* Properties *)

Quiet(s) == ~SmartOutstanding(s) /\ ~RegularOutstanding(s)

\* When the orders of a symbol are through, the account holds what they asked
\* for: targets in the order they were queued, additions once each, whatever
\* was lost in between, as long as a symbol's entries and exits were not queued
\* at the same time.  There is never a second processor to read a position the
\* first is about to change.
PositionIsWanted ==
    \A s \in Symbols : Quiet(s) /\ want[s] # Unknown => position[s] = want[s]

Answered == \A w \in Workers : []<>(worker[w].at \in {"off", "smart", "regular"})
SignalsCease == <>[][Len(smart') <= Len(smart) /\ Len(regular') <= Len(regular)]_<<smart, regular>>

\* If every request is answered in the end, and new orders cease, both queues
\* end empty, although regular orders wait for smart ones and for the rate,
\* and requests fail.  Neither condition can be spared: requests.post has no
\* timeout, so an answer that never comes stops the one processor, and smart
\* orders that keep coming starve the regular ones.
QueuesDrain ==
    Answered /\ SignalsCease => <>[](smart = <<>> /\ regular = <<>>)
=================================================================================
