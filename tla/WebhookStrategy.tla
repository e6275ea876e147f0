----------------------------- MODULE WebhookStrategy -----------------------------
(***************************************************************************)
(* Strategies driven by webhooks, and the square-off job of the intraday   *)
(* ones, composed with OrderQueue.  Platform chooses between the two       *)
(* blueprints: "strategy" caches the row a webhook id leads to for five    *)
(* minutes, counts the last minute of a window as inside it and removes the*)
(* job of a strategy that is switched off; "chartink" does none of this,   *)
(* and one alert of it may name several symbols.                           *)
(*                                                                         *)
(* The clock counts the minutes that matter of one trading day and waits   *)
(* for nobody: a webhook may pass its time check and queue its orders much *)
(* later, and a job may run late or be dropped.  Jobs are kept in memory   *)
(* only.                                                                   *)
(***************************************************************************)
EXTENDS OrderQueue

CONSTANTS
    Platform,
    Strategies,
    Mode,          \* strategy -> "LONG", "SHORT" or "BOTH"
    Hours,         \* strategy -> intraday?, start, end and squareoff time
    SymbolsOf,     \* strategy -> its symbols, in the order of the mappings
    Quantity,      \* of every mapping
    Sizes,         \* position sizes a signal may carry
    Grace,         \* the scheduler's misfire grace time (5 minutes)
    LastMinute,
    Requests,      \* threads that serve webhooks
    MaxSmart,      \* bound on smart orders waiting when a signal adds one
    MaxEvents      \* bound on signals to enter, edits and restarts together

ASSUME StrategyAssumption ==
    /\ Platform \in {"strategy", "chartink"}
    /\ Mode \in [Strategies -> {"LONG", "SHORT", "BOTH"}]
    /\ Hours \in [Strategies -> [intraday : BOOLEAN, start : Nat, end : Nat, squareoff : Nat]]
    /\ SymbolsOf \in [Strategies -> Seq(Symbols)]
    /\ Quantity \in Nat \ {0} /\ Sizes \subseteq Int
    /\ Grace \in Nat /\ LastMinute \in Nat /\ MaxSmart \in Nat /\ MaxEvents \in Nat

VARIABLES
    status,      \* the strategies table
    cached,      \* _strategy_webhook_cache: the status it knows
    jobs,        \* strategies the scheduler has a job for
    fired,       \* those whose time for today is over
    closing,     \* symbols squareoff_positions has still to queue
    squared,     \* history: strategies whose square-off is queued
    overrun,     \* history: symbols closed while an entry was on its way
    request,     \* orders a webhook has accepted and not yet queued
    clock, events

strategyVars == <<status, cached, jobs, fired, closing, squared, overrun,
                  request, clock, events>>
vars == <<queueVars, strategyVars>>

Intraday(s) == Hours[s].intraday
Mapped(s) == {SymbolsOf[s][i] : i \in DOMAIN SymbolsOf[s]}

Queued == [queue : {"smart", "regular"}, order : Order]

TypeOK ==
    /\ QueueTypeOK
    /\ status \in [Strategies -> {"none", "on", "off", "deleted"}]
    /\ cached \in [Strategies -> {"none", "on", "off"}]
    /\ jobs \subseteq Strategies /\ fired \subseteq Strategies /\ squared \subseteq fired
    /\ closing \in [Strategies -> Seq(Symbols)] /\ overrun \subseteq Symbols
    /\ request \in [Requests -> Seq(Queued)]
    /\ clock \in 0 .. LastMinute /\ events \in 0 .. MaxEvents

Init ==
    /\ QueueInit
    /\ status  = [s \in Strategies |-> "none"]
    /\ cached  = [s \in Strategies |-> "none"]
    /\ jobs = {} /\ fired = {} /\ squared = {} /\ overrun = {}
    /\ closing = [s \in Strategies |-> <<>>]
    /\ request = [r \in Requests |-> <<>>]
    /\ clock = 0 /\ events = 0

Count == events < MaxEvents /\ events' = events + 1

-----------------------------------------------------------------------------
(* The pages *)

\* A job that is added after its time first runs tomorrow.
Schedule(s) ==
    IF Intraday(s)
    THEN /\ jobs'  = jobs \cup {s}
         /\ fired' = IF clock >= Hours[s].squareoff THEN fired \cup {s} ELSE fired
    ELSE UNCHANGED <<jobs, fired>>

Create(s) ==
    /\ status[s] = "none"
    /\ status' = [status EXCEPT ![s] = "on"]
    /\ Schedule(s)
    /\ UNCHANGED <<queueVars, cached, closing, squared, overrun, request, clock, events>>

\* The row changes; what webhooks have cached of it does not.
Toggle(s) ==
    /\ status[s] \in {"on", "off"}
    /\ Count
    /\ status' = [status EXCEPT ![s] = IF @ = "on" THEN "off" ELSE "on"]
    /\ IF Platform = "chartink" THEN UNCHANGED <<jobs, fired>>
       ELSE IF status[s] = "off" THEN Schedule(s)
       ELSE jobs' = jobs \ {s} /\ UNCHANGED fired
    /\ UNCHANGED <<queueVars, cached, closing, squared, overrun, request, clock>>

Delete(s) ==
    /\ status[s] \in {"on", "off"}
    /\ Count
    /\ status' = [status EXCEPT ![s] = "deleted"]
    /\ cached' = [cached EXCEPT ![s] = "none"]
    /\ jobs'   = jobs \ {s}
    /\ UNCHANGED <<queueVars, fired, closing, squared, overrun, request, clock>>

\* Its five minutes are over, or the user logged out.
CacheExpires(s) ==
    /\ cached[s] # "none"
    /\ cached' = [cached EXCEPT ![s] = "none"]
    /\ UNCHANGED <<queueVars, status, jobs, fired, closing, squared, overrun, request,
                   clock, events>>

-----------------------------------------------------------------------------
(* The webhook *)

IsExit(s, action, size) ==
    CASE Mode[s] = "LONG"  -> action = "SELL"
      [] Mode[s] = "SHORT" -> action = "BUY"
      [] OTHER             -> size = 0

Contradicts(s, action, size) ==
    Mode[s] = "BOTH" /\ IF action = "BUY" THEN size < 0 ELSE size > 0

UpTo(time) == IF Platform = "strategy" THEN clock <= time ELSE clock < time

\* Entries go on until the positions are closed.
Mut_WithinHours(s, exit) ==
    Intraday(s) => clock >= Hours[s].start /\ UpTo(Hours[s].squareoff)

WithinHours(s, exit) ==
    Intraday(s) => /\ clock >= Hours[s].start
                   /\ UpTo(IF exit THEN Hours[s].squareoff ELSE Hours[s].end)

\* An exit asks for no shares, so that it is never taken for a fresh trade.
OrderOf(s, symbol, action, size) ==
    LET row(quantity, target) == [symbol |-> symbol, action |-> action,
                                  quantity |-> quantity, size |-> target]
    IN  CASE Mode[s] = "BOTH" ->
               [queue |-> "smart", order |-> row(IF size = 0 THEN 0 ELSE Quantity, size)]
          [] Mode[s] # "BOTH" /\ IsExit(s, action, size) ->
               [queue |-> "smart", order |-> row(0, 0)]
          [] OTHER ->
               [queue |-> "regular",
                order |-> row(IF size # 0 THEN Magnitude(size) ELSE Quantity, 0)]

\* The symbols one request names.
Alerts(s) == IF Platform = "chartink" THEN {SymbolsOf[s]}
             ELSE {<<symbol>> : symbol \in Mapped(s)}

\* What the webhook id leads to.
Row(s) == IF cached[s] # "none" THEN cached[s] ELSE status[s]

\* The orders a signal is accepted for; the time is checked before they are
\* made and queued.
Accepted(s, alert, action, size) ==
    IF /\ Row(s) = "on" /\ ~Contradicts(s, action, size)
       /\ WithinHours(s, IsExit(s, action, size))
    THEN [i \in DOMAIN alert |-> OrderOf(s, alert[i], action, size)]
    ELSE <<>>

Receive(r, s, alert, action, size) ==
    LET orders == Accepted(s, alert, action, size) IN
    /\ request[r] = <<>>
    /\ IF \E i \in DOMAIN orders : orders[i].queue = "regular" THEN Count
       ELSE Len(smart) < MaxSmart /\ UNCHANGED events
    /\ Row(s) \in {"on", "off"}
    /\ cached' = [cached EXCEPT ![s] = IF Platform = "strategy" THEN Row(s) ELSE @]
    /\ request' = [request EXCEPT ![r] = orders]
    /\ UNCHANGED <<queueVars, status, jobs, fired, closing, squared, overrun, clock>>

Put(r) ==
    /\ request[r] # <<>>
    /\ LET next == Head(request[r])
       IN  IF next.queue = "smart" THEN QueueSmart(next.order) ELSE QueueRegular(next.order)
    /\ request' = [request EXCEPT ![r] = Tail(@)]
    /\ UNCHANGED <<status, cached, jobs, fired, closing, squared, overrun, clock, events>>

-----------------------------------------------------------------------------
(* The square-off job *)

IsDue(s) == s \in jobs \ fired /\ clock >= Hours[s].squareoff

StartSquareoff(s) ==
    /\ IsDue(s) /\ clock <= Hours[s].squareoff + Grace
    /\ fired'   = fired \cup {s}
    /\ closing' = [closing EXCEPT ![s] = SymbolsOf[s]]
    /\ UNCHANGED <<queueVars, status, cached, jobs, squared, overrun, request, clock,
                   events>>

\* The scheduler came to it too late, and leaves it for tomorrow.
Misfire(s) ==
    /\ IsDue(s) /\ clock > Hours[s].squareoff + Grace
    /\ fired' = fired \cup {s}
    /\ UNCHANGED <<queueVars, status, cached, jobs, closing, squared, overrun, request,
                   clock, events>>

Enters(queued) == queued.queue = "regular" \/ queued.order.size # 0

\* An entry of the symbol has passed its time check and is not queued yet.
OnItsWay(symbol) ==
    \E r \in Requests : \E i \in DOMAIN request[r] :
        request[r][i].order.symbol = symbol /\ Enters(request[r][i])

SquareoffPosition(s) ==
    LET symbol == Head(closing[s]) IN
    /\ closing[s] # <<>>
    /\ QueueSmart([symbol |-> symbol, action |-> "SELL", quantity |-> 0, size |-> 0])
    /\ closing' = [closing EXCEPT ![s] = Tail(@)]
    /\ squared' = IF Len(closing[s]) = 1 THEN squared \cup {s} ELSE squared
    /\ overrun' = IF OnItsWay(symbol) THEN overrun \cup {symbol} ELSE overrun
    /\ UNCHANGED <<status, cached, jobs, fired, request, clock, events>>

-----------------------------------------------------------------------------
\* Neither handlers nor jobs hold the time up.
Minute ==
    /\ clock < LastMinute
    /\ clock' = clock + 1
    /\ UNCHANGED <<queueVars, status, cached, jobs, fired, closing, squared, overrun,
                   request, events>>

\* Queues, caches and jobs are gone; nothing schedules the jobs again.
Restart ==
    /\ Count
    /\ Forget
    /\ cached'  = [s \in Strategies |-> "none"]
    /\ jobs' = {}
    /\ closing' = [s \in Strategies |-> <<>>]
    /\ request' = [r \in Requests |-> <<>>]
    /\ UNCHANGED <<status, fired, squared, overrun, clock>>

Page(s) == Create(s) \/ Toggle(s) \/ Delete(s)
Webhook(r) == \E s \in Strategies : \E alert \in Alerts(s), action \in Action, size \in Sizes :
                  Receive(r, s, alert, action, size)
Job(s) == StartSquareoff(s) \/ Misfire(s) \/ SquareoffPosition(s)
Run(w) == Process(w) /\ UNCHANGED strategyVars

Next ==
    \/ \E s \in Strategies : Page(s) \/ CacheExpires(s) \/ Job(s)
    \/ \E r \in Requests : Webhook(r) \/ Put(r)
    \/ \E w \in Workers : Run(w)
    \/ Tick /\ UNCHANGED strategyVars
    \/ Minute
    \/ Restart

\* The processor's loop never ends, and time passes.  Whether a request is
\* answered is up to whom it is sent to.
Spec == Init /\ [][Next]_vars
             /\ \A w \in Workers : WF_vars(Loop(w) /\ UNCHANGED strategyVars)
             /\ WF_vars(Tick /\ UNCHANGED strategyVars)

-----------------------------------------------------------------------------
(* Properties *)

\* The symbols of no other strategy.
Own(s) == Mapped(s) \ UNION {Mapped(r) : r \in Strategies \ {s}}

Closed(symbol) == Quiet(symbol) => position[symbol] = 0

\* Once the square-off of an intraday strategy is queued and its orders are
\* through, it holds nothing and nothing later reopens it, whatever signals,
\* edits, stale cached rows and late jobs meet it; provided entries end before
\* the square-off, none had passed the time check and was still to be queued
\* when the job came to the symbol, none waited in the other queue (want is
\* Unknown), no order of the symbol was lost, and no other strategy trades it
\* in the same account.
ClosedAfterSquareoff ==
    \A s \in squared : Hours[s].end < Hours[s].squareoff =>
        \A symbol \in Own(s) \ overrun : want[symbol] # Unknown => Closed(symbol)

\* "At Square Off Time, all open positions are automatically closed": once the
\* time has come, unless the job is only late.
SquareoffCloses ==
    \A s \in Strategies :
      /\ Intraday(s) /\ status[s] = "on" /\ clock > Hours[s].squareoff
      /\ ~IsDue(s) /\ closing[s] = <<>> /\ s \notin squared
      /\ failures = 0
      => \A symbol \in Mapped(s) : Closed(symbol)
==================================================================================
