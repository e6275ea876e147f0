----------------------------- MODULE SandboxThreads -----------------------------
(***************************************************************************)
(* The handlers of SandboxEngine taken apart at their database commits and *)
(* interleaved: request threads and scheduled jobs place and cancel orders *)
(* while the execution engine thread works through its list of open ones.  *)
(*                                                                         *)
(* A thread reads rows into its own session and commits the columns it     *)
(* changed with absolute values (scoped_session, autoflush off), so what   *)
(* it writes is computed from what it read some steps before.  Only        *)
(* FundManager's methods hold FundManager._lock; reconcile_margin does not.*)
(*                                                                         *)
(* One instrument and one product; every order is for one share and says   *)
(* at which price it fills, if a quote ever does fill it, and the leverage *)
(* is 1.                                                                   *)
(***************************************************************************)
EXTENDS SandboxNetting, FiniteSetsExt

CONSTANTS
    OrderIds,
    Ticket,       \* order -> side, type, and the price it fills at
    Requests,     \* request and scheduler threads
    Engine,       \* the execution engine thread
    Nobody,       \* no thread
    Capital,
    Cancels,      \* are orders cancelled?
    MaxCrashes    \* bound on process crashes

Threads == Requests \cup {Engine}

VARIABLES
    orders,       \* status and margin_blocked of each order row
    trades,       \* how many rows of sandbox_trades each order has
    position,     \* the sandbox_positions row
    funds,        \* the sandbox_funds row
    holder,       \* who holds FundManager._lock
    thread,       \* where each thread is, and what it has read
    pending,      \* the engine's list of open orders, from the last query
    stale,        \* has the engine committed nothing since that query?
    crashes

vars == <<orders, trades, position, funds, holder, thread, pending, stale, crashes>>
books == <<orders, trades, position, funds>>
engine == <<pending, stale>>

ASSUME TicketAssumption ==
    /\ OrderIds # {} /\ IsFiniteSet(OrderIds)
    /\ Ticket \in [OrderIds -> [side : Side, type : {"MARKET", "LIMIT"}, price : Nat \ {0}]]
ASSUME ThreadAssumption ==
    /\ Engine \notin Requests /\ Nobody \notin Threads
    /\ Capital \in Nat /\ MaxCrashes \in Nat /\ Cancels \in BOOLEAN

\* A thread at rest.  margin is an amount to block or release, or a sum of
\* margins; net what _update_position computed, and creates whether it found
\* no row; copy the fund row as last read.
AtRest == [at |-> "idle", order |-> CHOOSE id \in OrderIds : TRUE, margin |-> 0,
           net |-> Netted(NoPosition, 0, 0), creates |-> FALSE, copy |-> FreshFund(0)]

Steps == {"idle", "block", "commit block", "insert", "check", "trade", "position",
          "release", "commit release", "write", "sum", "compare", "reconcile",
          "cancel", "commit cancel"}

ThreadState ==
    [at : Steps, order : OrderIds, margin : Int,
     net : [position : Position, release : Int, pnl : Int],
     creates : BOOLEAN, copy : Fund]

TypeOK ==
    /\ orders \in [OrderIds -> [status : {"none", "open", "complete", "cancelled",
                                          "rejected"}, margin : Int]]
    /\ trades \in [OrderIds -> Nat]
    /\ position \in Position
    /\ funds \in Fund
    /\ holder \in Threads \cup {Nobody}
    /\ thread \in [Threads -> ThreadState]
    /\ pending \subseteq OrderIds
    /\ stale \in BOOLEAN
    /\ crashes \in 0 .. MaxCrashes

Init ==
    /\ orders   = [id \in OrderIds |-> [status |-> "none", margin |-> 0]]
    /\ trades   = [id \in OrderIds |-> 0]
    /\ position = NoPosition
    /\ funds    = FreshFund(Capital)
    /\ holder   = Nobody
    /\ thread   = [t \in Threads |-> AtRest]
    /\ pending  = {}
    /\ stale    = FALSE
    /\ crashes  = 0

Goto(t, where) == thread' = [thread EXCEPT ![t].at = where]
Rest(t) == thread' = [thread EXCEPT ![t] = AtRest]

\* A commit in the engine's session expires what it read before.
Commit(t) == /\ stale' = (stale /\ t # Engine)
             /\ UNCHANGED <<pending, crashes>>

-----------------------------------------------------------------------------
(* FundManager's methods, under its lock *)

Committing == [block |-> "commit block", release |-> "commit release",
               cancel |-> "commit cancel"]

Mut_LockFunds(t) ==
    /\ thread[t].at \in DOMAIN Committing
    /\ holder' = t
    /\ thread' = [thread EXCEPT ![t].at = Committing[thread[t].at],
                                ![t].copy = funds]
    /\ UNCHANGED <<books, engine, crashes>>

LockFunds(t) ==
    /\ thread[t].at \in DOMAIN Committing
    /\ holder = Nobody
    /\ holder' = t
    /\ thread' = [thread EXCEPT ![t].at = Committing[thread[t].at],
                                ![t].copy = funds]
    /\ UNCHANGED <<books, engine, crashes>>

\* An early return that forgets the lock.
Mut_BlockRefused(t) ==
    /\ thread[t].at = "commit block"
    /\ ~MarginAvailable(thread[t].copy, thread[t].margin)
    /\ Rest(t)
    /\ UNCHANGED <<books, holder, engine, crashes>>

BlockRefused(t) ==
    /\ thread[t].at = "commit block"
    /\ ~MarginAvailable(thread[t].copy, thread[t].margin)
    /\ Rest(t)
    /\ holder' = Nobody
    /\ UNCHANGED <<books, engine, crashes>>

\* Blocking writes available_balance and used_margin.
CommitBlock(t) ==
    /\ thread[t].at = "commit block"
    /\ MarginAvailable(thread[t].copy, thread[t].margin)
    /\ funds'  = [BlockMargin(thread[t].copy, thread[t].margin)
                    EXCEPT !.realized = funds.realized]
    /\ holder' = Nobody
    /\ Goto(t, "insert")
    /\ Commit(t)
    /\ UNCHANGED <<orders, trades, position>>

CommitRelease(t) ==
    /\ thread[t].at = "commit release"
    /\ funds'  = ReleaseMargin(thread[t].copy, thread[t].net.release, thread[t].net.pnl)
    /\ holder' = Nobody
    /\ Goto(t, "write")
    /\ Commit(t)
    /\ UNCHANGED <<orders, trades, position>>

\* The other spelling, which no query for cancelled orders finds.
Mut_CommitCancel(t) ==
    /\ thread[t].at = "commit cancel"
    /\ funds'  = ReleaseMargin(thread[t].copy, thread[t].margin, 0)
    /\ orders' = [orders EXCEPT ![thread[t].order].status = "canceled"]
    /\ holder' = Nobody
    /\ Rest(t)
    /\ Commit(t)
    /\ UNCHANGED <<trades, position>>

\* The order's new status is part of the same session and commit.
CommitCancel(t) ==
    /\ thread[t].at = "commit cancel"
    /\ funds'  = ReleaseMargin(thread[t].copy, thread[t].margin, 0)
    /\ orders' = [orders EXCEPT ![thread[t].order].status = "cancelled"]
    /\ holder' = Nobody
    /\ Rest(t)
    /\ Commit(t)
    /\ UNCHANGED <<trades, position>>

-----------------------------------------------------------------------------
(* place_order and cancel_order, on a request or scheduler thread *)

\* What reduces the position blocks nothing and needs no funds; the check of
\* the funds is made again under the lock.
StartPlace(t, id) ==
    /\ thread[t].at = "idle" /\ orders[id].status = "none"
    /\ \A u \in Threads : thread[u].at # "idle" => thread[u].order # id
    /\ LET margin == IF Opposes(Ticket[id].side, position) THEN 0 ELSE Ticket[id].price
       IN  /\ margin > 0 => MarginAvailable(funds, margin)
           /\ thread' = [thread EXCEPT ![t].order = id, ![t].margin = margin,
                                       ![t].at = IF margin > 0 THEN "block" ELSE "insert"]
    /\ UNCHANGED <<books, holder, engine, crashes>>

\* A market order goes on to execute on the thread that placed it, unless no
\* quote came and its margin is computed from the position's last price.
Insert(t) ==
    LET id == thread[t].order IN
    /\ thread[t].at = "insert"
    /\ orders' = [orders EXCEPT ![id] = [status |-> "open", margin |-> thread[t].margin]]
    /\ \/ Ticket[id].type = "MARKET" /\ Goto(t, "check")
       \/ (Ticket[id].type = "MARKET" => position.row) /\ Rest(t)
    /\ Commit(t)
    /\ UNCHANGED <<trades, position, funds, holder>>

StartCancel(t, id) ==
    /\ Cancels /\ thread[t].at = "idle" /\ orders[id].status = "open"
    /\ thread' = [thread EXCEPT ![t].at = "cancel", ![t].order = id,
                    ![t].margin = IF orders[id].margin > 0 THEN orders[id].margin
                                                           ELSE Ticket[id].price]
    /\ UNCHANGED <<books, holder, engine, crashes>>

-----------------------------------------------------------------------------
(* The engine's pass *)

QueryPending ==
    /\ thread[Engine].at = "idle" /\ pending = {}
    /\ pending' = {id \in OrderIds : orders[id].status = "open"}
    /\ pending' # {}
    /\ stale' = TRUE
    /\ UNCHANGED <<books, holder, thread, crashes>>

\* An order that is never taken off the list.
Mut_TakePending(id) ==
    /\ thread[Engine].at = "idle" /\ id \in pending
    /\ thread'  = [thread EXCEPT ![Engine].at = "check", ![Engine].order = id]
    /\ UNCHANGED <<books, holder, pending, stale, crashes>>

TakePending(id) ==
    /\ thread[Engine].at = "idle" /\ id \in pending
    /\ pending' = pending \ {id}
    /\ thread'  = [thread EXCEPT ![Engine].at = "check", ![Engine].order = id]
    /\ UNCHANGED <<books, holder, stale, crashes>>

-----------------------------------------------------------------------------
(* _process_order, _execute_order and _update_position, on any thread *)

\* An order that has a trade is not executed again; if its row, as this
\* session knows it, is still open, it is completed.
AlreadyTraded(t) ==
    LET id == thread[t].order IN
    /\ thread[t].at = "check" /\ trades[id] > 0
    /\ IF orders[id].status = "open" \/ (t = Engine /\ stale)
       THEN /\ orders' = [orders EXCEPT ![id].status = "complete"]
            /\ Commit(t)
       ELSE UNCHANGED <<orders, engine, crashes>>
    /\ Rest(t)
    /\ UNCHANGED <<trades, position, funds, holder>>

CheckTrade(t) ==
    /\ thread[t].at = "check" /\ trades[thread[t].order] = 0
    /\ Goto(t, "trade")
    /\ UNCHANGED <<books, holder, engine, crashes>>

\* The quotes read at the start of the pass may hold none for this order, no
\* last price, or one that does not reach its limit or trigger.
LeaveOpen(t) ==
    /\ t = Engine /\ thread[t].at = "check" /\ trades[thread[t].order] = 0
    /\ Rest(t)
    /\ UNCHANGED <<books, holder, engine, crashes>>

\* "Nothing was blocked, nothing to update."
Mut_CommitTrade(t) ==
    LET id == thread[t].order IN
    /\ thread[t].at = "trade"
    /\ trades' = [trades EXCEPT ![id] = trades[id] + 1]
    /\ orders' = [orders EXCEPT ![id].status = "complete"]
    /\ IF orders[id].margin = 0 THEN Rest(t) ELSE Goto(t, "position")
    /\ Commit(t)
    /\ UNCHANGED <<position, funds, holder>>

\* The trade and the order's status are one commit; the order's status is
\* not read again before.
CommitTrade(t) ==
    LET id == thread[t].order IN
    /\ thread[t].at = "trade"
    /\ trades' = [trades EXCEPT ![id] = trades[id] + 1]
    /\ orders' = [orders EXCEPT ![id].status = "complete"]
    /\ Goto(t, "position")
    /\ Commit(t)
    /\ UNCHANGED <<position, funds, holder>>

Execution(id) == [side |-> Ticket[id].side, quantity |-> 1, margin |-> orders[id].margin]

ReadPosition(t) ==
    LET id  == thread[t].order
        net == Net(position, Execution(id), Ticket[id].price)
    IN  /\ thread[t].at = "position"
        /\ thread' = [thread EXCEPT ![t].net = net, ![t].creates = ~position.row,
                        ![t].at = IF net.release > 0 THEN "release" ELSE "write"]
        /\ UNCHANGED <<books, holder, engine, crashes>>

\* Two threads that found no row both insert one; the unique constraint
\* refuses the second, whose order is rejected although its trade stays.
WriteRefused(t) ==
    /\ thread[t].at = "write" /\ thread[t].creates /\ position.row
    /\ orders' = [orders EXCEPT ![thread[t].order].status = "rejected"]
    /\ Rest(t)
    /\ Commit(t)
    /\ UNCHANGED <<trades, position, funds, holder>>

\* The row's accumulated profit, which no property here tells apart, goes with
\* the rest although the code may read it again after the release.
WritePosition(t) ==
    /\ thread[t].at = "write" /\ ~(thread[t].creates /\ position.row)
    /\ position' = thread[t].net.position
    /\ Goto(t, "sum")
    /\ Commit(t)
    /\ UNCHANGED <<orders, trades, funds, holder>>

-----------------------------------------------------------------------------
(* validate_margin_consistency and reconcile_margin: no lock *)

SumMargins(t) ==
    /\ thread[t].at = "sum"
    /\ thread' = [thread EXCEPT ![t].at = "compare",
                    ![t].margin = IF position.quantity = 0 THEN 0 ELSE position.margin]
    /\ UNCHANGED <<books, holder, engine, crashes>>

Compare(t) ==
    /\ thread[t].at = "compare"
    /\ IF funds.used = thread[t].margin
       THEN Rest(t)
       ELSE thread' = [thread EXCEPT ![t].at = "reconcile", ![t].copy = funds]
    /\ UNCHANGED <<books, holder, engine, crashes>>

\* Writes available_balance and used_margin, as computed from the copy.
Reconcile(t) ==
    /\ thread[t].at = "reconcile"
    /\ funds' = [ReconcileMargin(thread[t].copy, thread[t].margin)
                   EXCEPT !.realized = funds.realized]
    /\ Rest(t)
    /\ Commit(t)
    /\ UNCHANGED <<orders, trades, position, holder>>

-----------------------------------------------------------------------------
\* The process dies: sessions and locks are gone, committed rows stay.
Crash ==
    /\ crashes < MaxCrashes
    /\ crashes' = crashes + 1
    /\ thread'  = [t \in Threads |-> AtRest]
    /\ holder'  = Nobody
    /\ pending' = {}
    /\ UNCHANGED <<books, stale>>

Place(t) == \E id \in OrderIds : StartPlace(t, id)
Cancel(t) == \E id \in OrderIds : StartCancel(t, id)

\* What a thread does next inside a handler.
Step(t) ==
    \/ LockFunds(t) \/ BlockRefused(t) \/ CommitBlock(t) \/ CommitRelease(t)
    \/ CommitCancel(t) \/ Insert(t) \/ AlreadyTraded(t) \/ CheckTrade(t)
    \/ LeaveOpen(t) \/ CommitTrade(t) \/ ReadPosition(t) \/ WriteRefused(t)
    \/ WritePosition(t) \/ SumMargins(t) \/ Compare(t) \/ Reconcile(t)

EnginePass == QueryPending \/ \E id \in OrderIds : TakePending(id)

Next ==
    \/ \E t \in Requests : Place(t) \/ Cancel(t)
    \/ \E t \in Threads : Step(t)
    \/ EnginePass
    \/ Crash

\* Threads are scheduled, a lock that is free again and again is obtained, and
\* the engine's loop runs every few seconds.  Nothing is assumed of the market.
Spec == Init /\ [][Next]_vars
             /\ \A t \in Threads : SF_vars(Step(t))
             /\ WF_vars(EnginePass)

-----------------------------------------------------------------------------
(* Properties *)

Executing(t) == thread[t].at \in {"position", "release", "commit release", "write"}

\* What the trades of each order moved.
Moved == [id \in OrderIds |-> Signed(Ticket[id].side, trades[id])]

\* No market order is in the book yet: these alone execute on the threads that
\* place them.
RestingSoFar ==
    \A id \in OrderIds : Ticket[id].type = "MARKET" => orders[id].status = "none"

\* As long as all orders are resting ones, the position row is the sum of the
\* trades between executions, however the engine's fills meet placements and
\* cancels (_update_position).  A crash between a trade and its position is
\* excluded.
PositionIsTrades ==
    RestingSoFar /\ crashes = 0 /\ (\A t \in Threads : ~Executing(t)) =>
      position.quantity = SumFunctionOnSet(Moved, OrderIds)

\* As long as all orders are resting ones, cash moves only by booked profit,
\* whatever commits meet: "prevents race conditions when multiple threads
\* modify funds simultaneously".  With market orders it does not hold.
CashIsKept ==
    [][RestingSoFar' => Cash(funds') - Cash(funds) = funds'.realized - funds.realized]_vars

\* An open order that, from some time on, the passes' quotes never leave open
\* (none is missing or short of its price when its turn comes) is filled or
\* cancelled, although threads wait for one another's lock, placements are
\* refused and other orders' prices never come.
OpenOrdersSettle ==
    \A id \in OrderIds :
        <>[][~(LeaveOpen(Engine) /\ thread[Engine].order = id)]_vars
            => (orders[id].status = "open" ~> orders[id].status # "open")

\* Of the three figures of the account, realized_pnl at least survives every
\* interleaving, duplicate fills and unlocked reconciliations included: a
\* release adds its profit to what the row holds when it commits.
RealizedNeverLost ==
    [][\A t \in Threads :
         thread[t].at = "commit release" /\ thread'[t].at = "write"
           => funds'.realized = funds.realized + thread[t].net.pnl]_vars

\* Every call returns: FundManager._lock is given back on every path, early
\* returns included.
CallsReturn == \A t \in Threads : thread[t].at # "idle" ~> thread[t].at = "idle"

\* "Check if this order already has a trade (prevent duplicates)".
FillsOnce == \A id \in OrderIds : trades[id] <= 1
=================================================================================
