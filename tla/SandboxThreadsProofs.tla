-------------------------- MODULE SandboxThreadsProofs --------------------------
(***************************************************************************)
(* Theorems about SandboxThreads: type correctness, and that booked profit *)
(* survives every interleaving because FundManager._lock is exclusive and  *)
(* nothing writes realized_pnl outside it; as long as all orders are       *)
(* resting ones, that the position is the sum of the trades, that no order *)
(* fills twice and that cash moves only by booked profit.                  *)
(***************************************************************************)
EXTENDS SandboxThreads, SandboxNettingProofs

USE TicketAssumption, ThreadAssumption

Status == {"none", "open", "complete", "cancelled", "rejected"}

OrderRow == [status : Status, margin : Int]

\* What a ticket says, one by one.
LEMMA TicketTyped ==
    ASSUME NEW id \in OrderIds
    PROVE  /\ Ticket[id].side \in Side
           /\ Ticket[id].price \in Nat \ {0}
           /\ Ticket[id].price \in Int
<1>1. Ticket[id] \in [side : Side, type : {"MARKET", "LIMIT"}, price : Nat \ {0}]
  OBVIOUS
<1>. QED  BY <1>1

\* A thread at rest is a thread state.
LEMMA AtRestTyped == AtRest \in ThreadState
<1>1. (CHOOSE id \in OrderIds : TRUE) \in OrderIds
  OBVIOUS
<1>2. NoPosition \in Position
  BY DEF NoPosition, Position
<1>3. Netted(NoPosition, 0, 0) \in [position : Position, release : Int, pnl : Int]
  BY <1>2 DEF Netted
<1>4. FreshFund(0) \in Fund
  BY DEF FreshFund, Fund
<1>. QED  BY <1>1, <1>3, <1>4 DEF AtRest, ThreadState, Steps

\* It is at no step.
LEMMA RestIdle == AtRest.at = "idle"
BY DEF AtRest

\* The fields of a thread state.
LEMMA ThreadFields ==
    ASSUME TypeOK, NEW t \in Threads
    PROVE  /\ thread[t] \in ThreadState
           /\ thread[t].at \in Steps
           /\ thread[t].order \in OrderIds
           /\ thread[t].margin \in Int
           /\ thread[t].net \in [position : Position, release : Int, pnl : Int]
           /\ thread[t].net.position \in Position
           /\ thread[t].net.release \in Int
           /\ thread[t].net.pnl \in Int
           /\ thread[t].copy \in Fund
BY DEF TypeOK, ThreadState

\* What Goto and Rest do to the threads.
LEMMA GotoTyped ==
    ASSUME TypeOK, NEW t \in Threads, NEW where \in Steps, Goto(t, where)
    PROVE  thread' \in [Threads -> ThreadState]
<1>1. thread \in [Threads -> ThreadState] /\ thread[t] \in ThreadState
  BY DEF TypeOK
<1>2. [thread[t] EXCEPT !.at = where] \in ThreadState
  BY <1>1 DEF ThreadState
<1>. QED  BY <1>1, <1>2 DEF Goto

LEMMA RestTyped ==
    ASSUME TypeOK, NEW t \in Threads, Rest(t)
    PROVE  thread' \in [Threads -> ThreadState]
BY AtRestTyped DEF TypeOK, Rest

\* An order row with a new status.
LEMMA StatusTyped ==
    ASSUME TypeOK, NEW id \in OrderIds, NEW status \in Status
    PROVE  [orders EXCEPT ![id].status = status] \in [OrderIds -> OrderRow]
<1>1. orders \in [OrderIds -> OrderRow] /\ orders[id] \in OrderRow
  BY DEF TypeOK, OrderRow, Status
<1>2. [orders[id] EXCEPT !.status = status] \in OrderRow
  BY <1>1 DEF OrderRow
<1>. QED  BY <1>1, <1>2

-----------------------------------------------------------------------------
(* Type correctness *)

\* What is left of TypeOK once orders, threads and funds are typed.
LEMMA CommitTyped ==
    ASSUME TypeOK, NEW t \in Threads, Commit(t)
    PROVE  pending' \subseteq OrderIds /\ stale' \in BOOLEAN /\ crashes' \in 0 .. MaxCrashes
BY DEF TypeOK, Commit

LEMMA LockStepsTyped ==
    ASSUME TypeOK, NEW t \in Threads,
           \/ LockFunds(t) \/ BlockRefused(t) \/ CommitBlock(t) \/ CommitRelease(t)
           \/ CommitCancel(t)
    PROVE  TypeOK'
<1>0. /\ thread \in [Threads -> ThreadState] /\ thread[t] \in ThreadState /\ funds \in Fund
      /\ thread[t].copy \in Fund /\ thread[t].order \in OrderIds
  BY ThreadFields DEF TypeOK
<1>f. BlockMargin(thread[t].copy, thread[t].margin) \in Fund
  BY ThreadFields, FundOperationsTyped
<1>1. CASE LockFunds(t)
  <2>1. ASSUME NEW where \in Steps
        PROVE  [thread[t] EXCEPT !.at = where, !.copy = funds] \in ThreadState
    BY <1>0 DEF ThreadState
  <2>2. Committing[thread[t].at] \in Steps
    <3>1. thread[t].at \in {"block", "release", "cancel"}
      BY <1>1 DEF LockFunds, Committing
    <3>2. /\ Committing["block"] = "commit block"
          /\ Committing["release"] = "commit release"
          /\ Committing["cancel"] = "commit cancel"
      BY DEF Committing
    <3>. QED  BY <3>1, <3>2 DEF Steps
  <2>3. thread' = [thread EXCEPT ![t] =
                     [thread[t] EXCEPT !.at = Committing[thread[t].at], !.copy = funds]]
    BY <1>0, <1>1 DEF LockFunds
  <2>4. thread' \in [Threads -> ThreadState]
    BY <1>0, <2>1, <2>2, <2>3
  <2>. QED  BY <2>4, <1>1 DEF LockFunds, TypeOK, books, engine
<1>2. CASE BlockRefused(t)
  BY <1>2, RestTyped DEF BlockRefused, TypeOK, books, engine
<1>3. CASE CommitBlock(t)
  <2>1. ASSUME NEW f \in Fund, NEW r \in Int PROVE [f EXCEPT !.realized = r] \in Fund
    BY DEF Fund
  <2>2. funds' \in Fund
    BY <2>1, <1>f, <1>0, <1>3 DEF CommitBlock, Fund
  <2>3. thread' \in [Threads -> ThreadState]
    BY <1>3, GotoTyped DEF CommitBlock, Steps
  <2>. QED  BY <1>3, <2>2, <2>3, CommitTyped DEF CommitBlock, TypeOK
<1>4. CASE CommitRelease(t)
  <2>1. funds' \in Fund
    BY <1>4, ThreadFields, FundOperationsTyped DEF CommitRelease
  <2>2. thread' \in [Threads -> ThreadState]
    BY <1>4, GotoTyped DEF CommitRelease, Steps
  <2>. QED  BY <1>4, <2>1, <2>2, CommitTyped DEF CommitRelease, TypeOK
<1>5. CASE CommitCancel(t)
  <2>1. funds' \in Fund
    <3>1. ReleaseMargin(thread[t].copy, thread[t].margin, 0) \in Fund
      <4>1. 0 \in Int
        OBVIOUS
      <4>. QED  BY <4>1, ThreadFields, FundOperationsTyped
    <3>. QED  BY <3>1, <1>5 DEF CommitCancel
  <2>2. orders' \in [OrderIds -> OrderRow]
    BY <1>5, <1>0, StatusTyped DEF CommitCancel, Status
  <2>3. thread' \in [Threads -> ThreadState]
    BY <1>5, RestTyped DEF CommitCancel
  <2>. QED
    BY <1>5, <2>1, <2>2, <2>3, CommitTyped DEF CommitCancel, TypeOK, OrderRow, Status
<1>. QED  BY <1>1, <1>2, <1>3, <1>4, <1>5

LEMMA RequestStepsTyped ==
    ASSUME TypeOK, NEW t \in Threads,
           \/ Place(t) \/ Cancel(t) \/ Insert(t)
    PROVE  TypeOK'
<1>0. /\ thread \in [Threads -> ThreadState] /\ thread[t] \in ThreadState
      /\ thread[t].order \in OrderIds /\ thread[t].margin \in Int
      /\ orders \in [OrderIds -> OrderRow]
  BY ThreadFields DEF TypeOK, OrderRow, Status
<1>a. ASSUME NEW id \in OrderIds, NEW margin \in Int, NEW where \in Steps
      PROVE  [thread[t] EXCEPT !.order = id, !.margin = margin, !.at = where] \in ThreadState
  BY <1>0 DEF ThreadState
<1>b. ASSUME NEW id \in OrderIds, NEW margin \in Int, NEW where \in Steps
      PROVE  [thread[t] EXCEPT !.at = where, !.order = id, !.margin = margin] \in ThreadState
  BY <1>0 DEF ThreadState
<1>1. ASSUME NEW id \in OrderIds, StartPlace(t, id) PROVE TypeOK'
  <2> DEFINE margin == IF Opposes(Ticket[id].side, position) THEN 0 ELSE Ticket[id].price
             where  == IF margin > 0 THEN "block" ELSE "insert"
  <2>1. margin \in Int /\ where \in Steps
    BY TicketTyped DEF Steps
  <2>2. thread' = [thread EXCEPT ![t] =
                     [thread[t] EXCEPT !.order = id, !.margin = margin, !.at = where]]
    BY <1>0, <1>1 DEF StartPlace
  <2>3. [thread[t] EXCEPT !.order = id, !.margin = margin, !.at = where] \in ThreadState
    BY <2>1, <1>a
  <2>4. thread' \in [Threads -> ThreadState]
    BY <1>0, <2>2, <2>3
  <2>. QED  BY <2>4, <1>1 DEF StartPlace, TypeOK, books, engine
<1>2. ASSUME NEW id \in OrderIds, StartCancel(t, id) PROVE TypeOK'
  <2> DEFINE margin == IF orders[id].margin > 0 THEN orders[id].margin ELSE Ticket[id].price
  <2>1. margin \in Int /\ "cancel" \in Steps
    BY <1>0, TicketTyped DEF Steps, OrderRow
  <2>2. thread' = [thread EXCEPT ![t] =
                     [thread[t] EXCEPT !.at = "cancel", !.order = id, !.margin = margin]]
    BY <1>0, <1>2 DEF StartCancel
  <2>3. [thread[t] EXCEPT !.at = "cancel", !.order = id, !.margin = margin] \in ThreadState
    BY <2>1, <1>b
  <2>4. thread' \in [Threads -> ThreadState]
    BY <1>0, <2>2, <2>3
  <2>. QED  BY <2>4, <1>2 DEF StartCancel, TypeOK, books, engine
<1>3. CASE Insert(t)
  <2>1. orders' \in [OrderIds -> OrderRow]
    BY <1>0, <1>3 DEF Insert, OrderRow, Status
  <2>2. thread' \in [Threads -> ThreadState]
    BY <1>3, GotoTyped, RestTyped DEF Insert, Steps
  <2>. QED  BY <1>3, <2>1, <2>2, CommitTyped DEF Insert, TypeOK, OrderRow, Status
<1>. QED  BY <1>1, <1>2, <1>3 DEF Place, Cancel

LEMMA FillStepsTyped ==
    ASSUME TypeOK, NEW t \in Threads,
           \/ AlreadyTraded(t) \/ CheckTrade(t) \/ LeaveOpen(t) \/ CommitTrade(t)
           \/ ReadPosition(t) \/ WriteRefused(t) \/ WritePosition(t)
    PROVE  TypeOK'
<1> DEFINE id == thread[t].order
<1>0. /\ thread \in [Threads -> ThreadState] /\ thread[t] \in ThreadState
      /\ id \in OrderIds /\ position \in Position
      /\ orders \in [OrderIds -> OrderRow]
      /\ "complete" \in Status /\ "rejected" \in Status
  BY ThreadFields DEF TypeOK, OrderRow, Status
<1>1. CASE AlreadyTraded(t)
  <2>1. thread' \in [Threads -> ThreadState]
    BY <1>1, RestTyped DEF AlreadyTraded
  <2>2. [orders EXCEPT ![id].status = "complete"] \in [OrderIds -> OrderRow]
    BY <1>0, StatusTyped
  <2>3. orders' \in [OrderIds -> OrderRow]
    BY <1>0, <1>1, <2>2 DEF AlreadyTraded
  <2>4. pending' \subseteq OrderIds /\ stale' \in BOOLEAN /\ crashes' \in 0 .. MaxCrashes
    <3>1. CASE Commit(t)
      BY <3>1, CommitTyped
    <3>2. CASE UNCHANGED <<orders, engine, crashes>>
      BY <3>2 DEF TypeOK, engine
    <3>. QED  BY <1>1, <3>1, <3>2 DEF AlreadyTraded
  <2>. QED  BY <1>1, <2>1, <2>3, <2>4 DEF AlreadyTraded, TypeOK, OrderRow, Status
<1>2. CASE CheckTrade(t)
  <2>1. thread' \in [Threads -> ThreadState]
    BY <1>2, GotoTyped DEF CheckTrade, Steps
  <2>. QED  BY <1>2, <2>1 DEF CheckTrade, TypeOK, books, engine
<1>l. CASE LeaveOpen(t)
  BY <1>l, RestTyped DEF LeaveOpen, TypeOK, books, engine
<1>3. CASE CommitTrade(t)
  <2>1. thread' \in [Threads -> ThreadState]
    BY <1>3, GotoTyped DEF CommitTrade, Steps
  <2>2. orders' \in [OrderIds -> OrderRow]
    BY <1>0, <1>3, StatusTyped DEF CommitTrade
  <2>3. trades' \in [OrderIds -> Nat]
    BY <1>0, <1>3 DEF CommitTrade, TypeOK
  <2>. QED
    BY <1>3, <2>1, <2>2, <2>3, CommitTyped DEF CommitTrade, TypeOK, OrderRow, Status
<1>4. CASE ReadPosition(t)
  <2> DEFINE net   == Net(position, Execution(id), Ticket[id].price)
             where == IF net.release > 0 THEN "release" ELSE "write"
  <2>1. NetResult(position, Execution(id), net)
    <3>1. /\ Execution(id).side \in Side /\ Execution(id).quantity \in Nat
          /\ Execution(id).margin \in Int
      BY <1>0, TicketTyped DEF Execution, OrderRow
    <3>. QED  BY <1>0, <3>1, TicketTyped, NetCorrect
  <2>2. net.position \in Position /\ net.release \in Int /\ net.pnl \in Int
    BY <2>1 DEF NetResult
  <2>3. net \in [position : Position, release : Int, pnl : Int]
    BY <2>1 DEF NetResult
  <2>4. ASSUME NEW n \in [position : Position, release : Int, pnl : Int],
               NEW creates \in BOOLEAN, NEW w \in Steps
        PROVE  [thread[t] EXCEPT !.net = n, !.creates = creates, !.at = w] \in ThreadState
    BY <1>0 DEF ThreadState
  <2>5. (~position.row) \in BOOLEAN /\ where \in Steps
    BY DEF Steps
  <2>6. thread' = [thread EXCEPT ![t] =
                     [thread[t] EXCEPT !.net = net, !.creates = ~position.row, !.at = where]]
    BY <1>0, <1>4 DEF ReadPosition
  <2>7. [thread[t] EXCEPT !.net = net, !.creates = ~position.row, !.at = where] \in ThreadState
    BY <2>3, <2>4, <2>5
  <2>8. thread' \in [Threads -> ThreadState]
    BY <1>0, <2>6, <2>7
  <2>. QED  BY <1>4, <2>8 DEF ReadPosition, TypeOK, books, engine
<1>5. CASE WriteRefused(t)
  <2>1. thread' \in [Threads -> ThreadState]
    BY <1>5, RestTyped DEF WriteRefused
  <2>2. orders' \in [OrderIds -> OrderRow]
    BY <1>0, <1>5, StatusTyped DEF WriteRefused
  <2>. QED  BY <1>5, <2>1, <2>2, CommitTyped DEF WriteRefused, TypeOK, OrderRow, Status
<1>6. CASE WritePosition(t)
  <2>1. thread' \in [Threads -> ThreadState]
    BY <1>6, GotoTyped DEF WritePosition, Steps
  <2>. QED  BY <1>6, <2>1, ThreadFields, CommitTyped DEF WritePosition, TypeOK
<1>. QED  BY <1>1, <1>2, <1>l, <1>3, <1>4, <1>5, <1>6

LEMMA ReconcileStepsTyped ==
    ASSUME TypeOK, NEW t \in Threads,
           \/ SumMargins(t) \/ Compare(t) \/ Reconcile(t)
    PROVE  TypeOK'
<1>0. /\ thread \in [Threads -> ThreadState] /\ thread[t] \in ThreadState
      /\ thread[t].copy \in Fund /\ thread[t].margin \in Int /\ funds \in Fund
      /\ position \in Position
  BY ThreadFields DEF TypeOK
<1>1. CASE SumMargins(t)
  <2> DEFINE margin == IF position.quantity = 0 THEN 0 ELSE position.margin
  <2>1. ASSUME NEW m \in Int, NEW w \in Steps
        PROVE  [thread[t] EXCEPT !.at = w, !.margin = m] \in ThreadState
    BY <1>0 DEF ThreadState
  <2>2. margin \in Int /\ "compare" \in Steps
    BY <1>0 DEF Position, Steps
  <2>3. thread' = [thread EXCEPT ![t] =
                     [thread[t] EXCEPT !.at = "compare", !.margin = margin]]
    BY <1>0, <1>1 DEF SumMargins
  <2>4. thread' \in [Threads -> ThreadState]
    BY <1>0, <2>1, <2>2, <2>3
  <2>. QED  BY <1>1, <2>4 DEF SumMargins, TypeOK, books, engine
<1>2. CASE Compare(t)
  <2>1. ASSUME NEW w \in Steps
        PROVE  [thread[t] EXCEPT !.at = w, !.copy = funds] \in ThreadState
    BY <1>0 DEF ThreadState
  <2>2. CASE funds.used = thread[t].margin
    BY <1>2, <2>2, RestTyped DEF Compare, TypeOK, books, engine
  <2>3. CASE funds.used # thread[t].margin
    <3>1. thread' = [thread EXCEPT ![t] =
                       [thread[t] EXCEPT !.at = "reconcile", !.copy = funds]]
      BY <1>0, <1>2, <2>3 DEF Compare
    <3>2. "reconcile" \in Steps
      BY DEF Steps
    <3>3. thread' \in [Threads -> ThreadState]
      BY <1>0, <2>1, <3>1, <3>2
    <3>. QED  BY <1>2, <3>3 DEF Compare, TypeOK, books, engine
  <2>. QED  BY <2>2, <2>3
<1>3. CASE Reconcile(t)
  <2>1. ASSUME NEW f \in Fund, NEW r \in Int PROVE [f EXCEPT !.realized = r] \in Fund
    BY DEF Fund
  <2>2. ReconcileMargin(thread[t].copy, thread[t].margin) \in Fund
    BY <1>0, FundOperationsTyped
  <2>3. funds' \in Fund
    BY <1>0, <1>3, <2>1, <2>2 DEF Reconcile, Fund
  <2>4. thread' \in [Threads -> ThreadState]
    BY <1>3, RestTyped DEF Reconcile
  <2>. QED  BY <1>3, <2>3, <2>4, CommitTyped DEF Reconcile, TypeOK
<1>. QED  BY <1>1, <1>2, <1>3

LEMMA PassTyped ==
    ASSUME TypeOK, EnginePass \/ Crash \/ UNCHANGED vars
    PROVE  TypeOK'
<1>e. Engine \in Threads
  BY DEF Threads
<1>1. CASE QueryPending
  BY <1>1 DEF QueryPending, TypeOK, books
<1>2. ASSUME NEW id \in OrderIds, TakePending(id) PROVE TypeOK'
  <2>1. thread \in [Threads -> ThreadState] /\ thread[Engine] \in ThreadState
    BY <1>e DEF TypeOK
  <2>2. ASSUME NEW w \in Steps
        PROVE  [thread[Engine] EXCEPT !.at = w, !.order = id] \in ThreadState
    BY <2>1 DEF ThreadState
  <2>3. thread' = [thread EXCEPT ![Engine] =
                     [thread[Engine] EXCEPT !.at = "check", !.order = id]]
    BY <1>2, <2>1, <1>e DEF TakePending
  <2>4. "check" \in Steps
    BY DEF Steps
  <2>5. thread' \in [Threads -> ThreadState]
    BY <1>e, <2>1, <2>2, <2>3, <2>4
  <2>. QED  BY <1>2, <2>5 DEF TakePending, TypeOK, books
<1>3. CASE Crash
  <2>1. thread' \in [Threads -> ThreadState]
    BY <1>3, AtRestTyped DEF Crash
  <2>2. crashes' \in 0 .. MaxCrashes
    BY <1>3 DEF Crash, TypeOK
  <2>. QED  BY <1>3, <2>1, <2>2 DEF Crash, TypeOK, books
<1>4. CASE UNCHANGED vars
  BY <1>4 DEF vars, TypeOK
<1>. QED  BY <1>1, <1>2, <1>3, <1>4 DEF EnginePass

\* Every value keeps its type under every interleaving, for any number of
\* threads, orders and prices: placements, fills, cancels, reconciliations and
\* crashes.
THEOREM ThreadsTypeCorrect == Spec => []TypeOK
<1>1. Init => TypeOK
  <2>1. FreshFund(Capital) \in Fund /\ NoPosition \in Position
    BY DEF FreshFund, Fund, NoPosition, Position
  <2> SUFFICES ASSUME Init PROVE TypeOK
    OBVIOUS
  <2>2. thread \in [Threads -> ThreadState]
    BY AtRestTyped DEF Init
  <2>3. orders \in [OrderIds -> OrderRow] /\ trades \in [OrderIds -> Nat]
    BY DEF Init, OrderRow, Status
  <2>4. crashes \in 0 .. MaxCrashes
    BY DEF Init
  <2>. QED  BY <2>1, <2>2, <2>3, <2>4 DEF Init, TypeOK, OrderRow, Status
<1>2. TypeOK /\ [Next]_vars => TypeOK'
  <2> SUFFICES ASSUME TypeOK, [Next]_vars PROVE TypeOK'
    OBVIOUS
  <2>1. ASSUME NEW t \in Requests, Place(t) \/ Cancel(t) PROVE TypeOK'
    BY <2>1, RequestStepsTyped DEF Threads
  <2>2. ASSUME NEW t \in Threads, Step(t) PROVE TypeOK'
    BY <2>2, LockStepsTyped, RequestStepsTyped, FillStepsTyped, ReconcileStepsTyped DEF Step
  <2>3. CASE EnginePass \/ Crash \/ UNCHANGED vars
    BY <2>3, PassTyped
  <2>. QED  BY <2>1, <2>2, <2>3 DEF Next
<1>. QED  BY <1>1, <1>2, PTL DEF Spec

-----------------------------------------------------------------------------
(* The lock of the funds *)

Locked == {"commit block", "commit release", "commit cancel"}

\* Who is between reading and committing the funds under the lock holds it,
\* and has read the realized profit that is in the row.
LockInv ==
    \A t \in Threads : thread[t].at \in Locked =>
        holder = t /\ thread[t].copy.realized = funds.realized

\* A thread's own steps are its own: the others stay where they are.
LEMMA OthersStay ==
    ASSUME TypeOK, NEW t \in Threads,
           \/ Place(t) \/ Cancel(t) \/ Step(t) \/ (t = Engine /\ EnginePass)
    PROVE  \A u \in Threads \ {t} : thread'[u] = thread[u]
<1>. thread \in [Threads -> ThreadState]
  BY DEF TypeOK
<1>1. CASE Place(t) \/ Cancel(t)
  BY <1>1 DEF Place, Cancel, StartPlace, StartCancel
<1>2. CASE LockFunds(t) \/ BlockRefused(t) \/ CommitBlock(t) \/ CommitRelease(t)
           \/ CommitCancel(t)
  BY <1>2 DEF LockFunds, BlockRefused, CommitBlock, CommitRelease, CommitCancel, Goto, Rest
<1>3. CASE Insert(t) \/ AlreadyTraded(t) \/ CheckTrade(t) \/ LeaveOpen(t)
           \/ CommitTrade(t) \/ ReadPosition(t)
  BY <1>3 DEF Insert, AlreadyTraded, CheckTrade, LeaveOpen, CommitTrade, ReadPosition,
              Goto, Rest
<1>4. CASE WriteRefused(t) \/ WritePosition(t) \/ SumMargins(t) \/ Compare(t)
           \/ Reconcile(t)
  BY <1>4 DEF WriteRefused, WritePosition, SumMargins, Compare, Reconcile, Goto, Rest
<1>5. CASE t = Engine /\ EnginePass
  BY <1>5 DEF EnginePass, QueryPending, TakePending, books
<1>. QED  BY <1>1, <1>2, <1>3, <1>4, <1>5 DEF Step

\* Where the steps that are not under the lock leave their thread, and what
\* they leave alone.
LEMMA UnlockedSteps ==
    ASSUME TypeOK, NEW t \in Threads,
           \/ Place(t) \/ Cancel(t) \/ Insert(t) \/ AlreadyTraded(t) \/ CheckTrade(t)
           \/ LeaveOpen(t) \/ CommitTrade(t) \/ ReadPosition(t) \/ WriteRefused(t)
           \/ WritePosition(t) \/ SumMargins(t) \/ Compare(t) \/ Reconcile(t)
           \/ (t = Engine /\ EnginePass)
    PROVE  /\ thread[t].at \notin Locked
           /\ thread'[t].at \notin Locked
           /\ holder' = holder
           /\ funds'.realized = funds.realized
<1>0. /\ thread \in [Threads -> ThreadState] /\ thread[t] \in ThreadState
      /\ thread[t].at \in Steps /\ funds \in Fund /\ thread[t].copy \in Fund
      /\ thread[t].margin \in Int
  BY ThreadFields DEF TypeOK
<1>a. AtRest.at \notin Locked
  BY RestIdle DEF Locked
<1>g. ASSUME NEW where \in Steps \ Locked, Goto(t, where) PROVE thread'[t].at \notin Locked
  <2>1. thread'[t] = [thread[t] EXCEPT !.at = where]
    BY <1>0, <1>g DEF Goto
  <2>2. [thread[t] EXCEPT !.at = where].at = where
    BY <1>0 DEF ThreadState
  <2>. QED  BY <2>1, <2>2
<1>r. ASSUME Rest(t) PROVE thread'[t].at \notin Locked
  BY <1>0, <1>a, <1>r DEF Rest
<1>1. CASE Place(t)
  <2>1. PICK id \in OrderIds : StartPlace(t, id)
    BY <1>1 DEF Place
  <2>. QED  BY <1>0, <2>1 DEF StartPlace, Locked, books, ThreadState
<1>2. CASE Cancel(t)
  <2>1. PICK id \in OrderIds : StartCancel(t, id)
    BY <1>2 DEF Cancel
  <2>. QED  BY <1>0, <2>1 DEF StartCancel, Locked, books, ThreadState
<1>3. CASE Insert(t)
  BY <1>g, <1>r, <1>3 DEF Insert, Locked, Steps
<1>4. CASE AlreadyTraded(t)
  BY <1>r, <1>4 DEF AlreadyTraded, Locked
<1>5. CASE CheckTrade(t)
  BY <1>g, <1>5 DEF CheckTrade, Locked, Steps, books
<1>l. CASE LeaveOpen(t)
  BY <1>r, <1>l DEF LeaveOpen, Locked, books
<1>6. CASE CommitTrade(t)
  BY <1>g, <1>6 DEF CommitTrade, Locked, Steps
<1>7. CASE ReadPosition(t)
  <2>1. thread'[t].at \in {"release", "write"}
    BY <1>0, <1>7 DEF ReadPosition, ThreadState
  <2>. QED  BY <2>1, <1>7 DEF ReadPosition, Locked, books
<1>8. CASE WriteRefused(t)
  BY <1>r, <1>8 DEF WriteRefused, Locked
<1>9. CASE WritePosition(t)
  BY <1>g, <1>9 DEF WritePosition, Locked, Steps
<1>10. CASE SumMargins(t)
  BY <1>0, <1>10 DEF SumMargins, Locked, books, ThreadState
<1>11. CASE Compare(t)
  <2>1. CASE funds.used = thread[t].margin
    BY <1>r, <1>11, <2>1 DEF Compare, Locked, books
  <2>2. CASE funds.used # thread[t].margin
    <3>1. thread'[t] = [thread[t] EXCEPT !.at = "reconcile", !.copy = funds]
      BY <1>0, <1>11, <2>2 DEF Compare
    <3>2. [thread[t] EXCEPT !.at = "reconcile", !.copy = funds].at = "reconcile"
      BY <1>0 DEF ThreadState
    <3>. QED  BY <1>11, <3>1, <3>2 DEF Compare, Locked, books
  <2>. QED  BY <2>1, <2>2
<1>12. CASE Reconcile(t)
  <2>1. ReconcileMargin(thread[t].copy, thread[t].margin) \in Fund
    BY <1>0, FundOperationsTyped
  <2>2. funds'.realized = funds.realized
    BY <2>1, <1>0, <1>12 DEF Reconcile, Fund
  <2>. QED  BY <1>r, <1>12, <2>2 DEF Reconcile, Locked
<1>13. CASE t = Engine /\ EnginePass
  <2>1. CASE QueryPending
    BY <1>13, <2>1 DEF QueryPending, Locked, books
  <2>2. ASSUME NEW id \in OrderIds, TakePending(id) PROVE thread'[t].at = "check"
    BY <1>0, <1>13, <2>2 DEF TakePending, ThreadState
  <2>. QED  BY <1>13, <2>1, <2>2 DEF EnginePass, TakePending, Locked, books
<1>. QED
  BY <1>1, <1>2, <1>3, <1>4, <1>5, <1>l, <1>6, <1>7, <1>8, <1>9, <1>10, <1>11, <1>12, <1>13

LEMMA LockKept ==
    ASSUME TypeOK, LockInv, [Next]_vars
    PROVE  LockInv'
<1>n. ASSUME NEW t \in Threads PROVE t # Nobody
  BY <1>n
<1>0. thread \in [Threads -> ThreadState] /\ funds \in Fund
  BY DEF TypeOK
<1>1. ASSUME NEW t \in Threads, LockFunds(t) PROVE LockInv'
  <2>1. \A u \in Threads \ {t} : thread'[u] = thread[u]
    BY <1>1, OthersStay DEF Step
  <2>2. \A u \in Threads : thread[u].at \notin Locked
    BY <1>1, <1>n DEF LockFunds, LockInv
  <2>3. thread'[t].copy = funds
    BY <1>0, <1>1 DEF LockFunds, ThreadState
  <2>4. holder' = t /\ funds' = funds
    BY <1>1 DEF LockFunds, books
  <2>. QED  BY <2>1, <2>2, <2>3, <2>4 DEF LockInv
<1>2. ASSUME NEW t \in Threads,
             BlockRefused(t) \/ CommitBlock(t) \/ CommitRelease(t) \/ CommitCancel(t)
      PROVE  LockInv'
  <2>1. \A u \in Threads \ {t} : thread'[u] = thread[u]
    BY <1>2, OthersStay DEF Step
  <2>2. thread[t].at \in Locked
    BY <1>2 DEF BlockRefused, CommitBlock, CommitRelease, CommitCancel, Locked
  <2>3. \A u \in Threads \ {t} : thread[u].at \notin Locked
    BY <2>2 DEF LockInv
  <2>4. thread'[t].at \notin Locked
    <3>1. CASE BlockRefused(t) \/ CommitCancel(t)
      BY <1>0, <3>1, RestIdle DEF BlockRefused, CommitCancel, Rest, Locked
    <3>2. CASE CommitBlock(t)
      BY <1>0, <3>2 DEF CommitBlock, Goto, Locked, ThreadState
    <3>3. CASE CommitRelease(t)
      BY <1>0, <3>3 DEF CommitRelease, Goto, Locked, ThreadState
    <3>. QED  BY <1>2, <3>1, <3>2, <3>3
  <2>. QED  BY <2>1, <2>3, <2>4 DEF LockInv
<1>3. ASSUME NEW t \in Threads,
             \/ Place(t) \/ Cancel(t) \/ Insert(t) \/ AlreadyTraded(t) \/ CheckTrade(t)
             \/ LeaveOpen(t) \/ CommitTrade(t) \/ ReadPosition(t) \/ WriteRefused(t)
             \/ WritePosition(t) \/ SumMargins(t) \/ Compare(t) \/ Reconcile(t)
             \/ (t = Engine /\ EnginePass)
      PROVE  LockInv'
  <2>1. \A u \in Threads \ {t} : thread'[u] = thread[u]
    BY <1>3, OthersStay DEF Step
  <2>2. thread'[t].at \notin Locked /\ holder' = holder /\ funds'.realized = funds.realized
    BY <1>3, UnlockedSteps
  <2>. QED  BY <2>1, <2>2 DEF LockInv
<1>4. CASE Crash
  BY <1>4, RestIdle DEF Crash, LockInv, Locked
<1>5. CASE UNCHANGED vars
  BY <1>5 DEF vars, LockInv
<1>6. Engine \in Threads /\ Requests \subseteq Threads
  BY DEF Threads
<1>. QED  BY <1>1, <1>2, <1>3, <1>4, <1>5, <1>6 DEF Next, Step

\* A release adds its profit to what the fund row holds when it commits, for
\* any number of threads: duplicate fills and unlocked reconciliations can
\* corrupt the other figures, not this one.
THEOREM RealizedSafe == Spec => RealizedNeverLost
<1>1. Init => LockInv
  BY RestIdle DEF Init, LockInv, Locked
<1>2. TypeOK /\ LockInv /\ [Next]_vars => LockInv'
  BY LockKept
<1>3. TypeOK /\ LockInv /\ [Next]_vars =>
        [\A t \in Threads :
           thread[t].at = "commit release" /\ thread'[t].at = "write"
             => funds'.realized = funds.realized + thread[t].net.pnl]_vars
  <2> SUFFICES ASSUME TypeOK, LockInv, [Next]_vars, NEW t \in Threads,
                      thread[t].at = "commit release", thread'[t].at = "write"
               PROVE  funds'.realized = funds.realized + thread[t].net.pnl
    OBVIOUS
  <2>a. thread[t].at \in Locked /\ thread'[t] # thread[t]
    BY DEF Locked
  <2>1. CASE CommitRelease(t)
    <3>1. thread[t].copy.realized = funds.realized
      BY <2>a DEF LockInv
    <3>2. /\ thread[t].copy \in Fund /\ thread[t].net.release \in Int
          /\ thread[t].net.pnl \in Int
      BY ThreadFields
    <3>3. ReleaseMargin(thread[t].copy, thread[t].net.release, thread[t].net.pnl).realized
            = thread[t].copy.realized + thread[t].net.pnl
      <4>1. ASSUME NEW f \in Fund, NEW a \in Int, NEW p \in Int
            PROVE  ReleaseMargin(f, a, p).realized = f.realized + p
        BY FundOperationsCash
      <4>. QED  BY <3>2, <4>1
    <3>. QED  BY <2>1, <3>1, <3>3 DEF CommitRelease
  <2>2. ASSUME NEW u \in Threads \ {t},
               Place(u) \/ Cancel(u) \/ Step(u) \/ (u = Engine /\ EnginePass)
        PROVE  FALSE
    BY <2>2, <2>a, OthersStay
  <2>3. CASE \/ Place(t) \/ Cancel(t) \/ Insert(t) \/ AlreadyTraded(t) \/ CheckTrade(t)
             \/ LeaveOpen(t) \/ CommitTrade(t) \/ ReadPosition(t) \/ WriteRefused(t)
             \/ WritePosition(t) \/ SumMargins(t) \/ Compare(t) \/ Reconcile(t)
             \/ (t = Engine /\ EnginePass)
    BY <2>3, <2>a, UnlockedSteps
  <2>4. CASE LockFunds(t) \/ BlockRefused(t) \/ CommitBlock(t) \/ CommitCancel(t)
    BY <2>4 DEF LockFunds, BlockRefused, CommitBlock, CommitCancel, Committing
  <2>5. CASE Crash
    BY <2>5, RestIdle DEF Crash
  <2>6. CASE UNCHANGED vars
    BY <2>6, <2>a DEF vars
  <2>7. Engine \in Threads /\ Requests \subseteq Threads
    BY DEF Threads
  <2>. QED  BY <2>1, <2>2, <2>3, <2>4, <2>5, <2>6, <2>7 DEF Next, Step
<1>. QED  BY <1>1, <1>2, <1>3, ThreadsTypeCorrect, PTL DEF Spec, RealizedNeverLost

-----------------------------------------------------------------------------
(* Resting orders: one executor *)

\* An order row never goes back to "none": the book held no market order a step
\* earlier either.
LEMMA StillResting ==
    ASSUME TypeOK, [Next]_vars, RestingSoFar'
    PROVE  RestingSoFar
<1>0. orders \in [OrderIds -> OrderRow]
  BY DEF TypeOK, OrderRow, Status
<1>1. ASSUME orders' = orders PROVE RestingSoFar
  BY <1>1 DEF RestingSoFar
<1>2. ASSUME NEW id \in OrderIds, NEW status \in Status \ {"none"},
             orders' = [orders EXCEPT ![id].status = status]
      PROVE  RestingSoFar
  <2>1. orders'[id].status = status /\ \A x \in OrderIds \ {id} : orders'[x] = orders[x]
    BY <1>0, <1>2 DEF OrderRow
  <2>. QED  BY <2>1 DEF RestingSoFar
<1>3. ASSUME NEW t \in Threads, Insert(t) PROVE RestingSoFar
  <2> DEFINE id == thread[t].order
  <2>1. id \in OrderIds
    BY ThreadFields
  <2>2. /\ orders'[id].status = "open"
        /\ \A x \in OrderIds \ {id} : orders'[x] = orders[x]
    BY <1>0, <1>3, <2>1 DEF Insert
  <2>. QED  BY <2>2 DEF RestingSoFar
<1>4. ASSUME NEW t \in Threads,
             CommitCancel(t) \/ AlreadyTraded(t) \/ CommitTrade(t) \/ WriteRefused(t)
      PROVE  RestingSoFar
  <2>1. /\ thread[t].order \in OrderIds
        /\ {"cancelled", "complete", "rejected"} \subseteq Status \ {"none"}
    BY ThreadFields DEF Status
  <2>. QED
    BY <1>1, <1>2, <1>4, <2>1 DEF CommitCancel, AlreadyTraded, CommitTrade, WriteRefused
<1>5. ASSUME NEW t \in Threads,
             \/ Place(t) \/ Cancel(t) \/ LockFunds(t) \/ BlockRefused(t) \/ CommitBlock(t)
             \/ CommitRelease(t) \/ CheckTrade(t) \/ LeaveOpen(t) \/ ReadPosition(t)
             \/ WritePosition(t) \/ SumMargins(t) \/ Compare(t) \/ Reconcile(t)
      PROVE  orders' = orders
  BY <1>5 DEF Place, Cancel, StartPlace, StartCancel, LockFunds, BlockRefused, CommitBlock,
              CommitRelease, CheckTrade, LeaveOpen, ReadPosition, WritePosition, SumMargins,
              Compare, Reconcile, books
<1>6. CASE EnginePass \/ Crash \/ UNCHANGED vars
  BY <1>1, <1>6 DEF EnginePass, QueryPending, TakePending, Crash, books, vars
<1>. QED  BY <1>1, <1>3, <1>4, <1>5, <1>6 DEF Next, Step, Threads

\* As long as all orders are resting ones, the engine is the only thread that
\* executes.
Outside == {"idle", "block", "commit block", "insert", "cancel", "commit cancel"}

OneExecutor == \A t \in Requests : thread[t].at \in Outside

\* A step of a request thread leaves trades, row and engine alone, and the
\* thread outside executions.
LEMMA RequestSteps ==
    ASSUME TypeOK, OneExecutor, RestingSoFar', NEW t \in Requests,
           Place(t) \/ Cancel(t) \/ Step(t)
    PROVE  /\ OneExecutor'
           /\ thread'[Engine] = thread[Engine]
           /\ UNCHANGED <<trades, position, crashes>>
<1>0. /\ thread \in [Threads -> ThreadState] /\ t \in Threads /\ Engine \in Threads \ {t}
      /\ thread[t] \in ThreadState /\ thread[t].order \in OrderIds
      /\ thread[t].at \in Outside
  BY ThreadFields DEF Threads, TypeOK, OneExecutor
<1>1. \A u \in Threads \ {t} : thread'[u] = thread[u]
  BY <1>0, OthersStay
<1>g. ASSUME NEW where, Goto(t, where) PROVE thread'[t].at = where
  <2>1. thread'[t] = [thread[t] EXCEPT !.at = where]
    BY <1>0, <1>g DEF Goto
  <2>. QED  BY <1>0, <2>1 DEF ThreadState
<1>r. ASSUME Rest(t) PROVE thread'[t].at = "idle"
  BY <1>0, <1>r, RestIdle DEF Rest
<1>2. thread'[t].at \in Outside /\ UNCHANGED <<trades, position, crashes>>
  <2>1. CASE Place(t)
    <3>1. PICK id \in OrderIds : StartPlace(t, id)
      BY <2>1 DEF Place
    <3>. QED  BY <1>0, <3>1 DEF StartPlace, Outside, books, ThreadState
  <2>2. CASE Cancel(t)
    <3>1. PICK id \in OrderIds : StartCancel(t, id)
      BY <2>2 DEF Cancel
    <3>. QED  BY <1>0, <3>1 DEF StartCancel, Outside, books, ThreadState
  <2>3. CASE LockFunds(t)
    <3>1. thread[t].at \in {"block", "cancel"}
      BY <1>0, <2>3 DEF LockFunds, Committing, Outside
    <3>2. Committing[thread[t].at] \in {"commit block", "commit cancel"}
      <4>1. Committing["block"] = "commit block" /\ Committing["cancel"] = "commit cancel"
        BY DEF Committing
      <4>. QED  BY <3>1, <4>1
    <3>3. thread'[t] = [thread[t] EXCEPT !.at = Committing[thread[t].at], !.copy = funds]
      BY <1>0, <2>3 DEF LockFunds
    <3>4. thread'[t].at = Committing[thread[t].at]
      BY <1>0, <3>3 DEF ThreadState
    <3>. QED  BY <2>3, <3>2, <3>4 DEF LockFunds, Outside, books
  <2>4. CASE BlockRefused(t) \/ CommitCancel(t)
    BY <1>r, <2>4 DEF BlockRefused, CommitCancel, Outside, Commit, books
  <2>5. CASE CommitBlock(t)
    BY <1>g, <2>5 DEF CommitBlock, Outside, Commit
  <2>6. CASE Insert(t)
    <3>1. orders'[thread[t].order].status = "open"
      BY <1>0, <2>6 DEF Insert, TypeOK
    <3>2. Ticket[thread[t].order].type # "MARKET"
      BY <1>0, <3>1 DEF RestingSoFar
    <3>. QED  BY <1>0, <1>r, <2>6, <3>2 DEF Insert, Outside, Commit
  <2>7. CASE \/ CommitRelease(t) \/ AlreadyTraded(t) \/ CheckTrade(t) \/ LeaveOpen(t)
             \/ CommitTrade(t) \/ ReadPosition(t) \/ WriteRefused(t) \/ WritePosition(t)
             \/ SumMargins(t) \/ Compare(t) \/ Reconcile(t)
    BY <1>0, <2>7 DEF CommitRelease, AlreadyTraded, CheckTrade, LeaveOpen, CommitTrade,
                      ReadPosition, WriteRefused, WritePosition, SumMargins, Compare,
                      Reconcile, Outside
  <2>. QED  BY <2>1, <2>2, <2>3, <2>4, <2>5, <2>6, <2>7 DEF Step
<1>. QED  BY <1>0, <1>1, <1>2 DEF OneExecutor, Threads

\* The engine's steps leave the request threads where they are.
LEMMA EngineSteps ==
    ASSUME TypeOK, OneExecutor, Step(Engine) \/ EnginePass
    PROVE  OneExecutor'
<1>1. Engine \in Threads /\ \A t \in Requests : t \in Threads \ {Engine}
  BY DEF Threads
<1>2. \A u \in Threads \ {Engine} : thread'[u] = thread[u]
  BY <1>1, OthersStay
<1>. QED  BY <1>1, <1>2 DEF OneExecutor

LEMMA OneExecutorAlways == Spec => [](RestingSoFar => OneExecutor)
<1>1. Init => OneExecutor
  BY RestIdle DEF Init, OneExecutor, Outside, Threads
<1>2. TypeOK /\ (RestingSoFar => OneExecutor) /\ [Next]_vars
        => (RestingSoFar => OneExecutor)'
  <2> SUFFICES ASSUME TypeOK, RestingSoFar => OneExecutor, [Next]_vars, RestingSoFar'
               PROVE  OneExecutor'
    OBVIOUS
  <2>0. OneExecutor
    BY StillResting
  <2>1. CASE Crash
    BY <2>1, RestIdle DEF Crash, OneExecutor, Outside, Threads
  <2>2. CASE UNCHANGED vars
    BY <2>0, <2>2 DEF vars, OneExecutor
  <2>. QED  BY <2>0, <2>1, <2>2, RequestSteps, EngineSteps DEF Next, Threads
<1>. QED  BY <1>1, <1>2, ThreadsTypeCorrect, PTL DEF Spec

\* What the engine still owes the row: between the trade and the row it wrote,
\* the row is one trade behind, and what it is about to write is not.
Total == SumFunctionOnSet(Moved, OrderIds)

EngineInv ==
    /\ thread[Engine].at = "trade" => trades[thread[Engine].order] = 0
    /\ FillsOnce
    /\ crashes = 0 =>
         /\ thread[Engine].at = "position" =>
              position.quantity + Signed(Ticket[thread[Engine].order].side, 1) = Total
         /\ thread[Engine].at \in {"release", "commit release", "write"} =>
              /\ thread[Engine].net.position.quantity = Total
              /\ thread[Engine].creates => ~position.row
         /\ ~Executing(Engine) => position.quantity = Total

\* Nothing the invariant speaks of changes.
LEMMA EngineRests ==
    ASSUME EngineInv, UNCHANGED <<trades, position>>, crashes' = crashes,
           ~Executing(Engine), ~Executing(Engine)', thread'[Engine].at # "trade"
    PROVE  EngineInv'
<1>1. Total' = Total
  BY DEF Total, Moved
<1>. QED  BY <1>1 DEF EngineInv, FillsOnce, Executing

\* A trade moves the sum by one share.
LEMMA TradeMoves ==
    ASSUME TypeOK, NEW id \in OrderIds,
           trades' = [trades EXCEPT ![id] = trades[id] + 1]
    PROVE  Total' = Total + Signed(Ticket[id].side, 1) /\ Total \in Int
<1>1. ASSUME NEW x \in OrderIds PROVE Moved[x] \in Int
  <2>1. trades[x] \in Nat
    BY DEF TypeOK
  <2>. QED  BY <2>1 DEF Moved, Signed
<1>2. Moved'[id] = Moved[id] + Signed(Ticket[id].side, 1)
  <2>1. trades[id] \in Nat /\ trades'[id] = trades[id] + 1
    BY DEF TypeOK
  <2>. QED  BY <2>1 DEF Moved, Signed
<1>3. \A x \in OrderIds \ {id} : Moved'[x] = Moved[x]
  BY DEF TypeOK, Moved
<1>4. Signed(Ticket[id].side, 1) \in Int
  BY DEF Signed
<1>5. Moved'[id] \in Int
  BY <1>1, <1>2, <1>4
<1>6. SumFunctionOnSet(Moved', OrderIds)
        = SumFunctionOnSet(Moved, OrderIds) - Moved[id] + Moved'[id]
  BY <1>1, <1>3, <1>5, SumUpdate
<1>7. SumFunctionOnSet(Moved, OrderIds) \in Int
  BY <1>1, SumInt
<1>. QED  BY <1>1, <1>2, <1>4, <1>6, <1>7 DEF Total

LEMMA EngineStep ==
    ASSUME TypeOK, EngineInv, Step(Engine)
    PROVE  EngineInv'
<1> DEFINE e  == thread[Engine]
           id == thread[Engine].order
<1>0. /\ Engine \in Threads /\ thread \in [Threads -> ThreadState]
      /\ e \in ThreadState /\ id \in OrderIds /\ e.net.position \in Position
      /\ position \in Position
  BY ThreadFields DEF TypeOK, Threads
<1>g. ASSUME NEW where, Goto(Engine, where)
      PROVE  /\ thread'[Engine].at = where /\ thread'[Engine].order = id
             /\ thread'[Engine].net = e.net /\ thread'[Engine].creates = e.creates
  <2>1. thread'[Engine] = [e EXCEPT !.at = where]
    BY <1>0, <1>g DEF Goto
  <2>. QED  BY <1>0, <2>1 DEF ThreadState
<1>r. ASSUME Rest(Engine) PROVE thread'[Engine].at = "idle"
  BY <1>0, <1>r, RestIdle DEF Rest
<1>1. CASE LockFunds(Engine)
  <2> DEFINE to == Committing[e.at]
  <2>1. /\ thread'[Engine].at = to /\ thread'[Engine].order = id
        /\ thread'[Engine].net = e.net /\ thread'[Engine].creates = e.creates
    <3>1. thread'[Engine] = [e EXCEPT !.at = to, !.copy = funds]
      BY <1>0, <1>1 DEF LockFunds
    <3> HIDE DEF to
    <3>. QED  BY <1>0, <3>1 DEF ThreadState
  <2>2. /\ e.at \in {"block", "release", "cancel"}
        /\ e.at = "release" => to = "commit release"
        /\ e.at # "release" => to \in {"commit block", "commit cancel"}
    <3>1. e.at \in {"block", "release", "cancel"}
      BY <1>1 DEF LockFunds, Committing
    <3>2. /\ Committing["block"] = "commit block" /\ Committing["cancel"] = "commit cancel"
          /\ Committing["release"] = "commit release"
      BY DEF Committing
    <3>. QED  BY <3>1, <3>2
  <2>3. UNCHANGED <<trades, position, crashes>> /\ Total' = Total
    BY <1>1 DEF LockFunds, books, Total, Moved
  <2> HIDE DEF to
  <2>. QED  BY <2>1, <2>2, <2>3 DEF EngineInv, FillsOnce, Executing
<1>2. CASE BlockRefused(Engine) \/ CommitCancel(Engine) \/ AlreadyTraded(Engine)
  BY <1>r, <1>2, EngineRests
  DEF BlockRefused, CommitCancel, AlreadyTraded, Executing, Commit, books
<1>3. CASE CommitBlock(Engine)
  <2>1. thread'[Engine].at = "insert" /\ e.at = "commit block"
    BY <1>g, <1>3 DEF CommitBlock
  <2>. QED  BY <1>3, <2>1, EngineRests DEF CommitBlock, Executing, Commit
<1>4. CASE CommitRelease(Engine)
  <2>1. UNCHANGED <<trades, position, crashes>> /\ Total' = Total
    BY <1>4 DEF CommitRelease, Commit, Total, Moved
  <2>2. /\ e.at = "commit release" /\ thread'[Engine].at = "write"
        /\ thread'[Engine].net = e.net /\ thread'[Engine].creates = e.creates
    BY <1>g, <1>4 DEF CommitRelease
  <2>. QED  BY <2>1, <2>2 DEF EngineInv, FillsOnce, Executing
<1>5. CASE Insert(Engine)
  <2>1. thread'[Engine].at \in {"check", "idle"} /\ e.at = "insert"
    BY <1>g, <1>r, <1>5 DEF Insert
  <2>. QED  BY <1>5, <2>1, EngineRests DEF Insert, Executing, Commit
<1>6. CASE CheckTrade(Engine)
  <2>1. /\ e.at = "check" /\ trades[id] = 0
        /\ thread'[Engine].at = "trade" /\ thread'[Engine].order = id
        /\ UNCHANGED <<trades, position, crashes>>
    BY <1>g, <1>6 DEF CheckTrade, books
  <2>2. Total' = Total
    BY <2>1 DEF Total, Moved
  <2>3. trades'[thread'[Engine].order] = 0
    BY <2>1
  <2>. QED  BY <2>1, <2>2, <2>3 DEF EngineInv, FillsOnce, Executing
<1>l. CASE LeaveOpen(Engine)
  BY <1>0, <1>r, <1>l, EngineRests DEF LeaveOpen, Executing, books
<1>7. CASE CommitTrade(Engine)
  <2>1. /\ e.at = "trade" /\ position' = position
        /\ trades' = [trades EXCEPT ![id] = trades[id] + 1] /\ crashes' = crashes
    BY <1>7 DEF CommitTrade, Commit
  <2>g. thread'[Engine].at = "position" /\ thread'[Engine].order = id
    BY <1>g, <1>7 DEF CommitTrade
  <2>2. Total' = Total + Signed(Ticket[id].side, 1)
    BY <1>0, <2>1, TradeMoves
  <2>3. FillsOnce'
    BY <1>0, <2>1 DEF EngineInv, FillsOnce, TypeOK
  <2>4. crashes = 0 => position.quantity = Total
    BY <2>1 DEF EngineInv, Executing
  <2>5. crashes' = 0 =>
          position'.quantity + Signed(Ticket[thread'[Engine].order].side, 1) = Total'
    BY <2>1, <2>g, <2>2, <2>4
  <2>. QED  BY <2>g, <2>3, <2>5 DEF EngineInv, Executing
<1>8. CASE ReadPosition(Engine)
  <2> DEFINE net == Net(position, Execution(id), Ticket[id].price)
             to  == IF net.release > 0 THEN "release" ELSE "write"
  <2>1. NetResult(position, Execution(id), net) /\ Execution(id).quantity = 1
        /\ Execution(id).side = Ticket[id].side
    <3>1. /\ Execution(id).side \in Side /\ Execution(id).quantity \in Nat
          /\ Execution(id).margin \in Int
      BY <1>0, TicketTyped DEF Execution, TypeOK
    <3>2. NetResult(position, Execution(id), net)
      BY <1>0, <3>1, TicketTyped, NetCorrect
    <3>. QED  BY <3>2 DEF Execution
  <2>2. net.position.quantity = position.quantity + Signed(Ticket[id].side, 1)
    BY <2>1 DEF NetResult
  <2>3. /\ e.at = "position" /\ UNCHANGED <<trades, position, crashes>>
        /\ thread' = [thread EXCEPT ![Engine].net = net, ![Engine].creates = ~position.row,
                                    ![Engine].at = to]
    BY <1>8 DEF ReadPosition, books
  <2>4. Total' = Total
    BY <2>3 DEF Total, Moved
  <2> HIDE DEF net
  <2>5. /\ thread'[Engine].at = to /\ thread'[Engine].net = net
        /\ thread'[Engine].creates = ~position.row
    <3>1. thread'[Engine] = [e EXCEPT !.net = net, !.creates = ~position.row, !.at = to]
      BY <1>0, <2>3
    <3> HIDE DEF to
    <3>. QED  BY <1>0, <3>1 DEF ThreadState
  <2>6. to \in {"release", "write"}
    OBVIOUS
  <2> HIDE DEF to
  <2>7. crashes' = 0 => /\ thread'[Engine].net.position.quantity = Total'
                        /\ thread'[Engine].creates => ~position'.row
    BY <2>2, <2>3, <2>4, <2>5 DEF EngineInv
  <2>. QED  BY <2>3, <2>5, <2>6, <2>7 DEF EngineInv, FillsOnce, Executing
<1>9. CASE WriteRefused(Engine)
  <2>1. e.at = "write" /\ e.creates /\ position.row /\ crashes' = crashes
        /\ trades' = trades /\ Rest(Engine)
    BY <1>9 DEF WriteRefused, Commit
  <2>. QED  BY <1>r, <2>1 DEF EngineInv, FillsOnce
<1>10. CASE WritePosition(Engine)
  <2>1. /\ e.at = "write" /\ position' = e.net.position /\ crashes' = crashes
        /\ trades' = trades /\ thread'[Engine].at = "sum"
    BY <1>g, <1>10 DEF WritePosition, Commit
  <2>2. Total' = Total
    BY <2>1 DEF Total, Moved
  <2>. QED  BY <2>1, <2>2 DEF EngineInv, FillsOnce, Executing
<1>11. CASE SumMargins(Engine)
  <2>1. thread'[Engine].at = "compare"
    BY <1>0, <1>11 DEF SumMargins, ThreadState
  <2>. QED  BY <1>11, <2>1, EngineRests DEF SumMargins, Executing, books
<1>12. CASE Compare(Engine)
  <2>1. thread'[Engine].at \in {"idle", "reconcile"}
    <3>1. CASE funds.used = e.margin
      BY <1>r, <1>12, <3>1 DEF Compare
    <3>2. CASE funds.used # e.margin
      BY <1>0, <1>12, <3>2 DEF Compare, ThreadState
    <3>. QED  BY <3>1, <3>2
  <2>. QED  BY <1>12, <2>1, EngineRests DEF Compare, Executing, books
<1>13. CASE Reconcile(Engine)
  BY <1>r, <1>13, EngineRests DEF Reconcile, Executing, Commit
<1>. QED  BY <1>1, <1>2, <1>3, <1>4, <1>5, <1>6, <1>l, <1>7, <1>8, <1>9, <1>10, <1>11,
             <1>12, <1>13 DEF Step

LEMMA EngineInvAlways == Spec => [](RestingSoFar => EngineInv)
<1>1. Init => EngineInv
  <2> SUFFICES ASSUME Init PROVE EngineInv
    OBVIOUS
  <2>1. thread[Engine].at = "idle" /\ position.quantity = 0
    BY RestIdle DEF Init, Threads, NoPosition
  <2>2. FillsOnce
    BY DEF Init, FillsOnce
  <2>3. Total = 0
    <3>1. \A id \in OrderIds : Moved[id] = 0
      <4>1. ASSUME NEW side PROVE Signed(side, 0) = 0
        <5>1. -0 = 0
          <6>1. \A n \in Int : -n \in Int /\ n + (-n) = 0
            OBVIOUS
          <6>2. -0 \in Int /\ 0 + (-0) = 0
            BY <6>1
          <6> DEFINE m == -0
          <6> HIDE DEF m
          <6>3. m \in Int /\ 0 + m = 0
            BY <6>2 DEF m
          <6>4. m = 0
            BY <6>3
          <6>. QED  BY <6>4 DEF m
        <5>2. CASE side = "BUY"
          BY <5>2 DEF Signed
        <5>3. CASE side # "BUY"
          BY <5>1, <5>3 DEF Signed
        <5>. QED  BY <5>2, <5>3
      <4>2. \A id \in OrderIds : trades[id] = 0
        BY DEF Init
      <4>. QED  BY <4>1, <4>2 DEF Moved
    <3>. QED  BY <3>1, SumZero DEF Total
  <2>. QED  BY <2>1, <2>2, <2>3 DEF EngineInv
<1>2. TypeOK /\ (RestingSoFar => OneExecutor) /\ (RestingSoFar => EngineInv) /\ [Next]_vars
        => (RestingSoFar => EngineInv)'
  <2> SUFFICES ASSUME TypeOK, RestingSoFar => OneExecutor, RestingSoFar => EngineInv,
                      [Next]_vars, RestingSoFar'
               PROVE  EngineInv'
    OBVIOUS
  <2>0. OneExecutor /\ EngineInv
    BY StillResting
  <2>e. Engine \in Threads /\ thread[Engine] \in ThreadState
    BY DEF TypeOK, Threads
  <2>1. ASSUME thread'[Engine] = thread[Engine], UNCHANGED <<trades, position, crashes>>
        PROVE  EngineInv'
    <3>1. Total' = Total
      BY <2>1 DEF Total, Moved
    <3>. QED  BY <2>0, <2>1, <3>1 DEF EngineInv, FillsOnce, Executing
  <2>2. ASSUME NEW t \in Requests, Place(t) \/ Cancel(t) \/ Step(t) PROVE EngineInv'
    BY <2>0, <2>1, <2>2, RequestSteps
  <2>3. CASE QueryPending
    BY <2>0, <2>1, <2>3 DEF QueryPending, books
  <2>4. ASSUME NEW id \in OrderIds, TakePending(id) PROVE EngineInv'
    <3>1. thread'[Engine].at = "check"
      BY <2>e, <2>4 DEF TakePending, ThreadState, TypeOK
    <3>. QED  BY <2>0, <2>4, <3>1, EngineRests DEF TakePending, Executing, books
  <2>5. CASE Crash
    <3>1. thread'[Engine].at = "idle" /\ crashes' # 0
      BY <2>5, <2>e, RestIdle DEF Crash, TypeOK
    <3>2. trades' = trades
      BY <2>5 DEF Crash, books
    <3>. QED  BY <2>0, <3>1, <3>2 DEF EngineInv, FillsOnce
  <2>6. CASE UNCHANGED vars
    BY <2>1, <2>6 DEF vars
  <2>. QED  BY <2>0, <2>2, <2>3, <2>4, <2>5, <2>6, EngineStep DEF Next, EnginePass, Threads
<1>. QED  BY <1>1, <1>2, ThreadsTypeCorrect, OneExecutorAlways, PTL DEF Spec

\* As long as all orders are resting ones, the row is the sum of the trades
\* between executions, for any number of request threads placing and cancelling
\* meanwhile.
THEOREM PositionSafe == Spec => []PositionIsTrades
<1>1. (RestingSoFar => EngineInv) => PositionIsTrades
  <2>1. Engine \in Threads
    BY DEF Threads
  <2>. QED  BY <2>1 DEF EngineInv, PositionIsTrades, Total
<1>. QED  BY <1>1, EngineInvAlways, PTL

\* And no order is filled twice, crashes included: the check for an earlier
\* trade is enough as long as one thread executes.
THEOREM FillsOnceSafe == Spec => [](RestingSoFar => FillsOnce)
<1>1. EngineInv => FillsOnce
  BY DEF EngineInv
<1>. QED  BY <1>1, EngineInvAlways, PTL

\* A copy of the fund row that is going to be written back is worth what the
\* row is worth.  The reconciliation holds no lock, but it runs only on the
\* engine, and nobody else books profit.
Writing == Locked \cup {"reconcile"}

CashInv ==
    \A t \in Threads : thread[t].at \in Writing => Cash(thread[t].copy) = Cash(funds)

\* Steps that leave the fund row alone: only LockFunds and Compare, which read
\* it, lead to a write.
LEMMA ReadingSteps ==
    ASSUME TypeOK, NEW t \in Threads,
           \/ LockFunds(t) \/ BlockRefused(t) \/ Place(t) \/ Cancel(t) \/ Insert(t)
           \/ AlreadyTraded(t) \/ CheckTrade(t) \/ LeaveOpen(t) \/ CommitTrade(t) \/ ReadPosition(t)
           \/ WriteRefused(t) \/ WritePosition(t) \/ SumMargins(t) \/ Compare(t)
           \/ (t = Engine /\ EnginePass)
    PROVE  /\ funds' = funds
           /\ thread'[t].at \in Writing => thread'[t].copy = funds
<1>0. thread \in [Threads -> ThreadState] /\ thread[t] \in ThreadState
  BY ThreadFields DEF TypeOK
<1>g. ASSUME NEW where, where \notin Writing, Goto(t, where)
      PROVE  thread'[t].at \notin Writing
  <2>1. thread'[t] = [thread[t] EXCEPT !.at = where]
    BY <1>0, <1>g DEF Goto
  <2>2. thread'[t].at = where
    BY <1>0, <2>1 DEF ThreadState
  <2>. QED  BY <1>g, <2>2
<1>r. ASSUME Rest(t) PROVE thread'[t].at \notin Writing
  BY <1>0, <1>r, RestIdle DEF Rest, Writing, Locked
<1>1. CASE LockFunds(t)
  <2>1. thread'[t] = [thread[t] EXCEPT !.at = Committing[thread[t].at], !.copy = funds]
    BY <1>0, <1>1 DEF LockFunds
  <2>. QED  BY <1>0, <1>1, <2>1 DEF LockFunds, books, ThreadState
<1>2. CASE BlockRefused(t)
  BY <1>r, <1>2 DEF BlockRefused, books
<1>3. CASE Place(t)
  <2>1. PICK id \in OrderIds : StartPlace(t, id)
    BY <1>3 DEF Place
  <2>. QED  BY <1>0, <2>1 DEF StartPlace, Writing, Locked, books, ThreadState
<1>4. CASE Cancel(t)
  <2>1. PICK id \in OrderIds : StartCancel(t, id)
    BY <1>4 DEF Cancel
  <2>. QED  BY <1>0, <2>1 DEF StartCancel, Writing, Locked, books, ThreadState
<1>5. CASE Insert(t)
  <2>1. "check" \notin Writing
    BY DEF Writing, Locked
  <2>. QED  BY <1>g, <1>r, <1>5, <2>1 DEF Insert
<1>6. CASE AlreadyTraded(t) \/ WriteRefused(t)
  BY <1>r, <1>6 DEF AlreadyTraded, WriteRefused
<1>7. CASE CheckTrade(t) \/ CommitTrade(t) \/ WritePosition(t)
  <2>1. "trade" \notin Writing /\ "position" \notin Writing /\ "sum" \notin Writing
    BY DEF Writing, Locked
  <2>. QED  BY <1>g, <1>7, <2>1 DEF CheckTrade, CommitTrade, WritePosition, books
<1>l. CASE LeaveOpen(t)
  BY <1>r, <1>l DEF LeaveOpen, books
<1>8. CASE ReadPosition(t)
  <2>1. thread'[t].at \in {"release", "write"}
    BY <1>0, <1>8 DEF ReadPosition, ThreadState
  <2>. QED  BY <2>1, <1>8 DEF ReadPosition, Writing, Locked, books
<1>9. CASE SumMargins(t)
  BY <1>0, <1>9 DEF SumMargins, Writing, Locked, books, ThreadState
<1>10. CASE Compare(t)
  <2>1. CASE funds.used = thread[t].margin
    BY <1>r, <1>10, <2>1 DEF Compare, books
  <2>2. CASE funds.used # thread[t].margin
    <3>1. thread'[t] = [thread[t] EXCEPT !.at = "reconcile", !.copy = funds]
      BY <1>0, <1>10, <2>2 DEF Compare
    <3>. QED  BY <1>0, <1>10, <3>1 DEF Compare, books, ThreadState
  <2>. QED  BY <2>1, <2>2
<1>11. CASE t = Engine /\ EnginePass
  <2>1. CASE QueryPending
    BY <1>11, <2>1 DEF QueryPending, Writing, Locked, books
  <2>2. ASSUME NEW id \in OrderIds, TakePending(id) PROVE thread'[t].at = "check"
    BY <1>0, <1>11, <2>2 DEF TakePending, ThreadState
  <2>. QED  BY <1>11, <2>1, <2>2 DEF EnginePass, TakePending, Writing, Locked, books
<1>. QED  BY <1>1, <1>2, <1>3, <1>4, <1>5, <1>6, <1>7, <1>l, <1>8, <1>9, <1>10, <1>11

\* Steps that write the fund row move its worth by the profit they book, and
\* only a release books profit.
LEMMA WritingSteps ==
    ASSUME TypeOK, LockInv, CashInv, NEW t \in Threads,
           CommitBlock(t) \/ CommitRelease(t) \/ CommitCancel(t) \/ Reconcile(t)
    PROVE  /\ Cash(funds') - Cash(funds) = funds'.realized - funds.realized
           /\ ~CommitRelease(t) => Cash(funds') = Cash(funds)
           /\ thread'[t].at \notin Writing
<1> DEFINE c == thread[t].copy
<1>0. /\ thread \in [Threads -> ThreadState] /\ c \in Fund /\ funds \in Fund
      /\ thread[t] \in ThreadState
      /\ thread[t].margin \in Int /\ thread[t].net.release \in Int
      /\ thread[t].net.pnl \in Int
  BY ThreadFields DEF TypeOK
<1>1. thread[t].at \in Writing
  BY DEF CommitBlock, CommitRelease, CommitCancel, Reconcile, Writing, Locked
<1>2. Cash(c) = Cash(funds)
  BY <1>1 DEF CashInv
<1>3. thread[t].at \in Locked => c.realized = funds.realized
  BY DEF LockInv
<1>4. Cash(funds) \in Int /\ funds.realized \in Int
  BY <1>0 DEF Fund, Cash
<1>r. ASSUME Rest(t) PROVE thread'[t].at \notin Writing
  BY <1>0, <1>r, RestIdle DEF Rest, Writing, Locked
<1>g. ASSUME NEW where, where \notin Writing, Goto(t, where)
      PROVE  thread'[t].at \notin Writing
  <2>1. thread'[t] = [thread[t] EXCEPT !.at = where]
    BY <1>0, <1>g DEF Goto
  <2>2. thread'[t].at = where
    BY <1>0, <2>1 DEF ThreadState
  <2>. QED  BY <1>g, <2>2
<1>w. "insert" \notin Writing /\ "write" \notin Writing
  BY DEF Writing, Locked
<1>k. ASSUME NEW f \in Fund, NEW r \in Int
      PROVE  /\ [f EXCEPT !.realized = r].realized = r
             /\ Cash([f EXCEPT !.realized = r]) = Cash(f)
  BY DEF Fund, Cash
<1>5. CASE CommitBlock(t)
  <2>1. PICK f \in Fund : f = BlockMargin(c, thread[t].margin) /\ Cash(f) = Cash(c)
    <3> HIDE DEF c
    <3>1. 0 \in Int
      OBVIOUS
    <3>2. BlockMargin(c, thread[t].margin) \in Fund
      BY <1>0, <3>1, FundOperationsTyped
    <3>3. Cash(BlockMargin(c, thread[t].margin)) = Cash(c)
      BY <1>0, <3>1, FundOperationsCash
    <3>. QED  BY <3>2, <3>3
  <2>2. funds' = [f EXCEPT !.realized = funds.realized]
    BY <2>1, <1>5 DEF CommitBlock
  <2>3. Cash(funds') = Cash(funds) /\ funds'.realized = funds.realized
    BY <1>2, <1>4, <1>k, <2>1, <2>2
  <2>4. thread'[t].at \notin Writing
    BY <1>g, <1>w, <1>5 DEF CommitBlock
  <2>. QED  BY <1>4, <2>3, <2>4
<1>6. CASE CommitRelease(t)
  <2>1. c.realized = funds.realized
    BY <1>3, <1>6 DEF CommitRelease, Locked
  <2>2. /\ funds' = ReleaseMargin(c, thread[t].net.release, thread[t].net.pnl)
        /\ thread'[t].at \notin Writing
    BY <1>g, <1>w, <1>6 DEF CommitRelease
  <2> HIDE DEF c
  <2>3. ASSUME NEW a \in Int, NEW p \in Int
        PROVE  /\ Cash(ReleaseMargin(c, a, p)) = Cash(c) + p
               /\ ReleaseMargin(c, a, p).realized = c.realized + p
    BY <1>0, FundOperationsCash
  <2>4. /\ Cash(funds') = Cash(c) + thread[t].net.pnl
        /\ funds'.realized = c.realized + thread[t].net.pnl
    BY <1>0, <2>2, <2>3
  <2>. QED  BY <1>0, <1>2, <1>4, <1>6, <2>1, <2>2, <2>4
<1>7. CASE CommitCancel(t)
  <2>1. c.realized = funds.realized
    BY <1>3, <1>7 DEF CommitCancel, Locked
  <2>2. funds' = ReleaseMargin(c, thread[t].margin, 0) /\ thread'[t].at \notin Writing
    BY <1>r, <1>7 DEF CommitCancel
  <2> HIDE DEF c
  <2>3. ASSUME NEW a \in Int, NEW p \in Int
        PROVE  /\ Cash(ReleaseMargin(c, a, p)) = Cash(c) + p
               /\ ReleaseMargin(c, a, p).realized = c.realized + p
    BY <1>0, FundOperationsCash
  <2>4. Cash(funds') = Cash(c) + 0 /\ funds'.realized = c.realized + 0
    BY <1>0, <2>2, <2>3
  <2>. QED  BY <1>2, <1>4, <2>1, <2>2, <2>4
<1>8. CASE Reconcile(t)
  <2>1. PICK f \in Fund : f = ReconcileMargin(c, thread[t].margin) /\ Cash(f) = Cash(c)
    <3> HIDE DEF c
    <3>1. 0 \in Int
      OBVIOUS
    <3>2. ReconcileMargin(c, thread[t].margin) \in Fund
      BY <1>0, <3>1, FundOperationsTyped
    <3>3. Cash(ReconcileMargin(c, thread[t].margin)) = Cash(c)
      BY <1>0, <3>1, FundOperationsCash
    <3>. QED  BY <3>2, <3>3
  <2>2. funds' = [f EXCEPT !.realized = funds.realized]
    BY <2>1, <1>8 DEF Reconcile
  <2>3. Cash(funds') = Cash(funds) /\ funds'.realized = funds.realized
    BY <1>2, <1>4, <1>k, <2>1, <2>2
  <2>4. thread'[t].at \notin Writing
    BY <1>r, <1>8 DEF Reconcile
  <2>. QED  BY <1>4, <2>3, <2>4
<1>. QED  BY <1>5, <1>6, <1>7, <1>8

\* While a thread is about to write, no other thread books profit.
LEMMA CashKept ==
    ASSUME TypeOK, LockInv, OneExecutor, CashInv, NEW t \in Threads,
           Place(t) \/ Cancel(t) \/ Step(t) \/ (t = Engine /\ EnginePass)
    PROVE  /\ Cash(funds') - Cash(funds) = funds'.realized - funds.realized
           /\ CashInv'
<1>0. funds \in Fund /\ Cash(funds) \in Int /\ funds.realized \in Int
  BY DEF TypeOK, Fund, Cash
<1>1. \A u \in Threads \ {t} : thread'[u] = thread[u]
  BY OthersStay
<1>2. CASE CommitBlock(t) \/ CommitRelease(t) \/ CommitCancel(t) \/ Reconcile(t)
  <2>1. /\ Cash(funds') - Cash(funds) = funds'.realized - funds.realized
        /\ ~CommitRelease(t) => Cash(funds') = Cash(funds)
        /\ thread'[t].at \notin Writing
    BY <1>2, WritingSteps
  <2>2. CASE ~CommitRelease(t)
    BY <1>1, <2>1, <2>2 DEF CashInv
  <2>3. CASE CommitRelease(t)
    <3>1. thread[t].at = "commit release"
      BY <2>3 DEF CommitRelease
    <3>2. t = Engine
      BY <3>1 DEF Threads, OneExecutor, Outside
    <3>3. ASSUME NEW u \in Threads \ {t} PROVE thread[u].at \notin Writing
      <4>1. thread[u].at \notin Locked
        BY <3>1 DEF LockInv, Locked
      <4>2. thread[u].at # "reconcile"
        BY <3>2 DEF Threads, OneExecutor, Outside
      <4>. QED  BY <4>1, <4>2 DEF Writing
    <3>. QED  BY <1>1, <2>1, <3>3 DEF CashInv
  <2>. QED  BY <2>1, <2>2, <2>3
<1>3. CASE \/ LockFunds(t) \/ BlockRefused(t) \/ Place(t) \/ Cancel(t) \/ Insert(t)
           \/ AlreadyTraded(t) \/ CheckTrade(t) \/ LeaveOpen(t) \/ CommitTrade(t) \/ ReadPosition(t)
           \/ WriteRefused(t) \/ WritePosition(t) \/ SumMargins(t) \/ Compare(t)
           \/ (t = Engine /\ EnginePass)
  <2>1. /\ funds' = funds
        /\ thread'[t].at \in Writing => thread'[t].copy = funds
    BY <1>3, ReadingSteps
  <2>. QED  BY <1>0, <1>1, <2>1 DEF CashInv
<1>. QED  BY <1>2, <1>3 DEF Step

\* As long as all orders are resting ones, cash moves only by booked profit, for
\* any number of request threads and crashes, although the reconciliation takes
\* no lock.
THEOREM CashSafe == Spec => CashIsKept
<1>1. Init => LockInv /\ CashInv
  BY RestIdle DEF Init, LockInv, CashInv, Writing, Locked
<1>2. ASSUME TypeOK, LockInv, RestingSoFar => OneExecutor, RestingSoFar => CashInv,
             [Next]_vars, RestingSoFar'
      PROVE  CashInv' /\ Cash(funds') - Cash(funds) = funds'.realized - funds.realized
  <2>0. OneExecutor /\ CashInv
    BY <1>2, StillResting
  <2>1. CASE Crash
    <3>1. funds' = funds /\ funds.realized \in Int /\ Cash(funds) \in Int
      BY <1>2, <2>1 DEF Crash, books, TypeOK, Fund, Cash
    <3>2. CashInv'
      BY <2>1, RestIdle DEF Crash, CashInv, Writing, Locked
    <3>3. Cash(funds') - Cash(funds) = funds'.realized - funds.realized
      BY <3>1
    <3>. QED  BY <3>2, <3>3
  <2>2. CASE UNCHANGED vars
    <3>1. funds' = funds /\ funds.realized \in Int /\ Cash(funds) \in Int
      BY <1>2, <2>2 DEF vars, TypeOK, Fund, Cash
    <3>2. CashInv'
      BY <2>0, <2>2 DEF vars, CashInv
    <3>3. Cash(funds') - Cash(funds) = funds'.realized - funds.realized
      BY <3>1
    <3>. QED  BY <3>2, <3>3
  <2>3. Engine \in Threads /\ Requests \subseteq Threads
    BY DEF Threads
  <2>. QED  BY <1>2, <2>0, <2>1, <2>2, <2>3, CashKept DEF Next
<1>3. TypeOK /\ LockInv /\ (RestingSoFar => OneExecutor) /\ (RestingSoFar => CashInv)
        /\ [Next]_vars
      => /\ (RestingSoFar => CashInv)'
         /\ [RestingSoFar' =>
               Cash(funds') - Cash(funds) = funds'.realized - funds.realized]_vars
  BY <1>2
<1>4. TypeOK /\ LockInv /\ [Next]_vars => LockInv'
  BY LockKept
<1>. QED
  BY <1>1, <1>3, <1>4, ThreadsTypeCorrect, OneExecutorAlways, PTL DEF Spec, CashIsKept
=================================================================================
