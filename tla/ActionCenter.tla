------------------------------ MODULE ActionCenter ------------------------------
(***************************************************************************)
(* Orders waiting for approval: database/action_center_db.py, the routes of *)
(* blueprints/orders.py and services/pending_order_execution_service.py.   *)
(*                                                                         *)
(* Each request runs on a thread of its own, reads a row, decides, and     *)
(* writes by the row's id in a later statement; no lock or version ties the *)
(* two together.  Ids are SQLite rowids: one more than the largest in the   *)
(* table, so a deleted row's id is given again.                             *)
(*                                                                         *)
(* The broker, and whether the user is logged in, are outside.  Writes may  *)
(* fail, reads do not.                                                     *)
(***************************************************************************)
EXTENDS Integers, FiniteSets

CONSTANTS
    Orders,        \* what strategies send; the same payload twice is two orders
    Unsupported,   \* those whose api_type the execution does not know
    Threads,       \* requests in progress
    MaxId,         \* bounds the table
    MaxCrashes

ASSUME ActionCenterAssumption ==
    /\ Unsupported \subseteq Orders
    /\ IsFiniteSet(Threads)
    /\ MaxId \in Nat /\ MaxCrashes \in Nat

VARIABLES
    rows,       \* the table pending_orders, by id
    thread,
    crashes,
    queued, approved, executed   \* history: orders ever queued, stored as
                                 \* approved, and sent or refused by the execution

vars == <<rows, thread, crashes, queued, approved, executed>>

Ids == 1 .. MaxId

Row == [order : Orders, status : {"pending", "approved", "rejected"},
        broker : {"none", "live", "rejected"}]

NoRow == [status |-> "absent"]

\* What a thread is about to do to which row; order is what the execution read.
Thread == [at : {"approve", "reject", "delete", "execute"}, id : Ids]
          \cup [at : {"place"}, id : Ids, order : Orders]
          \cup [at : {"record"}, id : Ids, answer : {"live", "rejected"}]

Idle == [at |-> "idle"]

TypeOK ==
    /\ rows \in [Ids -> Row \cup {NoRow}]
    /\ thread \in [Threads -> Thread \cup {Idle}]
    /\ crashes \in 0 .. MaxCrashes
    /\ queued \subseteq Orders /\ approved \subseteq Orders /\ executed \subseteq Orders

Init ==
    /\ rows = [i \in Ids |-> NoRow]
    /\ thread = [t \in Threads |-> Idle]
    /\ crashes = 0
    /\ queued = {} /\ approved = {} /\ executed = {}

Goto(t, step) == thread' = [thread EXCEPT ![t] = step]

-----------------------------------------------------------------------------
(* queue_order *)

\* The rowid of the next INSERT.
IsNextId(i) ==
    /\ \A j \in Ids : j >= i => rows[j] = NoRow
    /\ i > 1 => rows[i - 1] # NoRow

Queue(o) ==
    /\ o \notin queued
    /\ queued' = queued \cup {o}
    /\ \E i \in Ids :
         /\ IsNextId(i)
         /\ rows' = [rows EXCEPT ![i] = [order |-> o, status |-> "pending", broker |-> "none"]]
    /\ UNCHANGED <<thread, crashes, approved, executed>>

-----------------------------------------------------------------------------
(* The routes: approve, reject, delete *)

\* The first statement: is the row there, and in the status the request needs?
Request(t) ==
    /\ thread[t] = Idle
    /\ \E i \in Ids :
         \/ rows[i].status = "pending" /\ Goto(t, [at |-> "approve", id |-> i])
         \/ rows[i].status = "pending" /\ Goto(t, [at |-> "reject", id |-> i])
         \/ rows[i].status \in {"approved", "rejected"} /\ Goto(t, [at |-> "delete", id |-> i])
    /\ UNCHANGED <<rows, crashes, queued, approved, executed>>

\* Executes the first row of the list.
Mut_CommitApprove(t) ==
    LET i == thread[t].id IN
    /\ thread[t].at = "approve" /\ rows[i] # NoRow
    /\ rows' = [rows EXCEPT ![i] = [rows[i] EXCEPT !.status = "approved"]]
    /\ approved' = approved \cup {rows[i].order}
    /\ Goto(t, [at |-> "execute", id |-> 1])
    /\ UNCHANGED <<crashes, queued, executed>>

\* The second statement writes whatever row now has the id.
CommitApprove(t) ==
    LET i == thread[t].id IN
    /\ thread[t].at = "approve" /\ rows[i] # NoRow
    /\ rows' = [rows EXCEPT ![i] = [rows[i] EXCEPT !.status = "approved"]]
    /\ approved' = approved \cup {rows[i].order}
    /\ Goto(t, [at |-> "execute", id |-> i])
    /\ UNCHANGED <<crashes, queued, executed>>

CommitReject(t) ==
    LET i == thread[t].id IN
    /\ thread[t].at = "reject" /\ rows[i] # NoRow
    /\ rows' = [rows EXCEPT ![i] = [rows[i] EXCEPT !.status = "rejected"]]
    /\ Goto(t, Idle)
    /\ UNCHANGED <<crashes, queued, approved, executed>>

\* A row that is gone is only warned about.
CommitDelete(t) ==
    /\ thread[t].at = "delete"
    /\ rows' = [rows EXCEPT ![thread[t].id] = NoRow]
    /\ Goto(t, Idle)
    /\ UNCHANGED <<crashes, queued, approved, executed>>

\* The row is gone, or the database refuses: rolled back.
CommitFails(t) ==
    /\ thread[t].at \in {"approve", "reject", "delete", "record"}
    /\ Goto(t, Idle)
    /\ UNCHANGED <<rows, crashes, queued, approved, executed>>

-----------------------------------------------------------------------------
(* execute_approved_order *)

\* The status is not looked at.
Mut_ReadApproved(t) ==
    LET i == thread[t].id IN
    /\ thread[t].at = "execute"
    /\ IF rows[i] # NoRow
       THEN Goto(t, [at |-> "place", id |-> i, order |-> rows[i].order])
       ELSE Goto(t, Idle)
    /\ UNCHANGED <<rows, crashes, queued, approved, executed>>

\* The row is read again, by id.
ReadApproved(t) ==
    LET i == thread[t].id IN
    /\ thread[t].at = "execute"
    /\ IF rows[i].status = "approved"
       THEN Goto(t, [at |-> "place", id |-> i, order |-> rows[i].order])
       ELSE Goto(t, Idle)
    /\ UNCHANGED <<rows, crashes, queued, approved, executed>>

\* A basket or split order has no order id to record.
Answers(o) == IF o \in Unsupported THEN {"rejected"} ELSE {"live", "rejected", "none"}

\* The order service is called, or refused for want of a login or of support.
Place(t) ==
    LET o == thread[t].order IN
    /\ thread[t].at = "place"
    /\ executed' = executed \cup {o}
    /\ \E answer \in Answers(o) :
         IF answer = "none"
         THEN Goto(t, Idle)
         ELSE Goto(t, [at |-> "record", id |-> thread[t].id, answer |-> answer])
    /\ UNCHANGED <<rows, crashes, queued, approved>>

\* The answer in the wrong column.
Mut_Record(t) ==
    LET i == thread[t].id IN
    /\ thread[t].at = "record" /\ rows[i] # NoRow
    /\ rows' = [rows EXCEPT ![i] = [rows[i] EXCEPT !.status = thread[t].answer]]
    /\ Goto(t, Idle)
    /\ UNCHANGED <<crashes, queued, approved, executed>>

Record(t) ==
    LET i == thread[t].id IN
    /\ thread[t].at = "record" /\ rows[i] # NoRow
    /\ rows' = [rows EXCEPT ![i] = [rows[i] EXCEPT !.broker = thread[t].answer]]
    /\ Goto(t, Idle)
    /\ UNCHANGED <<crashes, queued, approved, executed>>

Crash ==
    /\ crashes < MaxCrashes
    /\ crashes' = crashes + 1
    /\ thread' = [t \in Threads |-> Idle]
    /\ UNCHANGED <<rows, queued, approved, executed>>

-----------------------------------------------------------------------------
\* What a request does once it has read its row.
Step(t) ==
    \/ CommitApprove(t) \/ CommitReject(t) \/ CommitDelete(t) \/ CommitFails(t)
    \/ ReadApproved(t) \/ Place(t) \/ Record(t)

Next ==
    \/ Crash
    \/ \E o \in Orders : Queue(o)
    \/ \E t \in Threads : Request(t) \/ Step(t)

\* Nobody has to make a request; one that was made runs to its end.
Spec == Init /\ [][Next]_vars /\ \A t \in Threads : WF_vars(Step(t))

-----------------------------------------------------------------------------
(* Properties *)

\* Approvals that have not been acted on are in the threads that gave them.
Holding == {t \in Threads : thread[t].at \in {"execute", "place"}}

Gate == INSTANCE ApprovalGate WITH credits <- Cardinality(Holding)

\* However requests for the same row, or for rows that get the same id,
\* overlap: nothing goes to an order service without approval, and no approval
\* serves twice (approve_pending_order, execute_approved_order).
ApprovalGates == Gate!GateSpec

\* An approval is not forgotten: while the process lives, an order stored as
\* approved is executed, unless it is rejected or deleted meanwhile
\* (approve_pending_order_route).
ApprovedIsExecuted ==
    \A o \in Orders :
        (\E i \in Ids : rows[i] # NoRow /\ rows[i].order = o /\ rows[i].status = "approved")
          ~> \/ o \in executed \/ crashes > 0
             \/ \A i \in Ids : rows[i] # NoRow => rows[i].order # o \/ rows[i].status # "approved"
=================================================================================
