--------------------------- MODULE ActionCenterProofs ---------------------------
(***************************************************************************)
(* ActionCenter implements ApprovalGate, for any number of orders and of   *)
(* concurrent requests and any size of the table.                          *)
(***************************************************************************)
EXTENDS ActionCenter, FiniteSetTheorems, TLAPS

\* A row that says approved, and a thread that took an order from such a row,
\* speak of an order that was approved, whoever now has the row's id.
GateInv ==
    /\ TypeOK
    /\ \A i \in Ids : rows[i] # NoRow =>
          /\ rows[i].order \in queued
          /\ rows[i].status = "approved" => rows[i].order \in approved
    /\ \A t \in Threads : thread[t].at = "place" => thread[t].order \in approved

-----------------------------------------------------------------------------
(* Types *)

LEMMA RowOrNone ==
    ASSUME TypeOK, NEW i \in Ids
    PROVE  /\ rows[i] # NoRow => rows[i] \in Row
           /\ rows[i] = NoRow <=> rows[i].status = "absent"
  BY DEF TypeOK, Row, NoRow

LEMMA ThreadAt ==
    ASSUME TypeOK, NEW t \in Threads
    PROVE  /\ thread[t].at \in {"approve", "reject", "delete", "execute", "place", "record"}
                => thread[t].id \in Ids
           /\ thread[t].at = "place" => thread[t].order \in Orders
           /\ thread[t].at = "record" => thread[t].answer \in {"live", "rejected"}
  BY DEF TypeOK, Thread, Idle

LEMMA StatusWritten ==
    ASSUME NEW r \in Row, NEW s \in {"pending", "approved", "rejected"}
    PROVE  LET new == [r EXCEPT !.status = s] IN
           /\ new \in Row /\ new.order = r.order /\ new.status = s
  BY DEF Row

LEMMA BrokerWritten ==
    ASSUME NEW r \in Row, NEW b \in {"none", "live", "rejected"}
    PROVE  LET new == [r EXCEPT !.broker = b] IN
           /\ new \in Row /\ new.order = r.order /\ new.status = r.status
  BY DEF Row

\* One row and one thread change: what the actions have in common.
LEMMA OneRow ==
    ASSUME GateInv, NEW i \in Ids, NEW r \in Row \cup {NoRow},
           rows' = [rows EXCEPT ![i] = r],
           queued \subseteq queued', queued' \subseteq Orders,
           approved \subseteq approved', approved' \subseteq Orders,
           r # NoRow => /\ r.order \in queued'
                        /\ r.status = "approved" => r.order \in approved'
    PROVE  /\ rows' \in [Ids -> Row \cup {NoRow}]
           /\ \A j \in Ids : rows'[j] # NoRow =>
                 /\ rows'[j].order \in queued'
                 /\ rows'[j].status = "approved" => rows'[j].order \in approved'
  BY DEF GateInv, TypeOK

LEMMA OneThread ==
    ASSUME GateInv, NEW t \in Threads, NEW step \in Thread \cup {Idle},
           Goto(t, step), approved \subseteq approved',
           step.at = "place" => step.order \in approved'
    PROVE  /\ thread' \in [Threads -> Thread \cup {Idle}]
           /\ \A u \in Threads : thread'[u].at = "place" => thread'[u].order \in approved'
           /\ Holding' = IF step.at \in {"execute", "place"}
                         THEN Holding \cup {t} ELSE Holding \ {t}
  <1>1. thread' = [thread EXCEPT ![t] = step]
    BY DEF Goto
  <1>2. \A u \in Threads : thread'[u] = IF u = t THEN step ELSE thread[u]
    BY <1>1 DEF GateInv, TypeOK
  <1>3. thread' \in [Threads -> Thread \cup {Idle}]
    BY <1>1 DEF GateInv, TypeOK
  <1>4. \A u \in Threads : thread'[u].at = "place" => thread'[u].order \in approved'
    BY <1>2 DEF GateInv
  <1>5. Holding' = IF step.at \in {"execute", "place"}
                   THEN Holding \cup {t} ELSE Holding \ {t}
    BY <1>2 DEF Holding
  <1> QED
    BY <1>3, <1>4, <1>5

LEMMA Steps ==
    /\ Idle \in Thread \cup {Idle} /\ Idle.at = "idle"
    /\ \A a \in {"approve", "reject", "delete", "execute"}, i \in Ids :
          LET step == [at |-> a, id |-> i] IN step \in Thread /\ step.at = a
    /\ \A i \in Ids, o \in Orders :
          LET step == [at |-> "place", id |-> i, order |-> o] IN
          step \in Thread /\ step.at = "place" /\ step.order = o
    /\ \A i \in Ids, a \in {"live", "rejected"} :
          LET step == [at |-> "record", id |-> i, answer |-> a] IN
          step \in Thread /\ step.at = "record"
  BY DEF Thread, Idle

LEMMA Credits ==
    /\ IsFiniteSet(Holding) /\ Cardinality(Holding) \in Nat
    /\ \A t \in Threads :
          /\ Cardinality(Holding \cup {t})
               = IF t \in Holding THEN Cardinality(Holding) ELSE Cardinality(Holding) + 1
          /\ Cardinality(Holding \ {t})
               = IF t \in Holding THEN Cardinality(Holding) - 1 ELSE Cardinality(Holding)
  <1>1. Holding \in SUBSET Threads
    BY DEF Holding
  <1>2. IsFiniteSet(Holding)
    BY <1>1, FS_Subset, ActionCenterAssumption
  <1> QED
    BY <1>2, FS_CardinalityType, FS_AddElement, FS_RemoveElement

-----------------------------------------------------------------------------
(* Every step is a step of the gate, or none *)

LEMMA GateStep ==
    ASSUME GateInv, [Next]_vars
    PROVE  GateInv' /\ [Gate!GateNext]_Gate!gateVars
  <1> DEFINE Credit == Cardinality(Holding)
  <1>0. Credit \in Nat
    BY Credits
  <1>1. CASE Crash
    <2>1. /\ thread' = [t \in Threads |-> Idle] /\ crashes' = crashes + 1
          /\ crashes < MaxCrashes
          /\ UNCHANGED <<rows, queued, approved, executed>>
      BY <1>1 DEF Crash
    <2>2. \A t \in Threads : thread'[t].at = "idle"
      BY <2>1, Steps
    <2>3. GateInv'
      BY <2>1, <2>2, Steps, ActionCenterAssumption DEF GateInv, TypeOK
    <2>4. Holding' = {}
      BY <2>2 DEF Holding
    <2>5. Cardinality(Holding)' = 0
      BY <2>4, FS_EmptySet
    <2>6. CASE Credit = 0
      BY <2>1, <2>3, <2>5, <2>6 DEF Gate!gateVars
    <2>7. CASE Credit > 0
      <3>1. Gate!Lapse
        BY <1>0, <2>1, <2>5, <2>7 DEF Gate!Lapse
      <3> QED
        BY <2>3, <3>1 DEF Gate!GateNext
    <2> QED
      BY <1>0, <2>3, <2>6, <2>7
  <1>2. ASSUME NEW o \in Orders, Queue(o)
        PROVE  GateInv' /\ [Gate!GateNext]_Gate!gateVars
    <2>1. PICK i \in Ids : rows' = [rows EXCEPT ![i] =
                 [order |-> o, status |-> "pending", broker |-> "none"]]
      BY <1>2 DEF Queue
    <2> DEFINE r == [order |-> o, status |-> "pending", broker |-> "none"]
    <2>2. r \in Row /\ r.order = o /\ r.status = "pending"
      BY DEF Row
    <2>3. /\ o \notin queued /\ queued' = queued \cup {o}
          /\ UNCHANGED <<thread, crashes, approved, executed>>
          /\ rows' = [rows EXCEPT ![i] = r]
      BY <1>2, <2>1 DEF Queue
    <2> HIDE DEF r
    <2>4. /\ rows' \in [Ids -> Row \cup {NoRow}]
          /\ \A j \in Ids : rows'[j] # NoRow =>
                 /\ rows'[j].order \in queued'
                 /\ rows'[j].status = "approved" => rows'[j].order \in approved'
      BY <2>2, <2>3, OneRow DEF GateInv, TypeOK
    <2>5. GateInv'
      BY <2>3, <2>4 DEF GateInv, TypeOK
    <2>6. Cardinality(Holding)' = Cardinality(Holding)
      BY <2>3 DEF Holding
    <2>7. Gate!Enqueue(o)
      BY <2>3, <2>6 DEF Gate!Enqueue
    <2> QED
      BY <2>5, <2>7 DEF Gate!GateNext
  <1>3. ASSUME NEW t \in Threads, Request(t)
        PROVE  GateInv' /\ [Gate!GateNext]_Gate!gateVars
    <2>1. PICK a \in {"approve", "reject", "delete"}, i \in Ids :
             Goto(t, [at |-> a, id |-> i])
      BY <1>3 DEF Request
    <2>2. UNCHANGED <<rows, crashes, queued, approved, executed>> /\ thread[t] = Idle
      BY <1>3 DEF Request
    <2> DEFINE step == [at |-> a, id |-> i]
    <2>3. step \in Thread /\ step.at = a /\ Goto(t, step)
      BY <2>1, Steps
    <2> HIDE DEF step
    <2>4. /\ thread' \in [Threads -> Thread \cup {Idle}]
          /\ \A u \in Threads : thread'[u].at = "place" => thread'[u].order \in approved'
          /\ Holding' = Holding \ {t}
      BY <2>2, <2>3, OneThread
    <2>5. t \notin Holding
      BY <2>2, Steps DEF Holding
    <2>6. Cardinality(Holding)' = Cardinality(Holding)
      BY <2>4, <2>5, Credits
    <2>7. GateInv'
      BY <2>2, <2>4 DEF GateInv, TypeOK
    <2> QED
      BY <2>2, <2>6, <2>7 DEF Gate!gateVars
  <1>4. ASSUME NEW t \in Threads, CommitApprove(t)
        PROVE  GateInv' /\ [Gate!GateNext]_Gate!gateVars
    <2> DEFINE i == thread[t].id
               r == [rows[i] EXCEPT !.status = "approved"]
               step == [at |-> "execute", id |-> i]
               o == rows[i].order
    <2>1. i \in Ids
      BY <1>4, ThreadAt DEF CommitApprove, GateInv
    <2>2. rows[i] \in Row /\ rows[i] # NoRow
      BY <1>4, <2>1, RowOrNone DEF CommitApprove, GateInv
    <2>3. r \in Row /\ r.order = o
      BY <2>2, StatusWritten
    <2>4. o \in queued /\ o \in Orders
      BY <2>1, <2>2 DEF GateInv, Row
    <2>5. step \in Thread /\ step.at = "execute"
      BY <2>1, Steps
    <2>6. /\ rows' = [rows EXCEPT ![i] = r]
          /\ approved' = approved \cup {o}
          /\ Goto(t, step)
          /\ UNCHANGED <<crashes, queued, executed>>
          /\ thread[t].at = "approve"
      BY <1>4 DEF CommitApprove
    <2> HIDE DEF r, step, o, i
    <2>7. /\ rows' \in [Ids -> Row \cup {NoRow}]
          /\ \A j \in Ids : rows'[j] # NoRow =>
                 /\ rows'[j].order \in queued'
                 /\ rows'[j].status = "approved" => rows'[j].order \in approved'
      <3>1. /\ queued \subseteq queued' /\ queued' \subseteq Orders
            /\ approved \subseteq approved' /\ approved' \subseteq Orders
        BY <2>4, <2>6 DEF GateInv, TypeOK
      <3>2. r.order \in queued' /\ r.order \in approved'
        BY <2>3, <2>4, <2>6
      <3> QED
        BY <2>1, <2>3, <2>6, <3>1, <3>2, OneRow
    <2>8. /\ thread' \in [Threads -> Thread \cup {Idle}]
          /\ \A u \in Threads : thread'[u].at = "place" => thread'[u].order \in approved'
          /\ Holding' = Holding \cup {t}
      BY <2>5, <2>6, OneThread
    <2>9. GateInv'
      BY <2>4, <2>6, <2>7, <2>8 DEF GateInv, TypeOK
    <2>10. t \notin Holding
      BY <2>6 DEF Holding
    <2>11. Cardinality(Holding)' = Cardinality(Holding) + 1
      BY <2>8, <2>10, Credits
    <2>12. Gate!Approve(o)
      BY <2>4, <2>6, <2>11 DEF Gate!Approve
    <2> QED
      BY <2>4, <2>9, <2>12 DEF Gate!GateNext
  <1>5. ASSUME NEW t \in Threads, NEW i \in Ids, NEW r \in Row \cup {NoRow},
               rows' = [rows EXCEPT ![i] = r],
               r # NoRow => /\ r.order \in queued
                            /\ r.status = "approved" => r.order \in approved,
               thread[t].at \in {"reject", "delete", "record", "approve"},
               Goto(t, Idle),
               UNCHANGED <<crashes, queued, approved, executed>>
        PROVE  GateInv' /\ [Gate!GateNext]_Gate!gateVars
    <2>1. /\ rows' \in [Ids -> Row \cup {NoRow}]
          /\ \A j \in Ids : rows'[j] # NoRow =>
                 /\ rows'[j].order \in queued'
                 /\ rows'[j].status = "approved" => rows'[j].order \in approved'
      BY <1>5, OneRow DEF GateInv, TypeOK
    <2>2. /\ thread' \in [Threads -> Thread \cup {Idle}]
          /\ \A u \in Threads : thread'[u].at = "place" => thread'[u].order \in approved'
          /\ Holding' = Holding \ {t}
      BY <1>5, Steps, OneThread
    <2>3. GateInv'
      BY <1>5, <2>1, <2>2 DEF GateInv, TypeOK
    <2>4. t \notin Holding
      BY <1>5 DEF Holding
    <2>5. Cardinality(Holding)' = Cardinality(Holding)
      BY <2>2, <2>4, Credits
    <2> QED
      BY <1>5, <2>3, <2>5 DEF Gate!gateVars
  <1>6. ASSUME NEW t \in Threads, CommitReject(t)
        PROVE  GateInv' /\ [Gate!GateNext]_Gate!gateVars
    <2> DEFINE i == thread[t].id
               r == [rows[i] EXCEPT !.status = "rejected"]
    <2>1. i \in Ids
      BY <1>6, ThreadAt DEF CommitReject, GateInv
    <2>2. rows[i] \in Row /\ rows[i].order \in queued
      BY <1>6, <2>1, RowOrNone DEF CommitReject, GateInv
    <2>3. r \in Row /\ r.order \in queued /\ r.status = "rejected"
      BY <2>2, StatusWritten
    <2>4. /\ rows' = [rows EXCEPT ![i] = r] /\ Goto(t, Idle)
          /\ UNCHANGED <<crashes, queued, approved, executed>>
          /\ thread[t].at = "reject"
      BY <1>6 DEF CommitReject
    <2> HIDE DEF r, i
    <2> QED
      BY <2>1, <2>3, <2>4, <1>5
  <1>7. ASSUME NEW t \in Threads, CommitDelete(t)
        PROVE  GateInv' /\ [Gate!GateNext]_Gate!gateVars
    <2>1. thread[t].id \in Ids
      BY <1>7, ThreadAt DEF CommitDelete, GateInv
    <2> QED
      BY <1>7, <2>1, <1>5 DEF CommitDelete
  <1>8. ASSUME NEW t \in Threads, Record(t)
        PROVE  GateInv' /\ [Gate!GateNext]_Gate!gateVars
    <2> DEFINE i == thread[t].id
               r == [rows[i] EXCEPT !.broker = thread[t].answer]
    <2>1. i \in Ids /\ thread[t].answer \in {"none", "live", "rejected"}
      BY <1>8, ThreadAt DEF Record, GateInv
    <2>2. /\ rows[i] \in Row /\ rows[i].order \in queued
          /\ rows[i].status = "approved" => rows[i].order \in approved
      BY <1>8, <2>1, RowOrNone DEF Record, GateInv
    <2>3. /\ r \in Row /\ r.order \in queued
          /\ r.status = "approved" => r.order \in approved
      BY <2>1, <2>2, BrokerWritten
    <2>4. /\ rows' = [rows EXCEPT ![i] = r] /\ Goto(t, Idle)
          /\ UNCHANGED <<crashes, queued, approved, executed>>
          /\ thread[t].at = "record"
      BY <1>8 DEF Record
    <2> HIDE DEF r, i
    <2> QED
      BY <2>1, <2>3, <2>4, <1>5
  <1>9. ASSUME NEW t \in Threads, CommitFails(t)
        PROVE  GateInv' /\ [Gate!GateNext]_Gate!gateVars
    <2>1. /\ UNCHANGED <<rows, crashes, queued, approved, executed>> /\ Goto(t, Idle)
          /\ t \notin Holding
      BY <1>9 DEF CommitFails, Holding
    <2>2. /\ thread' \in [Threads -> Thread \cup {Idle}]
          /\ \A u \in Threads : thread'[u].at = "place" => thread'[u].order \in approved'
          /\ Holding' = Holding \ {t}
      BY <2>1, Steps, OneThread
    <2>3. Cardinality(Holding)' = Cardinality(Holding)
      BY <2>1, <2>2, Credits
    <2>4. GateInv'
      BY <2>1, <2>2 DEF GateInv, TypeOK
    <2> QED
      BY <2>1, <2>3, <2>4 DEF Gate!gateVars
  <1>10. ASSUME NEW t \in Threads, ReadApproved(t)
         PROVE  GateInv' /\ [Gate!GateNext]_Gate!gateVars
    <2> DEFINE i == thread[t].id
               o == rows[i].order
               step == [at |-> "place", id |-> i, order |-> o]
    <2>1. /\ UNCHANGED <<rows, crashes, queued, approved, executed>>
          /\ i \in Ids /\ t \in Holding
      BY <1>10, ThreadAt DEF ReadApproved, GateInv, Holding
    <2>2. CASE rows[i].status = "approved"
      <3>1. o \in approved /\ o \in Orders
        BY <2>1, <2>2, RowOrNone DEF GateInv, TypeOK, NoRow
      <3>2. step \in Thread /\ step.at = "place" /\ step.order = o /\ Goto(t, step)
        BY <1>10, <2>1, <2>2, <3>1, Steps DEF ReadApproved
      <3> HIDE DEF step, o, i
      <3>3. /\ thread' \in [Threads -> Thread \cup {Idle}]
            /\ \A u \in Threads : thread'[u].at = "place" => thread'[u].order \in approved'
            /\ Holding' = Holding \cup {t}
        BY <2>1, <3>1, <3>2, OneThread
      <3>4. Cardinality(Holding)' = Cardinality(Holding)
        BY <2>1, <3>3, Credits
      <3>5. GateInv'
        BY <2>1, <3>3 DEF GateInv, TypeOK
      <3> QED
        BY <2>1, <3>4, <3>5 DEF Gate!gateVars
    <2>3. CASE rows[i].status # "approved"
      <3>1. Goto(t, Idle)
        BY <1>10, <2>3 DEF ReadApproved
      <3>2. /\ thread' \in [Threads -> Thread \cup {Idle}]
            /\ \A u \in Threads : thread'[u].at = "place" => thread'[u].order \in approved'
            /\ Holding' = Holding \ {t}
        BY <2>1, <3>1, Steps, OneThread
      <3>3. Cardinality(Holding)' = Cardinality(Holding) - 1 /\ Cardinality(Holding) > 0
        BY <2>1, <3>2, Credits, FS_EmptySet
      <3>4. GateInv'
        BY <2>1, <3>2 DEF GateInv, TypeOK
      <3>5. Gate!Lapse
        BY <1>0, <2>1, <3>3 DEF Gate!Lapse
      <3> QED
        BY <3>4, <3>5 DEF Gate!GateNext
    <2> QED
      BY <2>2, <2>3
  <1>11. ASSUME NEW t \in Threads, Place(t)
         PROVE  GateInv' /\ [Gate!GateNext]_Gate!gateVars
    <2> DEFINE o == thread[t].order
    <2>1. /\ UNCHANGED <<rows, crashes, queued, approved>>
          /\ executed' = executed \cup {o}
          /\ o \in approved /\ o \in Orders /\ thread[t].id \in Ids /\ t \in Holding
      BY <1>11, ThreadAt DEF Place, GateInv, Holding
    <2>2. PICK step \in Thread \cup {Idle} :
             Goto(t, step) /\ step.at \in {"idle", "record"}
      <3>1. PICK answer \in {"live", "rejected", "none"} :
              IF answer = "none"
              THEN Goto(t, Idle)
              ELSE Goto(t, [at |-> "record", id |-> thread[t].id, answer |-> answer])
        BY <1>11 DEF Place, Answers
      <3>2. CASE answer = "none"
        BY <3>1, <3>2, Steps
      <3>3. CASE answer # "none"
        <4>1. answer \in {"live", "rejected"}
          BY <3>3
        <4> QED
          BY <2>1, <3>1, <3>3, <4>1, Steps
      <3> QED
        BY <3>2, <3>3
    <2>3. /\ thread' \in [Threads -> Thread \cup {Idle}]
          /\ \A u \in Threads : thread'[u].at = "place" => thread'[u].order \in approved'
          /\ Holding' = Holding \ {t}
      BY <2>1, <2>2, OneThread
    <2>4. Cardinality(Holding)' = Cardinality(Holding) - 1 /\ Cardinality(Holding) > 0
      BY <2>1, <2>3, Credits, FS_EmptySet
    <2>5. GateInv'
      BY <2>1, <2>3 DEF GateInv, TypeOK
    <2>6. Gate!Execute(o)
      BY <2>1, <2>4 DEF Gate!Execute
    <2> QED
      BY <2>1, <2>5, <2>6 DEF Gate!GateNext
  <1>12. CASE UNCHANGED vars
    BY <1>12 DEF vars, GateInv, TypeOK, Holding, Gate!gateVars
  <1> QED
    BY <1>1, <1>2, <1>3, <1>4, <1>6, <1>7, <1>8, <1>9, <1>10, <1>11, <1>12 DEF Next, Step

LEMMA GateStart == Init => GateInv /\ Gate!GateInit
  <1> SUFFICES ASSUME Init PROVE GateInv /\ Gate!GateInit
    OBVIOUS
  <1>1. \A t \in Threads : thread[t].at = "idle"
    BY Steps DEF Init
  <1>2. GateInv
    BY <1>1, ActionCenterAssumption DEF Init, GateInv, TypeOK
  <1>3. Holding = {}
    BY <1>1 DEF Holding
  <1>4. Cardinality(Holding) = 0
    BY <1>3, FS_EmptySet
  <1> QED
    BY <1>2, <1>4 DEF Init, Gate!GateInit

\* The table and the threads keep their shape, and what they call approved was.
THEOREM ActionCenterTypeCorrect == Spec => []TypeOK
  <1>1. GateInv => TypeOK
    BY DEF GateInv
  <1>2. GateInv /\ [Next]_vars => GateInv'
    BY GateStep
  <1> QED
    BY <1>1, <1>2, GateStart, PTL DEF Spec

\* Orders go to the broker by approval only, one approval for each attempt.
THEOREM ActionCenterGates == Spec => ApprovalGates
  <1>1. GateInv /\ [Next]_vars => GateInv'
    BY GateStep
  <1>2. GateInv /\ [Next]_vars => [Gate!GateNext]_Gate!gateVars
    BY GateStep
  <1> QED
    BY <1>1, <1>2, GateStart, PTL DEF Spec, ApprovalGates, Gate!GateSpec
=================================================================================
