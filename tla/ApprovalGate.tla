------------------------------ MODULE ApprovalGate ------------------------------
(***************************************************************************)
(* What semi-automatic mode promises (docs/ACTION_CENTER.md: "manual        *)
(* approval workflow for orders before they are executed by the broker"):  *)
(* an order is executed only when it was approved, and every approval is   *)
(* good for one execution.  It does not promise that an order approved      *)
(* twice is executed once.                                                 *)
(***************************************************************************)
EXTENDS Integers

CONSTANT Orders

VARIABLES
    queued, approved, executed,   \* orders, now or before
    credits                       \* approvals not yet acted on

gateVars == <<queued, approved, executed, credits>>

GateInit ==
    /\ queued = {} /\ approved = {} /\ executed = {}
    /\ credits = 0

Enqueue(o) ==
    /\ o \notin queued
    /\ queued' = queued \cup {o}
    /\ UNCHANGED <<approved, executed, credits>>

Approve(o) ==
    /\ o \in queued
    /\ approved' = approved \cup {o}
    /\ credits' = credits + 1
    /\ UNCHANGED <<queued, executed>>

Execute(o) ==
    /\ o \in approved /\ credits > 0
    /\ executed' = executed \cup {o}
    /\ credits' = credits - 1
    /\ UNCHANGED <<queued, approved>>

\* Approvals that come to nothing: the order was rejected or removed meanwhile,
\* or the process died.
Lapse ==
    /\ credits' \in 0 .. credits - 1
    /\ UNCHANGED <<queued, approved, executed>>

GateNext == Lapse \/ \E o \in Orders : Enqueue(o) \/ Approve(o) \/ Execute(o)

GateSpec == GateInit /\ [][GateNext]_gateVars
=================================================================================
