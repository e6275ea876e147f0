--------------------------- MODULE StrategyHostProofs ----------------------------
(***************************************************************************)
(* Types, the use of PROCESS_LOCK, whose processes are tracked and what is *)
(* listed as running, for any number of strategies, threads and pids.      *)
(***************************************************************************)
EXTENDS StrategyHost, TLAPS

\* All but the history, which only Note changes.
HostOK ==
    /\ procs   \in [Pids -> Process]
    /\ running \in [Strategies -> Entry]
    /\ config  \in [Strategies -> Config] /\ file \in [Strategies -> Config]
    /\ jobs \subseteq Strategies
    /\ initialized \in BOOLEAN /\ restored \in BOOLEAN
    /\ broker \in BOOLEAN /\ ready \in BOOLEAN /\ downloads \in 0 .. MaxLogins
    /\ crashes \in 0 .. MaxCrashes /\ logins \in 0 .. MaxLogins /\ requests \in 0 .. MaxRequests
    /\ downloads <= logins      \* every download was started by a login

Holds(t) == thread[t].at \in {"save", "wedged"}

ThreadsOK ==
    /\ thread \in [Threads -> Thread]
    /\ holder \in Threads \cup {None}
    /\ \A t \in Threads : holder = t <=> Holds(t)

Inv == HostOK /\ ThreadsOK /\ AdoptedIsOwn

-----------------------------------------------------------------------------
(* Threads and PROCESS_LOCK *)

LEMMA IdleType == Idle \in Thread /\ Idle.at = "idle"
  BY DEF Idle, Thread

\* A thread that neither had nor gets the lock.
LEMMA Unlocked ==
    ASSUME ThreadsOK, NEW t \in Threads, NEW r \in Thread,
           thread' = [thread EXCEPT ![t] = r], holder' = holder,
           ~Holds(t), r.at \notin {"save", "wedged"}
    PROVE  ThreadsOK'
  <1>1. \A u \in Threads : thread'[u] = IF u = t THEN r ELSE thread[u]
    BY DEF ThreadsOK
  <1>2. thread' \in [Threads -> Thread]
    BY DEF ThreadsOK
  <1>3. \A u \in Threads : Holds(u)' <=> Holds(u)
    BY <1>1 DEF Holds
  <1> QED
    BY <1>2, <1>3 DEF ThreadsOK

LEMMA Acquired ==
    ASSUME ThreadsOK, NEW t \in Threads, NEW r \in Thread,
           thread' = [thread EXCEPT ![t] = r],
           holder = None, holder' = t, r.at \in {"save", "wedged"}
    PROVE  ThreadsOK'
  <1>1. \A u \in Threads : thread'[u] = IF u = t THEN r ELSE thread[u]
    BY DEF ThreadsOK
  <1>2. thread' \in [Threads -> Thread]
    BY DEF ThreadsOK
  <1>3. \A u \in Threads : ~Holds(u)
    BY HostAssumption DEF ThreadsOK
  <1>4. \A u \in Threads : Holds(u)' <=> u = t
    BY <1>1, <1>3 DEF Holds
  <1> QED
    BY <1>2, <1>4 DEF ThreadsOK

LEMMA Released ==
    ASSUME ThreadsOK, NEW t \in Threads, NEW r \in Thread,
           thread' = [thread EXCEPT ![t] = r],
           Holds(t), holder' = None, r.at \notin {"save", "wedged"}
    PROVE  ThreadsOK'
  <1>1. \A u \in Threads : thread'[u] = IF u = t THEN r ELSE thread[u]
    BY DEF ThreadsOK
  <1>2. thread' \in [Threads -> Thread]
    BY DEF ThreadsOK
  <1>3. \A u \in Threads : Holds(u)' => FALSE
    BY <1>1 DEF Holds, ThreadsOK
  <1> QED
    BY <1>2, <1>3, HostAssumption DEF ThreadsOK

\* Where a call goes on after start_strategy_process.
Back(t) == IF thread[t].back = "idle" THEN Idle ELSE [thread[t] EXCEPT !.at = thread[t].back]

LEMMA BackType ==
    ASSUME ThreadsOK, NEW t \in Threads
    PROVE  Back(t) \in Thread /\ Back(t).at \notin {"save", "wedged"}
  <1>1. thread[t] \in Thread
    BY DEF ThreadsOK
  <1>2. CASE thread[t].back = "idle"
    BY <1>2, IdleType DEF Back
  <1>3. CASE thread[t].back # "idle"
    <2>1. thread[t].back \in {"restore", "pending"}
      BY <1>1, <1>3 DEF Thread
    <2> QED
      BY <1>1, <1>3, <2>1 DEF Back, Thread
  <1> QED
    BY <1>2, <1>3

LEMMA Returned ==
    ASSUME ThreadsOK, NEW t \in Threads, Return(t)
    PROVE  thread' = [thread EXCEPT ![t] = Back(t)]
  BY DEF ThreadsOK, Return, Back

\* What Goto makes of a thread.
LEMMA At ==
    ASSUME ThreadsOK, NEW t \in Threads,
           NEW a \in {"begin", "restore", "restored", "save", "check", "pending", "clean",
                      "refresh", "wedged"}
    PROVE  LET r == [thread[t] EXCEPT !.at = a]
           IN  r \in Thread /\ r.at = a
  <1>1. thread[t] \in Thread
    BY DEF ThreadsOK
  <1> QED
    BY <1>1 DEF Thread

LEMMA Gone ==
    ASSUME ThreadsOK, NEW t \in Threads, NEW a, Goto(t, a)
    PROVE  thread' = [thread EXCEPT ![t] = [thread[t] EXCEPT !.at = a]]
  BY DEF ThreadsOK, Goto

-----------------------------------------------------------------------------
(* Processes and entries *)

LEMMA FreedType ==
    ASSUME HostOK, NEW ps
    PROVE  /\ Freed(ps) \in [Pids -> Process]
           /\ \A p \in Pids : p \notin ps => Freed(ps)[p] = procs[p]
  BY DEF HostOK, Freed, Free, Process

LEMMA WithoutType ==
    ASSUME HostOK, NEW ps
    PROVE  /\ Without(running, ps) \in [Strategies -> Entry]
           /\ \A s \in Strategies :
                 Without(running, ps)[s].pid # None =>
                     /\ Without(running, ps)[s].pid = running[s].pid
                     /\ running[s].pid \notin ps
  <1>1. \A s \in Strategies :
           LET e == IF running[s].pid \in ps THEN [running[s] EXCEPT !.pid = None]
                                             ELSE running[s]
           IN  /\ e \in Entry
               /\ e.pid # None => e.pid = running[s].pid /\ running[s].pid \notin ps
    BY DEF HostOK, Entry
  <1> QED
    BY <1>1 DEF Without

\* Processes end, entries follow, and what is tracked anew is what it says.
LEMMA Tracking ==
    ASSUME Inv, NEW ps,
           \A p \in Pids : p \notin ps => procs'[p].of = procs[p].of,
           \A s \in Strategies : running'[s].pid # None =>
              \/ running'[s].pid = running[s].pid /\ running[s].pid \notin ps
              \/ procs'[running'[s].pid].of = s
    PROVE  AdoptedIsOwn'
  <1> SUFFICES ASSUME NEW s \in Strategies, running'[s].pid # None
               PROVE  procs'[running'[s].pid].of = s
    BY DEF AdoptedIsOwn
  <1>1. CASE running'[s].pid = running[s].pid /\ running[s].pid \notin ps
    <2>1. running[s].pid \in Pids
      BY <1>1 DEF Inv, HostOK, Entry
    <2>2. procs[running[s].pid].of = s
      BY <1>1 DEF Inv, AdoptedIsOwn
    <2> QED
      BY <1>1, <2>1, <2>2
  <1>2. CASE procs'[running'[s].pid].of = s
    BY <1>2
  <1>3. \/ running'[s].pid = running[s].pid /\ running[s].pid \notin ps
        \/ procs'[running'[s].pid].of = s
    OBVIOUS
  <1> QED
    BY <1>1, <1>2, <1>3

\* Processes end, and their entries know it.
LEMMA Vanish ==
    ASSUME Inv, NEW ps, procs' = Freed(ps), running' = Without(running, ps)
    PROVE  AdoptedIsOwn'
  <1>1. \A p \in Pids : p \notin ps => procs'[p].of = procs[p].of
    BY FreedType DEF Inv
  <1>2. \A s \in Strategies : running'[s].pid # None =>
           running'[s].pid = running[s].pid /\ running[s].pid \notin ps
    BY WithoutType DEF Inv
  <1> QED
    BY <1>1, <1>2, Tracking

LEMMA SameOwners ==
    ASSUME Inv, \A p \in Pids : procs'[p].of = procs[p].of, running' = running
    PROVE  AdoptedIsOwn'
  BY DEF Inv, HostOK, Entry, AdoptedIsOwn

LEMMA SamePids ==
    ASSUME Inv, procs' = procs, running' = running
    PROVE  AdoptedIsOwn'
  BY DEF Inv, AdoptedIsOwn

\* A configuration of which one strategy's part changes.
LEMMA OneRow ==
    ASSUME NEW c \in Config, NEW b \in BOOLEAN, NEW p \in Pids \cup {None},
           NEW e \in {"none", "waiting", "other"}
    PROVE  /\ [c EXCEPT !.error = e] \in Config
           /\ [c EXCEPT !.scheduled = b] \in Config
           /\ [c EXCEPT !.running = b, !.pid = p] \in Config
           /\ [c EXCEPT !.running = b, !.pid = p, !.error = e] \in Config
  BY DEF Config

LEMMA OneConfig ==
    ASSUME HostOK, NEW s \in Strategies, NEW b \in BOOLEAN, NEW p \in Pids \cup {None},
           NEW e \in {"none", "waiting", "other"}
    PROVE  /\ [config EXCEPT ![s].error = e] \in [Strategies -> Config]
           /\ [config EXCEPT ![s].scheduled = b] \in [Strategies -> Config]
           /\ [config EXCEPT ![s].running = b, ![s].pid = p] \in [Strategies -> Config]
           /\ [config EXCEPT ![s].running = b, ![s].pid = p, ![s].error = e]
                 \in [Strategies -> Config]
  <1>1. config \in [Strategies -> Config]
    BY DEF HostOK
  <1> QED
    BY <1>1, OneRow

LEMMA StoppedType ==
    ASSUME HostOK, NEW s \in Strategies
    PROVE  Stopped(s) \in [Strategies -> Config]
  BY OneConfig DEF Stopped

LEMMA FailedType ==
    ASSUME HostOK, NEW s \in Strategies
    PROVE  Failed(s) \in [Strategies -> Config]
  <1> DEFINE e == IF IsRunning(s) \/ ContractsReady THEN "other" ELSE "waiting"
  <1>1. e \in {"none", "waiting", "other"}
    OBVIOUS
  <1>2. config \in [Strategies -> Config]
    BY DEF HostOK
  <1>3. [config EXCEPT ![s].running = FALSE, ![s].pid = None, ![s].error = e]
          \in [Strategies -> Config]
    <2> HIDE DEF e
    <2> QED
      BY <1>1, OneConfig
  <1> QED
    BY <1>2, <1>3 DEF Failed

LEMMA ThreadsSame ==
    ASSUME ThreadsOK, thread' = thread, holder' = holder
    PROVE  ThreadsOK'
  BY DEF ThreadsOK, Holds

-----------------------------------------------------------------------------
(* Every action keeps the invariant *)

LEMMA ExitKeeps ==
    ASSUME Inv, NEW p \in Pids, Exit(p)
    PROVE  Inv'
  <1> USE DEF Inv
  <1>1. ThreadsOK'
    BY ThreadsSame DEF Exit
  <1>2. CASE procs[p].child
    <2>1. procs' = [procs EXCEPT ![p].alive = FALSE] /\ running' = running
      BY <1>2 DEF Exit
    <2>2. procs' \in [Pids -> Process] /\ \A q \in Pids : procs'[q].of = procs[q].of
      BY <2>1 DEF HostOK, Process
    <2>3. HostOK'
      BY <2>1, <2>2 DEF HostOK, Exit
    <2>4. AdoptedIsOwn'
      BY <2>1, <2>2, SameOwners
    <2> QED
      BY <1>1, <2>3, <2>4
  <1>3. CASE ~procs[p].child
    <2> DEFINE gone == {p}
    <2>1. procs' = Freed(gone) /\ running' = Without(running, gone)
      BY <1>3 DEF Exit
    <2> HIDE DEF gone
    <2>2. procs' \in [Pids -> Process] /\ running' \in [Strategies -> Entry]
      BY <2>1, FreedType, WithoutType
    <2>4. HostOK'
      BY <2>2 DEF HostOK, Exit
    <2>3. AdoptedIsOwn'
      BY <2>1, Vanish
    <2> QED
      BY <1>1, <2>3, <2>4
  <1> QED
    BY <1>2, <1>3

LEMMA ReuseKeeps ==
    ASSUME Inv, NEW p \in Pids, Reuse(p)
    PROVE  Inv'
  <1> USE DEF Inv
  <1>1. ThreadsOK'
    BY ThreadsSame DEF Reuse
  <1>2. [of |-> Other, alive |-> TRUE, child |-> FALSE] \in Process
    BY DEF Process
  <1>3. HostOK'
    BY <1>2 DEF HostOK, Reuse
  <1>4. \A q \in Pids : q # p => procs'[q].of = procs[q].of
    BY DEF HostOK, Reuse
  <1>5. \A s \in Strategies : running[s].pid # p
    BY HostAssumption DEF AdoptedIsOwn, Reuse, Free
  <1> DEFINE gone == {p}
  <1>6. /\ \A q \in Pids : q \notin gone => procs'[q].of = procs[q].of
        /\ \A s \in Strategies : running'[s].pid # None =>
              running'[s].pid = running[s].pid /\ running[s].pid \notin gone
    BY <1>4, <1>5 DEF Reuse
  <1> HIDE DEF gone
  <1>7. AdoptedIsOwn'
    BY <1>6, Tracking
  <1> QED
    BY <1>1, <1>3, <1>7

LEMMA LaunchRefusedKeeps ==
    ASSUME Inv, NEW t \in Threads, LaunchRefused(t)
    PROVE  Inv'
  <1> USE DEF Inv
  <1>1. thread[t] \in Thread /\ thread[t].s \in Strategies
    BY DEF ThreadsOK, LaunchRefused, Thread
  <1>2. config' \in [Strategies -> Config]
    BY <1>1, FailedType DEF LaunchRefused, HostOK
  <1>3. HostOK'
    BY <1>2 DEF HostOK, LaunchRefused
  <1>4. ThreadsOK'
    BY Returned, BackType, Unlocked DEF LaunchRefused, Holds
  <1>5. AdoptedIsOwn'
    BY SamePids DEF LaunchRefused
  <1> QED
    BY <1>3, <1>4, <1>5

LEMMA LaunchKeeps ==
    ASSUME Inv, NEW t \in Threads, Launch(t)
    PROVE  Inv'
  <1> USE DEF Inv
  <1> DEFINE s == thread[t].s
  <1>1. s \in Strategies
    BY DEF ThreadsOK, Launch, Thread
  <1> PICK p \in Pids :
         /\ Freed(Reaped)[p] = Free
         /\ procs' = [Freed(Reaped) EXCEPT ![p] = [of |-> s, alive |-> TRUE, child |-> TRUE]]
         /\ running' = [Without(running, Reaped) EXCEPT ![s] = [kind |-> "popen", pid |-> p]]
         /\ config' = [config EXCEPT ![s].running = TRUE, ![s].pid = p, ![s].error = "none"]
    BY DEF Launch
  <1>2. /\ holder = None /\ holder' = t /\ Goto(t, "save")
        /\ UNCHANGED <<file, jobs, initialized, broker, ready, downloads, restored,
                       crashes, logins, requests>>
    BY DEF Launch
  <1> HIDE DEF s
  <1>3. ThreadsOK'
    BY <1>2, At, Gone, Acquired
  <1>4. /\ [of |-> s, alive |-> TRUE, child |-> TRUE] \in Process
        /\ [kind |-> "popen", pid |-> p] \in Entry
    BY <1>1 DEF Process, Entry
  <1>5. procs' \in [Pids -> Process]
    BY <1>4, FreedType
  <1>6. running' \in [Strategies -> Entry]
    BY <1>4, WithoutType
  <1>7. config' \in [Strategies -> Config]
    BY <1>1, OneConfig
  <1>8. HostOK'
    BY <1>2, <1>5, <1>6, <1>7 DEF HostOK
  <1>9. \A q \in Pids : q \notin Reaped \cup {p} => procs'[q].of = procs[q].of
    BY FreedType
  <1>10. \A r \in Strategies : running'[r].pid # None =>
            \/ running'[r].pid = running[r].pid /\ running[r].pid \notin Reaped \cup {p}
            \/ procs'[running'[r].pid].of = r
    <2> SUFFICES ASSUME NEW r \in Strategies, running'[r].pid # None
                 PROVE  \/ running'[r].pid = running[r].pid /\ running[r].pid \notin Reaped \cup {p}
                        \/ procs'[running'[r].pid].of = r
      OBVIOUS
    <2>1. CASE r = s
      <3>1. running'[r].pid = p
        BY <2>1, <1>1, WithoutType
      <3>2. procs'[p].of = s
        BY FreedType
      <3> QED
        BY <2>1, <3>1, <3>2
    <2>2. CASE r # s
      <3>1. running'[r] = Without(running, Reaped)[r]
        BY <2>2, WithoutType
      <3>2. running'[r].pid = running[r].pid /\ running[r].pid \notin Reaped
        BY <3>1, WithoutType
      <3>3. running[r].pid # p
        <4> SUFFICES ASSUME running[r].pid = p PROVE FALSE
          OBVIOUS
        <4>1. procs[p].of = r
          BY HostAssumption DEF AdoptedIsOwn
        <4>2. Freed(Reaped)[p] = procs[p]
          BY <3>2, FreedType
        <4> QED
          BY <4>1, <4>2, HostAssumption DEF Free
      <3> QED
        BY <3>2, <3>3
    <2> QED
      BY <2>1, <2>2
  <1>11. AdoptedIsOwn'
    BY <1>9, <1>10, Tracking
  <1> QED
    BY <1>3, <1>8, <1>11

LEMMA SaveKeeps ==
    ASSUME Inv, NEW t \in Threads, Save(t)
    PROVE  Inv'
  <1> USE DEF Inv
  <1>1. HostOK'
    BY DEF HostOK, Save
  <1>2. ThreadsOK'
    BY Returned, BackType, Released DEF Save, Holds
  <1>3. AdoptedIsOwn'
    BY SamePids DEF Save
  <1> QED
    BY <1>1, <1>2, <1>3

LEMMA StopKeeps ==
    ASSUME Inv, NEW t \in Threads, NEW s \in Strategies, Stop(t, s)
    PROVE  Inv'
  <1> USE DEF Inv
  <1>1. ThreadsOK'
    BY ThreadsSame DEF Stop
  <1>2. CASE StopTracked(s)
    <2> DEFINE gone == {running[s].pid} \ {None}
    <2>1. /\ procs' = Freed(gone)
          /\ running' = [Without(running, gone) EXCEPT ![s] = NotRunning]
          /\ config' = Stopped(s) /\ file' = config'
      BY <1>2 DEF StopTracked
    <2> HIDE DEF gone
    <2>2. NotRunning \in Entry /\ NotRunning.pid = None
      BY DEF NotRunning, Entry
    <2>3. HostOK'
      BY <2>1, <2>2, FreedType, WithoutType, StoppedType DEF HostOK, Stop
    <2>4. \A r \in Strategies : running'[r].pid # None =>
             running'[r].pid = running[r].pid /\ running[r].pid \notin gone
      BY <2>1, <2>2, WithoutType
    <2>5. AdoptedIsOwn'
      BY <2>1, <2>4, FreedType, Tracking
    <2> QED
      BY <1>1, <2>3, <2>5
  <1>3. CASE StopByPid(s)
    <2> DEFINE gone == {config[s].pid}
    <2>1. /\ procs' = Freed(gone)
          /\ running' = Without(running, gone)
          /\ config' = Stopped(s) /\ file' = config'
      BY <1>3 DEF StopByPid
    <2> HIDE DEF gone
    <2>2. HostOK'
      BY <2>1, FreedType, WithoutType, StoppedType DEF HostOK, Stop
    <2>3. AdoptedIsOwn'
      BY <2>1, Vanish
    <2> QED
      BY <1>1, <2>2, <2>3
  <1> QED
    BY <1>2, <1>3 DEF Stop

\* A loop over the strategies begins.
LEMMA LoopBegins ==
    ASSUME ThreadsOK, NEW t \in Threads, NEW a \in {"restore", "pending"},
           thread' = [thread EXCEPT ![t].at = a, ![t].todo = Existing, ![t].known = Existing],
           ~Holds(t), holder' = holder
    PROVE  ThreadsOK'
  <1> DEFINE r == [thread[t] EXCEPT !.at = a, !.todo = Existing, !.known = Existing]
  <1>1. thread[t] \in Thread /\ Existing \subseteq Strategies
    BY DEF ThreadsOK, Existing
  <1>2. r \in Thread /\ r.at = a
    BY <1>1 DEF Thread
  <1>3. thread' = [thread EXCEPT ![t] = r]
    BY DEF ThreadsOK
  <1> HIDE DEF r
  <1> QED
    BY <1>2, <1>3, Unlocked

\* It takes the next one.
LEMMA LoopGoesOn ==
    ASSUME ThreadsOK, NEW t \in Threads, NEW q,
           NEW s \in thread[t].todo, NEW p \in Pids \cup {None},
           NEW a \in {"restore", "pending", "adopt", "launch"}, NEW b \in {"restore", "pending"},
           NEW u \in Strategies \cup {None}, a \in {"adopt", "launch"} => u \in Strategies,
           q = [at |-> a, task |-> thread[t].task, back |-> b, goal |-> thread[t].goal,
                s |-> u, pid |-> p, todo |-> thread[t].todo \ {s}, known |-> thread[t].known]
    PROVE  q \in Thread /\ q.at = a
  <1>1. thread[t] \in Thread
    BY DEF ThreadsOK
  <1>2. /\ thread[t].task \in {"none", "index", "start", "login"}
        /\ thread[t].goal \in Strategies \cup {None}
        /\ thread[t].todo \in SUBSET Strategies /\ thread[t].known \in SUBSET Strategies
        /\ thread[t].task = "start" => thread[t].goal \in Strategies
    BY <1>1 DEF Thread
  <1> QED
    BY <1>2 DEF Thread

\* What a page does once strategies are restored.
LEMMA AfterType ==
    ASSUME ThreadsOK, NEW t \in Threads
    PROVE  /\ \A a \in {"clean", "check"} :
                 [Idle EXCEPT !.at = a] \in Thread /\ [Idle EXCEPT !.at = a].at = a
           /\ thread[t].task = "start" =>
                 LET r == [Idle EXCEPT !.at = "launch", !.s = thread[t].goal]
                 IN  r \in Thread /\ r.at = "launch"
  <1>1. thread[t].task = "start" => thread[t].goal \in Strategies
    BY DEF ThreadsOK, Thread
  <1>2. \A a \in {"clean", "check"} :
           [Idle EXCEPT !.at = a] \in Thread /\ [Idle EXCEPT !.at = a].at = a
    BY DEF Idle, Thread
  <1>3. \A s \in Strategies : LET r == [Idle EXCEPT !.at = "launch", !.s = s]
                             IN  r \in Thread /\ r.at = "launch"
    BY DEF Idle, Thread
  <1> QED
    BY <1>1, <1>2, <1>3

LEMMA BeginKeeps ==
    ASSUME Inv, NEW t \in Threads, Begin(t)
    PROVE  Inv'
  <1> USE DEF Inv
  <1>1. ~Holds(t) /\ holder' = holder
    BY DEF Begin, Holds
  <1>2. AdoptedIsOwn'
    BY SamePids DEF Begin
  <1>3. CASE ~broker
    <2>1. Goto(t, "restored") /\ UNCHANGED <<config, file>>
      BY <1>3 DEF Begin
    <2>2. ThreadsOK'
      BY <1>1, <2>1, At, Gone, Unlocked
    <2>3. HostOK'
      BY <2>1 DEF HostOK, Begin
    <2> QED
      BY <1>2, <2>2, <2>3
  <1>4. CASE broker /\ ~ready
    <2> DEFINE c(s) == IF config[s].exists /\ config[s].running
                       THEN [config[s] EXCEPT !.running = FALSE, !.pid = None,
                                              !.error = "waiting"]
                       ELSE config[s]
    <2>1. /\ config' = [s \in Strategies |-> c(s)]
          /\ file' = config' /\ Goto(t, "restored")
      BY <1>4 DEF Begin
    <2>2. \A s \in Strategies : c(s) \in Config
      BY OneRow DEF HostOK
    <2> HIDE DEF c
    <2>3. config' \in [Strategies -> Config]
      BY <2>1, <2>2
    <2>4. ThreadsOK'
      BY <1>1, <2>1, At, Gone, Unlocked
    <2>5. HostOK'
      BY <2>1, <2>3 DEF HostOK, Begin
    <2> QED
      BY <1>2, <2>4, <2>5
  <1>5. CASE broker /\ ready
    <2>1. /\ thread' = [thread EXCEPT ![t].at = "restore", ![t].todo = Existing,
                                      ![t].known = Existing]
          /\ UNCHANGED <<config, file>>
      BY <1>5 DEF Begin
    <2>2. ThreadsOK'
      BY <1>1, <2>1, LoopBegins
    <2>3. HostOK'
      BY <2>1 DEF HostOK, Begin
    <2> QED
      BY <1>2, <2>2, <2>3
  <1> QED
    BY <1>3, <1>4, <1>5

LEMMA RestoreKeeps ==
    ASSUME Inv, NEW t \in Threads, Restore(t)
    PROVE  Inv'
  <1> USE DEF Inv
  <1>1. HostOK'
    BY DEF HostOK, Restore
  <1>2. AdoptedIsOwn'
    BY SamePids DEF Restore
  <1>3. ~Holds(t) /\ holder' = holder
    BY DEF Restore, Holds
  <1> PICK s \in thread[t].todo :
         LET p == config[s].pid
             next == IF ~config[s].running \/ p = None THEN "restore"
                     ELSE IF IsOurs(s, p) THEN "adopt" ELSE "launch"
         IN  thread' = [thread EXCEPT ![t].at = next, ![t].s = s,
                                      ![t].pid = IF next = "restore" THEN @ ELSE p,
                                      ![t].todo = @ \ {s}, ![t].back = "restore"]
    BY DEF Restore
  <1> DEFINE p == config[s].pid
             next == IF ~config[s].running \/ p = None THEN "restore"
                     ELSE IF IsOurs(s, p) THEN "adopt" ELSE "launch"
             q == IF next = "restore" THEN thread[t].pid ELSE p
  <1>4. s \in Strategies
    BY DEF ThreadsOK, Thread
  <1>5. q \in Pids \cup {None} /\ next \in {"restore", "adopt", "launch"}
    BY <1>4 DEF HostOK, Config, ThreadsOK, Thread
  <1>6. thread' = [thread EXCEPT ![t].at = next, ![t].s = s, ![t].pid = q,
                                 ![t].todo = @ \ {s}, ![t].back = "restore"]
    OBVIOUS
  <1> HIDE DEF p, q, next
  <1> DEFINE r == [at |-> next, task |-> thread[t].task, back |-> "restore",
                   goal |-> thread[t].goal, s |-> s, pid |-> q,
                   todo |-> thread[t].todo \ {s}, known |-> thread[t].known]
  <1>7. thread' = [thread EXCEPT ![t] = r]
    BY <1>6 DEF ThreadsOK, Thread
  <1>8. r = [at |-> next, task |-> thread[t].task, back |-> "restore",
             goal |-> thread[t].goal, s |-> s, pid |-> q,
             todo |-> thread[t].todo \ {s}, known |-> thread[t].known]
    OBVIOUS
  <1> HIDE DEF r
  <1>9. r \in Thread /\ r.at = next
    BY <1>4, <1>5, <1>8, LoopGoesOn
  <1>10. ThreadsOK'
    BY <1>3, <1>5, <1>7, <1>9, Unlocked
  <1> QED
    BY <1>1, <1>2, <1>10

LEMMA AdoptKeeps ==
    ASSUME Inv, NEW t \in Threads, Adopt(t)
    PROVE  Inv'
  <1> USE DEF Inv
  <1> DEFINE s == thread[t].s
             p == thread[t].pid
             e == [kind |-> "psutil", pid |-> IF Names(s, p) THEN p ELSE None]
  <1>1. s \in Strategies /\ p \in Pids \cup {None}
    BY DEF ThreadsOK, Adopt, Thread
  <1>2. running' = [running EXCEPT ![s] = e]
    BY DEF Adopt
  <1>3. e \in Entry /\ (e.pid # None => procs[e.pid].of = s)
    BY <1>1 DEF Entry, Names
  <1>4. procs' = procs
    BY DEF Adopt
  <1> HIDE DEF s, e
  <1>5. HostOK'
    BY <1>1, <1>2, <1>3 DEF HostOK, Adopt
  <1>6. AdoptedIsOwn'
    BY <1>1, <1>2, <1>3, <1>4 DEF HostOK, AdoptedIsOwn
  <1>7. ThreadsOK'
    BY At, Gone, Unlocked DEF Adopt, Holds
  <1> QED
    BY <1>5, <1>6, <1>7

LEMMA RestoreEndsKeeps ==
    ASSUME Inv, NEW t \in Threads, RestoreEnds(t)
    PROVE  Inv'
  <1> USE DEF Inv
  <1>1. HostOK'
    BY DEF HostOK, RestoreEnds
  <1>2. ThreadsOK'
    BY At, Gone, Unlocked DEF RestoreEnds, Holds
  <1>3. AdoptedIsOwn'
    BY SamePids DEF RestoreEnds
  <1> QED
    BY <1>1, <1>2, <1>3

LEMMA LoopFailsKeeps ==
    ASSUME Inv, NEW t \in Threads, LoopFails(t)
    PROVE  Inv'
  <1> USE DEF Inv
  <1>1. HostOK'
    BY DEF HostOK, LoopFails
  <1>2. AdoptedIsOwn'
    BY SamePids DEF LoopFails
  <1> DEFINE r == CASE thread[t].task = "index" -> [Idle EXCEPT !.at = "clean"]
                    [] thread[t].task = "start" -> [Idle EXCEPT !.at = "launch", !.s = thread[t].goal]
                    [] OTHER -> Idle
  <1>3. r \in Thread /\ r.at \notin {"save", "wedged"}
    BY IdleType, AfterType DEF Idle
  <1>4. thread' = [thread EXCEPT ![t] = r]
    BY DEF LoopFails
  <1> HIDE DEF r
  <1>5. ThreadsOK'
    BY <1>3, <1>4, Unlocked DEF LoopFails, Holds
  <1> QED
    BY <1>1, <1>2, <1>5

LEMMA RestoredKeeps ==
    ASSUME Inv, NEW t \in Threads, Restored(t)
    PROVE  Inv'
  <1> USE DEF Inv
  <1>1. jobs' \subseteq Strategies
    BY DEF HostOK, Restored, Existing
  <1>2. HostOK'
    BY <1>1 DEF HostOK, Restored
  <1>3. AdoptedIsOwn'
    BY SamePids DEF Restored
  <1> DEFINE r == CASE thread[t].task = "index" -> [Idle EXCEPT !.at = "clean"]
                    [] thread[t].task = "start" -> [Idle EXCEPT !.at = "launch", !.s = thread[t].goal]
                    [] OTHER -> [Idle EXCEPT !.at = "check"]
  <1>4. r \in Thread /\ r.at \notin {"save", "wedged"}
    BY IdleType, AfterType DEF Idle
  <1>5. thread' = [thread EXCEPT ![t] = r]
    BY DEF Restored
  <1> HIDE DEF r
  <1>6. ThreadsOK'
    BY <1>4, <1>5, Unlocked DEF Restored, Holds
  <1> QED
    BY <1>2, <1>3, <1>6

LEMMA CheckPendingKeeps ==
    ASSUME Inv, NEW t \in Threads, CheckPending(t)
    PROVE  Inv'
  <1> USE DEF Inv
  <1>1. HostOK'
    BY DEF HostOK, CheckPending
  <1>2. AdoptedIsOwn'
    BY SamePids DEF CheckPending
  <1>3. ~Holds(t) /\ holder' = holder
    BY DEF CheckPending, Holds
  <1>4. CASE ContractsReady
    <2>1. thread' = [thread EXCEPT ![t].at = "pending", ![t].todo = Existing,
                                   ![t].known = Existing]
      BY <1>4 DEF CheckPending, ThreadsOK
    <2>2. ThreadsOK'
      BY <1>3, <2>1, LoopBegins
    <2> QED
      BY <1>1, <1>2, <2>2
  <1>5. CASE ~ContractsReady
    <2>1. thread' = [thread EXCEPT ![t] = Idle]
      BY <1>5 DEF CheckPending
    <2>2. ThreadsOK'
      BY <1>3, <2>1, IdleType, Unlocked
    <2> QED
      BY <1>1, <1>2, <2>2
  <1> QED
    BY <1>4, <1>5

LEMMA StartPendingKeeps ==
    ASSUME Inv, NEW t \in Threads, StartPending(t)
    PROVE  Inv'
  <1> USE DEF Inv
  <1>1. AdoptedIsOwn'
    BY SamePids DEF StartPending
  <1>2. ~Holds(t) /\ holder' = holder
    BY DEF StartPending, Holds
  <1> PICK s \in thread[t].todo :
         LET waits == config[s].error = "waiting" IN
         /\ config' = IF waits THEN [config EXCEPT ![s].error = "none"] ELSE config
         /\ thread' = [thread EXCEPT ![t].at = IF waits THEN "launch" ELSE "pending",
                                     ![t].s = IF waits THEN s ELSE @,
                                     ![t].todo = @ \ {s}, ![t].back = "pending"]
    BY DEF StartPending
  <1> DEFINE waits == config[s].error = "waiting"
             next == IF waits THEN "launch" ELSE "pending"
             q == IF waits THEN s ELSE thread[t].s
  <1>3. s \in Strategies
    BY DEF ThreadsOK, Thread
  <1>4. config' = IF waits THEN [config EXCEPT ![s].error = "none"] ELSE config
    OBVIOUS
  <1>5. thread' = [thread EXCEPT ![t].at = next, ![t].s = q, ![t].todo = @ \ {s},
                                 ![t].back = "pending"]
    OBVIOUS
  <1>6. /\ next \in {"launch", "pending"} /\ (next = "launch" => q \in Strategies)
        /\ q \in Strategies \cup {None}
    BY <1>3 DEF ThreadsOK, Thread
  <1>7. config' \in [Strategies -> Config]
    <2>1. [config EXCEPT ![s].error = "none"] \in [Strategies -> Config]
      BY <1>3, OneConfig
    <2> QED
      BY <1>4, <2>1 DEF HostOK
  <1>8. HostOK'
    BY <1>7 DEF HostOK, StartPending
  <1> HIDE DEF waits, next, q
  <1> DEFINE r == [at |-> next, task |-> thread[t].task, back |-> "pending",
                   goal |-> thread[t].goal, s |-> q, pid |-> thread[t].pid,
                   todo |-> thread[t].todo \ {s}, known |-> thread[t].known]
  <1>9. thread' = [thread EXCEPT ![t] = r]
    BY <1>5 DEF ThreadsOK, Thread
  <1>10. thread[t].pid \in Pids \cup {None}
    BY DEF ThreadsOK, Thread
  <1>11. r = [at |-> next, task |-> thread[t].task, back |-> "pending",
              goal |-> thread[t].goal, s |-> q, pid |-> thread[t].pid,
              todo |-> thread[t].todo \ {s}, known |-> thread[t].known]
    OBVIOUS
  <1> HIDE DEF r
  <1>12. r \in Thread /\ r.at = next
    BY <1>6, <1>10, <1>11, LoopGoesOn
  <1>13. ThreadsOK'
    BY <1>2, <1>6, <1>9, <1>12, Unlocked
  <1> QED
    BY <1>1, <1>8, <1>13

LEMMA PendingEndsKeeps ==
    ASSUME Inv, NEW t \in Threads, PendingEnds(t)
    PROVE  Inv'
  <1> USE DEF Inv
  <1>1. HostOK'
    BY DEF HostOK, PendingEnds
  <1>2. ThreadsOK'
    BY IdleType, Unlocked DEF PendingEnds, Holds
  <1>3. AdoptedIsOwn'
    BY SamePids DEF PendingEnds
  <1> QED
    BY <1>1, <1>2, <1>3

LEMMA IndexKeeps ==
    ASSUME Inv, NEW t \in Threads, Index(t)
    PROVE  Inv'
  <1> USE DEF Inv
  <1>1. HostOK'
    BY HostAssumption DEF HostOK, Index, Request
  <1>2. AdoptedIsOwn'
    BY SamePids DEF Index
  <1> DEFINE r == IF initialized THEN [Idle EXCEPT !.at = "clean"]
                  ELSE [Idle EXCEPT !.at = "begin", !.task = "index"]
  <1>3. r \in Thread /\ r.at \in {"clean", "begin"}
    BY DEF Idle, Thread
  <1>4. thread' = [thread EXCEPT ![t] = r]
    BY DEF Index
  <1> HIDE DEF r
  <1>5. ThreadsOK'
    BY <1>3, <1>4, Unlocked DEF Index, Holds
  <1> QED
    BY <1>1, <1>2, <1>5

LEMMA CleanKeeps ==
    ASSUME Inv, NEW t \in Threads, Clean(t)
    PROVE  Inv'
  <1> USE DEF Inv
  <1> DEFINE dead == {s \in Strategies : IsDead(s)}
             gone == {running[s].pid : s \in dead} \ {None}
  <1>1. /\ procs' = Freed(gone)
        /\ running' = [s \in Strategies |-> IF s \in dead THEN NotRunning
                                            ELSE Without(running, gone)[s]]
        /\ config' = [s \in Strategies |-> IF s \in dead THEN Stopped(s)[s] ELSE config[s]]
        /\ file' = IF dead # {} THEN config' ELSE file
        /\ Goto(t, "refresh")
    BY DEF Clean
  <1> HIDE DEF dead, gone
  <1>2. NotRunning \in Entry /\ NotRunning.pid = None
    BY DEF NotRunning, Entry
  <1>3. running' \in [Strategies -> Entry]
    BY <1>1, <1>2, WithoutType
  <1>4. config' \in [Strategies -> Config]
    BY <1>1, StoppedType DEF HostOK
  <1>5. HostOK'
    BY <1>1, <1>3, <1>4, FreedType DEF HostOK, Clean
  <1>6. ThreadsOK'
    <2>1. ~Holds(t) /\ holder' = holder /\ Goto(t, "refresh")
      BY DEF Clean, Holds
    <2> QED
      BY <2>1, At, Gone, Unlocked
  <1>7. \A s \in Strategies : running'[s].pid # None =>
           running'[s].pid = running[s].pid /\ running[s].pid \notin gone
    BY <1>1, <1>2, WithoutType
  <1>8. AdoptedIsOwn'
    <2>1. \A p \in Pids : p \notin gone => procs'[p].of = procs[p].of
      BY <1>1, FreedType
    <2> QED
      BY <1>7, <2>1, Tracking
  <1> QED
    BY <1>5, <1>6, <1>8

LEMMA RefreshKeeps ==
    ASSUME Inv, NEW t \in Threads, Refresh(t)
    PROVE  Inv'
  <1> USE DEF Inv
  <1> DEFINE dead == {s \in Existing : config[s].pid # None /\ ~IsAlive(config[s].pid)}
             c(s) == IF s \in dead THEN Stopped(s)[s]
                     ELSE [config[s] EXCEPT !.running = @ \/ config[s].pid # None]
  <1>1. /\ config' = [s \in Strategies |-> c(s)]
        /\ file' = IF dead # {} THEN config' ELSE file
        /\ thread' = [thread EXCEPT ![t] = Idle]
    BY DEF Refresh
  <1>2. \A s \in Strategies : c(s) \in Config
    <2> SUFFICES ASSUME NEW s \in Strategies PROVE c(s) \in Config
      OBVIOUS
    <2>1. Stopped(s)[s] \in Config
      BY StoppedType
    <2>2. config[s] \in Config
      BY DEF HostOK
    <2>3. [config[s] EXCEPT !.running = @ \/ config[s].pid # None] \in Config
      BY <2>2 DEF Config
    <2> QED
      BY <2>1, <2>3
  <1> HIDE DEF dead, c
  <1>3. config' \in [Strategies -> Config]
    BY <1>1, <1>2
  <1>4. HostOK'
    BY <1>1, <1>3 DEF HostOK, Refresh
  <1>5. ThreadsOK'
    BY <1>1, IdleType, Unlocked DEF Refresh, Holds
  <1>6. AdoptedIsOwn'
    BY SamePids DEF Refresh
  <1> QED
    BY <1>4, <1>5, <1>6

LEMMA PressStartKeeps ==
    ASSUME Inv, NEW t \in Threads, NEW s \in Strategies, PressStart(t, s)
    PROVE  Inv'
  <1> USE DEF Inv
  <1>1. HostOK'
    BY HostAssumption DEF HostOK, PressStart, Request
  <1>2. AdoptedIsOwn'
    BY SamePids DEF PressStart
  <1> DEFINE r == IF initialized THEN [Idle EXCEPT !.at = "launch", !.s = s]
                  ELSE [Idle EXCEPT !.at = "begin", !.task = "start", !.goal = s]
  <1>3. r \in Thread /\ r.at \in {"launch", "begin"}
    BY DEF Idle, Thread
  <1>4. thread' = [thread EXCEPT ![t] = r]
    BY DEF PressStart
  <1> HIDE DEF r
  <1>5. ThreadsOK'
    BY <1>3, <1>4, Unlocked DEF PressStart, Holds
  <1> QED
    BY <1>1, <1>2, <1>5

LEMMA StartJobKeeps ==
    ASSUME Inv, NEW t \in Threads, NEW s \in Strategies, StartJob(t, s)
    PROVE  Inv'
  <1> USE DEF Inv
  <1>1. HostOK'
    BY HostAssumption DEF HostOK, StartJob, Request
  <1>2. AdoptedIsOwn'
    BY SamePids DEF StartJob
  <1> DEFINE r == [Idle EXCEPT !.at = "launch", !.s = s]
  <1>3. r \in Thread /\ r.at = "launch"
    BY DEF Idle, Thread
  <1>4. thread' = [thread EXCEPT ![t] = r]
    BY DEF StartJob
  <1> HIDE DEF r
  <1>5. ThreadsOK'
    BY <1>3, <1>4, Unlocked DEF StartJob, Holds
  <1> QED
    BY <1>1, <1>2, <1>5

LEMMA CheckContractsKeeps ==
    ASSUME Inv, NEW t \in Threads, CheckContracts(t)
    PROVE  Inv'
  <1> USE DEF Inv
  <1>1. HostOK'
    BY HostAssumption DEF HostOK, CheckContracts, Request
  <1>2. ThreadsOK'
    BY At, Gone, Unlocked DEF CheckContracts, Holds
  <1>3. AdoptedIsOwn'
    BY SamePids DEF CheckContracts
  <1> QED
    BY <1>1, <1>2, <1>3

LEMMA ScheduleKeeps ==
    ASSUME Inv, NEW t \in Threads, NEW s \in Strategies,
           ScheduleStrategy(t, s) \/ UnscheduleStrategy(t, s)
    PROVE  Inv'
  <1> USE DEF Inv
  <1>1. UNCHANGED <<procs, running, initialized, holder, broker, ready, downloads, thread,
                    restored, crashes, logins>> /\ Request
    BY DEF ScheduleStrategy, UnscheduleStrategy
  <1>2. ThreadsOK' /\ AdoptedIsOwn'
    BY <1>1, ThreadsSame, SamePids
  <1>3. PICK b \in BOOLEAN : config' = [config EXCEPT ![s].scheduled = b] /\ file' = config'
    BY DEF ScheduleStrategy, UnscheduleStrategy
  <1>4. config' \in [Strategies -> Config]
    BY <1>3, OneConfig
  <1>5. jobs' \subseteq Strategies
    BY DEF ScheduleStrategy, UnscheduleStrategy, HostOK
  <1>6. HostOK'
    BY <1>1, <1>3, <1>4, <1>5, HostAssumption DEF HostOK, Request
  <1> QED
    BY <1>2, <1>6

LEMMA DeleteKeeps ==
    ASSUME Inv, NEW t \in Threads, NEW s \in Strategies, Delete(t, s)
    PROVE  Inv'
  <1> USE DEF Inv
  <1>1. AdoptedIsOwn'
    BY SamePids DEF Delete
  <1>2. CASE IsRunning(s) \/ config[s].running
    <2>1. /\ holder = None /\ holder' = t /\ Goto(t, "wedged")
          /\ UNCHANGED <<config, file, jobs>>
      BY <1>2 DEF Delete
    <2>2. ThreadsOK'
      BY <2>1, At, Gone, Acquired
    <2>3. HostOK'
      BY <2>1, HostAssumption DEF HostOK, Delete, Request
    <2> QED
      BY <1>1, <2>2, <2>3
  <1>3. CASE ~(IsRunning(s) \/ config[s].running)
    <2> DEFINE none == [exists |-> FALSE, running |-> FALSE, pid |-> None,
                        error |-> "none", scheduled |-> FALSE]
    <2>1. /\ jobs' = IF config[s].scheduled THEN jobs \ {s} ELSE jobs
          /\ config' = [config EXCEPT ![s] = none] /\ file' = config'
          /\ UNCHANGED <<holder, thread>>
      BY <1>3 DEF Delete
    <2>2. none \in Config
      BY DEF Config
    <2> HIDE DEF none
    <2>3. ThreadsOK'
      BY <2>1, ThreadsSame
    <2>4. HostOK'
      BY <2>1, <2>2, HostAssumption DEF HostOK, Delete, Request
    <2> QED
      BY <1>1, <2>3, <2>4
  <1> QED
    BY <1>2, <1>3

LEMMA LoginKeeps ==
    ASSUME Inv, Login \/ DownloadFails \/ Logout
    PROVE  Inv'
  <1> USE DEF Inv
  <1>1. UNCHANGED <<procs, running, config, file, jobs, initialized, holder, thread,
                    restored, crashes, requests>>
    BY DEF Login, DownloadFails, Logout
  <1>2. ThreadsOK' /\ AdoptedIsOwn'
    BY <1>1, ThreadsSame, SamePids
  <1>3. /\ logins \in 0 .. MaxLogins /\ downloads \in 0 .. MaxLogins
        /\ downloads <= logins /\ MaxLogins \in Nat
    BY HostAssumption DEF HostOK
  <1>4. broker' \in BOOLEAN /\ ready' \in BOOLEAN
    BY DEF HostOK, Login, DownloadFails, Logout
  <1>5. CASE Login
    <2>1. logins < MaxLogins /\ logins' = logins + 1 /\ downloads' = downloads + 1
      BY <1>5 DEF Login
    <2>2. /\ logins' \in 0 .. MaxLogins /\ downloads' \in 0 .. MaxLogins
          /\ downloads' <= logins'
      BY <1>3, <2>1
    <2>3. HostOK'
      BY <1>1, <1>4, <2>2 DEF HostOK
    <2> QED
      BY <1>2, <2>3
  <1>6. CASE DownloadFails
    <2>1. logins' = logins /\ downloads > 0 /\ downloads' = downloads - 1
      BY <1>6 DEF DownloadFails
    <2>2. /\ logins' \in 0 .. MaxLogins /\ downloads' \in 0 .. MaxLogins
          /\ downloads' <= logins'
      BY <1>3, <2>1
    <2>3. HostOK'
      BY <1>1, <1>4, <2>2 DEF HostOK
    <2> QED
      BY <1>2, <2>3
  <1>7. CASE Logout
    <2>1. logins' = logins /\ downloads' = downloads
      BY <1>7 DEF Logout
    <2>2. HostOK'
      BY <1>1, <1>3, <1>4, <2>1 DEF HostOK
    <2> QED
      BY <1>2, <2>2
  <1> QED
    BY <1>5, <1>6, <1>7

LEMMA DownloadedKeeps ==
    ASSUME Inv, NEW t \in Threads, Downloaded(t)
    PROVE  Inv'
  <1> USE DEF Inv
  <1>1. HostOK'
    BY HostAssumption DEF HostOK, Downloaded
  <1>2. AdoptedIsOwn'
    BY SamePids DEF Downloaded
  <1> DEFINE r == [Idle EXCEPT !.at = "begin", !.task = "login"]
  <1>3. r \in Thread /\ r.at = "begin"
    BY DEF Idle, Thread
  <1>4. thread' = [thread EXCEPT ![t] = r]
    BY DEF Downloaded
  <1> HIDE DEF r
  <1>5. ThreadsOK'
    BY <1>3, <1>4, Unlocked DEF Downloaded, Holds
  <1> QED
    BY <1>1, <1>2, <1>5

LEMMA CrashKeeps ==
    ASSUME Inv, Crash
    PROVE  Inv'
  <1> USE DEF Inv
  <1> DEFINE none == [exists |-> FALSE, running |-> FALSE, pid |-> None,
                      error |-> "none", scheduled |-> FALSE]
  <1>1. file' = file \/ file' = [s \in Strategies |-> none]
    BY DEF Crash
  <1>2. none \in Config /\ NotRunning \in Entry /\ Free \in Process
    BY DEF Config, NotRunning, Entry, Free, Process
  <1> HIDE DEF none
  <1>3. file' \in [Strategies -> Config] /\ config' = file'
    BY <1>1, <1>2 DEF HostOK, Crash
  <1>4. procs' \in [Pids -> Process]
    <2>1. \A p \in Pids : [procs[p] EXCEPT !.child = FALSE] \in Process
      BY DEF HostOK, Process
    <2> QED
      BY <1>2, <2>1 DEF Crash
  <1>5. running' \in [Strategies -> Entry] /\ \A s \in Strategies : running'[s].pid = None
    BY <1>2 DEF Crash, NotRunning
  <1>6. HostOK'
    <2>1. /\ crashes' \in 0 .. MaxCrashes /\ downloads' \in 0 .. MaxLogins
          /\ downloads' <= logins'
      BY HostAssumption DEF HostOK, Crash
    <2>2. /\ jobs' = {} /\ initialized' = FALSE /\ restored' = FALSE
          /\ UNCHANGED <<broker, ready, logins, requests>>
      BY DEF Crash
    <2> QED
      BY <1>3, <1>4, <1>5, <2>1, <2>2 DEF HostOK
  <1>7. AdoptedIsOwn'
    BY <1>5 DEF AdoptedIsOwn
  <1>8. thread' = [t \in Threads |-> Idle] /\ holder' = None
    BY DEF Crash
  <1>9. ThreadsOK'
    BY <1>8, IdleType, HostAssumption DEF ThreadsOK, Holds
  <1> QED
    BY <1>6, <1>7, <1>9

-----------------------------------------------------------------------------
(* Theorems *)

LEMMA InitInv == Init => Inv
  <1> SUFFICES ASSUME Init PROVE Inv
    OBVIOUS
  <1>1. /\ Free \in Process /\ NotRunning \in Entry /\ NotRunning.pid = None
        /\ [exists |-> TRUE, running |-> FALSE, pid |-> None, error |-> "none",
            scheduled |-> FALSE] \in Config
    BY DEF Free, Process, NotRunning, Entry, Config
  <1>2. HostOK
    <2>1. /\ procs \in [Pids -> Process] /\ running \in [Strategies -> Entry]
          /\ config \in [Strategies -> Config] /\ file \in [Strategies -> Config]
      BY <1>1 DEF Init
    <2>2. /\ downloads \in 0 .. MaxLogins /\ downloads <= logins
          /\ crashes \in 0 .. MaxCrashes /\ logins \in 0 .. MaxLogins
          /\ requests \in 0 .. MaxRequests
      BY HostAssumption DEF Init
    <2>3. /\ jobs \subseteq Strategies /\ initialized \in BOOLEAN /\ restored \in BOOLEAN
          /\ broker \in BOOLEAN /\ ready \in BOOLEAN
      BY DEF Init
    <2> QED
      BY <2>1, <2>2, <2>3 DEF HostOK
  <1>3. ThreadsOK
    BY IdleType, HostAssumption DEF Init, ThreadsOK, Holds
  <1>4. AdoptedIsOwn
    BY <1>1 DEF Init, AdoptedIsOwn
  <1> QED
    BY <1>2, <1>3, <1>4 DEF Inv

LEMMA StepInv == Inv /\ [NextStep]_vars => Inv'
  <1> SUFFICES ASSUME Inv, [NextStep]_vars PROVE Inv'
    OBVIOUS
  <1>1. CASE Step
    <2>1. ASSUME NEW t \in Threads, Inner(t) PROVE Inv'
      BY <2>1, SaveKeeps, BeginKeeps, RestoreKeeps, AdoptKeeps, RestoreEndsKeeps,
         LoopFailsKeeps, RestoredKeeps, CheckPendingKeeps, StartPendingKeeps,
         PendingEndsKeeps, RefreshKeeps DEF Inner
    <2>2. ASSUME NEW t \in Threads, Locked(t) PROVE Inv'
      BY <2>2, LaunchRefusedKeeps, LaunchKeeps, CleanKeeps DEF Locked
    <2>3. ASSUME NEW t \in Threads, User(t) PROVE Inv'
      BY <2>3, IndexKeeps, CheckContractsKeeps, PressStartKeeps, StartJobKeeps, StopKeeps,
         ScheduleKeeps, DeleteKeeps DEF User
    <2>4. ASSUME NEW p \in Pids, Exit(p) \/ Reuse(p) PROVE Inv'
      BY <2>4, ExitKeeps, ReuseKeeps
    <2> QED
      BY <1>1, <2>1, <2>2, <2>3, <2>4, DownloadedKeeps, LoginKeeps, CrashKeeps DEF Step
  <1>2. CASE UNCHANGED vars
    <2>1. /\ UNCHANGED <<procs, running, config, file, jobs, initialized, holder, broker, ready>>
          /\ UNCHANGED <<downloads, thread, restored, crashes, logins, requests>>
      BY <1>2 DEF vars, host
    <2>2. HostOK'
      BY <2>1 DEF Inv, HostOK
    <2>3. ThreadsOK' /\ AdoptedIsOwn'
      BY <2>1, ThreadsSame, SamePids DEF Inv
    <2> QED
      BY <2>2, <2>3 DEF Inv
  <1> QED
    BY <1>1, <1>2 DEF NextStep

\* What is kept true by every step of a page, a job or a login.
THEOREM Invariance == Spec => []Inv
  <1> QED
    BY InitInv, StepInv, PTL DEF Spec

\* The process tracked for a strategy runs that strategy (the pid of
\* restore_strategy_states is checked against the command line), for any
\* number of strategies, threads and pids.
THEOREM Adopted == Spec => []AdoptedIsOwn
  <1>1. Inv => AdoptedIsOwn
    BY DEF Inv
  <1> QED
    BY <1>1, Invariance, PTL

MissedOK == missed \in [unsaved : SUBSET Pids, forgotten : SUBSET Pids, raced : SUBSET Pids]

LEMMA MissedInv == MissedOK /\ [NextStep]_vars => MissedOK'
  <1>1. Note => MissedOK'
    <2> DEFINE live == Live'
    <2>1. live \subseteq Pids
      BY DEF Live
    <2> HIDE DEF live
    <2>2. ASSUME NEW a, NEW b, NEW c
          PROVE  [unsaved |-> live \cap a, forgotten |-> live \cap b, raced |-> live \cap c] \in
                   [unsaved : SUBSET Pids, forgotten : SUBSET Pids, raced : SUBSET Pids]
      BY <2>1
    <2> QED
      BY <2>2 DEF Note, MissedOK, live
  <1> QED
    BY <1>1 DEF NextStep, MissedOK, vars

\* The program's state keeps its types, and PROCESS_LOCK is held by the one
\* thread that is between starting a process and saving it, or stuck in delete.
THEOREM Types == Spec => []TypeOK
  <1>1. Init => MissedOK
    BY DEF Init, MissedOK
  <1>2. Inv /\ MissedOK => TypeOK
    BY DEF Inv, HostOK, ThreadsOK, Holds, TypeOK, MissedOK
  <1> QED
    BY <1>1, <1>2, Invariance, MissedInv, PTL DEF Spec

-----------------------------------------------------------------------------
(* Schedules *)

Page == {"index", "start"}

\* A page that began to restore has not yet brought the schedules back.
PageOK(t) ==
    thread[t].task \in Page =>
        \/ thread[t].at \in {"begin", "restore", "adopt", "restored"}
        \/ thread[t].at \in {"launch", "save"} /\ thread[t].back = "restore"

Scheduled == {s \in Existing : config[s].scheduled}

\* JobsMatch is not inductive: before the first page there must be no job that
\* is not scheduled, and a page's thread may not lose its task on the way.
JobsInv == jobs \subseteq Scheduled /\ (\A t \in Threads : PageOK(t)) /\ JobsMatch

SameSchedule == \A s \in Strategies : /\ config'[s].exists = config[s].exists
                                      /\ config'[s].scheduled = config[s].scheduled

OthersStay(t) == \A u \in Threads \ {t} : thread'[u] = thread[u]

LEMMA ScheduledSame == ASSUME SameSchedule PROVE Scheduled' = Scheduled
  BY DEF SameSchedule, Scheduled, Existing

\* A thread moves on, without finishing a page's restoration.
LEMMA JobsStay ==
    ASSUME JobsInv, NEW t \in Threads, OthersStay(t), PageOK(t)',
           jobs' = jobs, SameSchedule,
           initialized' => initialized \/ thread'[t].task \in Page,
           initialized' /\ thread[t].task \in Page => thread'[t].task \in Page
    PROVE  JobsInv'
  <1>1. Scheduled' = Scheduled
    BY ScheduledSame
  <1>2. \A u \in Threads : PageOK(u)'
    BY DEF JobsInv, OthersStay, PageOK
  <1>3. JobsMatch'
    <2> SUFFICES ASSUME initialized', \A u \in Threads : thread'[u].task \notin Page
                 PROVE  jobs' = Scheduled'
      BY DEF JobsMatch, Page, Scheduled
    <2>1. initialized /\ \A u \in Threads : thread[u].task \notin Page
      BY DEF OthersStay
    <2>2. jobs = Scheduled
      BY <2>1 DEF JobsInv, JobsMatch, Page, Scheduled
    <2> QED
      BY <1>1, <2>2
  <1> QED
    BY <1>1, <1>2, <1>3 DEF JobsInv

\* A step of no thread.
LEMMA JobsUntouched ==
    ASSUME JobsInv, UNCHANGED <<config, jobs, initialized, thread>>
    PROVE  JobsInv'
  BY DEF JobsInv, PageOK, JobsMatch, Scheduled, Existing

\* Writing to the rest of a configuration.
LEMMA RestOfConfig ==
    ASSUME NEW c \in Config, NEW b, NEW p, NEW e
    PROVE  /\ LET d == [c EXCEPT !.running = b]
              IN  d.exists = c.exists /\ d.scheduled = c.scheduled
           /\ LET d == [c EXCEPT !.error = e]
              IN  d.exists = c.exists /\ d.scheduled = c.scheduled
           /\ LET d == [c EXCEPT !.running = b, !.pid = p]
              IN  d.exists = c.exists /\ d.scheduled = c.scheduled
           /\ LET d == [c EXCEPT !.running = b, !.pid = p, !.error = e]
              IN  d.exists = c.exists /\ d.scheduled = c.scheduled
  BY DEF Config

LEMMA StoppedSchedule ==
    ASSUME HostOK, NEW s \in Strategies, NEW r \in Strategies
    PROVE  Stopped(s)[r].exists = config[r].exists /\ Stopped(s)[r].scheduled = config[r].scheduled
  BY RestOfConfig DEF HostOK, Stopped

LEMMA FailedSchedule ==
    ASSUME HostOK, NEW s \in Strategies, NEW r \in Strategies
    PROVE  Failed(s)[r].exists = config[r].exists /\ Failed(s)[r].scheduled = config[r].scheduled
  BY RestOfConfig DEF HostOK, Failed

LEMMA GotoFields ==
    ASSUME ThreadsOK, NEW t \in Threads, NEW a, Goto(t, a)
    PROVE  /\ OthersStay(t) /\ thread'[t].at = a
           /\ thread'[t].task = thread[t].task /\ thread'[t].back = thread[t].back
  BY DEF ThreadsOK, Thread, Goto, OthersStay

LEMMA ReturnFields ==
    ASSUME ThreadsOK, NEW t \in Threads, Return(t)
    PROVE  /\ OthersStay(t)
           /\ \/ thread[t].back = "idle" /\ thread'[t].task = "none"
              \/ /\ thread[t].back # "idle" /\ thread'[t].at = thread[t].back
                 /\ thread'[t].task = thread[t].task
  BY DEF ThreadsOK, Thread, Return, Idle, OthersStay

\* What start_strategy_process does of its own leaves the schedules alone.
LEMMA LaunchJobs ==
    ASSUME Inv, JobsInv, NEW t \in Threads, LaunchRefused(t) \/ Launch(t) \/ Save(t)
    PROVE  JobsInv'
  <1> USE DEF Inv
  <1>1. jobs' = jobs /\ initialized' = initialized
    BY DEF LaunchRefused, Launch, Save
  <1>2. PageOK(t)
    BY DEF JobsInv
  <1>3. CASE LaunchRefused(t) \/ Save(t)
    <2>1. thread[t].at \in {"launch", "save"} /\ Return(t)
      BY <1>3 DEF LaunchRefused, Save
    <2>2. SameSchedule
      <3>1. thread[t].at = "launch" => thread[t].s \in Strategies
        BY DEF ThreadsOK, Thread
      <3> QED
        BY <1>3, <3>1, FailedSchedule DEF LaunchRefused, Save, SameSchedule
    <2>3. PageOK(t)' /\ (thread[t].task \in Page => thread'[t].task \in Page)
      BY <1>2, <2>1, ReturnFields DEF PageOK, Page
    <2> QED
      BY <1>1, <2>1, <2>2, <2>3, ReturnFields, JobsStay
  <1>4. CASE Launch(t)
    <2> DEFINE s == thread[t].s
    <2>1. s \in Strategies
      BY <1>4 DEF ThreadsOK, Launch, Thread
    <2>2. \E p \in Pids : config' =
            [config EXCEPT ![s].running = TRUE, ![s].pid = p, ![s].error = "none"]
      BY <1>4 DEF Launch
    <2>3. SameSchedule
      <3> HIDE DEF s
      <3> QED
        BY <2>1, <2>2, RestOfConfig DEF HostOK, SameSchedule
    <2>4. thread[t].at = "launch" /\ Goto(t, "save")
      BY <1>4 DEF Launch
    <2>5. PageOK(t)'
      BY <1>2, <2>4, GotoFields DEF PageOK
    <2> QED
      BY <1>1, <2>3, <2>4, <2>5, GotoFields, JobsStay
  <1> QED
    BY <1>3, <1>4

\* Restoration, up to its end.
LEMMA RestoreJobs ==
    ASSUME Inv, JobsInv, NEW t \in Threads,
           Begin(t) \/ Restore(t) \/ Adopt(t) \/ RestoreEnds(t)
    PROVE  JobsInv'
  <1> USE DEF Inv
  <1>1. jobs' = jobs /\ initialized' = initialized
    BY DEF Begin, Restore, Adopt, RestoreEnds
  <1>2. SameSchedule
    <2>1. CASE Begin(t)
      <3> DEFINE waiting(s) == [config[s] EXCEPT !.running = FALSE, !.pid = None,
                                                 !.error = "waiting"]
      <3>1. \A s \in Strategies : config'[s] = config[s] \/ config'[s] = waiting(s)
        BY <2>1 DEF Begin, HostOK
      <3>2. \A s \in Strategies : /\ waiting(s).exists = config[s].exists
                                  /\ waiting(s).scheduled = config[s].scheduled
        BY DEF HostOK, Config
      <3> HIDE DEF waiting
      <3> QED
        BY <3>1, <3>2 DEF SameSchedule
    <2>2. CASE Restore(t) \/ Adopt(t) \/ RestoreEnds(t)
      BY <2>2 DEF Restore, Adopt, RestoreEnds, SameSchedule
    <2> QED
      BY <2>1, <2>2
  <1>3. OthersStay(t) /\ PageOK(t)' /\ thread'[t].task = thread[t].task
    <2>1. CASE Begin(t)
      <3>1. CASE thread' = [thread EXCEPT ![t].at = "restore", ![t].todo = Existing,
                                          ![t].known = Existing]
        BY <3>1 DEF ThreadsOK, Thread, OthersStay, PageOK
      <3>2. CASE Goto(t, "restored")
        BY <3>2, GotoFields DEF PageOK
      <3> QED
        BY <2>1, <3>1, <3>2 DEF Begin
    <2>2. CASE Restore(t)
      <3>1. \E s \in thread[t].todo : \E p : \E next \in {"restore", "adopt", "launch"} :
              thread' = [thread EXCEPT ![t].at = next, ![t].s = s, ![t].pid = p,
                                       ![t].todo = @ \ {s}, ![t].back = "restore"]
        <4>1. PICK s \in thread[t].todo :
                LET p == config[s].pid
                    next == IF ~config[s].running \/ p = None THEN "restore"
                            ELSE IF IsOurs(s, p) THEN "adopt" ELSE "launch"
                IN  thread' = [thread EXCEPT ![t].at = next, ![t].s = s,
                                             ![t].pid = IF next = "restore" THEN @ ELSE p,
                                             ![t].todo = @ \ {s}, ![t].back = "restore"]
          BY <2>2 DEF Restore
        <4> DEFINE next == IF ~config[s].running \/ config[s].pid = None THEN "restore"
                           ELSE IF IsOurs(s, config[s].pid) THEN "adopt" ELSE "launch"
                   p == IF next = "restore" THEN thread[t].pid ELSE config[s].pid
        <4>2. /\ thread' = [thread EXCEPT ![t].at = next, ![t].s = s, ![t].pid = p,
                                          ![t].todo = @ \ {s}, ![t].back = "restore"]
              /\ next \in {"restore", "adopt", "launch"}
          BY <4>1
        <4> HIDE DEF next, p
        <4> QED
          BY <4>2
      <3> QED
        BY <3>1 DEF ThreadsOK, Thread, OthersStay, PageOK
    <2>3. CASE Adopt(t)
      BY <2>3, GotoFields DEF Adopt, PageOK
    <2>4. CASE RestoreEnds(t)
      BY <2>4, GotoFields DEF RestoreEnds, PageOK
    <2> QED
      BY <2>1, <2>2, <2>3, <2>4
  <1> QED
    BY <1>1, <1>2, <1>3, JobsStay

\* The end of a page's restoration brings the schedules back; one that fails
\* leaves the host to be initialized again.
LEMMA PageJobs ==
    ASSUME Inv, JobsInv, NEW t \in Threads, LoopFails(t) \/ Restored(t)
    PROVE  JobsInv'
  <1> USE DEF Inv
  <1>1. OthersStay(t) /\ thread'[t].task = "none" /\ config' = config
    <2> DEFINE r == CASE thread[t].task = "index" -> [Idle EXCEPT !.at = "clean"]
                      [] thread[t].task = "start" ->
                            [Idle EXCEPT !.at = "launch", !.s = thread[t].goal]
                      [] OTHER -> IF LoopFails(t) THEN Idle ELSE [Idle EXCEPT !.at = "check"]
    <2>1. r.task = "none"
      BY DEF Idle
    <2>2. thread' = [thread EXCEPT ![t] = r] /\ config' = config
      BY DEF LoopFails, Restored
    <2> HIDE DEF r
    <2> QED
      BY <2>1, <2>2 DEF ThreadsOK, OthersStay
  <1>2. SameSchedule /\ PageOK(t)'
    BY <1>1 DEF SameSchedule, PageOK, Page
  <1>3. CASE LoopFails(t)
    <2>1. jobs' = jobs /\ (initialized' => initialized /\ thread[t].task \notin Page)
      BY <1>3 DEF LoopFails, Page
    <2> QED
      BY <1>1, <1>2, <2>1, JobsStay
  <1>4. CASE Restored(t) /\ thread[t].task = "login"
    <2>1. jobs' = jobs /\ initialized' = initialized /\ thread[t].task \notin Page
      BY <1>4 DEF Restored, Page
    <2> QED
      BY <1>1, <1>2, <2>1, JobsStay
  <1>5. CASE Restored(t) /\ thread[t].task # "login"
    <2>1. jobs' = jobs \cup Scheduled
      BY <1>5 DEF Restored, Scheduled
    <2>2. jobs' = Scheduled'
      BY <1>2, <2>1, ScheduledSame DEF JobsInv
    <2>3. \A u \in Threads : PageOK(u)'
      BY <1>1, <1>2 DEF JobsInv, OthersStay, PageOK
    <2> QED
      BY <2>2, <2>3 DEF JobsInv, JobsMatch, Scheduled
  <1> QED
    BY <1>3, <1>4, <1>5

\* Nothing after restoration is a page's restoration.
LEMMA PendingJobs ==
    ASSUME Inv, JobsInv, NEW t \in Threads,
           \/ CheckPending(t) \/ StartPending(t) \/ PendingEnds(t)
           \/ Clean(t) \/ Refresh(t)
    PROVE  JobsInv'
  <1> USE DEF Inv
  <1>1. /\ jobs' = jobs /\ initialized' = initialized
        /\ thread[t].at \in {"check", "pending", "clean", "refresh"}
    BY DEF CheckPending, StartPending, PendingEnds, Clean, Refresh
  <1>2. thread[t].task \notin Page
    BY <1>1 DEF JobsInv, PageOK
  <1>3. SameSchedule
    <2>1. CASE CheckPending(t) \/ PendingEnds(t)
      BY <2>1 DEF CheckPending, PendingEnds, SameSchedule
    <2>2. CASE StartPending(t)
      <3> DEFINE cleared(s) == [config EXCEPT ![s].error = "none"]
      <3>1. thread[t].todo \subseteq Strategies
        BY DEF ThreadsOK, Thread
      <3>2. \/ config' = config
            \/ \E s \in Strategies : config' = cleared(s)
        BY <2>2, <3>1 DEF StartPending
      <3>3. \A s, r \in Strategies : /\ cleared(s)[r].exists = config[r].exists
                                     /\ cleared(s)[r].scheduled = config[r].scheduled
        BY DEF HostOK, Config
      <3> HIDE DEF cleared
      <3> QED
        BY <3>2, <3>3 DEF SameSchedule
    <2>3. CASE Clean(t)
      <3>1. \A s \in Strategies : config'[s] \in {config[s], Stopped(s)[s]}
        BY <2>3 DEF Clean
      <3> QED
        BY <3>1, StoppedSchedule DEF SameSchedule
    <2>4. CASE Refresh(t)
      <3> DEFINE marked(s) == [config[s] EXCEPT !.running = @ \/ config[s].pid # None]
      <3>1. \A s \in Strategies : config'[s] = Stopped(s)[s] \/ config'[s] = marked(s)
        BY <2>4 DEF Refresh
      <3>2. \A s \in Strategies : config[s] \in Config
        BY DEF HostOK
      <3>3. \A s \in Strategies : /\ marked(s).exists = config[s].exists
                                  /\ marked(s).scheduled = config[s].scheduled
        BY <3>2 DEF Config
      <3> HIDE DEF marked
      <3> QED
        BY <3>1, <3>3, StoppedSchedule DEF SameSchedule
    <2> QED
      BY <2>1, <2>2, <2>3, <2>4
  <1>4. OthersStay(t) /\ thread'[t].task \notin Page
    <2>1. Idle.task \notin Page
      BY DEF Idle, Page
    <2>2. CASE CheckPending(t) \/ PendingEnds(t) \/ Refresh(t)
      BY <1>2, <2>1, <2>2 DEF CheckPending, PendingEnds, Refresh, ThreadsOK, Thread, OthersStay
    <2>3. CASE StartPending(t)
      <3>1. \E s \in thread[t].todo : \E q : \E next \in {"launch", "pending"} :
              thread' = [thread EXCEPT ![t].at = next, ![t].s = q, ![t].todo = @ \ {s},
                                       ![t].back = "pending"]
        BY <2>3 DEF StartPending
      <3> QED
        BY <1>2, <3>1 DEF ThreadsOK, Thread, OthersStay
    <2>4. CASE Clean(t)
      BY <1>2, <2>4, GotoFields DEF Clean
    <2> QED
      BY <2>2, <2>3, <2>4
  <1>5. PageOK(t)'
    BY <1>4 DEF PageOK
  <1> QED
    BY <1>1, <1>2, <1>3, <1>4, <1>5, JobsStay

\* An idle thread takes a request or the end of a download.
LEMMA RequestJobs ==
    ASSUME Inv, JobsInv, NEW t \in Threads,
           Index(t) \/ CheckContracts(t) \/ Downloaded(t)
    PROVE  JobsInv'
  <1> USE DEF Inv
  <1>1. jobs' = jobs /\ config' = config /\ thread[t].at = "idle"
    BY DEF Index, CheckContracts, Downloaded
  <1>2. thread[t].task \notin Page
    BY <1>1 DEF JobsInv, PageOK
  <1>3. /\ OthersStay(t) /\ PageOK(t)'
        /\ initialized' => initialized \/ thread'[t].task \in Page
    <2>1. CASE CheckContracts(t)
      <3>1. Goto(t, "check") /\ initialized' = initialized
        BY <2>1 DEF CheckContracts
      <3> QED
        BY <1>2, <3>1, GotoFields DEF PageOK
    <2>2. CASE Downloaded(t)
      <3>1. /\ initialized' = initialized
            /\ thread' = [thread EXCEPT ![t] = [Idle EXCEPT !.at = "begin", !.task = "login"]]
        BY <2>2 DEF Downloaded
      <3>2. [Idle EXCEPT !.at = "begin", !.task = "login"].task = "login"
        BY DEF Idle
      <3> QED
        BY <3>1, <3>2 DEF ThreadsOK, OthersStay, PageOK, Page
    <2>3. CASE Index(t)
      BY <2>3 DEF Index, ThreadsOK, Idle, OthersStay, PageOK, Page
    <2> QED
      BY <2>1, <2>2, <2>3
  <1> QED
    BY <1>1, <1>2, <1>3, JobsStay DEF SameSchedule

\* An idle thread starts or stops a strategy.
LEMMA StartStopJobs ==
    ASSUME Inv, JobsInv, NEW t \in Threads, NEW s \in Strategies,
           PressStart(t, s) \/ StartJob(t, s) \/ Stop(t, s)
    PROVE  JobsInv'
  <1> USE DEF Inv
  <1>1. jobs' = jobs /\ thread[t].at = "idle"
    BY DEF PressStart, StartJob, Stop
  <1>2. thread[t].task \notin Page
    BY <1>1 DEF JobsInv, PageOK
  <1>3. SameSchedule
    <2>1. CASE Stop(t, s)
      BY <2>1, StoppedSchedule DEF Stop, StopTracked, StopByPid, SameSchedule
    <2>2. CASE ~Stop(t, s)
      BY <2>2 DEF PressStart, StartJob, SameSchedule
    <2> QED
      BY <2>1, <2>2
  <1>4. /\ OthersStay(t) /\ PageOK(t)'
        /\ initialized' => initialized \/ thread'[t].task \in Page
    <2>1. CASE Stop(t, s)
      BY <1>2, <2>1 DEF Stop, OthersStay, PageOK
    <2>2. CASE StartJob(t, s)
      <3>1. /\ initialized' = initialized
            /\ thread' = [thread EXCEPT ![t] = [Idle EXCEPT !.at = "launch", !.s = s]]
        BY <2>2 DEF StartJob
      <3>2. [Idle EXCEPT !.at = "launch", !.s = s].task = "none"
        BY DEF Idle
      <3> QED
        BY <3>1, <3>2 DEF ThreadsOK, OthersStay, PageOK, Page
    <2>3. CASE PressStart(t, s)
      BY <2>3 DEF PressStart, ThreadsOK, Idle, OthersStay, PageOK, Page
    <2> QED
      BY <2>1, <2>2, <2>3
  <1> QED
    BY <1>1, <1>2, <1>3, <1>4, JobsStay

\* The three pages that change a schedule change the job with it.
LEMMA ScheduleJobs ==
    ASSUME Inv, JobsInv, NEW t \in Threads, NEW s \in Strategies,
           ScheduleStrategy(t, s) \/ UnscheduleStrategy(t, s) \/ Delete(t, s)
    PROVE  JobsInv'
  <1> USE DEF Inv
  <1>1. thread[t].at = "idle" /\ initialized' = initialized
    BY DEF ScheduleStrategy, UnscheduleStrategy, Delete
  <1>2. thread[t].task \notin Page
    BY <1>1 DEF JobsInv, PageOK
  <1>3. CASE Delete(t, s) /\ (IsRunning(s) \/ config[s].running)
    <2>1. jobs' = jobs /\ config' = config /\ Goto(t, "wedged")
      BY <1>3 DEF Delete
    <2>2. SameSchedule /\ PageOK(t)'
      BY <1>2, <2>1, GotoFields DEF SameSchedule, PageOK
    <2> QED
      BY <1>1, <1>2, <2>1, <2>2, GotoFields, JobsStay
  <1>4. ASSUME thread' = thread,
               \E b \in BOOLEAN :
                 /\ jobs' = IF b THEN jobs \cup {s} ELSE jobs \ {s}
                 /\ \A r \in Strategies : config'[r].exists /\ config'[r].scheduled
                      <=> IF r = s THEN b ELSE config[r].exists /\ config[r].scheduled
        PROVE  JobsInv'
    <2> PICK b \in BOOLEAN :
               /\ jobs' = IF b THEN jobs \cup {s} ELSE jobs \ {s}
               /\ \A r \in Strategies : config'[r].exists /\ config'[r].scheduled
                    <=> IF r = s THEN b ELSE config[r].exists /\ config[r].scheduled
      BY <1>4
    <2>1. Scheduled' = IF b THEN Scheduled \cup {s} ELSE Scheduled \ {s}
      BY DEF Scheduled, Existing
    <2>2. jobs' \subseteq Scheduled' /\ (jobs = Scheduled => jobs' = Scheduled')
      BY <2>1 DEF JobsInv
    <2>3. JobsMatch'
      BY <1>1, <1>4, <2>2 DEF JobsInv, JobsMatch, Scheduled
    <2> QED
      BY <1>4, <2>2, <2>3 DEF JobsInv, PageOK
  <1>5. CASE ScheduleStrategy(t, s)
    <2>1. /\ thread' = thread /\ jobs' = jobs \cup {s} /\ config[s].exists
          /\ config' = [config EXCEPT ![s].scheduled = TRUE]
      BY <1>5 DEF ScheduleStrategy
    <2>2. \A r \in Strategies : config'[r].exists /\ config'[r].scheduled
            <=> IF r = s THEN TRUE ELSE config[r].exists /\ config[r].scheduled
      BY <2>1 DEF HostOK, Config
    <2> QED
      BY <1>4, <2>1, <2>2
  <1>6. CASE UnscheduleStrategy(t, s)
    <2>1. /\ thread' = thread /\ jobs' = jobs \ {s}
          /\ config' = [config EXCEPT ![s].scheduled = FALSE]
      BY <1>6 DEF UnscheduleStrategy
    <2>2. \A r \in Strategies : config'[r].exists /\ config'[r].scheduled
            <=> IF r = s THEN FALSE ELSE config[r].exists /\ config[r].scheduled
      BY <2>1 DEF HostOK, Config
    <2> QED
      BY <1>4, <2>1, <2>2
  <1>7. CASE Delete(t, s) /\ ~(IsRunning(s) \/ config[s].running)
    <2> DEFINE none == [exists |-> FALSE, running |-> FALSE, pid |-> None,
                        error |-> "none", scheduled |-> FALSE]
    <2>1. /\ thread' = thread
          /\ jobs' = IF config[s].scheduled THEN jobs \ {s} ELSE jobs
          /\ config' = [config EXCEPT ![s] = none]
      BY <1>7 DEF Delete
    <2>2. jobs' = jobs \ {s}
      BY <2>1 DEF JobsInv, Scheduled
    <2>3. \A r \in Strategies : config'[r].exists /\ config'[r].scheduled
            <=> IF r = s THEN FALSE ELSE config[r].exists /\ config[r].scheduled
      BY <2>1 DEF HostOK
    <2> QED
      BY <1>4, <2>1, <2>2, <2>3
  <1> QED
    BY <1>3, <1>5, <1>6, <1>7

LEMMA CrashJobs == ASSUME Inv, Crash PROVE JobsInv'
  <1>1. /\ jobs' = {} /\ initialized' = FALSE
        /\ \A t \in Threads : thread'[t] = Idle
    BY DEF Crash
  <1> QED
    BY <1>1 DEF JobsInv, PageOK, Page, Idle, JobsMatch

\* Once the first page after a start is through, the scheduler has the jobs of
\* exactly the strategies that are listed as scheduled, whatever failed, was
\* deleted or crashed on the way.
THEOREM Schedules == Spec => []JobsMatch
  <1>1. Init => JobsInv
    BY DEF Init, JobsInv, PageOK, Page, Idle, JobsMatch
  <1>2. Inv /\ JobsInv /\ [NextStep]_vars => JobsInv'
    <2> SUFFICES ASSUME Inv, JobsInv, [NextStep]_vars PROVE JobsInv'
      OBVIOUS
    <2>1. ASSUME NEW t \in Threads, Inner(t) \/ Locked(t) PROVE JobsInv'
      BY <2>1, LaunchJobs, RestoreJobs, PageJobs, PendingJobs DEF Inner, Locked
    <2>2. ASSUME NEW t \in Threads, User(t) \/ Downloaded(t) PROVE JobsInv'
      BY <2>2, RequestJobs, StartStopJobs, ScheduleJobs DEF User
    <2>3. CASE \E p \in Pids : Exit(p) \/ Reuse(p)
      BY <2>3, JobsUntouched DEF Exit, Reuse
    <2>4. CASE Login \/ DownloadFails \/ Logout \/ UNCHANGED vars
      BY <2>4, JobsUntouched DEF Login, DownloadFails, Logout, vars, host
    <2> QED
      BY <2>1, <2>2, <2>3, <2>4, CrashJobs DEF NextStep, Step
  <1>3. JobsInv => JobsMatch
    BY DEF JobsInv
  <1> QED
    BY <1>1, <1>2, <1>3, Invariance, PTL DEF Spec

-----------------------------------------------------------------------------
(* Restoration *)

\* What a configuration says of a strategy's process is of a piece.
Whole(c) == \A s \in Strategies : /\ c[s].running <=> c[s].pid # None
                                  /\ c[s].running => c[s].exists

Answered(s) == config[s].running => IsRunning(s)

\* Thread t restores strategies and has dealt with s.
Dealt(t, s) ==
    /\ s \notin thread[t].todo
    /\ \/ thread[t].at = "restore"
       \/ thread[t].at = "adopt" /\ thread[t].s # s
       \/ thread[t].at = "launch" /\ thread[t].back = "restore" /\ thread[t].s # s
       \/ thread[t].at = "save" /\ thread[t].back = "restore"

\* RunningIsTracked is not inductive: a thread that is half way through the
\* strategies has answered for those it has seen, and whatever is saved must be
\* fit to restore from.
RestInv ==
    /\ Whole(config) /\ Whole(file)
    /\ \A t \in Threads, s \in Strategies : Dealt(t, s) => Answered(s)
    /\ restored => \A s \in Strategies : Answered(s)

\* What every step but a crash does to the configuration.
ConfigStep ==
    /\ Whole(config)'
    /\ file' = file \/ file' = config'
    /\ \A s \in Strategies : Answered(s) => Answered(s)'

LEMMA RestStays ==
    ASSUME RestInv, ConfigStep, NEW t \in Threads, OthersStay(t),
           \A s \in Strategies : Dealt(t, s)' => Dealt(t, s) \/ Answered(s)',
           restored' => restored \/ \A s \in Strategies : Answered(s)'
    PROVE  RestInv'
  <1>1. Whole(config)' /\ Whole(file)'
    BY DEF RestInv, ConfigStep, Whole
  <1>2. \A u \in Threads \ {t}, s \in Strategies : Dealt(u, s)' = Dealt(u, s)
    BY DEF OthersStay, Dealt
  <1>3. \A u \in Threads, s \in Strategies : Dealt(u, s)' => Answered(s)'
    BY <1>2 DEF RestInv, ConfigStep
  <1>4. restored' => \A s \in Strategies : Answered(s)'
    BY DEF RestInv, ConfigStep
  <1> QED
    BY <1>1, <1>3, <1>4 DEF RestInv

\* A step of no thread's restoration.
LEMMA RestUntouched ==
    ASSUME RestInv, ConfigStep, thread' = thread, restored' = restored
    PROVE  RestInv'
  <1>1. Whole(config)' /\ Whole(file)'
    BY DEF RestInv, ConfigStep, Whole
  <1>2. \A u \in Threads, s \in Strategies : Dealt(u, s)' = Dealt(u, s)
    BY DEF Dealt
  <1> QED
    BY <1>1, <1>2 DEF RestInv, ConfigStep

LEMMA ConfigSame ==
    ASSUME RestInv, config' = config, file' = file \/ file' = config',
           \A s \in Strategies : IsRunning(s) => IsRunning(s)'
    PROVE  ConfigStep
  BY DEF RestInv, ConfigStep, Whole, Answered

\* A configuration some of whose strategies now have no process.
LEMMA ConfigSilenced ==
    ASSUME RestInv, file' = file \/ file' = config', NEW gone,
           \A s \in gone \cap Strategies : ~config'[s].running /\ config'[s].pid = None,
           \A s \in Strategies \ gone : /\ config'[s].running = config[s].running
                                        /\ config'[s].pid = config[s].pid
                                        /\ config'[s].exists = config[s].exists,
           \A s \in Strategies \ gone : IsRunning(s) => IsRunning(s)'
    PROVE  ConfigStep
  <1> SUFFICES ASSUME NEW s \in Strategies
               PROVE  /\ config'[s].running <=> config'[s].pid # None
                      /\ config'[s].running => config'[s].exists
                      /\ Answered(s) => Answered(s)'
    BY DEF ConfigStep, Whole
  <1>1. CASE s \in gone
    BY <1>1 DEF Answered
  <1>2. CASE s \notin gone
    BY <1>2 DEF Answered, RestInv, Whole
  <1> QED
    BY <1>1, <1>2

\* A row that says its strategy has no process.
LEMMA Silent ==
    ASSUME NEW c \in Config, NEW e
    PROVE  /\ LET d == [c EXCEPT !.running = FALSE, !.pid = None]
              IN  ~d.running /\ d.pid = None /\ d.exists = c.exists
           /\ LET d == [c EXCEPT !.running = FALSE, !.pid = None, !.error = e]
              IN  ~d.running /\ d.pid = None /\ d.exists = c.exists
  BY DEF Config

LEMMA StoppedRows ==
    ASSUME HostOK, NEW s \in Strategies
    PROVE  /\ ~Stopped(s)[s].running /\ Stopped(s)[s].pid = None
           /\ \A r \in Strategies \ {s} : Stopped(s)[r] = config[r]
  BY Silent DEF HostOK, Stopped

LEMMA FailedRows ==
    ASSUME HostOK, NEW s \in Strategies, RestInv
    PROVE  /\ ~Failed(s)[s].running /\ Failed(s)[s].pid = None
           /\ \A r \in Strategies \ {s} : Failed(s)[r] = config[r]
  <1> DEFINE e == IF IsRunning(s) \/ ContractsReady THEN "other" ELSE "waiting"
  <1>1. config \in [Strategies -> Config]
    BY DEF HostOK
  <1> HIDE DEF e
  <1>2. CASE config[s].exists
    <2>1. Failed(s) = [config EXCEPT ![s].running = FALSE, ![s].pid = None, ![s].error = e]
      BY <1>2 DEF Failed, e
    <2> QED
      BY <1>1, <2>1, Silent
  <1>3. CASE ~config[s].exists
    BY <1>3 DEF Failed, RestInv, Whole
  <1> QED
    BY <1>2, <1>3

LEMMA WithoutKind ==
    ASSUME HostOK, NEW ps, NEW s \in Strategies
    PROVE  Without(running, ps)[s].kind = running[s].kind
  BY DEF HostOK, Entry, Without

LEMMA Backs ==
    ASSUME ThreadsOK, NEW t \in Threads, Return(t)
    PROVE  /\ OthersStay(t)
           /\ \/ thread[t].back = "restore" /\ thread'[t].at = "restore"
                 /\ thread'[t].todo = thread[t].todo
              \/ thread'[t].at \in {"idle", "pending"}
  <1>1. thread[t] \in Thread
    BY DEF ThreadsOK
  <1>2. thread' = [thread EXCEPT ![t] = Back(t)]
    BY Returned
  <1>3. CASE thread[t].back = "restore"
    <2>1. Back(t).at = "restore" /\ Back(t).todo = thread[t].todo
      BY <1>1, <1>3 DEF Back, Thread
    <2> QED
      BY <1>2, <1>3, <2>1, ReturnFields DEF ThreadsOK
  <1>4. CASE thread[t].back # "restore"
    <2>1. Back(t).at \in {"idle", "pending"}
      BY <1>1, <1>4 DEF Back, Thread, Idle
    <2> QED
      BY <1>2, <2>1, ReturnFields DEF ThreadsOK
  <1> QED
    BY <1>3, <1>4

LEMMA LaunchRest ==
    ASSUME Inv, RestInv, NEW t \in Threads, LaunchRefused(t)
    PROVE  RestInv'
  <1> USE DEF Inv
  <1> DEFINE s == thread[t].s
  <1>1. /\ s \in Strategies /\ thread[t].at = "launch"
        /\ Return(t) /\ restored' = restored /\ file' = file /\ running' = running
    BY DEF ThreadsOK, LaunchRefused, Thread
  <1>2. config' = IF thread[t].back = "restore" THEN Failed(s) ELSE config
    BY DEF LaunchRefused
  <1>3. \A r \in Strategies : IsRunning(r)' <=> IsRunning(r)
    BY <1>1 DEF IsRunning
  <1> DEFINE gone == IF thread[t].back = "restore" THEN {s} ELSE {}
  <1>4. /\ \A r \in gone \cap Strategies : ~config'[r].running /\ config'[r].pid = None
        /\ \A r \in Strategies \ gone : config'[r] = config[r]
    BY <1>1, <1>2, FailedRows
  <1>5. ConfigStep
    <2> HIDE DEF s, gone
    <2> QED
      BY <1>1, <1>3, <1>4, ConfigSilenced
  <1>6. ASSUME NEW r \in Strategies, Dealt(t, r)' PROVE Dealt(t, r) \/ Answered(r)'
    <2>1. thread[t].back = "restore" /\ r \notin thread[t].todo
      BY <1>1, <1>6, Backs DEF Dealt
    <2>2. CASE r = s
      BY <1>1, <1>4, <2>1, <2>2 DEF Answered
    <2>3. CASE r # s
      BY <1>1, <2>1, <2>3 DEF Dealt
    <2> QED
      BY <2>2, <2>3
  <1> QED
    BY <1>1, <1>5, <1>6, Backs, RestStays

LEMMA StartRest ==
    ASSUME Inv, RestInv, NEW t \in Threads, Launch(t)
    PROVE  RestInv'
  <1> USE DEF Inv
  <1>0. thread[t].s \in Strategies
    BY DEF ThreadsOK, Launch, Thread
  <1> PICK s \in Strategies : s = thread[t].s
    BY <1>0
  <1>1. /\ thread[t].at = "launch"
        /\ Goto(t, "save") /\ restored' = restored /\ file' = file
        /\ ~Refused(s)
    BY DEF Launch
  <1>2. PICK p \in Pids :
          /\ running' = [Without(running, Reaped) EXCEPT ![s] = [kind |-> "popen", pid |-> p]]
          /\ config' = [config EXCEPT ![s].running = TRUE, ![s].pid = p, ![s].error = "none"]
    BY DEF Launch
  <1>3. config[s].exists
    BY <1>1 DEF Refused
  <1>4. thread'[t].at = "save" /\ thread'[t].back = thread[t].back
        /\ thread'[t].todo = thread[t].todo /\ OthersStay(t)
    BY <1>1 DEF ThreadsOK, Thread, Goto, OthersStay
  <1>5. /\ config'[s].running /\ config'[s].pid = p /\ config'[s].exists
        /\ \A r \in Strategies \ {s} : config'[r] = config[r]
    <2>1. \A c \in Config : LET d == [c EXCEPT !.running = TRUE, !.pid = p, !.error = "none"]
                            IN  d.running /\ d.pid = p /\ d.exists = c.exists
      BY DEF Config
    <2>2. config'[s] = [config[s] EXCEPT !.running = TRUE, !.pid = p, !.error = "none"]
      BY <1>1, <1>2 DEF HostOK
    <2>3. \A r \in Strategies \ {s} : config'[r] = config[r]
      BY <1>2 DEF HostOK
    <2> QED
      BY <1>1, <1>3, <2>1, <2>2, <2>3 DEF HostOK
  <1>6. IsRunning(s)' /\ \A r \in Strategies : IsRunning(r) => IsRunning(r)'
    <2>1. Without(running, Reaped) \in [Strategies -> Entry]
      BY WithoutType
    <2>2. \A r \in Strategies \ {s} : running'[r] = Without(running, Reaped)[r]
      BY <1>2, <2>1
    <2>3. running'[s] = [kind |-> "popen", pid |-> p]
      BY <1>1, <1>2, <2>1
    <2> QED
      BY <2>2, <2>3, WithoutKind DEF IsRunning
  <1>7. p # None
    BY HostAssumption
  <1>8. ConfigStep
    <2> SUFFICES ASSUME NEW r \in Strategies
                 PROVE  /\ config'[r].running <=> config'[r].pid # None
                        /\ config'[r].running => config'[r].exists
                        /\ Answered(r) => Answered(r)'
      BY <1>1 DEF ConfigStep, Whole
    <2>1. CASE r = s
      BY <1>5, <1>6, <1>7, <2>1 DEF Answered
    <2>2. CASE r # s
      BY <1>5, <1>6, <2>2 DEF Answered, RestInv, Whole
    <2> QED
      BY <2>1, <2>2
  <1>9. ASSUME NEW r \in Strategies, Dealt(t, r)' PROVE Dealt(t, r) \/ Answered(r)'
    BY <1>1, <1>4, <1>6, <1>9 DEF Dealt, Answered
  <1> QED
    BY <1>1, <1>4, <1>8, <1>9, RestStays

LEMMA SaveRest ==
    ASSUME Inv, RestInv, NEW t \in Threads, Save(t)
    PROVE  RestInv'
  <1> USE DEF Inv
  <1>1. /\ thread[t].at = "save" /\ Return(t)
        /\ config' = config /\ file' = config' /\ running' = running /\ restored' = restored
    BY DEF Save
  <1>2. ConfigStep
    BY <1>1, ConfigSame DEF IsRunning
  <1>3. ASSUME NEW r \in Strategies, Dealt(t, r)' PROVE Dealt(t, r)
    BY <1>1, <1>3, Backs DEF Dealt
  <1> QED
    BY <1>1, <1>2, <1>3, Backs, RestStays

LEMMA BeginRest ==
    ASSUME Inv, RestInv, NEW t \in Threads, Begin(t)
    PROVE  RestInv'
  <1> USE DEF Inv
  <1>1. thread[t].at = "begin" /\ running' = running /\ restored' = restored
    BY DEF Begin
  <1>2. \A r \in Strategies : IsRunning(r)' <=> IsRunning(r)
    BY <1>1 DEF IsRunning
  <1>3. CASE ~broker
    <2>1. Goto(t, "restored") /\ config' = config /\ file' = file
      BY <1>3 DEF Begin
    <2>2. OthersStay(t) /\ thread'[t].at = "restored"
      BY <2>1, GotoFields
    <2>3. ConfigStep
      BY <1>2, <2>1, ConfigSame
    <2> QED
      BY <1>1, <2>2, <2>3, RestStays DEF Dealt
  <1>4. CASE broker /\ ~ready
    <2> DEFINE gone == {s \in Strategies : config[s].exists /\ config[s].running}
    <2>1. /\ Goto(t, "restored") /\ file' = config'
          /\ config' = [s \in Strategies |->
                          IF config[s].exists /\ config[s].running
                          THEN [config[s] EXCEPT !.running = FALSE, !.pid = None,
                                                 !.error = "waiting"]
                          ELSE config[s]]
      BY <1>4 DEF Begin
    <2>2. OthersStay(t) /\ thread'[t].at = "restored"
      BY <2>1, GotoFields
    <2>3. \A r \in gone : ~config'[r].running /\ config'[r].pid = None
      BY <2>1, Silent DEF HostOK
    <2>4. \A r \in Strategies \ gone : config'[r] = config[r]
      BY <2>1
    <2> HIDE DEF gone
    <2>5. ConfigStep
      BY <1>2, <2>1, <2>3, <2>4, ConfigSilenced
    <2> QED
      BY <1>1, <2>2, <2>5, RestStays DEF Dealt
  <1>5. CASE broker /\ ready
    <2>1. /\ thread' = [thread EXCEPT ![t].at = "restore", ![t].todo = Existing,
                                      ![t].known = Existing]
          /\ config' = config /\ file' = file
      BY <1>5 DEF Begin
    <2>2. OthersStay(t) /\ thread'[t].todo = Existing
      BY <2>1 DEF OthersStay, ThreadsOK, Thread
    <2>3. ConfigStep
      BY <1>2, <2>1, ConfigSame
    <2>4. ASSUME NEW r \in Strategies, Dealt(t, r)' PROVE Answered(r)'
      BY <2>1, <2>2, <2>4 DEF Dealt, Existing, RestInv, Whole, Answered
    <2> QED
      BY <1>1, <2>2, <2>3, <2>4, RestStays
  <1> QED
    BY <1>3, <1>4, <1>5 DEF HostOK

LEMMA RestoreRest ==
    ASSUME Inv, RestInv, NEW t \in Threads, Restore(t)
    PROVE  RestInv'
  <1> USE DEF Inv
  <1>1. /\ thread[t].at = "restore" /\ restored' = restored
        /\ config' = config /\ file' = file /\ running' = running
    BY DEF Restore
  <1>2. PICK s \in thread[t].todo :
          LET p == config[s].pid
              next == IF ~config[s].running \/ p = None THEN "restore"
                      ELSE IF IsOurs(s, p) THEN "adopt" ELSE "launch"
          IN  thread' = [thread EXCEPT ![t].at = next, ![t].s = s,
                                       ![t].pid = IF next = "restore" THEN @ ELSE p,
                                       ![t].todo = @ \ {s}, ![t].back = "restore"]
    BY DEF Restore
  <1>3. s \in Strategies /\ thread[t] \in Thread
    BY DEF ThreadsOK, Thread
  <1> DEFINE p == config[s].pid
             next == IF ~config[s].running \/ p = None THEN "restore"
                     ELSE IF IsOurs(s, p) THEN "adopt" ELSE "launch"
             row == [thread[t] EXCEPT !.at = next, !.s = s,
                                      !.pid = IF next = "restore" THEN @ ELSE p,
                                      !.todo = @ \ {s}, !.back = "restore"]
  <1>4. OthersStay(t) /\ thread'[t] = row
    BY <1>2 DEF OthersStay, ThreadsOK
  <1>5. row.at = next /\ row.s = s /\ row.todo = thread[t].todo \ {s}
    <2> HIDE DEF next, p
    <2> QED
      BY <1>3 DEF Thread
  <1>6. next = "restore" => ~config[s].running
    BY <1>3 DEF RestInv, Whole
  <1>7. next \in {"restore", "adopt", "launch"}
    OBVIOUS
  <1> HIDE DEF row, next, p
  <1>8. ConfigStep
    BY <1>1, ConfigSame DEF IsRunning
  <1>9. ASSUME NEW r \in Strategies, Dealt(t, r)' PROVE Dealt(t, r) \/ Answered(r)'
    <2>1. CASE r = s
      <3>1. next = "restore"
        BY <1>4, <1>5, <1>7, <1>9, <2>1 DEF Dealt
      <3> QED
        BY <1>1, <1>6, <2>1, <3>1 DEF Answered
    <2>2. CASE r # s
      BY <1>1, <1>4, <1>5, <1>9, <2>2 DEF Dealt
    <2> QED
      BY <2>1, <2>2
  <1> QED
    BY <1>1, <1>4, <1>8, <1>9, RestStays

LEMMA AdoptRest ==
    ASSUME Inv, RestInv, NEW t \in Threads, Adopt(t)
    PROVE  RestInv'
  <1> USE DEF Inv
  <1>1. /\ thread[t].at = "adopt" /\ restored' = restored /\ Goto(t, "restore")
        /\ config' = config /\ file' = file
    BY DEF Adopt
  <1>2. thread[t].s \in Strategies
    BY <1>1 DEF ThreadsOK, Thread
  <1> PICK s \in Strategies : s = thread[t].s
    BY <1>2
  <1>3. PICK q : running' = [running EXCEPT ![s] = [kind |-> "psutil", pid |-> q]]
    BY DEF Adopt
  <1>4. /\ running'[s].kind = "psutil"
        /\ \A r \in Strategies \ {s} : running'[r] = running[r]
    BY <1>3 DEF HostOK
  <1>5. ConfigStep
    BY <1>1, <1>4, ConfigSame DEF IsRunning
  <1>6. /\ OthersStay(t) /\ thread'[t].at = "restore" /\ thread'[t].todo = thread[t].todo
    BY <1>1 DEF ThreadsOK, Thread, Goto, OthersStay
  <1>7. ASSUME NEW r \in Strategies, Dealt(t, r)' PROVE Dealt(t, r) \/ Answered(r)'
    <2>1. CASE r = s
      BY <1>4, <2>1 DEF Answered, IsRunning
    <2>2. CASE r # s
      BY <1>1, <1>6, <1>7, <2>2 DEF Dealt
    <2> QED
      BY <2>1, <2>2
  <1> QED
    BY <1>1, <1>5, <1>6, <1>7, RestStays

LEMMA RestoreEndsRest ==
    ASSUME Inv, RestInv, NEW t \in Threads, RestoreEnds(t)
    PROVE  RestInv'
  <1> USE DEF Inv
  <1>1. /\ thread[t].at = "restore" /\ thread[t].todo = {} /\ Goto(t, "restored")
        /\ config' = config /\ file' \in {file, config'} /\ running' = running
    BY DEF RestoreEnds
  <1>2. ConfigStep
    BY <1>1, ConfigSame DEF IsRunning
  <1>3. \A s \in Strategies : Answered(s)'
    BY <1>1, <1>2 DEF Dealt, RestInv, ConfigStep
  <1> QED
    BY <1>1, <1>2, <1>3, GotoFields, RestStays

-----------------------------------------------------------------------------
(* The steps that are no part of a restoration *)

\* Where a thread goes that has nothing to restore.
LEMMA Undealt ==
    ASSUME NEW t \in Threads,
           \/ thread'[t].at \notin {"restore", "adopt", "launch", "save"}
           \/ thread'[t].at = "launch" /\ thread'[t].back # "restore"
    PROVE  \A s \in Strategies : ~Dealt(t, s)'
  BY DEF Dealt

\* A thread takes up something other than a restoration.
LEMMA RestElsewhere ==
    ASSUME RestInv, ConfigStep, NEW t \in Threads, OthersStay(t),
           \/ thread'[t].at \notin {"restore", "adopt", "launch", "save"}
           \/ thread'[t].at = "launch" /\ thread'[t].back # "restore",
           restored' = restored
    PROVE  RestInv'
  BY Undealt, RestStays

\* Where a thread goes that begins, or is through with, something else than a
\* restoration.
Paths(t) ==
    \/ LoopFails(t) \/ Restored(t) \/ CheckPending(t) \/ PendingEnds(t)
    \/ Index(t) \/ CheckContracts(t) \/ Downloaded(t)
    \/ \E s \in Strategies : PressStart(t, s) \/ StartJob(t, s)

Away(t) == \/ thread'[t].at \notin {"restore", "adopt", "launch", "save"}
           \/ thread'[t].at = "launch" /\ thread'[t].back # "restore"

LEMMA PathsAway ==
    ASSUME Inv, NEW t \in Threads, Paths(t)
    PROVE  OthersStay(t) /\ Away(t)
  <1> USE DEF Inv
  <1> DEFINE Off(r) == \/ r.at \in {"idle", "begin", "clean", "check", "pending"}
                       \/ r.at = "launch" /\ r.back = "idle"
  <1>1. ASSUME NEW r, Off(r), thread' = [thread EXCEPT ![t] = r]
        PROVE  OthersStay(t) /\ Away(t)
    BY <1>1 DEF ThreadsOK, OthersStay, Away
  <1>2. ASSUME NEW a \in {"clean", "check"}, NEW b \in {"index", "start", "login"},
               NEW s, NEW g
        PROVE  /\ Off(Idle) /\ Off([Idle EXCEPT !.at = a])
               /\ Off([Idle EXCEPT !.at = "launch", !.s = s])
               /\ Off([Idle EXCEPT !.at = "begin", !.task = b])
               /\ Off([Idle EXCEPT !.at = "begin", !.task = b, !.goal = g])
    BY DEF Idle
  <1>3. thread[t] \in Thread /\ Existing \subseteq Strategies
    BY DEF ThreadsOK, Existing
  <1>4. ASSUME NEW r \in Thread, NEW x \in SUBSET Strategies
        PROVE  /\ Off([r EXCEPT !.at = "check"])
               /\ Off([r EXCEPT !.at = "pending", !.todo = x, !.known = x])
    BY DEF Thread
  <1> HIDE DEF Off
  <1>5. CASE LoopFails(t) \/ Restored(t)
    <2>1. PICK r \in {Idle, [Idle EXCEPT !.at = "clean"], [Idle EXCEPT !.at = "check"],
                      [Idle EXCEPT !.at = "launch", !.s = thread[t].goal]} :
              thread' = [thread EXCEPT ![t] = r]
      BY <1>5, Zenon DEF LoopFails, Restored
    <2> QED
      BY <1>1, <1>2, <2>1
  <1>6. CASE CheckPending(t)
    BY <1>1, <1>2, <1>3, <1>4, <1>6 DEF CheckPending, ThreadsOK
  <1>7. CASE CheckContracts(t)
    BY <1>1, <1>3, <1>4, <1>7, Gone DEF CheckContracts
  <1>8. CASE PendingEnds(t)
    BY <1>1, <1>2, <1>8 DEF PendingEnds
  <1>9. CASE Index(t)
    BY <1>1, <1>2, <1>9 DEF Index
  <1>10. CASE Downloaded(t)
    BY <1>1, <1>2, <1>10 DEF Downloaded
  <1>11. CASE \E s \in Strategies : PressStart(t, s) \/ StartJob(t, s)
    BY <1>1, <1>2, <1>11 DEF PressStart, StartJob
  <1> QED
    BY <1>5, <1>6, <1>7, <1>8, <1>9, <1>10, <1>11 DEF Paths

LEMMA PathsRest ==
    ASSUME Inv, RestInv, NEW t \in Threads, Paths(t)
    PROVE  RestInv'
  <1> USE DEF Inv
  <1>1. config' = config /\ running' = running /\ restored' = restored
        /\ (file' = file \/ file' = config')
    BY DEF Paths, LoopFails, Restored, CheckPending, PendingEnds, Index, CheckContracts,
           Downloaded, PressStart, StartJob
  <1>2. ConfigStep
    BY <1>1, ConfigSame DEF IsRunning
  <1> QED
    BY <1>1, <1>2, PathsAway, RestElsewhere DEF Away

LEMMA StartPendingRest ==
    ASSUME Inv, RestInv, NEW t \in Threads, StartPending(t)
    PROVE  RestInv'
  <1> USE DEF Inv
  <1>1. running' = running /\ restored' = restored /\ file' = file
    BY DEF StartPending
  <1>2. PICK s \in thread[t].todo :
          LET waits == config[s].error = "waiting" IN
          /\ config' = IF waits THEN [config EXCEPT ![s].error = "none"] ELSE config
          /\ thread' = [thread EXCEPT ![t].at = IF waits THEN "launch" ELSE "pending",
                                      ![t].s = IF waits THEN s ELSE @,
                                      ![t].todo = @ \ {s}, ![t].back = "pending"]
    BY DEF StartPending
  <1>3. \A c \in Config : LET d == [c EXCEPT !.error = "none"]
                          IN  d.running = c.running /\ d.pid = c.pid /\ d.exists = c.exists
    BY DEF Config
  <1>4. \A r \in Strategies : /\ config'[r].running = config[r].running
                              /\ config'[r].pid = config[r].pid
                              /\ config'[r].exists = config[r].exists
    BY <1>2, <1>3 DEF HostOK
  <1>5. ConfigStep
    BY <1>1, <1>4 DEF RestInv, ConfigStep, Whole, Answered, IsRunning
  <1>6. /\ OthersStay(t) /\ thread'[t].back = "pending"
        /\ thread'[t].at \in {"launch", "pending"}
    BY <1>2 DEF ThreadsOK, Thread, OthersStay
  <1> QED
    BY <1>1, <1>5, <1>6, RestElsewhere

LEMMA CleanRest ==
    ASSUME Inv, RestInv, NEW t \in Threads, Clean(t)
    PROVE  RestInv'
  <1> USE DEF Inv
  <1> DEFINE dead == {s \in Strategies : IsDead(s)}
             gone == {running[s].pid : s \in dead} \ {None}
  <1>1. /\ running' = [s \in Strategies |-> IF s \in dead THEN NotRunning
                                            ELSE Without(running, gone)[s]]
        /\ config' = [s \in Strategies |-> IF s \in dead THEN Stopped(s)[s] ELSE config[s]]
        /\ file' = file \/ file' = config'
        /\ Goto(t, "refresh") /\ restored' = restored
    BY DEF Clean
  <1> HIDE DEF gone, dead
  <1>2. ConfigStep
    <2>1. \A r \in Strategies \ dead : running'[r].kind = running[r].kind
      BY <1>1, WithoutKind
    <2>2. \A r \in Strategies \ dead : config'[r] = config[r]
      BY <1>1
    <2>3. \A r \in dead \cap Strategies : ~config'[r].running /\ config'[r].pid = None
      BY <1>1, StoppedRows
    <2> QED
      BY <1>1, <2>1, <2>2, <2>3, ConfigSilenced DEF IsRunning
  <1> QED
    BY <1>1, <1>2, GotoFields, RestElsewhere

LEMMA RefreshRest ==
    ASSUME Inv, RestInv, NEW t \in Threads, Refresh(t)
    PROVE  RestInv'
  <1> USE DEF Inv
  <1> DEFINE dead == {s \in Existing : config[s].pid # None /\ ~IsAlive(config[s].pid)}
  <1>1. /\ config' = [s \in Strategies |->
                        IF s \in dead THEN Stopped(s)[s]
                        ELSE [config[s] EXCEPT !.running = @ \/ config[s].pid # None]]
        /\ file' = file \/ file' = config'
        /\ thread' = [thread EXCEPT ![t] = Idle]
        /\ running' = running /\ restored' = restored
    BY DEF Refresh
  <1> HIDE DEF dead
  <1>2. ASSUME NEW r \in Strategies \ dead
        PROVE  /\ config'[r].running = config[r].running
               /\ config'[r].pid = config[r].pid
               /\ config'[r].exists = config[r].exists
    <2>1. config[r] \in Config /\ config[r].running = (config[r].running \/ config[r].pid # None)
      BY <1>2 DEF HostOK, Config, RestInv, Whole
    <2>2. config'[r] = [config[r] EXCEPT !.running = @ \/ config[r].pid # None]
      BY <1>1, <1>2
    <2> QED
      BY <2>1, <2>2 DEF Config
  <1>3. ConfigStep
    <2>1. \A r \in dead \cap Strategies : ~config'[r].running /\ config'[r].pid = None
      BY <1>1, StoppedRows
    <2> QED
      BY <1>1, <1>2, <2>1, ConfigSilenced DEF IsRunning
  <1>4. OthersStay(t) /\ thread'[t].at = "idle"
    BY <1>1 DEF ThreadsOK, OthersStay, Idle
  <1> QED
    BY <1>1, <1>3, <1>4, RestElsewhere

LEMMA StopRest ==
    ASSUME Inv, RestInv, NEW t \in Threads, NEW s \in Strategies, Stop(t, s)
    PROVE  RestInv'
  <1> USE DEF Inv
  <1>1. /\ config' = Stopped(s) /\ file' = config'
        /\ thread' = thread /\ restored' = restored
    BY DEF Stop, StopTracked, StopByPid
  <1>2. \A r \in Strategies \ {s} : running'[r].kind = running[r].kind
    <2>1. PICK ps : \/ running' = [Without(running, ps) EXCEPT ![s] = NotRunning]
                    \/ running' = Without(running, ps)
      BY DEF Stop, StopTracked, StopByPid
    <2>2. Without(running, ps) \in [Strategies -> Entry]
      BY WithoutType
    <2>3. \A r \in Strategies \ {s} : running'[r] = Without(running, ps)[r]
      BY <2>1, <2>2
    <2> QED
      BY <2>3, WithoutKind
  <1>3. ConfigStep
    <2> DEFINE gone == {s}
    <2>1. \A r \in gone \cap Strategies : ~config'[r].running /\ config'[r].pid = None
      BY <1>1, StoppedRows
    <2>2. \A r \in Strategies \ gone : config'[r] = config[r]
      BY <1>1, StoppedRows
    <2>3. \A r \in Strategies \ gone : IsRunning(r) => IsRunning(r)'
      BY <1>2 DEF IsRunning
    <2> HIDE DEF gone
    <2> QED
      BY <1>1, <2>1, <2>2, <2>3, ConfigSilenced
  <1> QED
    BY <1>1, <1>3, RestUntouched

\* The pages that change a schedule.
LEMMA ScheduleRest ==
    ASSUME Inv, RestInv, NEW t \in Threads, NEW s \in Strategies,
           ScheduleStrategy(t, s) \/ UnscheduleStrategy(t, s)
    PROVE  RestInv'
  <1> USE DEF Inv
  <1>1. PICK b \in BOOLEAN : config' = [config EXCEPT ![s].scheduled = b]
    BY DEF ScheduleStrategy, UnscheduleStrategy
  <1>2. /\ file' = config' /\ running' = running
        /\ thread' = thread /\ restored' = restored
    BY DEF ScheduleStrategy, UnscheduleStrategy
  <1>3. \A c \in Config : LET d == [c EXCEPT !.scheduled = b]
                          IN  d.running = c.running /\ d.pid = c.pid /\ d.exists = c.exists
    BY DEF Config
  <1>4. \A r \in Strategies : /\ config'[r].running = config[r].running
                              /\ config'[r].pid = config[r].pid
                              /\ config'[r].exists = config[r].exists
    BY <1>1, <1>3 DEF HostOK
  <1>5. ConfigStep
    BY <1>2, <1>4 DEF RestInv, ConfigStep, Whole, Answered, IsRunning
  <1> QED
    BY <1>2, <1>5, RestUntouched

LEMMA DeleteRest ==
    ASSUME Inv, RestInv, NEW t \in Threads, NEW s \in Strategies, Delete(t, s)
    PROVE  RestInv'
  <1> USE DEF Inv
  <1>1. running' = running /\ restored' = restored
    BY DEF Delete
  <1>2. CASE IsRunning(s) \/ config[s].running
    <2>1. config' = config /\ file' = file /\ Goto(t, "wedged")
      BY <1>2 DEF Delete
    <2>2. ConfigStep
      BY <1>1, <2>1, ConfigSame DEF IsRunning
    <2> QED
      BY <1>1, <2>1, <2>2, GotoFields, RestElsewhere
  <1>3. CASE ~(IsRunning(s) \/ config[s].running)
    <2> DEFINE none == [exists |-> FALSE, running |-> FALSE, pid |-> None,
                        error |-> "none", scheduled |-> FALSE]
               gone == {s}
    <2>1. config' = [config EXCEPT ![s] = none] /\ file' = config' /\ thread' = thread
      BY <1>3 DEF Delete
    <2>2. \A r \in gone \cap Strategies : ~config'[r].running /\ config'[r].pid = None
      BY <2>1 DEF HostOK
    <2>3. \A r \in Strategies \ gone : config'[r] = config[r]
      BY <2>1 DEF HostOK
    <2> HIDE DEF gone, none
    <2>4. ConfigStep
      BY <1>1, <2>1, <2>2, <2>3, ConfigSilenced DEF IsRunning
    <2> QED
      BY <1>1, <2>1, <2>4, RestUntouched
  <1> QED
    BY <1>2, <1>3

\* Programs end and pids are given out again, sessions come and go.
LEMMA OutsideRest ==
    ASSUME Inv, RestInv,
           \/ \E p \in Pids : Exit(p) \/ Reuse(p)
           \/ Login \/ DownloadFails \/ Logout \/ UNCHANGED vars
    PROVE  RestInv'
  <1> USE DEF Inv
  <1>1. config' = config /\ file' = file /\ thread' = thread /\ restored' = restored
    BY DEF Exit, Reuse, Login, DownloadFails, Logout, vars, host
  <1>2. \A s \in Strategies : running'[s].kind = running[s].kind
    <2>1. CASE \E p \in Pids : Exit(p)
      BY <2>1, WithoutKind DEF Exit
    <2>2. CASE \/ \E p \in Pids : Reuse(p)
               \/ Login \/ DownloadFails \/ Logout \/ UNCHANGED vars
      BY <2>2 DEF Reuse, Login, DownloadFails, Logout, vars, host
    <2> QED
      BY <2>1, <2>2
  <1>3. ConfigStep
    BY <1>1, <1>2, ConfigSame DEF IsRunning
  <1> QED
    BY <1>1, <1>3, RestUntouched

LEMMA CrashRest ==
    ASSUME Inv, RestInv, Crash
    PROVE  RestInv'
  <1>1. /\ restored' = FALSE /\ config' = file'
        /\ \A t \in Threads : thread'[t] = Idle
    BY DEF Crash
  <1>2. Whole(file)'
    BY DEF Crash, RestInv, Whole
  <1>3. \A t \in Threads, s \in Strategies : ~Dealt(t, s)'
    BY <1>1, Undealt DEF Idle
  <1> QED
    BY <1>1, <1>2, <1>3 DEF RestInv, Whole

LEMMA StepRest == Inv /\ RestInv /\ [NextStep]_vars => RestInv'
  <1> SUFFICES ASSUME Inv, RestInv, [NextStep]_vars PROVE RestInv'
    OBVIOUS
  <1>1. ASSUME NEW t \in Threads, Inner(t) \/ Locked(t) PROVE RestInv'
    BY <1>1, LaunchRest, StartRest, SaveRest, BeginRest, RestoreRest, AdoptRest,
       RestoreEndsRest, PathsRest, StartPendingRest, CleanRest, RefreshRest DEF Inner, Locked, Paths
  <1>2. ASSUME NEW t \in Threads, User(t) \/ Downloaded(t) PROVE RestInv'
    BY <1>2, PathsRest, StopRest, ScheduleRest, DeleteRest DEF User, Paths
  <1> QED
    BY <1>1, <1>2, OutsideRest, CrashRest DEF NextStep, Step

\* After restoration no strategy is listed as running that the host does not
\* track, whichever thread restored, launched, stopped or refreshed meanwhile.
THEOREM Restoration == Spec => []RunningIsTracked
  <1>1. Init => RestInv
    BY DEF Init, RestInv, Whole, Dealt, Idle, Answered
  <1>2. RestInv => RunningIsTracked
    BY DEF RestInv, RunningIsTracked, Settled, Answered
  <1> QED
    BY <1>1, <1>2, StepRest, Invariance, PTL DEF Spec

-----------------------------------------------------------------------------
(* One process for each strategy *)

\* An entry that is not there has no process.
EntryInv == \A s \in Strategies : ~IsRunning(s) => running[s].pid = None

Found(p, s) ==
    /\ ~IsRunning(s)
    /\ config[s].running /\ config[s].pid = p

\* What thread t is about to do to the entry of s suits process p.
Fits(t, s, p) ==
    thread[t].s = s =>
        /\ thread[t].at = "adopt" => thread[t].pid = p
        /\ ~(thread[t].at = "launch" /\ thread[t].back = "restore")

\* A process that is not tracked, and that nothing accounts for, is still to be
\* found: the configuration names it, its strategy has no entry, and whichever
\* thread restores that strategy is about to adopt it.
FoundInv ==
    \A p \in Untracked \ Missed, s \in Strategies : procs[p].of = s =>
        Found(p, s) /\ \A t \in Threads : Fits(t, s, p)

TrackInv == EntryInv /\ FoundInv

\* Once strategies are restored nothing is left to be found.
LEMMA FoundSettles == RestInv /\ FoundInv => TrackedOnce
  <1> SUFFICES ASSUME RestInv, FoundInv, Settled, NEW p \in Untracked \ Missed
               PROVE  FALSE
    BY DEF TrackedOnce, Untracked
  <1>1. PICK s \in Strategies : procs[p].of = s
    BY DEF Untracked, Live
  <1> QED
    BY <1>1 DEF FoundInv, Found, RestInv, Answered, Settled

\* What the history adds up to.
LEMMA Noted ==
    ASSUME Note
    PROVE  /\ Live' \cap Missed \subseteq Missed'
           /\ Live' \cap Unsaved \subseteq Missed'
           /\ Live' \cap Forgotten \subseteq Missed'
           /\ Live' \cap Overtaken \subseteq Missed'
  <1> DEFINE live == Live'
             u == live \cap (missed.unsaved \cup Unsaved)
             f == live \cap (missed.forgotten \cup (Forgotten \ Missed))
             r == live \cap (missed.raced \cup (Overtaken \ Missed))
  <1>1. missed' = [unsaved |-> u, forgotten |-> f, raced |-> r]
    BY DEF Note
  <1> HIDE DEF u, f, r
  <1>2. Missed' = u \cup f \cup r
    BY <1>1 DEF Missed
  <1>3. live \cap Missed \subseteq u \cup f \cup r
    BY DEF Missed, u, f, r
  <1>4. /\ live \cap Unsaved \subseteq u
        /\ live \cap Forgotten \subseteq f \cup Missed
        /\ live \cap Overtaken \subseteq r \cup Missed
    BY DEF u, f, r
  <1> QED
    BY <1>2, <1>3, <1>4

\* What steps other than a crash and the adoption of a process do: whatever runs
\* a strategy is tracked, or it ran it and was not tracked before either.
TrackStep == \A p \in Live' : \/ p \in Tracked'
                              \/ p \in Untracked /\ procs'[p].of = procs[p].of

\* A process that was still to be found is so after a step, unless the step
\* accounts for it.
FoundStep(p, s) ==
    p \in Untracked' => \/ p \in Unsaved \cup Forgotten \cup Overtaken
                        \/ Found(p, s)' /\ \A t \in Threads : Fits(t, s, p)'

FoundSteps ==
    \A p \in Untracked, s \in Strategies :
        /\ procs[p].of = s /\ Found(p, s) /\ \A t \in Threads : Fits(t, s, p)
        => FoundStep(p, s)

LEMMA FoundKept ==
    ASSUME FoundInv, TrackStep, FoundSteps, Note
    PROVE  FoundInv'
  <1> SUFFICES ASSUME NEW p \in Untracked' \ Missed', NEW s \in Strategies, procs'[p].of = s
               PROVE  Found(p, s)' /\ \A t \in Threads : Fits(t, s, p)'
    BY DEF FoundInv
  <1>1. p \in Live' /\ p \notin Tracked'
    BY DEF Untracked
  <1>2. p \in Untracked /\ procs[p].of = s
    BY <1>1 DEF TrackStep
  <1>3. p \notin Missed \cup Unsaved \cup Forgotten \cup Overtaken
    BY <1>1, Noted
  <1> QED
    BY <1>2, <1>3 DEF FoundInv, FoundSteps, FoundStep

\* A step of thread t that leaves every strategy without an entry without one,
\* and names what is still to be found as before.
LEMMA FoundQuiet ==
    ASSUME NEW t \in Threads, OthersStay(t),
           \A p \in Untracked, s \in Strategies :
               procs[p].of = s /\ Found(p, s) /\ Fits(t, s, p) /\ p \in Untracked' =>
                   \/ p \in Unsaved \cup Forgotten \cup Overtaken
                   \/ Found(p, s)' /\ Fits(t, s, p)'
    PROVE  FoundSteps
  <1>1. \A p, s : \A u \in Threads \ {t} : Fits(u, s, p)' = Fits(u, s, p)
    BY DEF OthersStay, Fits
  <1> QED
    BY <1>1 DEF FoundSteps, FoundStep

\* Processes end and those tracked go with their entries.
LEMMA TrackVanish ==
    ASSUME Inv, NEW ps,
           \A p \in Pids : procs'[p].alive => p \notin ps /\ procs[p].alive
                                                          /\ procs'[p].of = procs[p].of,
           \A s \in Strategies : running[s].pid \in Pids \ ps =>
                                    running'[s].pid = running[s].pid
    PROVE  TrackStep
  <1> SUFFICES ASSUME NEW p \in Live', p \in Tracked PROVE p \in Tracked'
    BY DEF TrackStep, Live, Untracked
  <1>1. PICK s \in Strategies : running[s].pid = p
    BY DEF Tracked
  <1>2. p \in Pids \ ps
    BY DEF Live
  <1> QED
    BY <1>1, <1>2 DEF Tracked

LEMMA WithoutPids ==
    ASSUME HostOK, NEW ps, NEW s \in Strategies
    PROVE  /\ running[s].pid \notin ps => Without(running, ps)[s] = running[s]
           /\ running[s].pid = None => Without(running, ps)[s].pid = None
  BY DEF HostOK, Entry, Without

\* Steps that leave processes and entries alone.
LEMMA TrackUntouched ==
    ASSUME TrackInv, procs' = procs, running' = running
    PROVE  TrackStep /\ EntryInv'
  BY DEF TrackInv, TrackStep, EntryInv, IsRunning, Live, Tracked, Untracked

LEMMA LaunchTrack ==
    ASSUME Inv, TrackInv, NEW t \in Threads, Launch(t)
    PROVE  TrackStep /\ EntryInv'
  <1> USE DEF Inv
  <1>0. thread[t].s \in Strategies
    BY DEF ThreadsOK, Launch, Thread
  <1> PICK s \in Strategies : s = thread[t].s
    BY <1>0
  <1> PICK p \in Pids :
         /\ procs' = [Freed(Reaped) EXCEPT ![p] = [of |-> s, alive |-> TRUE, child |-> TRUE]]
         /\ running' = [Without(running, Reaped) EXCEPT ![s] = [kind |-> "popen", pid |-> p]]
    BY DEF Launch
  <1>1. ~IsRunning(s)
    BY DEF Launch, Refused
  <1>2. /\ running'[s] = [kind |-> "popen", pid |-> p]
        /\ \A r \in Strategies \ {s} : running'[r] = Without(running, Reaped)[r]
    BY WithoutType
  <1>3. EntryInv'
    <2>1. ASSUME NEW r \in Strategies \ {s}, ~IsRunning(r)' PROVE running'[r].pid = None
      BY <1>2, <2>1, WithoutKind, WithoutPids DEF TrackInv, EntryInv, IsRunning
    <2> QED
      BY <1>2, <2>1 DEF EntryInv, IsRunning
  <1>4. TrackStep
    <2> SUFFICES ASSUME NEW q \in Live', q \in Tracked PROVE q \in Tracked'
      <3>1. ASSUME NEW q \in Live', ~(q \in Live /\ procs'[q].of = procs[q].of)
            PROVE  q \in Tracked'
        <4>1. q \in Pids /\ procs'[q].alive /\ procs'[q].of \in Strategies
          BY DEF Live
        <4>2. CASE q # p
          <5>1. procs'[q] = Freed(Reaped)[q]
            BY <4>1, <4>2, FreedType
          <5>2. q \notin Reaped
            BY <4>1, <5>1 DEF Freed, Free
          <5> QED
            BY <3>1, <4>1, <5>1, <5>2, FreedType DEF Live
        <4>3. CASE q = p
          BY <1>2, <4>3 DEF Tracked
        <4> QED
          BY <4>2, <4>3
      <3> QED
        BY <3>1 DEF TrackStep, Untracked
    <2>1. PICK r \in Strategies : running[r].pid = q
      BY DEF Tracked
    <2>2. q \in Pids /\ procs'[q].alive
      BY DEF Live
    <2>3. CASE q = p
      BY <1>2, <2>3 DEF Tracked
    <2>4. CASE q # p
      <3>1. q \notin Reaped
        <4>1. procs'[q] = Freed(Reaped)[q]
          BY <2>2, <2>4, FreedType
        <4> QED
          BY <2>2, <4>1 DEF Freed, Free
      <3>2. r # s
        BY <1>1, <2>1, <2>2, HostAssumption DEF TrackInv, EntryInv
      <3>3. running'[r].pid = q
        BY <1>2, <2>1, <3>1, <3>2, WithoutPids
      <3> QED
        BY <3>3 DEF Tracked
    <2> QED
      BY <2>3, <2>4
  <1> QED
    BY <1>3, <1>4

LEMMA StopTrack ==
    ASSUME Inv, TrackInv, NEW t \in Threads, NEW s \in Strategies, Stop(t, s)
    PROVE  TrackStep /\ EntryInv'
  <1> USE DEF Inv
  <1>1. PICK ps : /\ procs' = Freed(ps)
                  /\ \/ running' = Without(running, ps)
                     \/ /\ running' = [Without(running, ps) EXCEPT ![s] = NotRunning]
                        /\ running[s].pid \in ps \cup {None}
    <2>1. CASE StopTracked(s)
      <3> DEFINE gone == {running[s].pid} \ {None}
      <3>1. /\ procs' = Freed(gone)
            /\ running' = [Without(running, gone) EXCEPT ![s] = NotRunning]
            /\ running[s].pid \in gone \cup {None}
        BY <2>1 DEF StopTracked
      <3> QED
        BY <3>1
    <2>2. CASE StopByPid(s)
      BY <2>2 DEF StopByPid
    <2> QED
      BY <2>1, <2>2 DEF Stop
  <1>2. \A p \in Pids : procs'[p].alive => p \notin ps /\ procs[p].alive
                                                       /\ procs'[p].of = procs[p].of
    BY <1>1, FreedType DEF Freed, Free
  <1>3. Without(running, ps) \in [Strategies -> Entry]
    BY WithoutType
  <1>4. \A r \in Strategies : \/ running'[r] = Without(running, ps)[r]
                              \/ /\ running'[r] = NotRunning
                                 /\ running[r].pid \in ps \cup {None}
    BY <1>1, <1>3
  <1>5. \A r \in Strategies : running[r].pid \in Pids \ ps => running'[r].pid = running[r].pid
    BY <1>4, WithoutPids, HostAssumption
  <1>6. EntryInv'
    BY <1>4, WithoutKind, WithoutPids DEF TrackInv, EntryInv, IsRunning, NotRunning
  <1> QED
    BY <1>2, <1>5, <1>6, TrackVanish

LEMMA CleanTrack ==
    ASSUME Inv, TrackInv, NEW t \in Threads, Clean(t)
    PROVE  TrackStep /\ EntryInv'
  <1> USE DEF Inv
  <1> DEFINE dead == {s \in Strategies : IsDead(s)}
             gone == {running[s].pid : s \in dead} \ {None}
  <1>1. /\ procs' = Freed(gone)
        /\ running' = [s \in Strategies |-> IF s \in dead THEN NotRunning
                                            ELSE Without(running, gone)[s]]
    BY DEF Clean
  <1>2. \A s \in dead : running[s].pid \in gone \cup {None}
    OBVIOUS
  <1> HIDE DEF dead, gone
  <1>3. \A p \in Pids : procs'[p].alive => p \notin gone /\ procs[p].alive
                                                         /\ procs'[p].of = procs[p].of
    BY <1>1, FreedType DEF Freed, Free
  <1>4. \A r \in Strategies : running[r].pid \in Pids \ gone => running'[r].pid = running[r].pid
    BY <1>1, <1>2, WithoutPids, HostAssumption
  <1>5. EntryInv'
    BY <1>1, WithoutKind, WithoutPids DEF TrackInv, EntryInv, IsRunning, NotRunning
  <1> QED
    BY <1>3, <1>4, <1>5, TrackVanish

\* A program ends, or another one is given its pid.
LEMMA OutsideTrack ==
    ASSUME Inv, TrackInv, NEW p \in Pids, Exit(p) \/ Reuse(p)
    PROVE  TrackStep /\ EntryInv'
  <1> USE DEF Inv
  <1>1. CASE Exit(p)
    <2> DEFINE gone == {p}
    <2>1. \A q \in Pids : procs'[q].alive => q \notin gone /\ procs[q].alive
                                                           /\ procs'[q].of = procs[q].of
      BY <1>1 DEF Exit, Freed, Free, HostOK, Process
    <2>2. running' = running \/ running' = Without(running, gone)
      BY <1>1 DEF Exit
    <2> HIDE DEF gone
    <2>3. \A r \in Strategies : running[r].pid \in Pids \ gone => running'[r].pid = running[r].pid
      BY <2>2, WithoutPids
    <2>4. EntryInv'
      BY <2>2, WithoutKind, WithoutPids DEF TrackInv, EntryInv, IsRunning
    <2> QED
      BY <2>1, <2>3, <2>4, TrackVanish
  <1>2. CASE Reuse(p)
    <2>1. running' = running /\ \A q \in Pids : q # p => procs'[q] = procs[q]
      BY <1>2 DEF Reuse, HostOK
    <2>2. procs'[p].of \notin Strategies
      BY <1>2, HostAssumption DEF Reuse, HostOK
    <2>3. TrackStep
      BY <2>1, <2>2 DEF TrackStep, Live, Tracked, Untracked
    <2> QED
      BY <2>1, <2>3 DEF TrackInv, EntryInv, IsRunning
  <1> QED
    BY <1>1, <1>2

\* An entry that is not there has no process, whatever is adopted.
LEMMA AdoptEntries ==
    ASSUME Inv, EntryInv, NEW t \in Threads, Adopt(t)
    PROVE  EntryInv'
  <1>1. PICK s, q : running' = [running EXCEPT ![s] = [kind |-> "psutil", pid |-> q]]
    BY DEF Adopt
  <1> QED
    BY <1>1 DEF Inv, HostOK, EntryInv, IsRunning

-----------------------------------------------------------------------------
(* What is still to be found *)

LEMMA FoundElsewhere ==
    ASSUME NEW t \in Threads, OthersStay(t),
           thread'[t].at # "adopt", ~(thread'[t].at = "launch" /\ thread'[t].back = "restore"),
           \A p \in Untracked, s \in Strategies :
               procs[p].of = s /\ Found(p, s) /\ Fits(t, s, p) /\ p \in Untracked' =>
                   p \in Unsaved \cup Forgotten \cup Overtaken \/ Found(p, s)'
    PROVE  FoundSteps
  <1>1. \A p, s : Fits(t, s, p)'
    BY DEF Fits
  <1> QED
    BY <1>1, FoundQuiet

LEMMA FoundStill ==
    ASSUME thread' = thread,
           \A p \in Untracked, s \in Strategies :
               procs[p].of = s /\ Found(p, s) /\ p \in Untracked' => Found(p, s)'
    PROVE  FoundSteps
  <1>1. \A p, s, t : Fits(t, s, p)' = Fits(t, s, p)
    BY DEF Fits
  <1> QED
    BY <1>1 DEF FoundSteps, FoundStep

\* Entries and configurations are left as they are.
LEMMA SameFound ==
    ASSUME config' = config, running' = running, NEW p, NEW s
    PROVE  Found(p, s)' = Found(p, s)
  BY DEF Found, IsRunning

LEMMA PathsFound ==
    ASSUME Inv, NEW t \in Threads, Paths(t) \/ Save(t) \/ RestoreEnds(t)
    PROVE  FoundSteps
  <1> USE DEF Inv
  <1>1. config' = config /\ running' = running
    BY DEF Paths, LoopFails, Restored, CheckPending, PendingEnds, Index, CheckContracts,
           Downloaded, PressStart, StartJob, Save, RestoreEnds
  <1>2. CASE Paths(t)
    BY <1>1, <1>2, PathsAway, SameFound, FoundElsewhere DEF Away
  <1>3. CASE Save(t)
    <2>1. Return(t)
      BY <1>3 DEF Save
    <2> QED
      BY <1>1, <2>1, Backs, SameFound, FoundElsewhere
  <1>4. CASE RestoreEnds(t)
    <2>1. OthersStay(t) /\ thread'[t].at = "restored"
      BY <1>4, GotoFields DEF RestoreEnds
    <2> QED
      BY <1>1, <2>1, SameFound, FoundElsewhere
  <1> QED
    BY <1>2, <1>3, <1>4

\* A restart that is refused is none of a process that can still be found.
LEMMA RefusedFound ==
    ASSUME Inv, RestInv, NEW t \in Threads, LaunchRefused(t)
    PROVE  FoundSteps
  <1> USE DEF Inv
  <1>1. /\ thread[t].at = "launch" /\ Return(t) /\ running' = running
        /\ config' = IF thread[t].back = "restore" THEN Failed(thread[t].s) ELSE config
    BY DEF LaunchRefused
  <1>2. thread[t].s \in Strategies
    BY <1>1 DEF ThreadsOK, Thread
  <1> SUFFICES ASSUME NEW p \in Untracked, NEW s \in Strategies, Found(p, s), Fits(t, s, p)
               PROVE  Found(p, s)'
    BY <1>1, Backs, FoundElsewhere
  <1>3. CASE thread[t].back = "restore"
    BY <1>1, <1>2, <1>3, FailedRows DEF Found, Fits, IsRunning
  <1>4. CASE thread[t].back # "restore"
    BY <1>1, <1>4 DEF Found, IsRunning
  <1> QED
    BY <1>3, <1>4

\* A process is started beside one that can still be found by no restoration.
LEMMA LaunchFound ==
    ASSUME Inv, NEW t \in Threads, Launch(t), TrackStep
    PROVE  FoundSteps
  <1> USE DEF Inv
  <1>1. /\ thread[t].at = "launch" /\ thread[t].s \in Strategies
        /\ OthersStay(t) /\ thread'[t].at = "save"
    BY GotoFields DEF ThreadsOK, Launch, Thread
  <1> PICK r \in Strategies : r = thread[t].s
    BY <1>1
  <1> PICK q \in Pids :
         /\ running' = [Without(running, Reaped) EXCEPT ![r] = [kind |-> "popen", pid |-> q]]
         /\ config' = [config EXCEPT ![r].running = TRUE, ![r].pid = q, ![r].error = "none"]
    BY DEF Launch
  <1>2. \A s \in Strategies \ {r} : /\ running'[s] = Without(running, Reaped)[s]
                                     /\ config'[s] = config[s]
    BY WithoutType DEF HostOK
  <1> SUFFICES ASSUME NEW p \in Untracked, NEW s \in Strategies, procs[p].of = s,
                      Found(p, s), Fits(t, s, p), p \in Untracked'
               PROVE  p \in Overtaken \/ Found(p, s)'
    BY <1>1, FoundElsewhere
  <1>3. CASE s = r
    <2>1. thread[t].back # "restore"
      BY <1>1, <1>3 DEF Fits
    <2>2. procs'[p].of = s
      BY DEF TrackStep, Untracked
    <2> QED
      BY <1>1, <1>3, <2>1, <2>2 DEF Overtaken
  <1>4. CASE s # r
    <2>1. running'[s] = Without(running, Reaped)[s] /\ config'[s] = config[s]
      BY <1>2, <1>4
    <2>2. running'[s].kind = running[s].kind
      BY <2>1, WithoutKind
    <2> QED
      BY <2>1, <2>2 DEF Found, IsRunning
  <1> QED
    BY <1>3, <1>4

LEMMA BeginFound ==
    ASSUME Inv, RestInv, NEW t \in Threads, Begin(t)
    PROVE  FoundSteps
  <1> USE DEF Inv
  <1>1. thread[t].at = "begin" /\ running' = running
    BY DEF Begin
  <1>2. CASE ~broker
    <2>1. Goto(t, "restored") /\ config' = config
      BY <1>2 DEF Begin
    <2> QED
      BY <1>1, <2>1, GotoFields, SameFound, FoundElsewhere
  <1>3. CASE broker /\ ~ready
    <2>1. /\ Goto(t, "restored")
          /\ config' = [s \in Strategies |->
                          IF config[s].exists /\ config[s].running
                          THEN [config[s] EXCEPT !.running = FALSE, !.pid = None,
                                                 !.error = "waiting"]
                          ELSE config[s]]
      BY <1>3 DEF Begin
    <2>2. OthersStay(t) /\ thread'[t].at = "restored"
      BY <2>1, GotoFields
    <2>3. ASSUME NEW p \in Untracked, NEW s \in Strategies, Found(p, s)
          PROVE  p \in Forgotten
      <3>1. config[s].running /\ config[s].exists /\ config[s].pid = p
        BY <2>3 DEF Found, RestInv, Whole
      <3>2. config'[s].pid = None
        BY <2>1, <3>1, Silent DEF HostOK
      <3> QED
        BY <1>1, <2>2, <3>1, <3>2 DEF Forgotten
    <2> QED
      BY <2>2, <2>3, FoundElsewhere
  <1>4. CASE broker /\ ready
    <2>1. /\ thread' = [thread EXCEPT ![t].at = "restore", ![t].todo = Existing,
                                      ![t].known = Existing]
          /\ config' = config
      BY <1>4 DEF Begin
    <2>2. OthersStay(t) /\ thread'[t].at = "restore"
      BY <2>1 DEF OthersStay, ThreadsOK, Thread
    <2> QED
      BY <1>1, <2>1, <2>2, SameFound, FoundElsewhere
  <1> QED
    BY <1>2, <1>3, <1>4 DEF HostOK

\* Whoever looks at the process the configuration names goes on to adopt it.
LEMMA RestoreFound ==
    ASSUME Inv, NEW t \in Threads, Restore(t)
    PROVE  FoundSteps
  <1> USE DEF Inv
  <1>1. config' = config /\ running' = running
    BY DEF Restore
  <1> PICK r \in thread[t].todo :
          LET p == config[r].pid
              next == IF ~config[r].running \/ p = None THEN "restore"
                      ELSE IF IsOurs(r, p) THEN "adopt" ELSE "launch"
          IN  thread' = [thread EXCEPT ![t].at = next, ![t].s = r,
                                       ![t].pid = IF next = "restore" THEN @ ELSE p,
                                       ![t].todo = @ \ {r}, ![t].back = "restore"]
    BY DEF Restore
  <1> DEFINE next == IF ~config[r].running \/ config[r].pid = None THEN "restore"
                     ELSE IF IsOurs(r, config[r].pid) THEN "adopt" ELSE "launch"
             pid == IF next = "restore" THEN thread[t].pid ELSE config[r].pid
  <1>2. thread' = [thread EXCEPT ![t].at = next, ![t].s = r, ![t].pid = pid,
                                 ![t].todo = @ \ {r}, ![t].back = "restore"]
    OBVIOUS
  <1>3. next = "adopt" => pid = config[r].pid
    OBVIOUS
  <1>4. ASSUME NEW p \in Untracked, procs[p].of = r, Found(p, r)
        PROVE  next = "adopt"
    <2>1. procs[p].alive /\ p # None
      BY HostAssumption DEF Untracked, Live
    <2>2. IsOurs(r, p)
      BY <1>4, <2>1 DEF IsOurs, Names
    <2> QED
      BY <1>4, <2>1, <2>2 DEF Found
  <1> HIDE DEF next, pid
  <1>5. /\ OthersStay(t) /\ thread'[t].at = next /\ thread'[t].s = r /\ thread'[t].pid = pid
    BY <1>2 DEF OthersStay, ThreadsOK, Thread
  <1> SUFFICES ASSUME NEW p \in Untracked, NEW s \in Strategies, procs[p].of = s, Found(p, s)
               PROVE  Found(p, s)' /\ Fits(t, s, p)'
    BY <1>5, FoundQuiet
  <1>6. Found(p, s)'
    BY <1>1, SameFound
  <1>7. Fits(t, s, p)'
    BY <1>3, <1>4, <1>5 DEF Fits, Found
  <1> QED
    BY <1>6, <1>7

LEMMA PendingFound ==
    ASSUME Inv, NEW t \in Threads, StartPending(t)
    PROVE  FoundSteps
  <1> USE DEF Inv
  <1>1. running' = running
    BY DEF StartPending
  <1>2. PICK r \in thread[t].todo :
          LET waits == config[r].error = "waiting" IN
          /\ config' = IF waits THEN [config EXCEPT ![r].error = "none"] ELSE config
          /\ thread' = [thread EXCEPT ![t].at = IF waits THEN "launch" ELSE "pending",
                                      ![t].s = IF waits THEN r ELSE @,
                                      ![t].todo = @ \ {r}, ![t].back = "pending"]
    BY DEF StartPending
  <1>3. \A c \in Config : LET d == [c EXCEPT !.error = "none"]
                          IN  d.running = c.running /\ d.pid = c.pid
    BY DEF Config
  <1>4. \A s \in Strategies : /\ config'[s].running = config[s].running
                              /\ config'[s].pid = config[s].pid
    BY <1>2, <1>3 DEF HostOK
  <1>5. /\ OthersStay(t) /\ thread'[t].back = "pending"
        /\ thread'[t].at \in {"launch", "pending"}
    BY <1>2 DEF ThreadsOK, Thread, OthersStay
  <1>6. \A p \in Untracked, s \in Strategies : Found(p, s) => Found(p, s)'
    BY <1>1, <1>4 DEF Found, IsRunning
  <1> QED
    BY <1>5, <1>6, FoundElsewhere

\* The cleanup and the page's refresh are about dead processes.
LEMMA CleanFound ==
    ASSUME Inv, NEW t \in Threads, Clean(t)
    PROVE  FoundSteps
  <1> USE DEF Inv
  <1> DEFINE dead == {s \in Strategies : IsDead(s)}
             gone == {running[s].pid : s \in dead} \ {None}
  <1>1. /\ running' = [s \in Strategies |-> IF s \in dead THEN NotRunning
                                            ELSE Without(running, gone)[s]]
        /\ config' = [s \in Strategies |-> IF s \in dead THEN Stopped(s)[s] ELSE config[s]]
        /\ Goto(t, "refresh")
    BY DEF Clean
  <1>2. \A s \in dead : IsRunning(s)
    BY DEF IsDead
  <1> HIDE DEF dead, gone
  <1>3. \A p \in Untracked, s \in Strategies : Found(p, s) => Found(p, s)'
    BY <1>1, <1>2, WithoutKind DEF Found, IsRunning
  <1> QED
    BY <1>1, <1>3, GotoFields, FoundElsewhere

LEMMA RefreshFound ==
    ASSUME Inv, NEW t \in Threads, Refresh(t)
    PROVE  FoundSteps
  <1> USE DEF Inv
  <1> DEFINE dead == {s \in Existing : config[s].pid # None /\ ~IsAlive(config[s].pid)}
             marked(s) == [config[s] EXCEPT !.running = @ \/ config[s].pid # None]
  <1>1. /\ running' = running
        /\ \A s \in Strategies : config'[s] = IF s \in dead THEN Stopped(s)[s] ELSE marked(s)
        /\ thread' = [thread EXCEPT ![t] = Idle]
    BY DEF Refresh
  <1>2. OthersStay(t) /\ thread'[t].at = "idle"
    BY <1>1 DEF ThreadsOK, OthersStay, Idle
  <1>3. ASSUME NEW p \in Untracked, NEW s \in Strategies, Found(p, s)
        PROVE  Found(p, s)'
    <2>1. procs[p].alive /\ p # None
      BY HostAssumption DEF Untracked, Live
    <2>2. s \notin dead
      BY <1>3, <2>1 DEF Found, IsAlive
    <2>3. marked(s).running /\ marked(s).pid = p
      BY <1>3, <2>1 DEF Found, HostOK, Config
    <2> HIDE DEF dead, marked
    <2> QED
      BY <1>1, <1>3, <2>2, <2>3 DEF Found, IsRunning
  <1> QED
    BY <1>2, <1>3, FoundElsewhere

\* Stop ends the process the configuration names, if no entry is there.
LEMMA StopFound ==
    ASSUME Inv, NEW t \in Threads, NEW r \in Strategies, Stop(t, r)
    PROVE  FoundSteps
  <1> USE DEF Inv
  <1>1. thread' = thread
    BY DEF Stop
  <1> SUFFICES ASSUME NEW p \in Untracked, NEW s \in Strategies, Found(p, s), p \in Untracked'
               PROVE  Found(p, s)'
    BY <1>1, FoundStill
  <1>2. PICK ps : /\ procs' = Freed(ps) /\ config' = Stopped(r)
                  /\ \/ running' = Without(running, ps) /\ ps = {config[r].pid}
                     \/ /\ running' = [Without(running, ps) EXCEPT ![r] = NotRunning]
                        /\ IsRunning(r)
    <2>1. CASE StopTracked(r)
      <3> DEFINE gone == {running[r].pid} \ {None}
      <3>1. /\ procs' = Freed(gone) /\ config' = Stopped(r) /\ IsRunning(r)
            /\ running' = [Without(running, gone) EXCEPT ![r] = NotRunning]
        BY <2>1 DEF StopTracked
      <3> QED
        BY <3>1
    <2>2. CASE StopByPid(r)
      BY <2>2 DEF StopByPid
    <2> QED
      BY <2>1, <2>2 DEF Stop
  <1>3. s # r
    <2>1. procs'[p].alive /\ p \in Pids
      BY DEF Untracked, Live
    <2>2. p \notin ps
      BY <1>2, <2>1 DEF Freed, Free
    <2> QED
      BY <1>2, <2>2 DEF Found
  <1>4. Without(running, ps) \in [Strategies -> Entry]
    BY WithoutType
  <1>5. running'[s] = Without(running, ps)[s]
    BY <1>2, <1>3, <1>4
  <1> QED
    BY <1>2, <1>3, <1>5, WithoutKind, StoppedRows DEF Found, IsRunning

LEMMA ScheduleFound ==
    ASSUME Inv, NEW t \in Threads, NEW r \in Strategies,
           ScheduleStrategy(t, r) \/ UnscheduleStrategy(t, r)
    PROVE  FoundSteps
  <1> USE DEF Inv
  <1>1. /\ thread' = thread /\ running' = running
        /\ \E x \in BOOLEAN : config' = [config EXCEPT ![r].scheduled = x]
    BY DEF ScheduleStrategy, UnscheduleStrategy
  <1>2. \A s \in Strategies : config'[s].running = config[s].running /\ config'[s].pid = config[s].pid
    BY <1>1 DEF HostOK, Config
  <1> QED
    BY <1>1, <1>2, FoundStill DEF Found, IsRunning

\* What can still be found is not deleted, for it is listed as running.
LEMMA DeleteFound ==
    ASSUME Inv, NEW t \in Threads, NEW r \in Strategies, Delete(t, r)
    PROVE  FoundSteps
  <1> USE DEF Inv
  <1>1. CASE IsRunning(r) \/ config[r].running
    <2>1. Goto(t, "wedged") /\ config' = config /\ running' = running
      BY <1>1 DEF Delete
    <2> QED
      BY <2>1, GotoFields, SameFound, FoundElsewhere
  <1>2. CASE ~IsRunning(r) /\ ~config[r].running
    <2>1. /\ thread' = thread /\ running' = running
          /\ \A s \in Strategies \ {r} : config'[s] = config[s]
      BY <1>2 DEF Delete, HostOK
    <2> QED
      BY <1>2, <2>1, FoundStill DEF Found, IsRunning
  <1> QED
    BY <1>1, <1>2

\* Programs that end or begin, logins and downloads.
LEMMA OutsideFound ==
    ASSUME Inv,
           \/ \E p \in Pids : Exit(p) \/ Reuse(p)
           \/ Login \/ DownloadFails \/ Logout
    PROVE  FoundSteps
  <1> USE DEF Inv
  <1>1. thread' = thread /\ config' = config
    BY DEF Exit, Reuse, Login, DownloadFails, Logout
  <1>2. running' = running \/ \E ps : running' = Without(running, ps)
    BY DEF Exit, Reuse, Login, DownloadFails, Logout
  <1>3. \A s \in Strategies : running'[s].kind = running[s].kind
    BY <1>2, WithoutKind
  <1> QED
    BY <1>1, <1>3, FoundStill DEF Found, IsRunning

\* An adoption puts the process that is to be found into its entry; what was in
\* that entry is accounted for.
LEMMA AdoptFound ==
    ASSUME Inv, FoundInv, NEW t \in Threads, Adopt(t), Note
    PROVE  FoundInv'
  <1> USE DEF Inv
  <1> DEFINE q == thread[t].pid
  <1>1. thread[t].at = "adopt" /\ procs' = procs /\ config' = config
    BY DEF Adopt
  <1>2. thread[t].s \in Strategies
    BY <1>1 DEF ThreadsOK, Thread
  <1> PICK r \in Strategies : r = thread[t].s
    BY <1>2
  <1>3. running' = [running EXCEPT ![r] =
             [kind |-> "psutil", pid |-> IF Names(r, q) THEN q ELSE None]]
    BY DEF Adopt
  <1>4. /\ running'[r].pid = IF Names(r, q) THEN q ELSE None
        /\ \A s \in Strategies \ {r} : running'[s] = running[s]
    BY <1>3 DEF HostOK
  <1>5. OthersStay(t) /\ thread'[t].at = "restore"
    BY GotoFields DEF Adopt
  <1> SUFFICES ASSUME NEW p \in Untracked' \ Missed', NEW s \in Strategies, procs'[p].of = s
               PROVE  Found(p, s)' /\ \A u \in Threads : Fits(u, s, p)'
    BY DEF FoundInv
  <1>6. p \in Live' /\ p \notin Tracked' /\ p \in Live /\ p # None
    BY <1>1, HostAssumption DEF Untracked, Live
  <1>7. p \notin Tracked
    <2> SUFFICES ASSUME p \in Tracked PROVE FALSE
      OBVIOUS
    <2>1. PICK w \in Strategies : running[w].pid = p
      BY DEF Tracked
    <2>2. w = r
      BY <1>4, <1>6, <2>1 DEF Tracked
    <2>3. procs[p].of = r
      BY <1>6, <2>1, <2>2 DEF AdoptedIsOwn
    <2>4. p \in Overtaken
      BY <1>1, <1>5, <2>3 DEF Overtaken
    <2> QED
      BY <1>6, <2>4, Noted
  <1>8. p \in Untracked \ Missed
    BY <1>6, <1>7, Noted DEF Untracked
  <1>9. Found(p, s) /\ \A u \in Threads : Fits(u, s, p)
    BY <1>1, <1>8 DEF FoundInv
  <1>10. s # r
    <2> SUFFICES ASSUME s = r PROVE FALSE
      OBVIOUS
    <2>1. q = p
      BY <1>1, <1>9 DEF Fits
    <2>2. Names(r, q)
      BY <1>1, <1>6, <2>1 DEF Names
    <2> QED
      BY <1>4, <1>6, <2>1, <2>2 DEF Tracked
  <1>11. Found(p, s)'
    BY <1>1, <1>4, <1>9, <1>10 DEF Found, IsRunning
  <1>12. ASSUME NEW u \in Threads PROVE Fits(u, s, p)'
    <2>1. CASE u = t
      BY <1>5, <2>1 DEF Fits
    <2>2. CASE u # t
      BY <1>5, <1>9, <2>2 DEF Fits, OthersStay
    <2> QED
      BY <2>1, <2>2
  <1> QED
    BY <1>11, <1>12

\* What the file names is to be found after a crash.
LEMMA CrashFound ==
    ASSUME Inv, Crash, Note
    PROVE  FoundInv'
  <1> SUFFICES ASSUME NEW p \in Untracked' \ Missed', NEW s \in Strategies, procs'[p].of = s
               PROVE  Found(p, s)' /\ \A u \in Threads : Fits(u, s, p)'
    BY DEF FoundInv
  <1>1. p \in Live'
    BY DEF Untracked
  <1>2. p \notin Unsaved
    BY <1>1, Noted
  <1>3. crashes' # crashes
    BY DEF Crash, Inv, HostOK
  <1>4. file'[s].running /\ file'[s].pid = p
    BY <1>1, <1>2, <1>3 DEF Unsaved
  <1> QED
    BY <1>4 DEF Crash, Found, Fits, IsRunning, NotRunning, Idle

LEMMA CrashTrack == Crash => EntryInv'
  BY DEF Crash, EntryInv, NotRunning

LEMMA StepTrack == Inv /\ RestInv /\ TrackInv /\ [NextStep]_vars => TrackInv'
  <1> SUFFICES ASSUME Inv, RestInv, TrackInv, [NextStep]_vars PROVE TrackInv'
    OBVIOUS
  <1>1. CASE UNCHANGED vars
    BY <1>1 DEF TrackInv, EntryInv, IsRunning, FoundInv, Found, Fits, Untracked, Missed, Live,
                Tracked, vars, host
  <1>2. CASE NextStep
    <2> DEFINE Good == EntryInv' /\ ((TrackStep /\ FoundSteps) \/ FoundInv')
    <2>0. Note /\ EntryInv /\ FoundInv
      BY <1>2 DEF NextStep, TrackInv
    <2>1. ASSUME NEW t \in Threads, Inner(t) \/ Locked(t) PROVE Good
      <3>1. CASE Adopt(t)
        BY <2>0, <3>1, AdoptEntries, AdoptFound
      <3>2. CASE Launch(t) \/ Clean(t)
        BY <3>2, LaunchTrack, CleanTrack, LaunchFound, CleanFound
      <3>3. CASE procs' = procs /\ running' = running /\ FoundSteps
        BY <3>3, TrackUntouched
      <3> QED
        BY <2>1, <3>1, <3>2, <3>3, PathsFound, RefusedFound, BeginFound, RestoreFound,
           PendingFound, RefreshFound
        DEF Inner, Locked, Save, Begin, Restore, RestoreEnds, LoopFails, Restored, CheckPending,
            StartPending, PendingEnds, Refresh, LaunchRefused, Paths
    <2>2. ASSUME NEW t \in Threads, User(t) \/ Downloaded(t) PROVE Good
      <3>1. CASE \E s \in Strategies : Stop(t, s)
        BY <3>1, StopTrack, StopFound
      <3>2. CASE procs' = procs /\ running' = running /\ FoundSteps
        BY <3>2, TrackUntouched
      <3>3. \/ \E s \in Strategies : Stop(t, s)
            \/ Paths(t)
            \/ \E s \in Strategies : ScheduleStrategy(t, s) \/ UnscheduleStrategy(t, s)
            \/ \E s \in Strategies : Delete(t, s)
        BY <2>2 DEF User, Paths
      <3>4. (\E s \in Strategies : Stop(t, s)) \/ FoundSteps
        BY <3>3, PathsFound, ScheduleFound, DeleteFound
      <3>5. (\E s \in Strategies : Stop(t, s)) \/ (procs' = procs /\ running' = running)
        BY <2>2
        DEF User, Index, CheckContracts, PressStart, StartJob, ScheduleStrategy,
            UnscheduleStrategy, Delete, Downloaded
      <3> QED
        BY <3>1, <3>2, <3>4, <3>5
    <2>3. ASSUME NEW p \in Pids, Exit(p) \/ Reuse(p) PROVE Good
      BY <2>3, OutsideTrack, OutsideFound
    <2>4. ASSUME Login \/ DownloadFails \/ Logout PROVE Good
      BY <2>4, TrackUntouched, OutsideFound DEF Login, DownloadFails, Logout
    <2>5. ASSUME Crash PROVE Good
      BY <2>0, <2>5, CrashTrack, CrashFound
    <2>6. Good
      BY <1>2, <2>1, <2>2, <2>3, <2>4, <2>5 DEF NextStep, Step
    <2> QED
      BY <2>0, <2>6, FoundKept DEF TrackInv
  <1> QED
    BY <1>1, <1>2

\* However threads, crashes and reused pids interleave: once strategies are
\* restored no process of one runs that its entry does not track, and so no
\* second one is started beside it, unless the file did not name it when the
\* application ended, a restoration without contracts forgot it, or a start was
\* before the restoration.
THEOREM OneProcess == Spec => []TrackedOnce
  <1>1. Init => TrackInv
    BY DEF Init, TrackInv, EntryInv, NotRunning, FoundInv, Untracked, Live, Free
  <1>2. Init => RestInv
    BY DEF Init, RestInv, Whole, Dealt, Idle, Answered
  <1> QED
    BY <1>1, <1>2, FoundSettles, StepTrack, StepRest, Invariance, PTL DEF Spec, TrackInv
=================================================================================
