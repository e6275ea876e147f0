------------------------------ MODULE StrategyHost -------------------------------
(***************************************************************************)
(* The host of users' Python strategies: every strategy runs in a process  *)
(* of its own, which survives the application.  Pages, scheduler jobs and  *)
(* the thread of a finished login start, stop and restore strategies.      *)
(*                                                                         *)
(* start, stop, delete and the cleanup hold PROCESS_LOCK, which is not     *)
(* re-entrant; restoration and the status refresh read and write the same  *)
(* dictionaries without it.  One broker; disk and permission errors are    *)
(* left out.                                                               *)
(***************************************************************************)
EXTENDS Naturals, FiniteSets

CONSTANTS
    Strategies,
    Threads,
    Pids,
    Other,        \* a program that is no strategy
    None,
    MaxCrashes, MaxLogins, MaxRequests    \* bounds

ASSUME HostAssumption ==
    /\ Other \notin Strategies /\ None \notin Strategies \cup Pids \cup Threads
    /\ Other # None
    /\ MaxCrashes \in Nat /\ MaxLogins \in Nat /\ MaxRequests \in Nat

VARIABLES
    procs,         \* the machine's processes, by pid
    running,       \* RUNNING_STRATEGIES
    config, file,  \* STRATEGY_CONFIGS and what is saved of it
    jobs,          \* strategies the scheduler has jobs for
    initialized,   \* _initialized
    holder,        \* thread in PROCESS_LOCK
    broker,        \* a login that is not revoked
    ready,         \* the master contract is downloaded
    downloads,     \* downloads under way
    thread,
    restored,      \* history: strategies were restored since the last start
    missed,        \* history: live processes that are not tracked, by the reason
    crashes, logins, requests

host == <<procs, running, config, file, jobs, initialized, holder, broker, ready,
          downloads, thread, restored>>
vars == <<host, missed, crashes, logins, requests>>

Free  == [of |-> None, alive |-> FALSE, child |-> FALSE]
NotRunning == [kind |-> "none", pid |-> None]
Idle  == [at |-> "idle", task |-> "none", back |-> "idle", goal |-> None, s |-> None,
          pid |-> None, todo |-> {}, known |-> {}]

\* A child that is dead and not yet waited for keeps its pid.
Process == [of : Strategies \cup {Other, None}, alive : BOOLEAN, child : BOOLEAN]
\* Once its process is gone an entry has no pid: psutil knows processes by
\* pid and creation time, and Popen remembers what wait returned.
Entry  == [kind : {"none", "popen", "psutil"}, pid : Pids \cup {None}]
Config == [exists : BOOLEAN, running : BOOLEAN, pid : Pids \cup {None},
           error : {"none", "waiting", "other"}, scheduled : BOOLEAN]
Thread ==
    {r \in [at : {"idle", "begin", "restore", "adopt", "restored", "launch", "save",
                  "check", "pending", "clean", "refresh", "wedged"},
            task : {"none", "index", "start", "login"},
            back : {"idle", "restore", "pending"},
            goal : Strategies \cup {None}, s : Strategies \cup {None},
            pid : Pids \cup {None}, todo : SUBSET Strategies, known : SUBSET Strategies] :
       /\ r.at \in {"adopt", "launch"} => r.s \in Strategies
       /\ r.task = "start" => r.goal \in Strategies}

TypeOK ==
    /\ procs   \in [Pids -> Process]
    /\ running \in [Strategies -> Entry]
    /\ config  \in [Strategies -> Config] /\ file \in [Strategies -> Config]
    /\ jobs \subseteq Strategies
    /\ initialized \in BOOLEAN /\ restored \in BOOLEAN
    /\ broker \in BOOLEAN /\ ready \in BOOLEAN /\ downloads \in 0 .. MaxLogins
    /\ thread \in [Threads -> Thread]
    /\ holder \in Threads \cup {None}
    /\ \A t \in Threads : holder = t <=> thread[t].at \in {"save", "wedged"}
    /\ missed \in [unsaved : SUBSET Pids, forgotten : SUBSET Pids, raced : SUBSET Pids]
    /\ crashes \in 0 .. MaxCrashes /\ logins \in 0 .. MaxLogins /\ requests \in 0 .. MaxRequests

Init ==
    /\ procs   = [p \in Pids |-> Free]
    /\ running = [s \in Strategies |-> NotRunning]
    /\ config  = [s \in Strategies |-> [exists |-> TRUE, running |-> FALSE, pid |-> None,
                                        error |-> "none", scheduled |-> FALSE]]
    /\ file = config
    /\ jobs = {} /\ initialized = FALSE /\ restored = FALSE
    /\ holder = None
    /\ broker = FALSE /\ ready = FALSE /\ downloads = 0
    /\ thread = [t \in Threads |-> Idle]
    /\ missed = [unsaved |-> {}, forgotten |-> {}, raced |-> {}]
    /\ crashes = 0 /\ logins = 0 /\ requests = 0

-----------------------------------------------------------------------------
(* Processes *)

IsRunning(s) == running[s].kind # "none"
Existing == {s \in Strategies : config[s].exists}
Zombie(p) == procs[p].of # None /\ ~procs[p].alive
IsAlive(p) == p # None /\ procs[p].alive          \* check_process_status

\* The entries left when the processes of ps are gone for good.
Without(entries, ps) ==
    [s \in Strategies |-> IF entries[s].pid \in ps THEN [entries[s] EXCEPT !.pid = None]
                                                   ELSE entries[s]]
Freed(ps) == [p \in Pids |-> IF p \in ps THEN Free ELSE procs[p]]

\* A program ends by itself.
Exit(p) ==
    /\ procs[p].alive
    /\ procs' = IF procs[p].child THEN [procs EXCEPT ![p].alive = FALSE] ELSE Freed({p})
    /\ running' = IF procs[p].child THEN running ELSE Without(running, {p})
    /\ UNCHANGED <<config, file, jobs, initialized, holder, broker, ready, downloads,
                   thread, restored, crashes, logins, requests>>

\* Some other program is given a pid that was a strategy's.
Reuse(p) ==
    /\ procs[p] = Free
    /\ \E s \in Strategies : config[s].pid = p \/ file[s].pid = p
    /\ procs' = [procs EXCEPT ![p] = [of |-> Other, alive |-> TRUE, child |-> FALSE]]
    /\ UNCHANGED <<running, config, file, jobs, initialized, holder, broker, ready,
                   downloads, thread, restored, crashes, logins, requests>>

-----------------------------------------------------------------------------
(* start_strategy_process *)

Goto(t, at) == thread' = [thread EXCEPT ![t].at = at]
Return(t) == thread' = [thread EXCEPT ![t] = IF thread[t].back = "idle" THEN Idle
                                             ELSE [@ EXCEPT !.at = thread[t].back]]

ContractsReady == broker /\ ready

\* Popen waits for the children whose Popen is no longer referenced.
Reaped == {p \in Pids : Zombie(p) /\ ~\E s \in Strategies : running[s] = [kind |-> "popen", pid |-> p]}
CanFork == \E p \in Pids : Freed(Reaped)[p] = Free

\* Looks at the contracts only.
Mut_Refused(s) == ~config[s].exists \/ ~ContractsReady \/ ~CanFork

Refused(s) == IsRunning(s) \/ ~config[s].exists \/ ~ContractsReady \/ ~CanFork

\* What a refused restart leaves of the configuration.
Failed(s) ==
    IF config[s].exists
    THEN [config EXCEPT ![s].running = FALSE, ![s].pid = None,
                        ![s].error = IF IsRunning(s) \/ ContractsReady THEN "other" ELSE "waiting"]
    ELSE config

\* Leaves a strategy that could not be restarted as it was.
Mut_LaunchRefused(t) ==
    /\ thread[t].at = "launch" /\ holder = None
    /\ Refused(thread[t].s)
    /\ Return(t)
    /\ UNCHANGED <<procs, running, config, file, jobs, initialized, holder, broker,
                   ready, downloads, restored, crashes, logins, requests>>

\* Waits for the contracts.
Mut_LaunchWaits(t) ==
    /\ thread[t].at = "launch" /\ holder = None
    /\ Refused(thread[t].s) /\ ContractsReady
    /\ config' = IF thread[t].back = "restore" THEN Failed(thread[t].s) ELSE config
    /\ Return(t)
    /\ UNCHANGED <<procs, running, file, jobs, initialized, holder, broker, ready,
                   downloads, restored, crashes, logins, requests>>

LaunchRefused(t) ==
    /\ thread[t].at = "launch" /\ holder = None
    /\ Refused(thread[t].s)
    /\ config' = IF thread[t].back = "restore" THEN Failed(thread[t].s) ELSE config
    /\ Return(t)
    /\ UNCHANGED <<procs, running, file, jobs, initialized, holder, broker, ready,
                   downloads, restored, crashes, logins, requests>>

Launch(t) ==
    LET s == thread[t].s IN
    /\ thread[t].at = "launch" /\ holder = None
    /\ ~Refused(s)
    /\ \E p \in Pids :
         /\ Freed(Reaped)[p] = Free
         /\ procs' = [Freed(Reaped) EXCEPT ![p] = [of |-> s, alive |-> TRUE, child |-> TRUE]]
         /\ running' = [Without(running, Reaped) EXCEPT ![s] = [kind |-> "popen", pid |-> p]]
         /\ config' = [config EXCEPT ![s].running = TRUE, ![s].pid = p, ![s].error = "none"]
    /\ holder' = t
    /\ Goto(t, "save")
    /\ UNCHANGED <<file, jobs, initialized, broker, ready, downloads, restored,
                   crashes, logins, requests>>

\* Keeps the lock.
Mut_Save(t) ==
    /\ thread[t].at = "save"
    /\ file' = config
    /\ Return(t)
    /\ UNCHANGED <<procs, running, config, jobs, initialized, holder, broker, ready,
                   downloads, restored, crashes, logins, requests>>

Save(t) ==
    /\ thread[t].at = "save"
    /\ file' = config
    /\ holder' = None
    /\ Return(t)
    /\ UNCHANGED <<procs, running, config, jobs, initialized, broker, ready, downloads,
                   restored, crashes, logins, requests>>

-----------------------------------------------------------------------------
(* stop_strategy_process; the pages and the stop job end with it *)

Stopped(s) == [config EXCEPT ![s].running = FALSE, ![s].pid = None]

StopTracked(s) ==
    LET gone == {running[s].pid} \ {None} IN
    /\ IsRunning(s)
    /\ procs'   = Freed(gone)
    /\ running' = [Without(running, gone) EXCEPT ![s] = NotRunning]
    /\ config'  = Stopped(s) /\ file' = config'

\* Whatever program has the pid by now.
StopByPid(s) ==
    /\ ~IsRunning(s) /\ IsAlive(config[s].pid)
    /\ procs'   = Freed({config[s].pid})
    /\ running' = Without(running, {config[s].pid})
    /\ config'  = Stopped(s) /\ file' = config'

Stop(t, s) ==
    /\ thread[t].at = "idle" /\ holder = None
    /\ config[s].exists
    /\ StopTracked(s) \/ StopByPid(s)
    /\ UNCHANGED <<jobs, initialized, holder, broker, ready, downloads, thread, restored,
                   crashes, logins, requests>>

-----------------------------------------------------------------------------
(* restore_strategy_states *)

\* Any program that has the pid will do.
Mut_Names(s, p) == p # None /\ procs[p].of # None

\* The command line of p names the file of s.  The code looks for the path as a
\* substring; a path is that of the directory, the name and .py, so it is part of
\* another's only if that name begins with this one and .py, which is left out.
Names(s, p) == p # None /\ procs[p].of = s

\* That of a zombie is empty.
IsOurs(s, p) == Names(s, p) /\ procs[p].alive

\* A login's check of what is pending comes after restoration.
Begin(t) ==
    /\ thread[t].at = "begin"
    /\ CASE ~broker ->
              /\ Goto(t, "restored")
              /\ UNCHANGED <<config, file>>
         [] broker /\ ~ready ->
              /\ config' = [s \in Strategies |->
                              IF config[s].exists /\ config[s].running
                              THEN [config[s] EXCEPT !.running = FALSE, !.pid = None,
                                                     !.error = "waiting"]
                              ELSE config[s]]
              /\ file' = config'
              /\ Goto(t, "restored")
         [] OTHER ->
              /\ thread' = [thread EXCEPT ![t].at = "restore", ![t].todo = Existing,
                                          ![t].known = Existing]
              /\ UNCHANGED <<config, file>>
    /\ UNCHANGED <<procs, running, jobs, initialized, holder, broker, ready, downloads,
                   restored, crashes, logins, requests>>

\* The loop's next strategy.
Restore(t) ==
    /\ thread[t].at = "restore" /\ thread[t].known = Existing
    /\ \E s \in thread[t].todo :
         LET p == config[s].pid
             next == IF ~config[s].running \/ p = None THEN "restore"
                     ELSE IF IsOurs(s, p) THEN "adopt" ELSE "launch"
         IN  thread' = [thread EXCEPT ![t].at = next, ![t].s = s,
                                      ![t].pid = IF next = "restore" THEN @ ELSE p,
                                      ![t].todo = @ \ {s}, ![t].back = "restore"]
    /\ UNCHANGED <<procs, running, config, file, jobs, initialized, holder, broker,
                   ready, downloads, restored, crashes, logins, requests>>

\* The entry is for the process that was looked at, which may be gone.
Adopt(t) ==
    LET s == thread[t].s
        p == thread[t].pid
    IN  /\ thread[t].at = "adopt"
        /\ running' = [running EXCEPT ![s] =
             [kind |-> "psutil", pid |-> IF Names(s, p) THEN p ELSE None]]
        /\ Goto(t, "restore")
        /\ UNCHANGED <<procs, config, file, jobs, initialized, holder, broker, ready,
                       downloads, restored, crashes, logins, requests>>

\* Saved if some strategy was restored or failed.
RestoreEnds(t) ==
    /\ thread[t].at = "restore" /\ thread[t].known = Existing /\ thread[t].todo = {}
    /\ file' = IF thread[t].pid # None THEN config ELSE file
    /\ restored' = TRUE
    /\ Goto(t, "restored")
    /\ UNCHANGED <<procs, running, config, jobs, initialized, holder, broker, ready,
                   downloads, crashes, logins, requests>>

\* The dictionary changed size under a loop: initialization is due again, a
\* login gives up, a page fails.
LoopFails(t) ==
    /\ thread[t].at \in {"restore", "pending"} /\ thread[t].known # Existing
    /\ initialized' = IF thread[t].task \in {"index", "start"} THEN FALSE ELSE initialized
    /\ thread' = [thread EXCEPT ![t] =
         CASE thread[t].task = "index" -> [Idle EXCEPT !.at = "clean"]
           [] thread[t].task = "start" -> [Idle EXCEPT !.at = "launch", !.s = thread[t].goal]
           [] OTHER -> Idle]
    /\ UNCHANGED <<procs, running, config, file, jobs, holder, broker, ready, downloads,
                   restored, crashes, logins, requests>>

\* The schedules are forgotten.
Mut_Restored(t) ==
    /\ thread[t].at = "restored"
    /\ thread' = [thread EXCEPT ![t] =
         CASE thread[t].task = "index" -> [Idle EXCEPT !.at = "clean"]
           [] thread[t].task = "start" -> [Idle EXCEPT !.at = "launch", !.s = thread[t].goal]
           [] OTHER -> [Idle EXCEPT !.at = "check"]]
    /\ UNCHANGED <<procs, running, config, file, jobs, initialized, holder, broker,
                   ready, downloads, restored, crashes, logins, requests>>

\* A page that restored brings the schedules back and goes on with its own task.
Restored(t) ==
    /\ thread[t].at = "restored"
    /\ jobs' = IF thread[t].task = "login" THEN jobs
               ELSE jobs \cup {s \in Existing : config[s].scheduled}
    /\ thread' = [thread EXCEPT ![t] =
         CASE thread[t].task = "index" -> [Idle EXCEPT !.at = "clean"]
           [] thread[t].task = "start" -> [Idle EXCEPT !.at = "launch", !.s = thread[t].goal]
           [] OTHER -> [Idle EXCEPT !.at = "check"]]
    /\ UNCHANGED <<procs, running, config, file, initialized, holder, broker, ready,
                   downloads, restored, crashes, logins, requests>>

-----------------------------------------------------------------------------
(* check_and_start_pending_strategies *)

CheckPending(t) ==
    /\ thread[t].at = "check"
    /\ thread' = [thread EXCEPT ![t] =
         IF ContractsReady
         THEN [@ EXCEPT !.at = "pending", !.todo = Existing, !.known = Existing]
         ELSE Idle]
    /\ UNCHANGED <<procs, running, config, file, jobs, initialized, holder, broker,
                   ready, downloads, restored, crashes, logins, requests>>

\* The error is cleared whether or not the start succeeds.
StartPending(t) ==
    /\ thread[t].at = "pending" /\ thread[t].known = Existing
    /\ \E s \in thread[t].todo :
         LET waits == config[s].error = "waiting" IN
         /\ config' = IF waits THEN [config EXCEPT ![s].error = "none"] ELSE config
         /\ thread' = [thread EXCEPT ![t].at = IF waits THEN "launch" ELSE "pending",
                                     ![t].s = IF waits THEN s ELSE @,
                                     ![t].todo = @ \ {s}, ![t].back = "pending"]
    /\ UNCHANGED <<procs, running, file, jobs, initialized, holder, broker, ready,
                   downloads, restored, crashes, logins, requests>>

PendingEnds(t) ==
    /\ thread[t].at = "pending" /\ thread[t].known = Existing /\ thread[t].todo = {}
    /\ file' = IF thread[t].s # None THEN config ELSE file
    /\ thread' = [thread EXCEPT ![t] = Idle]
    /\ UNCHANGED <<procs, running, config, jobs, initialized, holder, broker, ready,
                   downloads, restored, crashes, logins, requests>>

-----------------------------------------------------------------------------
(* Pages *)

Request == requests < MaxRequests /\ requests' = requests + 1

Index(t) ==
    /\ thread[t].at = "idle" /\ broker /\ Request
    /\ initialized' = TRUE
    /\ thread' = [thread EXCEPT ![t] = IF initialized THEN [Idle EXCEPT !.at = "clean"]
                                       ELSE [Idle EXCEPT !.at = "begin", !.task = "index"]]
    /\ UNCHANGED <<procs, running, config, file, jobs, holder, broker, ready, downloads,
                   restored, crashes, logins>>

\* cleanup_dead_processes.  To psutil a zombie is running.
IsDead(s) == IsRunning(s) /\ \/ running[s].pid = None
                             \/ running[s].kind = "popen" /\ Zombie(running[s].pid)

Clean(t) ==
    LET dead == {s \in Strategies : IsDead(s)}
        gone == {running[s].pid : s \in dead} \ {None}
    IN  /\ thread[t].at = "clean" /\ holder = None
        /\ procs' = Freed(gone)
        /\ running' = [s \in Strategies |-> IF s \in dead THEN NotRunning
                                            ELSE Without(running, gone)[s]]
        /\ config' = [s \in Strategies |-> IF s \in dead THEN Stopped(s)[s] ELSE config[s]]
        /\ file' = IF dead # {} THEN config' ELSE file
        /\ Goto(t, "refresh")
        /\ UNCHANGED <<jobs, initialized, holder, broker, ready, downloads, restored,
                       crashes, logins, requests>>

\* The state shown is that of whatever has the pid.
Refresh(t) ==
    LET dead == {s \in Existing : config[s].pid # None /\ ~IsAlive(config[s].pid)} IN
    /\ thread[t].at = "refresh"
    /\ config' = [s \in Strategies |->
                    IF s \in dead THEN Stopped(s)[s]
                    ELSE [config[s] EXCEPT !.running = @ \/ config[s].pid # None]]
    /\ file' = IF dead # {} THEN config' ELSE file
    /\ thread' = [thread EXCEPT ![t] = Idle]
    /\ UNCHANGED <<procs, running, jobs, initialized, holder, broker, ready, downloads,
                   restored, crashes, logins, requests>>

PressStart(t, s) ==
    /\ thread[t].at = "idle" /\ broker /\ config[s].exists /\ Request
    /\ initialized' = TRUE
    /\ thread' = [thread EXCEPT ![t] =
         IF initialized THEN [Idle EXCEPT !.at = "launch", !.s = s]
         ELSE [Idle EXCEPT !.at = "begin", !.task = "start", !.goal = s]]
    /\ UNCHANGED <<procs, running, config, file, jobs, holder, broker, ready, downloads,
                   restored, crashes, logins>>

StartJob(t, s) ==
    /\ thread[t].at = "idle" /\ s \in jobs /\ Request
    /\ thread' = [thread EXCEPT ![t] = [Idle EXCEPT !.at = "launch", !.s = s]]
    /\ UNCHANGED <<procs, running, config, file, jobs, initialized, holder, broker,
                   ready, downloads, restored, crashes, logins>>

CheckContracts(t) ==
    /\ thread[t].at = "idle" /\ broker /\ Request
    /\ Goto(t, "check")
    /\ UNCHANGED <<procs, running, config, file, jobs, initialized, holder, broker,
                   ready, downloads, restored, crashes, logins>>

ScheduleStrategy(t, s) ==
    /\ thread[t].at = "idle" /\ broker /\ config[s].exists /\ ~config[s].running
    /\ Request
    /\ jobs'   = jobs \cup {s}
    /\ config' = [config EXCEPT ![s].scheduled = TRUE] /\ file' = config'
    /\ UNCHANGED <<procs, running, initialized, holder, broker, ready, downloads, thread,
                   restored, crashes, logins>>

UnscheduleStrategy(t, s) ==
    /\ thread[t].at = "idle" /\ broker /\ config[s].exists /\ ~config[s].running
    /\ Request
    /\ jobs'   = jobs \ {s}
    /\ config' = [config EXCEPT ![s].scheduled = FALSE] /\ file' = config'
    /\ UNCHANGED <<procs, running, initialized, holder, broker, ready, downloads, thread,
                   restored, crashes, logins>>

\* A running strategy is stopped first, under a lock this thread already holds.
Delete(t, s) ==
    /\ thread[t].at = "idle" /\ broker /\ holder = None /\ config[s].exists
    /\ Request
    /\ IF IsRunning(s) \/ config[s].running
       THEN /\ holder' = t
            /\ Goto(t, "wedged")
            /\ UNCHANGED <<config, file, jobs>>
       ELSE /\ jobs'   = IF config[s].scheduled THEN jobs \ {s} ELSE jobs
            /\ config' = [config EXCEPT ![s] = [exists |-> FALSE, running |-> FALSE, pid |-> None,
                                                error |-> "none", scheduled |-> FALSE]]
            /\ file'   = config'
            /\ UNCHANGED <<holder, thread>>
    /\ UNCHANGED <<procs, running, initialized, broker, ready, downloads, restored,
                   crashes, logins>>

-----------------------------------------------------------------------------
(* Logins, and the end of the application *)

Login ==
    /\ logins < MaxLogins /\ logins' = logins + 1
    /\ broker' = TRUE /\ ready' = FALSE /\ downloads' = downloads + 1
    /\ UNCHANGED <<procs, running, config, file, jobs, initialized, holder, thread,
                   restored, crashes, requests>>

Downloaded(t) ==
    /\ thread[t].at = "idle" /\ downloads > 0
    /\ downloads' = downloads - 1
    /\ ready' = TRUE
    /\ thread' = [thread EXCEPT ![t] = [Idle EXCEPT !.at = "begin", !.task = "login"]]
    /\ UNCHANGED <<procs, running, config, file, jobs, initialized, holder, broker,
                   restored, crashes, logins, requests>>

DownloadFails ==
    /\ downloads > 0
    /\ downloads' = downloads - 1
    /\ ready' = FALSE
    /\ UNCHANGED <<procs, running, config, file, jobs, initialized, holder, broker,
                   thread, restored, crashes, logins, requests>>

Logout ==
    /\ broker /\ broker' = FALSE
    /\ UNCHANGED <<procs, running, config, file, jobs, initialized, holder, ready,
                   downloads, thread, restored, crashes, logins, requests>>

\* The strategies' processes live on; the file may be cut short if it was
\* being written.  The exit hook takes the lock and then stop, which takes it
\* again: an application that is asked to end is killed as well.
Crash ==
    /\ crashes < MaxCrashes /\ crashes' = crashes + 1
    /\ procs' = [p \in Pids |-> IF Zombie(p) THEN Free ELSE [procs[p] EXCEPT !.child = FALSE]]
    /\ running' = [s \in Strategies |-> NotRunning]
    /\ \/ file' = file
       \/ /\ \E t \in Threads : thread[t].at = "save"
          /\ file' = [s \in Strategies |-> [exists |-> FALSE, running |-> FALSE, pid |-> None,
                                            error |-> "none", scheduled |-> FALSE]]
    /\ config' = file'
    /\ jobs' = {} /\ initialized' = FALSE /\ restored' = FALSE
    /\ holder' = None /\ downloads' = 0
    /\ thread' = [t \in Threads |-> Idle]
    /\ UNCHANGED <<broker, ready, logins, requests>>

-----------------------------------------------------------------------------
Inner(t) ==
    \/ Save(t) \/ Begin(t) \/ Restore(t) \/ Adopt(t) \/ RestoreEnds(t) \/ LoopFails(t)
    \/ Restored(t) \/ CheckPending(t) \/ StartPending(t) \/ PendingEnds(t) \/ Refresh(t)
Locked(t) == LaunchRefused(t) \/ Launch(t) \/ Clean(t)

User(t) ==
    \/ Index(t) \/ CheckContracts(t)
    \/ \E s \in Strategies : \/ PressStart(t, s) \/ StartJob(t, s) \/ Stop(t, s)
                             \/ ScheduleStrategy(t, s) \/ UnscheduleStrategy(t, s)
                             \/ Delete(t, s)

Step ==
    \/ \E t \in Threads : Inner(t) \/ Locked(t) \/ User(t) \/ Downloaded(t)
    \/ \E p \in Pids : Exit(p) \/ Reuse(p)
    \/ Login \/ DownloadFails \/ Logout \/ Crash

Live == {p \in Pids : procs[p].alive /\ procs[p].of \in Strategies}
Tracked == {running[s].pid : s \in Strategies}
IsRestoring(t) == \/ thread[t].at \in {"begin", "restore", "adopt"}
                  \/ thread[t].at \in {"launch", "save"} /\ thread[t].back = "restore"
Settled == restored /\ \A t \in Threads : ~IsRestoring(t)

Untracked == Live \ Tracked

\* Live at the crash, and the file does not name it.
Unsaved == {p \in Live' : crashes' # crashes /\ ~\E s \in Strategies :
                 procs'[p].of = s /\ file'[s].running /\ file'[s].pid = p}

\* A restoration that found the contracts not downloaded took its pid out of
\* the configuration.
Forgotten == {p \in Untracked : \E t \in Threads, s \in Strategies :
                 /\ thread[t].at = "begin" /\ thread'[t].at = "restored"
                 /\ config[s].pid = p /\ config'[s].pid = None}

\* A page, a job or a pending start was before the restoration: it started the
\* strategy once more, or its process lost the entry to the one restored.
Overtaken == {p \in Untracked' : \E t \in Threads :
                 /\ procs'[p].of = thread[t].s
                 /\ \/ thread[t].at = "launch" /\ thread'[t].at = "save"
                       /\ thread[t].back # "restore" /\ p \in Untracked
                    \/ thread[t].at = "adopt" /\ thread'[t].at = "restore" /\ p \in Tracked}

Missed == missed.unsaved \cup missed.forgotten \cup missed.raced

Note == missed' = [unsaved   |-> Live' \cap (missed.unsaved \cup Unsaved),
                   forgotten |-> Live' \cap (missed.forgotten \cup (Forgotten \ Missed)),
                   raced     |-> Live' \cap (missed.raced \cup (Overtaken \ Missed))]
NextStep == Step /\ Note

\* A thread that waits for PROCESS_LOCK gets it if it is released again and again.
Spec == Init /\ [][NextStep]_vars
             /\ \A t \in Threads : WF_vars(Inner(t) /\ Note) /\ SF_vars(Locked(t) /\ Note)

-----------------------------------------------------------------------------
(* Properties *)

\* The process tracked for a strategy runs that strategy, although pids are
\* reused and restoration starts from a pid in a file.
AdoptedIsOwn ==
    \A s \in Strategies : running[s].pid # None => procs[running[s].pid].of = s

\* Once strategies are restored, every process of a strategy is the one tracked
\* for it, so that no second one is started.  A process that is not falls under
\* one of three cases: the file did not name it when the application ended, a
\* restoration without contracts forgot it, or a start was before a restoration.
TrackedOnce == Settled => Live \subseteq Tracked \cup Missed

\* "The system detects and handles orphaned processes": none is left over however
\* starts and restorations interleave.
NoneRaced == Settled => Live \subseteq Tracked \cup missed.unsaved \cup missed.forgotten

\* After restoration no strategy is listed as running that the host does not
\* track.
RunningIsTracked ==
    Settled => \A s \in Strategies : config[s].running => IsRunning(s)

\* The scheduler has the jobs of the strategies that are listed as scheduled,
\* from the first page after a start on.
JobsMatch ==
    initialized /\ (\A t \in Threads : thread[t].task \notin {"index", "start"}) =>
        jobs = {s \in Existing : config[s].scheduled}

\* Every call comes back, unless a running strategy is deleted: that one keeps
\* PROCESS_LOCK.
CallsReturn ==
    \A t \in Threads : thread[t].at # "idle" ~>
        thread[t].at = "idle" \/ \E u \in Threads : thread[u].at = "wedged"
=================================================================================
