----------------------------- MODULE SinglePoll -----------------------------
(***************************************************************************)
(* Who may run a polling loop of the hub, and when.                        *)
(*                                                                         *)
(* Every loop body is wrapped by _single_poll (scheduler/hub_scheduler.py):*)
(* one set of names per process decides whether a started coroutine runs   *)
(* or returns at once.  Coroutines are started by the lifespan (one named  *)
(* task per kind), by APScheduler jobs (unnamed tasks, max_instances=1     *)
(* each), by the freshness watchdog job and by POST /internal/kma/run-now. *)
(*                                                                         *)
(* The event loop is single threaded: what lies between two awaits is one  *)
(* action.  A task that was created but has not had its first step yet is  *)
(* visible to run-now and the watchdog, and not to the guard.              *)
(***************************************************************************)
EXTENDS FiniteSets

CONSTANTS
  Kinds,         \* names in _polling_active
  Startup,       \* the lifespan's task, created once per process
  Jobs,          \* APScheduler jobs
  Requests,      \* calls of run-now
  JobsOf,        \* JobsOf[k]: the jobs that run a loop of kind k
  ManualKinds,   \* kinds run-now can trigger
  Watchdog,      \* the job that judges freshness before it runs the loop
  Nobody

Launchers == {Startup} \cup Jobs \cup Requests

ASSUME LaunchersAssumption ==
  /\ JobsOf \in [Kinds -> SUBSET Jobs]
  /\ ManualKinds \subseteq Kinds
  /\ Watchdog \in Jobs
  /\ Startup \notin Jobs \cup Requests
  /\ Jobs \cap Requests = {}
  /\ Nobody \notin Launchers

VARIABLES
  task,           \* task[k][l]: the life of the coroutine l started for kind k
  pollingActive   \* _polling_active

vars == <<task, pollingActive>>

(***************************************************************************)
(* idle: no task; created: task exists, no step taken; looping: inside the *)
(* body; ran / dropped: ended, having run the body or been turned away by  *)
(* the guard; conflict: run-now answered 409 and created nothing.          *)
(***************************************************************************)
Status == {"idle", "created", "looping", "ran", "dropped", "conflict"}
Undone == {"created", "looping"}

TypeOK ==
  /\ task \in [Kinds -> [Launchers -> Status]]
  /\ pollingActive \subseteq Kinds

\* The lifespan creates every startup task before it yields to the server.
Booted ==
  [k \in Kinds |-> [l \in Launchers |-> IF l = Startup THEN "created" ELSE "idle"]]

Init ==
  /\ task = Booted
  /\ pollingActive = {}

SetStatus(k, l, s) == task' = [task EXCEPT ![k][l] = s]

\* Only lifespan tasks and run-now tasks carry the kind's task name.
RunningNamedTask(k) ==
  \E l \in {Startup} \cup Requests : task[k][l] \in Undone

\* APScheduler submits a job: max_instances=1, so not while it still runs.
FireJob(k, j) ==
  /\ j \in JobsOf[k]
  /\ task[k][j] \notin Undone
  /\ SetStatus(k, j, "created")
  /\ UNCHANGED pollingActive

\* POST /internal/kma/run-now: 409 when a named task is undone, else a task.
RunNow(k, r) ==
  /\ k \in ManualKinds
  /\ task[k][r] \notin Undone
  /\ \/ /\ RunningNamedTask(k)
        /\ SetStatus(k, r, "conflict")
     \/ /\ ~RunningNamedTask(k)
        /\ SetStatus(k, r, "created")
  /\ UNCHANGED pollingActive

\* Mutants of Enter: the test dropped; the guard keyed by the caller's name.
EnterUntested(k, l) ==
  /\ pollingActive' = pollingActive \cup {k}
  /\ SetStatus(k, l, "looping")

EnterByLauncher(k, l) ==
  /\ l \notin pollingActive
  /\ pollingActive' = pollingActive \cup {l}
  /\ SetStatus(k, l, "looping")

\* The wrapper's test and add, with no await between them.
Enter(k, l) ==
  \/ /\ k \in pollingActive
     /\ SetStatus(k, l, "dropped")
     /\ UNCHANGED pollingActive
  \/ /\ k \notin pollingActive
     /\ pollingActive' = pollingActive \cup {k}
     /\ SetStatus(k, l, "looping")

\* A plain coroutine's first step is the wrapper itself.
StartLoop(k, l) ==
  /\ l # Watchdog
  /\ task[k][l] = "created"
  /\ Enter(k, l)

\* mid_freshness_watchdog after its queries: everything loaded, or a named
\* task is undone, or straight into the wrapper.
Judge(k) ==
  /\ task[k][Watchdog] = "created"
  /\ \/ /\ SetStatus(k, Watchdog, "ran")
        /\ UNCHANGED pollingActive
     \/ /\ ~RunningNamedTask(k)
        /\ Enter(k, Watchdog)

\* Mutant of EndLoop: no finally, the name stays behind.
EndLoopKeepsName(k, l) ==
  /\ task[k][l] = "looping"
  /\ SetStatus(k, l, "ran")
  /\ UNCHANGED pollingActive

\* The body returns, raises or is cancelled: finally discards the name.
EndLoop(k, l) ==
  /\ task[k][l] = "looping"
  /\ SetStatus(k, l, "ran")
  /\ pollingActive' = pollingActive \ {k}

\* Mutant of CancelStartup: the discard runs although the body never did.
CancelStartupDiscards(k) ==
  /\ task[k][Startup] = "created"
  /\ SetStatus(k, Startup, "ran")
  /\ pollingActive' = pollingActive \ {k}

\* Shutdown cancels the lifespan's tasks; one that never started has no finally.
CancelStartup(k) ==
  /\ task[k][Startup] = "created"
  /\ SetStatus(k, Startup, "ran")
  /\ UNCHANGED pollingActive

\* The process dies with all its tasks and comes back through the lifespan.
Restart ==
  /\ task' = Booted
  /\ pollingActive' = {}

LoopStep(k, l) == StartLoop(k, l) \/ EndLoop(k, l)

Next ==
  \/ \E k \in Kinds :
       \/ \E l \in Launchers : LoopStep(k, l)
       \/ \E j \in Jobs : FireJob(k, j)
       \/ \E r \in Requests : RunNow(k, r)
       \/ Judge(k)
       \/ CancelStartup(k)
  \/ Restart

Spec == Init /\ [][Next]_vars

\* The event loop gives every ready task its next step, and a body ends: it
\* returns at its deadline at the latest.
Fairness ==
  \A k \in Kinds :
    /\ \A l \in Launchers : WF_vars(LoopStep(k, l))
    /\ WF_vars(Judge(k))

FairSpec == Spec /\ Fairness

-----------------------------------------------------------------------------
Looping(k) == {l \in Launchers : task[k][l] = "looping"}

\* No two loops of one kind ever run together in a process, whichever of
\* startup, cron, watchdog and run-now started them (_single_poll).
AtMostOneLoop ==
  \A k \in Kinds : \A l, m \in Looping(k) : l = m

\* The guard is held exactly while a body runs: no exit path leaves the name
\* behind (every later trigger would be turned away silently until a restart)
\* and none gives it back early.
GuardMatchesLoop ==
  \A k \in Kinds : k \in pollingActive <=> Looping(k) # {}

\* The inductive strengthening of AtMostOneLoop.
GuardInv == TypeOK /\ AtMostOneLoop /\ GuardMatchesLoop

\* A refill can always be had again: whatever triggers arrive and however
\* often the process restarts, the guard is released infinitely often.
GuardReleased == \A k \in Kinds : []<>(k \notin pollingActive)

\* A request that run-now answered "triggered" (no 409) has its loop run.
TriggeredRuns ==
  \A k \in ManualKinds, r \in Requests : task[k][r] # "dropped"

\* The lease seen through the task table.
Holder ==
  [k \in Kinds |-> IF Looping(k) = {} THEN Nobody
                   ELSE CHOOSE l \in Launchers : task[k][l] = "looping"]

Lease == INSTANCE PollLease WITH holder <- Holder

\* The task table with its set of names behaves as one lease per kind.
LeaseSpec == Lease!Spec
=============================================================================
