----------------------------- MODULE HubProcess -----------------------------
(***************************************************************************)
(* How a hub process ends (the lifespan in main.py, HubDB in db/hub_db.py):*)
(* the scheduler is told to stop, the startup tasks are cancelled and      *)
(* awaited, the clients are closed, the database engine is disposed of.    *)
(* Jobs are cancelled when the scheduler stops but not awaited; tasks of   *)
(* run-now live on until the event loop itself is left.                    *)
(*                                                                         *)
(* The engine is made by whoever first asks for it (get_hub_db), also      *)
(* after it was disposed of.  Engines are numbered in the order made.      *)
(***************************************************************************)
EXTENDS Integers, FiniteSets

CONSTANTS
  StartupTasks,  \* in app.state.bg_tasks
  JobTasks,      \* coroutines of APScheduler jobs
  RunNowTasks    \* in internal_router._BACKGROUND_TASKS

\* A coroutine has one launcher.
ASSUME LaunchersAssumption == StartupTasks \cap (JobTasks \cup RunNowTasks) = {}

VARIABLES
  phase,      \* of the lifespan
  scheduling, \* the scheduler submits jobs
  worker,     \* worker[w]: [pc, cancelled, engine: of its session, or None]
  instance,   \* the engine behind _instance, or None
  made        \* how many engines were made

processVars == <<phase, scheduling, worker, instance, made>>

Workers == StartupTasks \cup JobTasks \cup RunNowTasks
NoEngine == 0
MaxEngines == 2

ProcessTypeOK ==
  /\ phase \in {"up", "gathering", "closing", "disposing", "down"}
  /\ scheduling \in BOOLEAN
  /\ worker \in [Workers -> [pc : {"idle", "working", "session", "ended"},
                             cancelled : BOOLEAN, engine : 0..MaxEngines]]
  /\ instance \in 0..MaxEngines
  /\ made \in 0..MaxEngines

NotRunning(pc) == [pc |-> pc, cancelled |-> FALSE, engine |-> NoEngine]
Working == NotRunning("working")

ProcessInit ==
  /\ phase = "up" /\ scheduling = TRUE
  /\ worker = [w \in Workers |-> IF w \in StartupTasks THEN Working
                                 ELSE NotRunning("idle")]
  /\ instance = NoEngine /\ made = 0

Alive(w) == worker[w].pc \in {"working", "session"}

\* cancel() of several tasks: each learns of it where it next awaits.
CancelAll(ws) ==
  worker' = [w \in Workers |-> IF w \in ws /\ Alive(w)
                               THEN [worker[w] EXCEPT !.cancelled = TRUE]
                               ELSE worker[w]]

-----------------------------------------------------------------------------
\* A job fires, or run-now is called while requests are served.
StartWorker(w) ==
  /\ \/ w \in JobTasks /\ scheduling
     \/ w \in RunNowTasks /\ phase = "up"
  /\ ~Alive(w)
  /\ worker' = [worker EXCEPT ![w] = Working]
  /\ UNCHANGED <<phase, scheduling, instance, made>>

\* get_hub_db().session(): the engine there is, or a new one.
OpenSession(w) ==
  /\ worker[w].pc = "working" /\ ~worker[w].cancelled
  /\ \/ instance # NoEngine /\ UNCHANGED <<instance, made>>
     \/ /\ instance = NoEngine /\ made < MaxEngines
        /\ made' = made + 1 /\ instance' = made + 1
  /\ worker' = [worker EXCEPT ![w].pc = "session", ![w].engine = instance']
  /\ UNCHANGED <<phase, scheduling>>

\* The transaction ends; one that was cancelled is rolled back, over awaits of
\* its own.
CloseSession(w) ==
  /\ worker[w].pc = "session"
  /\ worker' = [worker EXCEPT ![w].pc = "working", ![w].engine = NoEngine]
  /\ UNCHANGED <<phase, scheduling, instance, made>>

\* The coroutine ends: done, failed or cancelled.
EndWorker(w) ==
  /\ worker[w].pc = "working"
  /\ worker' = [worker EXCEPT ![w] = NotRunning("ended")]
  /\ UNCHANGED <<phase, scheduling, instance, made>>

-----------------------------------------------------------------------------
\* The server stops: scheduler.shutdown only posts the stop to the event loop;
\* the startup tasks are cancelled without an await in between.
Shutdown ==
  /\ phase = "up"
  /\ phase' = "gathering"
  /\ CancelAll(StartupTasks)
  /\ UNCHANGED <<scheduling, instance, made>>

\* The posted stop: no more jobs, those that run are cancelled.
StopScheduler ==
  /\ phase # "up" /\ scheduling
  /\ scheduling' = FALSE
  /\ CancelAll(JobTasks)
  /\ UNCHANGED <<phase, instance, made>>

\* Mutant of Gathered: the tasks are cancelled but not awaited.
NotGathered == TRUE

\* await asyncio.gather(*tasks): also their cleanup is over.
Gathered == \A w \in StartupTasks : ~Alive(w)

Gather ==
  /\ phase = "gathering" /\ Gathered
  /\ phase' = "closing"
  /\ UNCHANGED <<scheduling, worker, instance, made>>

\* The clients are closed; dispose_hub_db begins, if there is an engine.
Dispose ==
  /\ phase = "closing"
  /\ phase' = IF instance = NoEngine THEN "down" ELSE "disposing"
  /\ UNCHANGED <<scheduling, worker, instance, made>>

\* Its await is over and _instance forgotten.
Disposed ==
  /\ phase = "disposing"
  /\ phase' = "down" /\ instance' = NoEngine
  /\ UNCHANGED <<scheduling, worker, made>>

\* The event loop is left: whatever still runs is cancelled.
LeaveLoop ==
  /\ phase = "down"
  /\ CancelAll(Workers)
  /\ UNCHANGED <<phase, scheduling, instance, made>>

ProcessNext ==
  \/ \E w \in Workers : StartWorker(w) \/ OpenSession(w) \/ CloseSession(w) \/ EndWorker(w)
  \/ Shutdown \/ StopScheduler \/ Gather \/ Dispose \/ Disposed \/ LeaveLoop

ProcessSpec == ProcessInit /\ [][ProcessNext]_processVars

-----------------------------------------------------------------------------
\* main.py:381-382: the engine is not disposed of while a startup task runs.
\* No session of one ever outlives its engine, the rollback of one that was
\* cancelled in the middle of a statement included; and before the disposal no
\* second engine is made, whoever asks first.
EngineOutlivesStartup ==
  /\ phase \in {"disposing", "down"} => \A w \in StartupTasks : ~Alive(w)
  /\ \A w \in StartupTasks : worker[w].pc = "session" => worker[w].engine = instance
  /\ phase # "down" => made <= 1
=============================================================================
