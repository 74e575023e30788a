------------------------------ MODULE CourseSync ------------------------------
(***************************************************************************)
(* The Durunubi course table: durunubi_sync_loop (scheduler/places_sync.py)*)
(* run once at every startup, skipped when the table holds anything, and   *)
(* by a job every DURUNUBI_SYNC_INTERVAL_HOURS with force=True.            *)
(*                                                                         *)
(* A run walks the provider's pages, stores course by course, leaves out a *)
(* course whose track or row fails and stops at a page that fails.  The    *)
(* job's interval begins anew with each process, and nothing guards the    *)
(* two runs from each other.  Courses are numbered in the provider's order *)
(* and have a usable track: an item without one is skipped by every run,   *)
(* which no later run makes good, and is none of them.                     *)
(***************************************************************************)
EXTENDS Integers, FiniteSets

CONSTANTS
  LastCourse,  \* how many courses the provider has
  NumRows,     \* DURUNUBI_NUMOFROWS
  MaxCoursePages,  \* _MAX_PAGES
  MaxRestarts  \* bound on restarts

ASSUME CoursesAssumption ==
  /\ {LastCourse, MaxRestarts} \subseteq Nat
  /\ {NumRows, MaxCoursePages} \subseteq Nat \ {0}

VARIABLES
  table,     \* courses stored
  run,       \* run[r]: what the startup's and the job's run do
  up,        \* the process runs
  restarts,  \* how often it stopped
  healthy    \* the provider, the track server and the database answer for good

syncVars == <<table, run, up, restarts, healthy>>

Courses == 1..LastCourse
Runs == {"startup", "weekly"}

\* The courses on page p; those a run can reach.
PageOf(p) == {c \in Courses : (c - 1) \div NumRows + 1 = p}
Reachable == {c \in Courses : c <= MaxCoursePages * NumRows}

Idle == [pc |-> "idle", page |-> 1, left |-> {}]

SyncTypeOK ==
  /\ table \subseteq Courses
  /\ run \in [Runs -> [pc : {"idle", "counting", "fetching", "storing", "ended"},
                       page : 1..MaxCoursePages, left : SUBSET Courses]]
  /\ up \in BOOLEAN
  /\ restarts \in 0..MaxRestarts
  /\ healthy \in BOOLEAN

Begun == [run EXCEPT !["startup"] = [Idle EXCEPT !.pc = "counting"]]

SyncInit ==
  /\ table = {}
  /\ run = [r \in Runs |-> IF r = "startup" THEN [Idle EXCEPT !.pc = "counting"]
                           ELSE Idle]
  /\ up = TRUE
  /\ restarts = 0
  /\ healthy \in BOOLEAN

-----------------------------------------------------------------------------
End(r) == run' = [run EXCEPT ![r].pc = "ended", ![r].left = {}]

\* The startup run looks whether there are courses.
Count(r) ==
  /\ run[r].pc = "counting"
  /\ \/ table # {} /\ End(r)
     \/ table = {} /\ run' = [run EXCEPT ![r].pc = "fetching"]
  /\ UNCHANGED <<table, up, restarts, healthy>>

\* A page without courses ends the run.
FetchPage(r) ==
  /\ run[r].pc = "fetching"
  /\ \/ PageOf(run[r].page) = {} /\ End(r)
     \/ /\ PageOf(run[r].page) # {}
        /\ run' = [run EXCEPT ![r].pc = "storing", ![r].left = PageOf(run[r].page)]
  /\ UNCHANGED <<table, up, restarts, healthy>>

\* So does a page that fails.
PageFails(r) ==
  /\ run[r].pc = "fetching" /\ ~healthy
  /\ End(r)
  /\ UNCHANGED <<table, up, restarts, healthy>>

Next1(cs) == CHOOSE c \in cs : \A d \in cs : c <= d

Done(r) == run' = [run EXCEPT ![r].left = @ \ {Next1(@)}]

\* The next course's track is read and the course upserted ...
StoreCourse(r) ==
  /\ run[r].pc = "storing" /\ run[r].left # {}
  /\ table' = table \cup {Next1(run[r].left)}
  /\ Done(r)
  /\ UNCHANGED <<up, restarts, healthy>>

\* ... or one of the two fails and the course is left out.
SkipCourse(r) ==
  /\ run[r].pc = "storing" /\ run[r].left # {} /\ ~healthy
  /\ Done(r)
  /\ UNCHANGED <<table, up, restarts, healthy>>

\* Mutant of LastPage: a full page is taken for a short one.
LastPageByOne(p) == Cardinality(PageOf(p)) <= NumRows

LastPage(p) == Cardinality(PageOf(p)) < NumRows

NextPage(r) ==
  /\ run[r].pc = "storing" /\ run[r].left = {}
  /\ \/ /\ LastPage(run[r].page) \/ run[r].page = MaxCoursePages
        /\ End(r)
     \/ /\ ~LastPage(run[r].page) /\ run[r].page < MaxCoursePages
        /\ run' = [run EXCEPT ![r].pc = "fetching", ![r].page = @ + 1]
  /\ UNCHANGED <<table, up, restarts, healthy>>

\* Mutant of Forced: the job skips a table that holds anything, too.
NotForced == [Idle EXCEPT !.pc = "counting"]

Forced == [Idle EXCEPT !.pc = "fetching"]

\* The job's interval is over; max_instances=1.
Weekly ==
  /\ up
  /\ run["weekly"].pc \in {"idle", "ended"}
  /\ run' = [run EXCEPT !["weekly"] = Forced]
  /\ UNCHANGED <<table, up, restarts, healthy>>

\* The process stops in the middle of whatever it does.
StopHub ==
  /\ up /\ restarts < MaxRestarts
  /\ up' = FALSE
  /\ restarts' = restarts + 1
  /\ run' = [r \in Runs |-> Idle]
  /\ UNCHANGED <<table, healthy>>

BootHub ==
  /\ ~up
  /\ up' = TRUE
  /\ run' = Begun
  /\ UNCHANGED <<table, restarts, healthy>>

Heal ==
  /\ ~healthy
  /\ healthy' = TRUE
  /\ UNCHANGED <<table, run, up, restarts>>

RunStep(r) ==
  \/ Count(r) \/ FetchPage(r) \/ PageFails(r)
  \/ StoreCourse(r) \/ SkipCourse(r) \/ NextPage(r)

SyncNext == (\E r \in Runs : RunStep(r)) \/ Weekly \/ StopHub \/ BootHub \/ Heal

\* A run goes on, the supervisor starts the process again, the scheduler fires
\* its job and the outage ends.
SyncFairness ==
  /\ \A r \in Runs : WF_syncVars(RunStep(r))
  /\ WF_syncVars(Weekly)
  /\ WF_syncVars(BootHub)
  /\ WF_syncVars(Heal)

SyncSpec == SyncInit /\ [][SyncNext]_syncVars /\ SyncFairness

-----------------------------------------------------------------------------
\* A first synchronisation that was cut short, and every startup after it that
\* finds a table not empty and skips, are made good: once outages and restarts
\* end the table becomes whole.
CoursesComplete == <>[](Reachable \subseteq table)
=============================================================================
