--------------------------- MODULE MidTermPolling ---------------------------
(***************************************************************************)
(* The mid-term forecast of one hub process: two editions a day, land and  *)
(* temperature regions in two tables, mid_term_polling_loop filling both   *)
(* for the regions of the active grids, and mid_freshness_watchdog, which  *)
(* every hour starts the loop again when the edition that should be there  *)
(* is not.                                                                 *)
(*                                                                         *)
(* The clock wraps at each edition and reads 0 when it becomes resolvable  *)
(* (resolve_mid_tm_fc), so editions are named by age as in                 *)
(* ShortTermPolling.  Rows are keyed by edition: several coexist.          *)
(***************************************************************************)
EXTENDS Naturals, FiniteSets

CONSTANTS
  Grids,
  LandRegs, TempRegs,  \* region codes of the two tables
  NoReg,               \* a grid without a region code
  LandOf, TempOf,      \* mid_land_reg_id, mid_temp_reg_id of a grid
  EditionUnits,        \* clock units between two editions
  DeadlineUnits,       \* KMA_RETRY_MAX_DURATION_SEC in units
  WatchMarks,          \* clock readings at which kma_mid_watch fires
  CalmCap,             \* bound of the history counter calm
  RecoveryUnits,       \* calm units after which every region must be loaded
  LoadUnits            \* units the edition's own load may take

ASSUME RegionsAssumption ==
  /\ LandOf \in [Grids -> LandRegs \cup {NoReg}]
  /\ TempOf \in [Grids -> TempRegs \cup {NoReg}]
  /\ NoReg \notin LandRegs \cup TempRegs
  /\ LandRegs \cap TempRegs = {}
  /\ IsFiniteSet(LandRegs \cup TempRegs)

ASSUME UnitsAssumption ==
  /\ {EditionUnits, DeadlineUnits} \subseteq Nat \ {0}
  /\ {CalmCap, RecoveryUnits, LoadUnits} \subseteq Nat
  /\ WatchMarks \subseteq 0..(EditionUnits - 1)

\* Twelve hours are longer than a loop's twenty minutes and what they may last.
ASSUME EditionAssumption == DeadlineUnits + 3 <= EditionUnits

VARIABLES
  clock,   \* units since the newest edition became resolvable
  active,  \* grids with is_active
  stored,  \* stored[r]: ages of the editions region r has rows of
  loop,    \* the body of mid_term_polling_loop
  due,     \* jobs to fire in this unit
  gauge,   \* hub_kma_unloaded_targets by kind
  calm     \* history: units without failure, slow round, restart, activation

vars == <<clock, active, stored, loop, due, gauge, calm>>

Regs == LandRegs \cup TempRegs

(***************************************************************************)
(* Rows two editions old have expired (_MID_TTL) and only wait for         *)
(* housekeeping; no loop or watchdog asks for them.                        *)
(***************************************************************************)
Ages == 0..1

Idle == [pc |-> "idle", base |-> 0, elapsed |-> 0, stepped |-> FALSE,
         targets |-> {}, todo |-> {}, failed |-> {}]

Loop ==
  [pc : {"idle", "round", "polling"},
   base : 0..2,              \* age of the edition it asks for
   elapsed : Nat,
   stepped : BOOLEAN,
   targets : SUBSET Regs,    \* land_pending and temp_pending of the round
   todo : SUBSET Regs,       \* those not yet polled
   failed : SUBSET Regs]

TypeOK ==
  /\ clock \in 0..(EditionUnits - 1)
  /\ active \subseteq Grids
  /\ stored \in [Regs -> SUBSET Ages]
  /\ loop \in Loop
  /\ due \subseteq {"cron", "watch"}
  /\ gauge \in [{"land", "temp"} -> 0..Cardinality(Regs)]
  /\ calm \in 0..CalmCap

Started == [Idle EXCEPT !.pc = "round", !.stepped = TRUE]

\* First deployment: nothing stored, the lifespan's task is running.
Init ==
  /\ clock \in 0..(EditionUnits - 1)
  /\ active = Grids
  /\ stored = [r \in Regs |-> {}]
  /\ loop = Started
  /\ due = {}
  /\ gauge = [k \in {"land", "temp"} |-> 0]
  /\ calm = 0

-----------------------------------------------------------------------------
Running == loop.pc # "idle"
PastDeadline == loop.elapsed >= DeadlineUnits

\* The regions the active grids name, each once.
Wanted == ({LandOf[g] : g \in active} \cup {TempOf[g] : g \in active}) \ {NoReg}

\* loaded_mid_land_regs and loaded_mid_temp_regs
Loaded(base) == {r \in Regs : base \in stored[r]}

SetLoop(r) == loop' = [r EXCEPT !.stepped = TRUE]

ExitLoop(counts) ==
  /\ loop' = Idle
  /\ gauge' = counts

AllLoaded == [k \in {"land", "temp"} |-> 0]

\* kma_mid, at 06:10 and 18:10.
FireCron ==
  /\ "cron" \in due
  /\ due' = due \ {"cron"}
  /\ loop' = IF Running THEN loop ELSE Started
  /\ UNCHANGED <<clock, active, stored, gauge, calm>>

\* Mutant of Fresh: latest_mid_tm_fc alone decides.
FreshByLatest ==
  /\ \E r \in LandRegs : 0 \in stored[r]
  /\ \E r \in TempRegs : 0 \in stored[r]

\* The watchdog's question: does the older of the two tables' newest editions
\* reach the expected one, and has every wanted region its rows of it?
Fresh ==
  /\ \E r \in LandRegs : 0 \in stored[r]
  /\ \E r \in TempRegs : 0 \in stored[r]
  /\ Wanted \subseteq Loaded(0)

\* mid_freshness_watchdog: fresh, or a loop is already running, or refill.
FireWatch ==
  /\ "watch" \in due
  /\ due' = due \ {"watch"}
  /\ loop' = IF Fresh \/ Running THEN loop ELSE Started
  /\ UNCHANGED <<clock, active, stored, gauge, calm>>

\* run-now starts a loop outside the schedule.
RunNow ==
  /\ ~Running
  /\ loop' = Started
  /\ UNCHANGED <<clock, active, stored, due, gauge, calm>>

\* Mutant of DeadlineReport: the gauge is increased, not set.
DeadlineReportAdds == [gauge EXCEPT !["land"] = @ + Cardinality(loop.failed)]

\* The report at the deadline: land and temperature failures share `failed`,
\* and its length goes to mid_land; mid_temp keeps what it last said.
DeadlineReport == [gauge EXCEPT !["land"] = Cardinality(loop.failed)]

\* The head of the while loop.
Round ==
  /\ loop.pc = "round"
  /\ LET pending == Wanted \ Loaded(loop.base)
     IN \/ /\ PastDeadline
           /\ ExitLoop(DeadlineReport)
        \/ /\ ~PastDeadline
           /\ pending = {}
           /\ ExitLoop(AllLoaded)
        \/ /\ ~PastDeadline
           /\ pending # {}
           /\ SetLoop([loop EXCEPT !.pc = "polling", !.targets = pending,
                                   !.todo = pending, !.failed = {}])
           /\ UNCHANGED gauge
  /\ UNCHANGED <<clock, active, stored, due, calm>>

\* One of the three queries raises out of the loop: no report.
RoundRaises ==
  /\ loop.pc = "round"
  /\ ~PastDeadline
  /\ loop' = Idle
  /\ calm' = 0
  /\ UNCHANGED <<clock, active, stored, due, gauge>>

\* What is left of the list the current for loop walks: land regions first,
\* temperature regions when they are through.
Batch == IF loop.todo \cap LandRegs # {} THEN loop.todo \cap LandRegs ELSE loop.todo

Store(r) ==
  /\ stored' = [stored EXCEPT ![r] = @ \cup ({loop.base} \cap Ages)]
  /\ SetLoop([loop EXCEPT !.todo = @ \ {r}])
  /\ UNCHANGED calm

Fail(r) ==
  /\ SetLoop([loop EXCEPT !.todo = @ \ {r}, !.failed = @ \cup {r}])
  /\ calm' = 0
  /\ UNCHANGED stored

\* Mutants of PollRegion: the break leaves the rest out of `failed`; only the
\* round boundaries look at the deadline.
PollRegionForgetsRest(r) ==
  /\ loop.pc = "polling"
  /\ r \in Batch
  /\ \/ /\ PastDeadline
        /\ SetLoop([loop EXCEPT !.todo = @ \ Batch])
        /\ UNCHANGED <<stored, calm>>
     \/ ~PastDeadline /\ (Store(r) \/ Fail(r))
  /\ UNCHANGED <<clock, active, due, gauge>>

PollRegionNoDeadline(r) ==
  /\ loop.pc = "polling"
  /\ r \in Batch
  /\ Store(r) \/ Fail(r)
  /\ UNCHANGED <<clock, active, due, gauge>>

\* One region: at the deadline give up with the rest of this for loop's list,
\* else fetch and upsert, which stores the edition or fails.
PollRegion(r) ==
  /\ loop.pc = "polling"
  /\ r \in Batch
  /\ \/ /\ PastDeadline
        /\ SetLoop([loop EXCEPT !.todo = @ \ Batch, !.failed = @ \cup Batch])
        /\ UNCHANGED <<stored, calm>>
     \/ ~PastDeadline /\ (Store(r) \/ Fail(r))
  /\ UNCHANGED <<clock, active, due, gauge>>

\* After both: done when nothing failed, else sleep and go round.
EndRound ==
  /\ loop.pc = "polling"
  /\ loop.todo = {}
  /\ \/ /\ loop.failed = {}
        /\ ExitLoop(AllLoaded)
     \/ /\ loop.failed # {}
        /\ SetLoop([loop EXCEPT !.pc = "round"])
        /\ UNCHANGED gauge
  /\ UNCHANGED <<clock, active, stored, due, calm>>

\* PATCH /internal/grids/{id}
ToggleGrid(g) ==
  /\ active' = IF g \in active THEN active \ {g} ELSE active \cup {g}
  /\ calm' = IF g \in active THEN calm ELSE 0
  /\ UNCHANGED <<clock, stored, loop, due, gauge>>

\* The process dies and comes back through the lifespan.
Restart ==
  /\ loop' = Started
  /\ due' = {}
  /\ gauge' = AllLoaded
  /\ calm' = 0
  /\ UNCHANGED <<clock, active, stored>>

\* A unit passes: due jobs have fired, a running loop has taken a step.
Tick ==
  /\ due = {}
  /\ Running => loop.stepped
  /\ LET wrapped == clock + 1 = EditionUnits
         now == IF wrapped THEN 0 ELSE clock + 1
         older(a) == IF wrapped THEN a + 1 ELSE a
     IN /\ clock' = now
        /\ stored' = [r \in Regs |-> {older(a) : a \in stored[r]} \cap Ages]
        /\ loop' = IF Running
                   THEN [loop EXCEPT !.base = IF @ < 2 THEN older(@) ELSE @,
                                     !.elapsed = @ + 1, !.stepped = FALSE]
                   ELSE Idle
        /\ due' = (IF wrapped THEN {"cron"} ELSE {})
                    \cup (IF now \in WatchMarks THEN {"watch"} ELSE {})
  /\ calm' = IF loop.todo # {} THEN 0
             ELSE IF calm < CalmCap THEN calm + 1 ELSE calm
  /\ UNCHANGED <<active, gauge>>

LoopStep ==
  \/ Round
  \/ RoundRaises
  \/ \E r \in Regs : PollRegion(r)
  \/ EndRound

Next ==
  \/ FireCron
  \/ FireWatch
  \/ RunNow
  \/ LoopStep
  \/ \E g \in Grids : ToggleGrid(g)
  \/ Restart
  \/ Tick

Spec == Init /\ [][Next]_vars

-----------------------------------------------------------------------------
\* The guard is never held longer than the deadline and a unit each for giving
\* up the land list, the temperature list, the round and the loop.
LoopEndsSoon == loop.elapsed <= DeadlineUnits + 3

\* Calm units after which a loop from before the calm is over.
Settled == IF DeadlineUnits >= 3 THEN 4 ELSE 3

\* The calm a watch needs before it to do its work: the loop that may hold the
\* guard then must be over, or be of the edition the watch asks about.  At mark 1
\* it may be of the earlier edition, unless that one was loaded in its last unit,
\* by the watch `final`, and left that loop nothing to poll.
Notice(m, final) ==
  IF m = 1 THEN (EditionUnits - 1) + Settled - final + 2 ELSE Settled

\* What the marks must do for the edition: at every reading past the edition's
\* own load a watch lies far enough back for its loop to be through, and no
\* further back than the recovery allows.
MarksServe ==
  /\ DeadlineUnits >= 2
  /\ Settled <= RecoveryUnits /\ RecoveryUnits <= CalmCap
  /\ \E final \in WatchMarks :
       /\ 2 <= final /\ final + 2 < EditionUnits
       /\ \A c \in LoadUnits..(EditionUnits - 1) :
            \E m \in WatchMarks : /\ 1 <= m /\ m + 2 <= c
                                 /\ c + Notice(m, final) <= m + RecoveryUnits

\* What the watchdog is for: whatever was missed, once KMA and the database
\* have answered promptly for RecoveryUnits every region of an active grid has its rows
\* of the expected edition, except while the edition's own load is under way.
\* Threats: one region failing while the others make the tables look current,
\* a loop on the previous edition that makes cron and watchdog stand back.
WatchdogRefills ==
  calm >= RecoveryUnits /\ clock >= LoadUnits => Wanted \subseteq Loaded(0)

LoopReports == (Round \/ EndRound) /\ loop'.pc = "idle"

\* What a report speaks of: the last list, or all that is wanted when the loop
\* found nothing pending.
Listed == IF loop.pc = "round" /\ ~PastDeadline THEN Wanted ELSE loop.targets

Missing(kind) == (Listed \cap kind) \ Loaded(loop.base)

\* A loop that ends reporting no unloaded land target has left none of either
\* kind: silence of the gauge an operator watches is never a lie.
ZeroReportMeansLoaded ==
  [][LoopReports /\ gauge'["land"] = 0 => Missing(Regs) = {}]_vars

\* "Targets still missing when the polling deadline was reached", by kind
\* (metrics.py): each kind's gauge counts that kind's missing targets.
ReportByKind ==
  [][LoopReports => /\ gauge'["land"] = Cardinality(Missing(LandRegs))
                    /\ gauge'["temp"] = Cardinality(Missing(TempRegs))]_vars
=============================================================================
