-------------------------- MODULE ShortTermPolling --------------------------
(***************************************************************************)
(* The short-term forecast: KMA issues an edition every slot (3 h), the    *)
(* hub's loop short_term_polling_loop fills the table with it, grid by     *)
(* grid and round by round until a deadline, started by the slot cron job, *)
(* an hourly watch, the lifespan and run-now, while an operator toggles    *)
(* grids, housekeeping deletes expired rows and the process may restart.   *)
(*                                                                         *)
(* Time is a clock of 5-minute units that wraps at each slot.  It reads 0  *)
(* when the newest edition becomes resolvable (issue + 10 min, cutoff of   *)
(* resolve_short_term_base), so editions are named by their age: 0 is the  *)
(* one a loop starting now would ask for, 1 the one before.                *)
(*                                                                         *)
(* _polling_active is per process (SinglePoll): within a hub one loop runs *)
(* at a time and a trigger that meets it is dropped.  Hubs is the set of   *)
(* processes on one database: more than one when a deployment overlaps.    *)
(***************************************************************************)
EXTENDS Naturals, FiniteSets

CONSTANTS
  Hubs,           \* hub processes sharing the database
  Grids,          \* rows of subscribed_grids
  SlotUnits,      \* clock units between two editions
  MarginUnits,    \* units from an edition's issue to its being resolvable
  TtlUnits,       \* _SHORT_TTL in units, counted from the issue
  DeadlineUnits,  \* KMA_RETRY_MAX_DURATION_SEC in units
  FireMarks,      \* clock readings at which kma_short or kma_short_watch fires
  CalmCap,        \* bound of the history counter calm
  RecoveryUnits,  \* calm units after which every grid must be fresh
  LoadUnits       \* units the slot's own load may take

ASSUME UnitsAssumption ==
  /\ {SlotUnits, DeadlineUnits} \subseteq Nat \ {0}
  /\ {MarginUnits, TtlUnits, CalmCap, RecoveryUnits, LoadUnits} \subseteq Nat
  /\ FireMarks \subseteq 0..(SlotUnits - 1)
  /\ IsFiniteSet(Grids)

\* An edition lives for two slots (_SHORT_TTL), and a loop is over well before
\* the one after its own would be issued (KMA_RETRY_MAX_DURATION_SEC).
ASSUME LifeAssumption ==
  /\ 2 * SlotUnits <= TtlUnits
  /\ DeadlineUnits + 2 + MarginUnits <= SlotUnits

VARIABLES
  clock,   \* units since the newest edition became resolvable
  active,  \* grids with is_active
  age,     \* age[g]: age of the newest edition in g's rows, Gone without any
  loop,    \* loop[h]: the body of short_term_polling_loop in hub h
  due,     \* due[h]: a scheduled job of h is to fire in this unit
  gauge,   \* hub_kma_unloaded_targets{kind="short"}
  calm     \* history: units without failure, slow round, restart, activation

vars == <<clock, active, age, loop, due, gauge, calm>>

(***************************************************************************)
(* A row two editions old has expired: nobody tells it from a missing one. *)
(***************************************************************************)
Gone == 2

Idle == [pc |-> "idle", base |-> 0, elapsed |-> 0, stepped |-> FALSE,
         targets |-> {}, todo |-> {}, failed |-> {}]

Loop ==
  [pc : {"idle", "round", "polling"},
   base : 0..Gone,              \* age of the edition it asks for
   elapsed : Nat,               \* units since it started
   stepped : BOOLEAN,           \* took a step in this unit
   targets : SUBSET Grids,      \* pending of the current round
   todo : SUBSET Grids,         \* pending, not yet polled
   failed : SUBSET Grids]

TypeOK ==
  /\ clock \in 0..(SlotUnits - 1)
  /\ active \subseteq Grids
  /\ age \in [Grids -> 0..Gone]
  /\ loop \in [Hubs -> Loop]
  /\ due \in [Hubs -> BOOLEAN]
  /\ gauge \in 0..Cardinality(Grids)
  /\ calm \in 0..CalmCap

\* A freshly started body: resolve_short_term_base and the deadline, once.
Started == [Idle EXCEPT !.pc = "round", !.stepped = TRUE]

\* First deployment: nothing stored, the lifespan's task is running.
Init ==
  /\ clock \in 0..(SlotUnits - 1)
  /\ active = Grids
  /\ age = [g \in Grids |-> Gone]
  /\ loop = [h \in Hubs |-> Started]
  /\ due = [h \in Hubs |-> FALSE]
  /\ gauge = 0
  /\ calm = 0

-----------------------------------------------------------------------------
Running(h) == loop[h].pc # "idle"
PastDeadline(h) == loop[h].elapsed >= DeadlineUnits

\* Mutant of Loaded: any stored edition counts.
LoadedAnyEdition(base) == {g \in Grids : age[g] # Gone}

\* loaded_short_term_grids(base_at): some row is of exactly that edition.
Loaded(base) == {g \in Grids : age[g] = base}

\* Where a newer edition is stored, rows of an older one are left for the hours
\* before the newer begins, or are not: they may count for the older.
MayHold(base) == {g \in Grids : age[g] < base}

\* The step's effect on the loop record, with the unit marked as used.
SetLoop(h, r) == loop' = [loop EXCEPT ![h] = [r EXCEPT !.stepped = TRUE]]

\* Mutant of ExitLoop: the gauge is increased, not set.
ExitLoopAdds(h, count) ==
  /\ loop' = [loop EXCEPT ![h] = Idle]
  /\ gauge' = gauge + count

\* return: the loop is over and reports a count.
ExitLoop(h, count) ==
  /\ loop' = [loop EXCEPT ![h] = Idle]
  /\ gauge' = count

\* kma_short or kma_short_watch fires; the guard drops it if a loop runs.
FireJob(h) ==
  /\ due[h]
  /\ due' = [due EXCEPT ![h] = FALSE]
  /\ \/ /\ Running(h)
        /\ UNCHANGED loop
     \/ /\ ~Running(h)
        /\ loop' = [loop EXCEPT ![h] = Started]
  /\ UNCHANGED <<clock, active, age, gauge, calm>>

\* run-now starts a loop outside the schedule.
RunNow(h) ==
  /\ ~Running(h)
  /\ loop' = [loop EXCEPT ![h] = Started]
  /\ UNCHANGED <<clock, active, age, due, gauge, calm>>

\* The head of the while loop: deadline, active grids, loaded grids, pending.
Round(h) ==
  /\ loop[h].pc = "round"
  /\ \/ /\ PastDeadline(h)
        /\ ExitLoop(h, Cardinality(loop[h].failed))
     \/ /\ ~PastDeadline(h)
        /\ \E older \in SUBSET MayHold(loop[h].base) :
             LET pending == active \ (Loaded(loop[h].base) \cup older)
             IN \/ /\ pending = {}
                   /\ ExitLoop(h, 0)
                \/ /\ pending # {}
                   /\ SetLoop(h, [loop[h] EXCEPT
                        !.pc = "polling", !.targets = pending,
                        !.todo = pending, !.failed = {}])
                   /\ UNCHANGED gauge
  /\ UNCHANGED <<clock, active, age, due, calm>>

\* One of the two queries raises: the exception leaves the loop, no report.
RoundRaises(h) ==
  /\ loop[h].pc = "round"
  /\ ~PastDeadline(h)
  /\ loop' = [loop EXCEPT ![h] = Idle]
  /\ calm' = 0
  /\ UNCHANGED <<clock, active, age, due, gauge>>

\* Mutant of Upsert: no WHERE on the conflict update.
UpsertAlways(old, new) == new

\* The ON CONFLICT guard: WHERE EXCLUDED.base_at >= existing.base_at.
Upsert(old, new) == IF new <= old THEN new ELSE old

\* Outcomes of one fetch and upsert, whatever the time.
Store(h, g) ==
  /\ age' = [age EXCEPT ![g] = Upsert(@, loop[h].base)]
  /\ SetLoop(h, [loop[h] EXCEPT !.todo = @ \ {g}])
  /\ UNCHANGED calm

Fail(h, g) ==
  /\ SetLoop(h, [loop[h] EXCEPT !.todo = @ \ {g}, !.failed = @ \cup {g}])
  /\ calm' = 0
  /\ UNCHANGED age

\* Mutants of PollGrid: only round boundaries look at the deadline; the break
\* leaves the rest of the list out of `failed`.
PollGridNoDeadline(h, g) ==
  /\ loop[h].pc = "polling"
  /\ g \in loop[h].todo
  /\ Store(h, g) \/ Fail(h, g)
  /\ UNCHANGED <<clock, active, due, gauge>>

PollGridForgetsRest(h, g) ==
  /\ loop[h].pc = "polling"
  /\ g \in loop[h].todo
  /\ \/ /\ PastDeadline(h)
        /\ SetLoop(h, [loop[h] EXCEPT !.todo = {}])
        /\ UNCHANGED <<age, calm>>
     \/ /\ ~PastDeadline(h)
        /\ Store(h, g) \/ Fail(h, g)
  /\ UNCHANGED <<clock, active, due, gauge>>

\* One grid of the round: give up at the deadline with the rest of the list,
\* or fetch and upsert, which stores the edition or fails (KMAApiError, no
\* usable row, any exception).
PollGrid(h, g) ==
  /\ loop[h].pc = "polling"
  /\ g \in loop[h].todo
  /\ \/ /\ PastDeadline(h)
        /\ SetLoop(h, [loop[h] EXCEPT !.todo = {}, !.failed = @ \cup loop[h].todo])
        /\ UNCHANGED <<age, calm>>
     \/ /\ ~PastDeadline(h)
        /\ Store(h, g) \/ Fail(h, g)
  /\ UNCHANGED <<clock, active, due, gauge>>

\* After the for loop: done when nothing failed, else sleep and go round.
EndRound(h) ==
  /\ loop[h].pc = "polling"
  /\ loop[h].todo = {}
  /\ \/ /\ loop[h].failed = {}
        /\ ExitLoop(h, 0)
     \/ /\ loop[h].failed # {}
        /\ SetLoop(h, [loop[h] EXCEPT !.pc = "round"])
        /\ UNCHANGED gauge
  /\ UNCHANGED <<clock, active, age, due, calm>>

\* PATCH /internal/grids/{id}: switching a grid on gives the loops new work.
ToggleGrid(g) ==
  /\ active' = IF g \in active THEN active \ {g} ELSE active \cup {g}
  /\ calm' = IF g \in active THEN calm ELSE 0
  /\ UNCHANGED <<clock, age, loop, due, gauge>>

\* Mutant of Expired: a time to live of one slot.
ExpiredInOneSlot(a) == a * SlotUnits + clock + MarginUnits >= SlotUnits

\* expires_at = base_at + _SHORT_TTL lies in the past.  (A day's lowest and
\* highest temperature keep until that day ends; age speaks of the other rows.)
Expired(a) == a * SlotUnits + clock + MarginUnits >= TtlUnits

\* housekeeping_expire, hourly and on request: DELETE WHERE expires_at < now().
Housekeep ==
  /\ age' = [g \in Grids |-> IF Expired(age[g]) THEN Gone ELSE age[g]]
  /\ UNCHANGED <<clock, active, loop, due, gauge, calm>>

\* The process dies and comes back: its loop is gone, its gauge is 0, the
\* lifespan starts a loop; a job that was due meanwhile is not made up for.
Restart(h) ==
  /\ loop' = [loop EXCEPT ![h] = Started]
  /\ due' = [due EXCEPT ![h] = FALSE]
  /\ gauge' = 0
  /\ calm' = 0
  /\ UNCHANGED <<clock, active, age>>

\* Five minutes pass.  Every job due has fired and every running loop has
\* taken a step: a request times out after 10 s and a retry waits 30 s.
Tick ==
  /\ \A h \in Hubs : ~due[h] /\ (Running(h) => loop[h].stepped)
  /\ LET wrapped == clock + 1 = SlotUnits
         older(a) == IF wrapped /\ a < Gone THEN a + 1 ELSE a
         now == IF wrapped THEN 0 ELSE clock + 1
     IN /\ clock' = now
        /\ age' = [g \in Grids |-> older(age[g])]
        /\ loop' = [h \in Hubs |->
             IF Running(h)
             THEN [loop[h] EXCEPT !.base = older(@), !.elapsed = @ + 1,
                                  !.stepped = FALSE]
             ELSE Idle]
        /\ due' = [h \in Hubs |-> now \in FireMarks]
  /\ calm' = IF \E h \in Hubs : loop[h].todo # {} THEN 0
             ELSE IF calm < CalmCap THEN calm + 1 ELSE calm
  /\ UNCHANGED <<active, gauge>>

LoopStep(h) ==
  \/ Round(h)
  \/ RoundRaises(h)
  \/ \E g \in Grids : PollGrid(h, g)
  \/ EndRound(h)

Next ==
  \/ \E h \in Hubs : FireJob(h) \/ RunNow(h) \/ LoopStep(h) \/ Restart(h)
  \/ \E g \in Grids : ToggleGrid(g)
  \/ Housekeep
  \/ Tick

Spec == Init /\ [][Next]_vars

-----------------------------------------------------------------------------
\* A loop is over soon after its deadline: the poll it is in, the end of that
\* round and the test of the outer while take a unit each at most.  However
\* long the list of grids, the guard is never held for longer.
LoopEndsSoon == \A h \in Hubs : loop[h].elapsed <= DeadlineUnits + 2

\* Calm units after which a loop from before the calm is over.
Settled == IF DeadlineUnits >= 3 THEN 4 ELSE 3

\* What the marks must do for the slot: at every reading past the slot's own
\* load a mark lies far enough back for its loop to be through, and no further
\* back than the recovery allows.  The slot's first marks do not count: a loop
\* of the edition before may still hold the guard.
MarksServe ==
  /\ DeadlineUnits >= 2
  /\ Settled <= RecoveryUnits /\ RecoveryUnits <= CalmCap
  /\ \A c \in LoadUnits..(SlotUnits - 1) :
       \E m \in FireMarks :
         2 <= m /\ m + 2 <= c /\ c + Settled <= m + RecoveryUnits

\* "A failed/missed short-term run recovers before the next 3-hour slot"
\* (build_scheduler): once KMA and the database have answered
\* promptly for RecoveryUnits, every active grid holds the newest edition, except while the
\* slot's own load is under way.  What threatens it: a loop still busy with
\* the previous edition makes the guard drop the slot's cron job and a watch.
RecoversInSlot ==
  calm >= RecoveryUnits /\ clock >= LoadUnits => \A g \in active : age[g] = 0

\* The grids a loop's report speaks of: its last list, or all that are active
\* when it found nothing pending.
Listed(h) ==
  IF loop[h].pc = "round" /\ ~PastDeadline(h) THEN active ELSE loop[h].targets

\* What a finished loop reports is what is missing: the gauge is the number of
\* grids of its last list without its edition, zero when it claims success,
\* also when the deadline cuts a round in the middle of the list.
ReportIsExact ==
  [][\A h \in Hubs :
       (Round(h) \/ EndRound(h)) /\ loop'[h].pc = "idle"
         => gauge' = Cardinality({g \in Listed(h) : age[g] > loop[h].base})]_vars

\* Rows never go back to an earlier edition, even when an older process still
\* polls the previous one beside a newer process: within a slot a grid's age
\* only drops, except that housekeeping may delete expired rows.
EditionNeverRegresses ==
  [][~Tick => \A g \in Grids : age'[g] <= age[g] \/ age'[g] = Gone]_vars

\* Housekeeping never deletes the edition the loops are told to fetch, and
\* never one whose successor a loop has not had a full slot to fetch.
HousekeepingSparesCurrent ==
  [][Housekeep => \A g \in Grids :
       age'[g] # age[g] => age[g] = 1 /\ clock + MarginUnits >= SlotUnits]_vars
=============================================================================
