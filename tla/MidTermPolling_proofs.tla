------------------------ MODULE MidTermPolling_proofs ------------------------
(***************************************************************************)
(* For any regions, grids and clock: the mid-term loop's state is well     *)
(* typed, the loop ends soon after its deadline however many regions the   *)
(* two lists have, one that reports nothing unloaded has loaded both, and  *)
(* once its surroundings are calm the watchdog has every wanted region     *)
(* loaded.                                                                 *)
(***************************************************************************)
EXTENDS MidTermPolling, FiniteSetTheorems, TLAPS

\* How far past its start a loop may be at each of its points, before and
\* after it took a step in the current unit.
InTime(r) ==
  LET spare == IF r.stepped THEN 0 ELSE 1
      land == r.todo \cap LandRegs
  IN \/ r.pc = "idle" /\ r.elapsed = 0
     \/ r.pc = "round" /\ r.elapsed <= DeadlineUnits + 2 + spare
     \/ r.pc = "polling" /\ r.todo = {} /\ r.elapsed <= DeadlineUnits + 1 + spare
     \/ r.pc = "polling" /\ land = {} /\ r.elapsed <= DeadlineUnits + spare
     \/ r.pc = "polling" /\ r.elapsed <= DeadlineUnits - 1 + spare

\* The inductive strengthening of LoopEndsSoon.
TimeInv == TypeOK /\ InTime(loop)

\* What a loop was to load is loaded, failed or still to be polled; it asks for
\* an edition that rows are still kept of; having failed nothing at the head of
\* a round, it has polled nothing.
Accounted ==
  /\ loop.pc = "polling" =>
       loop.targets \subseteq loop.todo \cup loop.failed \cup Loaded(loop.base)
  /\ loop.pc = "round" /\ loop.failed = {} => loop.targets = {}
  /\ loop.base = 0 \/ (loop.base = 1 /\ loop.elapsed > clock)

-----------------------------------------------------------------------------
\* The units as numbers.
LEMMA Numbers ==
  /\ EditionUnits \in Nat /\ EditionUnits >= 1
  /\ DeadlineUnits \in Nat /\ DeadlineUnits >= 1
  /\ CalmCap \in Nat
<1>1. EditionUnits \in Nat \ {0} /\ DeadlineUnits \in Nat \ {0} /\ CalmCap \in Nat
  BY UnitsAssumption
<1> QED
  BY <1>1

\* Whatever regions are counted, the size is a value a gauge can take, and zero
\* only when there are none.
LEMMA CountOfRegions ==
  ASSUME NEW S \in SUBSET Regs
  PROVE  /\ Cardinality(S) \in 0..Cardinality(Regs)
         /\ Cardinality(S) = 0 => S = {}
<1>1. IsFiniteSet(Regs)
  BY RegionsAssumption DEF Regs
<1>2. /\ Cardinality(Regs) \in Nat
      /\ Cardinality(S) \in Nat
      /\ Cardinality(S) <= Cardinality(Regs)
      /\ IsFiniteSet(S)
  BY <1>1, FS_Subset, FS_CardinalityType
<1>3. Cardinality(S) = 0 => S = {}
  BY <1>2, FS_EmptySet
<1> QED
  BY <1>2, <1>3

\* The reports a loop makes are values of the gauge.
LEMMA Reports ==
  /\ 0 \in 0..Cardinality(Regs) /\ 0 \in 0..CalmCap
  /\ AllLoaded \in [{"land", "temp"} -> 0..Cardinality(Regs)]
  /\ TypeOK => DeadlineReport \in [{"land", "temp"} -> 0..Cardinality(Regs)]
<1>1. 0 \in 0..Cardinality(Regs)
  <2>1. Cardinality({}) = 0 /\ Cardinality({}) \in 0..Cardinality(Regs)
    BY CountOfRegions, FS_EmptySet
  <2> QED
    BY <2>1
<1>2. TypeOK => Cardinality(loop.failed) \in 0..Cardinality(Regs)
  BY CountOfRegions DEF TypeOK, Loop
<1> QED
  BY <1>1, <1>2, Numbers DEF AllLoaded, DeadlineReport, TypeOK

\* The records a loop starts and ends with are well typed and in time.
LEMMA FixedRecords ==
  /\ Idle \in Loop /\ InTime(Idle)
  /\ Started \in Loop /\ InTime(Started)
  /\ Idle.pc = "idle" /\ Idle.base = 0
  /\ Started.pc = "round" /\ Started.base = 0 /\ Started.targets = {}
<1>1. Idle \in Loop
  BY DEF Idle, Loop
<1>2. Started \in Loop
  BY <1>1 DEF Idle, Started, Loop
<1>3. InTime(Idle)
  BY DEF Idle, InTime
<1>4. /\ Started.pc = "round" /\ Started.elapsed = 0 /\ Started.stepped = TRUE
      /\ Started.base = 0 /\ Started.targets = {}
  BY DEF Started, Idle
<1>6. Idle.pc = "idle" /\ Idle.base = 0
  BY DEF Idle
<1>5. InTime(Started)
  BY <1>4, Numbers DEF InTime
<1> QED
  BY <1>1, <1>2, <1>3, <1>4, <1>5, <1>6

\* A step within a unit that puts a good record in the loop's place.
LEMMA GoodStep ==
  ASSUME TimeInv, loop' \in Loop, InTime(loop'),
         clock' = clock, active' \subseteq Grids,
         stored' \in [Regs -> SUBSET Ages],
         due' \subseteq {"cron", "watch"},
         gauge' \in [{"land", "temp"} -> 0..Cardinality(Regs)],
         calm' \in 0..CalmCap
  PROVE  TimeInv'
<1>1. InTime(loop)'
  BY DEF InTime
<1> QED
  BY <1>1 DEF TimeInv, TypeOK

\* A loop at its start, or none, has nothing to account for.
LEMMA FreshLoop ==
  ASSUME loop' \in {Idle, Started}
  PROVE  Accounted'
<1>1. /\ loop'.pc # "polling"
      /\ loop'.pc = "round" => loop'.targets = {}
      /\ loop'.base = 0
  BY FixedRecords
<1> QED
  BY <1>1 DEF Accounted

\* First deployment satisfies both.
LEMMA InitTime == Init => TimeInv /\ Accounted
<1> SUFFICES ASSUME Init PROVE TimeInv /\ Accounted
  OBVIOUS
<1>1. TypeOK
  BY FixedRecords, Reports DEF Init, TypeOK, AllLoaded
<1>2. Accounted
  <2>1. loop.pc = "round" /\ loop.targets = {} /\ loop.base = 0
    BY FixedRecords DEF Init
  <2> QED
    BY <2>1 DEF Accounted
<1> QED
  BY <1>1, <1>2, FixedRecords DEF TimeInv, Init

\* Steps that start, drop or kill a loop, and those that leave it alone.
LEMMA LauncherTime ==
  ASSUME TimeInv, Accounted,
         \/ FireCron \/ FireWatch \/ RunNow \/ RoundRaises \/ Restart
         \/ \E g \in Grids : ToggleGrid(g)
  PROVE  TimeInv' /\ Accounted'
<1>1. /\ clock' = clock /\ stored' = stored
      /\ loop' \in {Idle, Started} \/ loop' = loop
  BY DEF FireCron, FireWatch, RunNow, RoundRaises, Restart, ToggleGrid
<1>2. /\ active' \subseteq Grids /\ due' \subseteq {"cron", "watch"}
      /\ gauge' \in [{"land", "temp"} -> 0..Cardinality(Regs)]
      /\ calm' \in 0..CalmCap
  BY Reports
  DEF TimeInv, TypeOK, FireCron, FireWatch, RunNow, RoundRaises, Restart, ToggleGrid
<1>3. loop' \in Loop /\ InTime(loop')
  BY <1>1, FixedRecords DEF TimeInv, TypeOK
<1>4. TimeInv'
  BY <1>1, <1>2, <1>3, GoodStep DEF TimeInv, TypeOK
<1>5. Accounted'
  BY <1>1, FreshLoop DEF Accounted, Loaded
<1> QED
  BY <1>4, <1>5

\* The head of the while loop.
LEMMA RoundTime ==
  ASSUME TimeInv, Accounted, Round
  PROVE  TimeInv' /\ Accounted'
<1> DEFINE pending == Wanted \ Loaded(loop.base)
           polling == [loop EXCEPT !.pc = "polling", !.targets = pending,
                                   !.todo = pending, !.failed = {}, !.stepped = TRUE]
<1>1. /\ loop \in Loop /\ InTime(loop) /\ loop.pc = "round"
      /\ UNCHANGED <<clock, active, stored, due, calm>>
  BY DEF TimeInv, TypeOK, Round
<1>2. CASE ExitLoop(DeadlineReport) \/ ExitLoop(AllLoaded)
  <2>1. gauge' \in [{"land", "temp"} -> 0..Cardinality(Regs)] /\ loop' = Idle
    BY <1>2, Reports DEF ExitLoop, TimeInv
  <2> QED
    BY <1>1, <2>1, GoodStep, FixedRecords, FreshLoop DEF TimeInv, TypeOK
<1>3. CASE ~PastDeadline /\ loop' = polling /\ UNCHANGED gauge
  <2>1. pending \in SUBSET Regs
    BY RegionsAssumption DEF Wanted, Regs, TimeInv, TypeOK
  <2>2. /\ polling \in Loop
        /\ polling.pc = "polling" /\ polling.targets = pending /\ polling.todo = pending
        /\ polling.base = loop.base /\ polling.elapsed = loop.elapsed
        /\ polling.stepped = TRUE
    <3> HIDE DEF pending
    <3> QED
      BY <1>1, <2>1 DEF Loop
  <2>3. loop.elapsed \in Nat /\ ~(loop.elapsed >= DeadlineUnits)
    BY <1>1, <1>3 DEF PastDeadline, Loop
  <2> HIDE DEF polling, pending
  <2>4. InTime(polling)
    BY <2>2, <2>3, Numbers DEF InTime
  <2>5. Accounted'
    BY <1>1, <1>3, <2>2 DEF Accounted
  <2> QED
    BY <1>1, <1>3, <2>2, <2>4, <2>5, GoodStep DEF TimeInv, TypeOK
<1> QED
  BY <1>2, <1>3 DEF Round, SetLoop

\* One region, whatever comes of it: given up with its list, stored or failed.
LEMMA PollRegionTime ==
  ASSUME TimeInv, Accounted, NEW r \in Regs, PollRegion(r)
  PROVE  TimeInv' /\ Accounted'
<1>1. /\ loop \in Loop /\ InTime(loop) /\ loop.pc = "polling"
      /\ r \in Batch /\ Batch \subseteq loop.todo
      /\ UNCHANGED <<clock, active, due, gauge>>
  BY DEF TimeInv, TypeOK, PollRegion, Batch
<1>2. loop.elapsed \in Nat
  BY <1>1 DEF Loop
\* The loop takes some of the list, into `failed` or into the tables.
<1>3. ASSUME NEW S \in SUBSET loop.todo, NEW F \in SUBSET S,
             loop' = [loop EXCEPT !.todo = @ \ S, !.failed = @ \cup F, !.stepped = TRUE],
             S = Batch \/ ~PastDeadline,
             stored' \in [Regs -> SUBSET Ages], calm' \in 0..CalmCap,
             Loaded(loop.base) \subseteq Loaded(loop.base)',
             S \ F \subseteq Loaded(loop.base)'
      PROVE  TimeInv' /\ Accounted'
  <2>1. /\ loop' \in Loop
        /\ loop'.pc = "polling" /\ loop'.todo = loop.todo \ S
        /\ loop'.failed = loop.failed \cup F /\ loop'.targets = loop.targets
        /\ loop'.elapsed = loop.elapsed /\ loop'.base = loop.base
        /\ loop'.stepped = TRUE
    BY <1>1, <1>3 DEF Loop
  <2>2. InTime(loop')
    <3>1. CASE ~PastDeadline
      BY <1>2, <2>1, <3>1, Numbers DEF InTime, PastDeadline
    <3>2. CASE S = Batch /\ loop.todo \cap LandRegs # {}
      <4>1. loop'.todo \cap LandRegs = {}
        BY <2>1, <3>2 DEF Batch
      <4>2. loop.elapsed <= DeadlineUnits
        BY <1>1, <1>2, <3>2, Numbers DEF InTime
      <4> QED
        BY <2>1, <4>1, <4>2, Numbers DEF InTime
    <3>3. CASE S = Batch /\ loop.todo \cap LandRegs = {}
      <4>1. loop'.todo = {}
        BY <2>1, <3>3 DEF Batch
      <4>2. loop.elapsed <= DeadlineUnits + 1
        BY <1>1, <1>2, Numbers DEF InTime
      <4> QED
        BY <2>1, <4>1, <4>2, Numbers DEF InTime
    <3> QED
      BY <1>3, <3>1, <3>2, <3>3
  <2>3. Accounted'
    <3>1. Loaded(loop.base)' = {q \in Regs : loop.base \in stored'[q]}
      BY <2>1 DEF Loaded
    <3> QED
      BY <1>1, <1>3, <2>1, <3>1 DEF Accounted, Loaded
  <2> QED
    BY <1>1, <1>3, <2>1, <2>2, <2>3, GoodStep DEF TimeInv, TypeOK
<1>4. CASE PastDeadline /\ UNCHANGED <<stored, calm>>
           /\ SetLoop([loop EXCEPT !.todo = @ \ Batch, !.failed = @ \cup Batch])
  <2>1. loop' = [loop EXCEPT !.todo = @ \ Batch, !.failed = @ \cup Batch, !.stepped = TRUE]
    BY <1>4 DEF SetLoop
  <2>2. loop'.base = loop.base
    BY <1>1, <2>1 DEF Loop
  <2>3. Loaded(loop.base)' = Loaded(loop.base)
    BY <1>4, <2>2 DEF Loaded
  <2> QED
    BY <1>1, <1>3, <1>4, <2>1, <2>3 DEF TimeInv, TypeOK
<1>5. CASE ~PastDeadline /\ Fail(r)
  <2>1. loop' = [loop EXCEPT !.todo = @ \ {r}, !.failed = @ \cup {r}, !.stepped = TRUE]
    BY <1>5 DEF Fail, SetLoop
  <2>2. loop'.base = loop.base
    BY <1>1, <2>1 DEF Loop
  <2>3. Loaded(loop.base)' = Loaded(loop.base)
    BY <1>5, <2>2 DEF Loaded, Fail
  <2>4. stored' \in [Regs -> SUBSET Ages] /\ calm' \in 0..CalmCap
    BY <1>5, Reports DEF TimeInv, TypeOK, Fail
  <2>5. /\ {r} \in SUBSET loop.todo /\ {r} \in SUBSET {r}
        /\ {r} \ {r} \subseteq Loaded(loop.base)'
        /\ Loaded(loop.base) \subseteq Loaded(loop.base)'
    BY <1>1, <2>3
  <2>6. {r} = Batch \/ ~PastDeadline
    BY <1>5
  <2> QED
    BY <1>3, <2>1, <2>4, <2>5, <2>6, Zenon
<1>6. CASE ~PastDeadline /\ Store(r)
  <2>1. loop' = [loop EXCEPT !.todo = @ \ {r}, !.failed = @ \cup {}, !.stepped = TRUE]
    BY <1>1, <1>6 DEF Store, SetLoop, Loop
  <2>2. loop'.base = loop.base /\ loop.base \in Ages
    BY <1>1, <2>1 DEF Loop, Accounted, Ages
  <2>3. /\ stored \in [Regs -> SUBSET Ages]
        /\ stored' = [stored EXCEPT ![r] = @ \cup ({loop.base} \cap Ages)]
    BY <1>6 DEF Store, TimeInv, TypeOK
  <2>4. stored' \in [Regs -> SUBSET Ages]
    BY <2>3
  <2>5. Loaded(loop.base)' = Loaded(loop.base) \cup {r}
    BY <2>2, <2>3 DEF Loaded
  <2>6. calm' \in 0..CalmCap
    BY <1>6 DEF TimeInv, TypeOK, Store
  <2>7. {r} \in SUBSET loop.todo /\ {} \in SUBSET {r} /\ {r} \ {} = {r}
    BY <1>1
  <2> QED
    BY <1>3, <1>6, <2>1, <2>4, <2>5, <2>6, <2>7
<1> QED
  BY <1>4, <1>5, <1>6 DEF PollRegion

\* The end of a round.
LEMMA EndRoundTime ==
  ASSUME TimeInv, Accounted, EndRound
  PROVE  TimeInv' /\ Accounted'
<1> DEFINE again == [loop EXCEPT !.pc = "round", !.stepped = TRUE]
<1>1. /\ loop \in Loop /\ InTime(loop) /\ loop.pc = "polling" /\ loop.todo = {}
      /\ UNCHANGED <<clock, active, stored, due, calm>>
  BY DEF TimeInv, TypeOK, EndRound
<1>2. CASE ExitLoop(AllLoaded)
  BY <1>1, <1>2, GoodStep, FixedRecords, FreshLoop, Reports DEF ExitLoop, TimeInv, TypeOK
<1>3. CASE loop.failed # {} /\ loop' = again /\ UNCHANGED gauge
  <2>1. /\ again \in Loop
        /\ again.pc = "round" /\ again.failed = loop.failed /\ again.stepped = TRUE
        /\ again.base = loop.base /\ again.elapsed = loop.elapsed
    BY <1>1 DEF Loop
  <2> HIDE DEF again
  <2>2. InTime(again)
    <3>1. loop.elapsed \in Nat
      BY <1>1 DEF Loop
    <3>2. loop.elapsed <= DeadlineUnits + 2
      BY <1>1, <3>1, Numbers DEF InTime
    <3> QED
      BY <2>1, <3>1, <3>2, Numbers DEF InTime
  <2>3. Accounted'
    BY <1>1, <1>3, <2>1 DEF Accounted
  <2> QED
    BY <1>1, <1>3, <2>1, <2>2, <2>3, GoodStep DEF TimeInv, TypeOK
<1> QED
  BY <1>2, <1>3 DEF EndRound, SetLoop

\* Units pass for a running loop only when it has used the last one.
LEMMA AgedLoop ==
  ASSUME TimeInv, Tick, Running
  PROVE  /\ loop' \in Loop /\ InTime(loop')
         /\ loop'.elapsed = loop.elapsed + 1
         /\ \A f \in {"pc", "targets", "todo", "failed"} : loop'[f] = loop[f]
<1> DEFINE wrapped == clock + 1 = EditionUnits
           base == IF loop.base < 2 /\ wrapped THEN loop.base + 1 ELSE loop.base
           aged == [loop EXCEPT !.base = base, !.elapsed = loop.elapsed + 1,
                                !.stepped = FALSE]
<1>1. /\ loop \in Loop /\ InTime(loop) /\ loop.stepped = TRUE /\ loop.pc # "idle"
      /\ loop.base \in 0..2 /\ loop.elapsed \in Nat
  BY DEF TimeInv, TypeOK, Tick, Running, Loop
<1>2. loop' = aged
  <2>1. base = IF loop.base < 2 THEN (IF wrapped THEN loop.base + 1 ELSE loop.base)
               ELSE loop.base
    OBVIOUS
  <2> HIDE DEF base
  <2> QED
    BY <2>1, Zenon DEF Tick
<1>3. base \in 0..2 /\ loop.elapsed + 1 \in Nat
  BY <1>1
<1> HIDE DEF base
<1>4. /\ loop' \in Loop
      /\ loop'.elapsed = loop.elapsed + 1 /\ loop'.stepped = FALSE
      /\ loop'.pc = loop.pc /\ loop'.targets = loop.targets
      /\ loop'.todo = loop.todo /\ loop'.failed = loop.failed
  BY <1>1, <1>2, <1>3 DEF Loop
<1>5. InTime(loop')
  BY <1>1, <1>4, Numbers DEF InTime
<1> QED
  BY <1>4, <1>5

\* A unit passes: an edition grows older together with the loop asking for it,
\* and no loop lives to see two editions pass.
LEMMA TickTime ==
  ASSUME TimeInv, Accounted, Tick
  PROVE  TimeInv' /\ Accounted'
<1> DEFINE wrapped == clock + 1 = EditionUnits
           older(a) == IF wrapped THEN a + 1 ELSE a
<1>1. /\ clock \in 0..(EditionUnits - 1)
      /\ clock' = IF wrapped THEN 0 ELSE clock + 1
      /\ stored \in [Regs -> SUBSET Ages]
      /\ stored' = [r \in Regs |-> {older(a) : a \in stored[r]} \cap Ages]
      /\ UNCHANGED <<active, gauge>>
  BY DEF Tick, TimeInv, TypeOK
<1>2. clock' \in 0..(EditionUnits - 1)
  BY <1>1, Numbers
<1>3. stored' \in [Regs -> SUBSET Ages]
  <2> HIDE DEF older
  <2> QED
    BY <1>1
<1>4. due' \subseteq {"cron", "watch"}
  <2>1. \E A \in SUBSET {"cron"}, B \in SUBSET {"watch"} : due' = A \cup B
    BY DEF Tick
  <2> QED
    BY <2>1
<1>5. calm' \in 0..CalmCap
  <2>1. calm' = 0 \/ calm' = calm \/ (calm < CalmCap /\ calm' = calm + 1)
    BY DEF Tick
  <2> QED
    BY <2>1, Numbers DEF TimeInv, TypeOK
<1>6. loop' \in Loop /\ InTime(loop')
  <2>1. CASE Running
    BY <2>1, AgedLoop
  <2>2. CASE ~Running
    BY <2>2, FixedRecords DEF Tick
  <2> QED
    BY <2>1, <2>2
<1>7. TimeInv'
  <2>1. TypeOK'
    BY <1>1, <1>2, <1>3, <1>4, <1>5, <1>6 DEF TimeInv, TypeOK
  <2>2. InTime(loop)'
    BY <1>6 DEF InTime
  <2> QED
    BY <2>1, <2>2 DEF TimeInv
<1>8. Accounted'
  <2>1. CASE ~Running
    BY <2>1, FreshLoop DEF Tick
  <2>2. CASE Running
    <3>1. /\ loop'.elapsed = loop.elapsed + 1 /\ loop.elapsed \in Nat
          /\ loop'.pc = loop.pc /\ loop'.targets = loop.targets
          /\ loop'.todo = loop.todo /\ loop'.failed = loop.failed
      BY <2>2, AgedLoop DEF TimeInv, TypeOK, Loop
    <3>2. loop.base \in {0, 1} /\ loop'.base = older(loop.base)
      <4>1. loop.base \in {0, 1}
        BY DEF Accounted
      <4>2. loop \in Loop
        BY DEF TimeInv, TypeOK
      <4>3. loop'.base = IF loop.base < 2 THEN older(loop.base) ELSE loop.base
        BY <2>2, <4>2 DEF Tick, Loop
      <4> QED
        BY <4>1, <4>3
    <3>3. loop'.elapsed <= DeadlineUnits + 3
      BY <1>6, Numbers DEF InTime, Loop
    <3>4. loop'.base = 0 \/ (loop'.base = 1 /\ loop'.elapsed > clock')
      BY <1>1, <3>1, <3>2, <3>3, Numbers, EditionAssumption DEF Accounted
    <3>5. Loaded(loop.base) \subseteq Loaded(loop.base)'
      <4> SUFFICES ASSUME NEW r \in Regs, loop.base \in stored[r]
                   PROVE  loop'.base \in stored'[r]
        BY DEF Loaded
      <4>1. loop'.base \in Ages
        BY <3>4 DEF Ages
      <4> HIDE DEF older
      <4> QED
        BY <1>1, <3>2, <4>1
    <3> QED
      BY <3>1, <3>4, <3>5 DEF Accounted
  <2> QED
    BY <2>1, <2>2
<1> QED
  BY <1>7, <1>8

\* Every step preserves both.
LEMMA NextTime == TimeInv /\ Accounted /\ [Next]_vars => TimeInv' /\ Accounted'
<1> SUFFICES ASSUME TimeInv, Accounted, [Next]_vars PROVE TimeInv' /\ Accounted'
  OBVIOUS
<1>1. CASE Next
  BY <1>1, LauncherTime, RoundTime, PollRegionTime, EndRoundTime, TickTime
  DEF Next, LoopStep
<1>2. CASE UNCHANGED vars
  <2>1. InTime(loop')
    BY <1>2 DEF vars, TimeInv
  <2>2. TimeInv'
    BY <1>2, <2>1, GoodStep DEF vars, TimeInv, TypeOK
  <2>3. Accounted'
    BY <1>2 DEF vars, Accounted, Loaded
  <2> QED
    BY <2>2, <2>3
<1> QED
  BY <1>1, <1>2

\* The invariant the results below share.
THEOREM MidInvariant == Spec => [](TimeInv /\ Accounted)
  BY InitTime, NextTime, PTL DEF Spec

\* mid_term_polling_loop's state is well typed, for any regions, grids, clock.
THEOREM MidTypeCorrect == Spec => []TypeOK
<1>1. TimeInv => TypeOK
  BY DEF TimeInv
<1> QED
  BY <1>1, MidInvariant, PTL

\* The deadline bounds a loop's life for any number of land and temperature
\* regions.
THEOREM MidLoopEndsSoon == Spec => []LoopEndsSoon
<1>1. TimeInv => LoopEndsSoon
  <2> SUFFICES ASSUME TimeInv PROVE LoopEndsSoon
    OBVIOUS
  <2>1. loop.elapsed \in Nat
    BY DEF TimeInv, TypeOK, Loop
  <2> QED
    BY <2>1, Numbers DEF TimeInv, InTime, LoopEndsSoon
<1> QED
  BY <1>1, MidInvariant, PTL

\* A loop that reports no unloaded land region has left no region of either
\* kind without its rows, whatever failed and whenever an edition passed.
THEOREM ZeroReportIsHonest == Spec => ZeroReportMeansLoaded
<1> DEFINE Honest == LoopReports /\ gauge'["land"] = 0 => Missing(Regs) = {}
<1>1. TimeInv /\ Accounted /\ [Next]_vars => [Honest]_vars
  <2> SUFFICES ASSUME TimeInv, Accounted, LoopReports, gauge'["land"] = 0
               PROVE  Missing(Regs) = {}
    OBVIOUS
  <2>1. loop \in Loop /\ gauge \in [{"land", "temp"} -> 0..Cardinality(Regs)]
    BY DEF TimeInv, TypeOK
  <2>2. CASE Round
    <3>1. loop.pc = "round"
      BY <2>2 DEF Round
    <3>2. CASE PastDeadline
      <4>1. gauge'["land"] = Cardinality(loop.failed)
        BY <2>1, <2>2, <3>2 DEF Round, ExitLoop, DeadlineReport
      <4>2. loop.failed = {}
        BY <2>1, <4>1, CountOfRegions DEF Loop
      <4> QED
        BY <3>1, <3>2, <4>2 DEF Accounted, Missing, Listed
    <3>3. CASE ~PastDeadline /\ Wanted \ Loaded(loop.base) = {}
      BY <3>1, <3>3 DEF Missing, Listed
    <3>4. CASE ~PastDeadline /\ Wanted \ Loaded(loop.base) # {}
      <4>1. loop'.pc = "polling"
        BY <2>1, <2>2, <3>4 DEF Round, SetLoop, Loop
      <4> QED
        BY <4>1 DEF LoopReports
    <3> QED
      BY <3>2, <3>3, <3>4
  <2>3. CASE EndRound
    <3>1. loop.pc = "polling" /\ loop.todo = {}
      BY <2>3 DEF EndRound
    <3>2. CASE loop.failed = {}
      BY <3>1, <3>2 DEF Accounted, Missing, Listed
    <3>3. CASE loop.failed # {}
      <4>1. loop'.pc = "round"
        BY <2>1, <2>3, <3>3 DEF EndRound, SetLoop, Loop
      <4> QED
        BY <4>1 DEF LoopReports
    <3> QED
      BY <3>2, <3>3
  <2> QED
    BY <2>2, <2>3 DEF LoopReports
<1> QED
  BY <1>1, MidInvariant, PTL DEF Spec, ZeroReportMeansLoaded

-----------------------------------------------------------------------------
\* A loop that started after the calm began fails nothing, so it makes one
\* round: at most two units pass over it.
Begun(r) ==
  /\ r.failed = {}
  /\ r.pc = "round" => IF r.stepped THEN r.elapsed = 0 ELSE r.elapsed = 1
  /\ r.pc = "polling" => IF r.stepped THEN r.elapsed \in {0, 1}
                         ELSE r.elapsed \in {1, 2} /\ r.todo = {}

\* A loop that was there when the calm began, k units later: what failed before
\* sends it round once more, then it ends with its list or at its deadline.
Inherited(r, k) ==
  \/ r.pc = "round" /\ k = 1
  \/ r.pc = "round" /\ k = 2 /\ ~r.stepped
  \/ r.pc = "polling" /\ k = 1 /\ ~r.stepped /\ r.todo = {}
  \/ /\ r.pc = "polling" /\ k \in {1, 2} /\ r.stepped
     /\ r.failed = {} /\ r.elapsed < DeadlineUnits
  \/ /\ r.pc = "polling" /\ k \in {2, 3} /\ ~r.stepped
     /\ r.failed = {} /\ r.todo = {} /\ r.elapsed <= DeadlineUnits

\* Where the loop stands after k calm units.
Phase(r, k) ==
  \/ r.pc = "idle"
  \/ k = 0
  \/ r.elapsed < k /\ Begun(r)
  \/ r.elapsed >= k /\ Inherited(r, k)

AllFresh == Wanted \subseteq Loaded(0)

\* Off its list, a loop begun in the calm has left nothing without the edition.
Fills ==
  loop.pc = "polling" /\ loop.base = 0 /\ loop.elapsed < calm
    => Wanted \ loop.todo \subseteq Loaded(0)

\* A watch passed in the calm: its job is still to fire, or all is fresh, or a
\* loop no younger than the watch is at it.
Served(m) ==
  \/ clock = m /\ "watch" \in due
  \/ AllFresh
  \/ /\ Running /\ loop.base = 0
     /\ loop.elapsed < calm /\ loop.elapsed + m >= clock

\* Calm units after which the watch `final` has had its edition loaded in the
\* edition's last unit.
InTheEnd(final) == (EditionUnits - 1) + Settled - final

\* Once an edition was loaded in time, it still is when it is the earlier one.
EarlierLoaded(final) == calm >= InTheEnd(final) + clock + 1 => Wanted \subseteq Loaded(1)

\* So a loop that asks for the earlier edition, or for one in its last unit,
\* finds nothing to poll.
NotBusy(final) ==
  loop.pc = "polling" /\ loop.elapsed < calm
    => \/ loop.base * EditionUnits + clock < (EditionUnits - 1) + loop.elapsed
       \/ calm < InTheEnd(final) + loop.elapsed

AllServed(final) ==
  \A m \in WatchMarks :
    1 <= m /\ m <= clock /\ clock + Notice(m, final) <= calm + m => Served(m)

\* The inductive strengthening of WatchdogRefills, with TimeInv and Accounted.
RecoverInv(final) ==
  /\ Phase(loop, calm)
  /\ Fills
  /\ EarlierLoaded(final)
  /\ NotBusy(final)
  /\ AllServed(final)

\* `final` is a watch that serves its edition before that ends.
IsFinal(final) ==
  final \in WatchMarks /\ 2 <= final /\ final + 2 < EditionUnits

\* What a step may use.
LEMMA Here ==
  ASSUME TimeInv, Accounted, NEW final, IsFinal(final), DeadlineUnits >= 2
  PROVE  /\ loop \in Loop /\ InTime(loop) /\ loop.elapsed \in Nat
         /\ loop.pc \in {"idle", "round", "polling"}
         /\ loop.base \in {0, 1}
         /\ loop.base = 1 => loop.elapsed > clock
         /\ clock \in Nat /\ clock <= EditionUnits - 1
         /\ calm \in Nat /\ calm <= CalmCap /\ CalmCap \in Nat
         /\ WatchMarks \subseteq Nat /\ final \in Nat
         /\ EditionUnits \in Nat /\ EditionUnits >= 5
         /\ DeadlineUnits \in Nat
         /\ stored \in [Regs -> SUBSET Ages]
<1>1. WatchMarks \subseteq Nat /\ EditionUnits \in Nat /\ CalmCap \in Nat
  BY Numbers, UnitsAssumption
<1> QED
  BY <1>1, Numbers DEF TimeInv, TypeOK, Accounted, Loop, IsFinal

\* The thresholds as numbers.
LEMMA Thresholds ==
  ASSUME NEW final, IsFinal(final)
  PROVE  /\ Settled \in {3, 4}
         /\ InTheEnd(final) \in Nat /\ InTheEnd(final) >= Settled
         /\ \A m \in WatchMarks : /\ Notice(m, final) \in Nat
                                  /\ Notice(m, final) >= Settled
                                  /\ m = 1 => Notice(m, final) = InTheEnd(final) + 2
                                  /\ m >= 2 => Notice(m, final) = Settled
<1>1. WatchMarks \subseteq Nat /\ EditionUnits \in Nat /\ final \in Nat
      /\ final + 2 < EditionUnits
  BY Numbers, UnitsAssumption DEF IsFinal
<1>2. Settled \in {3, 4}
  BY DEF Settled
<1>3. InTheEnd(final) \in Nat /\ InTheEnd(final) >= Settled
  BY <1>1, <1>2 DEF InTheEnd
<1>4. ASSUME NEW m \in WatchMarks
      PROVE  /\ Notice(m, final) \in Nat
             /\ Notice(m, final) >= Settled
             /\ m = 1 => Notice(m, final) = InTheEnd(final) + 2
             /\ m >= 2 => Notice(m, final) = Settled
  BY <1>1, <1>2, <1>3 DEF Notice, InTheEnd
<1> QED
  BY <1>2, <1>3, <1>4

\* Nothing is owed when the calm has just ended.
LEMMA NotCalm ==
  ASSUME TimeInv, Accounted, NEW final, IsFinal(final), calm = 0
  PROVE  RecoverInv(final)
<1>1. loop.elapsed \in Nat /\ clock \in Nat /\ WatchMarks \subseteq Nat
  BY Numbers, UnitsAssumption DEF TimeInv, TypeOK, Loop
<1>2. Phase(loop, calm) /\ Fills /\ NotBusy(final)
  BY <1>1 DEF Phase, Fills, NotBusy
<1>3. EarlierLoaded(final)
  BY <1>1, Thresholds DEF EarlierLoaded
<1>4. AllServed(final)
  <2>1. \A m \in WatchMarks : m <= clock => ~(clock + Notice(m, final) <= calm + m)
    BY <1>1, Thresholds
  <2> QED
    BY <2>1 DEF AllServed
<1> QED
  BY <1>2, <1>3, <1>4 DEF RecoverInv

LEMMA StepNotCalm ==
  ASSUME TimeInv', Accounted', NEW final, IsFinal(final), calm' = 0
  PROVE  RecoverInv(final)'
<1>1. loop'.elapsed \in Nat /\ clock' \in Nat /\ WatchMarks \subseteq Nat
  BY Numbers, UnitsAssumption DEF TimeInv, TypeOK, Loop
<1>2. Phase(loop', calm') /\ Fills' /\ NotBusy(final)'
  BY <1>1 DEF Phase, Fills, NotBusy
<1>3. EarlierLoaded(final)'
  BY <1>1, Thresholds DEF EarlierLoaded, InTheEnd
<1>4. AllServed(final)'
  <2>1. \A m \in WatchMarks : m <= clock' => ~(clock' + Notice(m, final) <= calm' + m)
    BY <1>1, Thresholds
  <2> QED
    BY <2>1 DEF AllServed, Notice
<1>5. Phase(loop, calm)'
  BY <1>2 DEF Phase, Begun, Inherited
<1> QED
  BY <1>2, <1>3, <1>4, <1>5 DEF RecoverInv

\* A loop begun in the calm needs two units: past a served watch by as much,
\* everything is fresh.
LEMMA ServedIsFresh ==
  ASSUME TimeInv, Accounted, NEW final, IsFinal(final), DeadlineUnits >= 2,
         RecoverInv(final), NEW m \in WatchMarks, 1 <= m, m + 2 <= clock,
         clock + Notice(m, final) <= calm + m
  PROVE  AllFresh
<1>1. /\ loop \in Loop /\ loop.elapsed \in Nat /\ clock \in Nat /\ calm \in Nat
      /\ m \in Nat
      /\ loop.pc \in {"idle", "round", "polling"}
  BY Here
<1>2. Served(m)
  BY <1>1 DEF RecoverInv, AllServed
<1>3. ASSUME Running, loop.base = 0, loop.elapsed < calm, loop.elapsed + m >= clock
      PROVE  AllFresh
  <2>1. loop.pc = "polling" /\ loop.todo = {}
    BY <1>1, <1>3 DEF RecoverInv, Phase, Begun, Running
  <2> QED
    BY <1>3, <2>1 DEF RecoverInv, Fills, AllFresh
<1> QED
  BY <1>1, <1>2, <1>3 DEF Served

\* In its last unit the edition is loaded.
LEMMA FreshInTheEnd ==
  ASSUME TimeInv, Accounted, NEW final, IsFinal(final), DeadlineUnits >= 2,
         RecoverInv(final), clock >= EditionUnits - 1, calm >= InTheEnd(final)
  PROVE  AllFresh
<1>1. /\ clock \in Nat /\ calm \in Nat /\ final \in WatchMarks /\ final \in Nat
      /\ 2 <= final /\ final + 2 < EditionUnits /\ EditionUnits \in Nat
      /\ clock <= EditionUnits - 1
  BY Here DEF IsFinal
<1>2. Notice(final, final) = Settled /\ Settled \in Nat
  BY <1>1, Thresholds
<1>3. final + 2 <= clock /\ clock + Notice(final, final) <= calm + final
  BY <1>1, <1>2 DEF InTheEnd
<1> QED
  BY <1>1, <1>3, ServedIsFresh

\* A step within a unit, in the calm, that neither takes a due watch nor rows
\* away, and leaves the loop in place unless its work is done.
LEMMA GoesOn ==
  ASSUME NEW final, RecoverInv(final),
         clock' = clock, calm' = calm, Wanted' \subseteq Wanted,
         Loaded(0) \subseteq Loaded(0)', Loaded(1) \subseteq Loaded(1)',
         "watch" \in due => "watch" \in due',
         Phase(loop', calm), Fills', NotBusy(final)',
         Running /\ loop.base = 0 /\ loop.elapsed < calm =>
           \/ Running' /\ loop'.base = loop.base /\ loop'.elapsed = loop.elapsed
           \/ AllFresh
  PROVE  RecoverInv(final)'
<1>1. Phase(loop, calm)'
  BY DEF Phase, Begun, Inherited
<1>2. AllFresh => AllFresh'
  BY DEF AllFresh
<1>3. EarlierLoaded(final)'
  BY DEF RecoverInv, EarlierLoaded, InTheEnd
<1>4. ASSUME NEW m \in WatchMarks, Served(m)
      PROVE  Served(m)'
  BY <1>2, <1>4 DEF Served
<1>5. AllServed(final)'
  BY <1>4 DEF RecoverInv, AllServed, Notice
<1> QED
  BY <1>1, <1>3, <1>5 DEF RecoverInv

\* A loop at its start, or none, is where it should be.
LEMMA AtStart ==
  ASSUME calm \in Nat, NEW final, loop' \in {Idle, Started}
  PROVE  Phase(loop', calm) /\ Fills' /\ NotBusy(final)'
<1>1. /\ Started.pc = "round" /\ Started.stepped = TRUE
      /\ Started.elapsed = 0 /\ Started.failed = {}
      /\ Idle.pc = "idle"
  BY DEF Started, Idle
<1> QED
  BY <1>1 DEF Phase, Begun, Fills, NotBusy

LEMMA RoundRecover ==
  ASSUME TimeInv, Accounted, NEW final, IsFinal(final), DeadlineUnits >= 2,
         RecoverInv(final), Round
  PROVE  RecoverInv(final)'
<1> DEFINE pending == Wanted \ Loaded(loop.base)
           polling == [loop EXCEPT !.pc = "polling", !.targets = pending,
                                   !.todo = pending, !.failed = {}, !.stepped = TRUE]
<1>1. /\ UNCHANGED <<clock, active, stored, due, calm>>
      /\ loop.pc = "round"
  BY DEF Round
<1>2. /\ loop \in Loop /\ loop.elapsed \in Nat /\ loop.base \in {0, 1}
      /\ loop.base = 1 => loop.elapsed > clock
      /\ clock \in Nat /\ calm \in Nat /\ EditionUnits \in Nat
      /\ clock <= EditionUnits - 1 /\ DeadlineUnits \in Nat
  BY Here
<1>3. Wanted' = Wanted /\ Loaded(0)' = Loaded(0) /\ Loaded(1)' = Loaded(1)
  BY <1>1 DEF Wanted, Loaded
<1>4. CASE PastDeadline /\ loop' = Idle
  <2>1. ~(loop.elapsed < calm)
    BY <1>1, <1>2, <1>4 DEF RecoverInv, Phase, Begun, PastDeadline
  <2>2. Phase(loop', calm) /\ Fills' /\ NotBusy(final)'
    BY <1>2, <1>4, AtStart
  <2> QED
    BY <1>1, <1>3, <2>1, <2>2, GoesOn
<1>5. CASE pending = {} /\ loop' = Idle
  <2>1. loop.base = 0 => AllFresh
    BY <1>5 DEF AllFresh
  <2>2. Phase(loop', calm) /\ Fills' /\ NotBusy(final)'
    BY <1>2, <1>5, AtStart
  <2> QED
    BY <1>1, <1>3, <2>1, <2>2, GoesOn
<1>6. CASE pending # {} /\ ~PastDeadline /\ loop' = polling
  <2>1. /\ polling.pc = "polling" /\ polling.todo = pending
        /\ polling.base = loop.base /\ polling.elapsed = loop.elapsed
        /\ polling.failed = {} /\ polling.stepped = TRUE
    <3> HIDE DEF pending
    <3> QED
      BY <1>2 DEF Loop
  <2> HIDE DEF polling
  <2>2. Phase(polling, calm)
    BY <1>1, <1>2, <1>6, <2>1 DEF RecoverInv, Phase, Begun, Inherited, PastDeadline
  <2>3. Fills'
    BY <1>3, <1>6, <2>1 DEF Fills
  <2>4. NotBusy(final)'
    <3>1. InTheEnd(final) \in Nat
      BY Thresholds
    <3>2. CASE loop.base = 0
      <4>1. ~(clock >= EditionUnits - 1 /\ calm >= InTheEnd(final))
        BY <1>6, <3>2, FreshInTheEnd DEF AllFresh
      <4>2. clock < EditionUnits - 1 \/ calm < InTheEnd(final)
        BY <1>2, <3>1, <4>1
      <4>3. loop.base * EditionUnits + clock = clock
        BY <1>2, <3>2
      <4> QED
        BY <1>1, <1>2, <1>6, <2>1, <3>1, <4>2, <4>3 DEF NotBusy, InTheEnd
    <3>3. CASE loop.base = 1
      <4>1. ~(calm >= InTheEnd(final) + clock + 1)
        BY <1>6, <3>3 DEF RecoverInv, EarlierLoaded
      <4>2. calm < InTheEnd(final) + loop.elapsed
        BY <1>2, <3>1, <3>3, <4>1
      <4> QED
        BY <1>1, <1>6, <2>1, <4>2 DEF NotBusy, InTheEnd
    <3> QED
      BY <1>2, <3>2, <3>3
  <2>5. Running'
    BY <1>6, <2>1 DEF Running
  <2> QED
    BY <1>1, <1>3, <1>6, <2>1, <2>2, <2>3, <2>4, <2>5, GoesOn
<1> QED
  BY <1>4, <1>5, <1>6 DEF Round, ExitLoop, SetLoop

\* The part of a step that goes on polling.
LEMMA StillPolling ==
  ASSUME TimeInv, Accounted, NEW final, IsFinal(final), DeadlineUnits >= 2,
         RecoverInv(final), loop.pc = "polling",
         UNCHANGED <<clock, active, due, calm>>,
         loop'.pc = "polling", loop'.base = loop.base,
         loop'.elapsed = loop.elapsed,
         Loaded(0) \subseteq Loaded(0)', Loaded(1) \subseteq Loaded(1)',
         Phase(loop', calm), Fills'
  PROVE  RecoverInv(final)'
<1>1. Wanted' = Wanted
  BY DEF Wanted
<1>2. NotBusy(final)'
  BY DEF RecoverInv, NotBusy, InTheEnd
<1>3. Running'
  BY DEF Running
<1> QED
  BY <1>1, <1>2, <1>3, GoesOn

LEMMA PollRegionRecover ==
  ASSUME TimeInv, Accounted, NEW final, IsFinal(final), DeadlineUnits >= 2,
         RecoverInv(final), NEW r \in Regs, PollRegion(r)
  PROVE  RecoverInv(final)'
<1>1. /\ UNCHANGED <<clock, active, due, gauge>>
      /\ loop.pc = "polling" /\ r \in loop.todo /\ Batch \subseteq loop.todo
  BY DEF PollRegion, Batch
<1>2. /\ loop \in Loop /\ loop.elapsed \in Nat /\ loop.base \in {0, 1}
      /\ calm \in Nat /\ DeadlineUnits \in Nat
      /\ stored \in [Regs -> SUBSET Ages]
  BY Here
<1>3. CASE calm' = 0
  <2>1. TimeInv' /\ Accounted'
    BY PollRegionTime
  <2> QED
    BY <1>3, <2>1, StepNotCalm
<1>4. CASE PastDeadline /\ calm' = calm
  <2>1. calm = 0
    BY <1>1, <1>2, <1>4 DEF RecoverInv, Phase, Begun, Inherited, PastDeadline
  <2> QED
    BY <1>3, <1>4, <2>1
<1>5. CASE ~PastDeadline /\ Store(r)
  <2>1. loop' = [loop EXCEPT !.todo = loop.todo \ {r}, !.stepped = TRUE]
    BY <1>5 DEF Store, SetLoop
  <2>2. /\ loop'.pc = "polling" /\ loop'.base = loop.base
        /\ loop'.elapsed = loop.elapsed /\ loop'.stepped = TRUE
        /\ loop'.todo = loop.todo \ {r} /\ loop'.failed = loop.failed
    BY <1>1, <1>2, <2>1 DEF Loop
  <2>3. \A q \in Regs : stored'[q] = IF q = r THEN stored[q] \cup ({loop.base} \cap Ages)
                                     ELSE stored[q]
    BY <1>2, <1>5 DEF Store
  <2>4. Loaded(0) \subseteq Loaded(0)' /\ Loaded(1) \subseteq Loaded(1)'
    BY <2>3 DEF Loaded
  <2>5. loop.base = 0 => r \in Loaded(0)'
    <3>1. loop.base = 0 => 0 \in stored'[r]
      <4>1. stored'[r] = stored[r] \cup ({loop.base} \cap Ages)
        BY <2>3
      <4>2. 0 \in Ages
        BY DEF Ages
      <4> QED
        BY <4>1, <4>2, Zenon
    <3> QED
      BY <3>1 DEF Loaded
  <2>6. Phase(loop', calm)
    BY <1>1, <1>2, <1>5, <2>2 DEF RecoverInv, Phase, Begun, Inherited, PastDeadline
  <2>7. calm' = calm
    BY <1>5 DEF Store
  <2>8. Wanted' = Wanted
    BY <1>1 DEF Wanted
  <2>9. Fills'
    <3> SUFFICES ASSUME loop.base = 0, loop.elapsed < calm
                 PROVE  Wanted \ loop'.todo \subseteq Loaded(0)'
      BY <2>2, <2>7, <2>8 DEF Fills
    <3>1. Wanted \ loop.todo \subseteq Loaded(0)
      BY <1>1 DEF RecoverInv, Fills
    <3> QED
      BY <2>2, <2>4, <2>5, <3>1
  <2> QED
    BY <1>1, <2>2, <2>4, <2>6, <2>7, <2>9, StillPolling
<1> QED
  BY <1>3, <1>4, <1>5 DEF PollRegion, Fail

LEMMA EndRoundRecover ==
  ASSUME TimeInv, Accounted, NEW final, IsFinal(final), DeadlineUnits >= 2,
         RecoverInv(final), EndRound
  PROVE  RecoverInv(final)'
<1>1. /\ UNCHANGED <<clock, active, stored, due, calm>>
      /\ loop.pc = "polling" /\ loop.todo = {}
  BY DEF EndRound
<1>2. /\ loop \in Loop /\ loop.elapsed \in Nat /\ calm \in Nat
  BY Here
<1>3. Wanted' = Wanted /\ Loaded(0)' = Loaded(0) /\ Loaded(1)' = Loaded(1)
  BY <1>1 DEF Wanted, Loaded
<1>4. CASE loop' = Idle
  <2>1. loop.base = 0 /\ loop.elapsed < calm => AllFresh
    BY <1>1 DEF RecoverInv, Fills, AllFresh
  <2>2. Phase(loop', calm) /\ Fills' /\ NotBusy(final)'
    BY <1>2, <1>4, AtStart
  <2> QED
    BY <1>1, <1>3, <2>1, <2>2, GoesOn
<1>5. CASE loop.failed # {} /\ SetLoop([loop EXCEPT !.pc = "round"])
  <2>1. /\ loop'.pc = "round" /\ loop'.base = loop.base
        /\ loop'.elapsed = loop.elapsed /\ loop'.stepped = TRUE
    BY <1>2, <1>5 DEF Loop, SetLoop
  <2>2. Phase(loop', calm) /\ ~(loop.elapsed < calm)
    BY <1>1, <1>2, <1>5, <2>1 DEF RecoverInv, Phase, Begun, Inherited
  <2>3. Fills' /\ NotBusy(final)'
    BY <2>1 DEF Fills, NotBusy
  <2> QED
    BY <1>1, <1>3, <2>2, <2>3, GoesOn
<1> QED
  BY <1>4, <1>5 DEF EndRound, ExitLoop

\* A watch that meets a running loop stands back.  After so long a calm that
\* loop is a young one of the newest edition, which serves the watch as well.
LEMMA WatchRecover ==
  ASSUME TimeInv, Accounted, NEW final, IsFinal(final), DeadlineUnits >= 2,
         RecoverInv(final), FireWatch
  PROVE  RecoverInv(final)'
<1>1. /\ UNCHANGED <<clock, active, stored, gauge, calm>>
      /\ loop' = IF Fresh \/ Running THEN loop ELSE Started
  BY DEF FireWatch
<1>2. /\ loop \in Loop /\ loop.elapsed \in Nat /\ loop.base \in {0, 1}
      /\ loop.pc \in {"idle", "round", "polling"}
      /\ loop.base = 1 => loop.elapsed > clock
      /\ clock \in Nat /\ calm \in Nat /\ EditionUnits \in Nat
      /\ WatchMarks \subseteq Nat
  BY Here
<1>3. Wanted' = Wanted /\ Loaded(0)' = Loaded(0) /\ Loaded(1)' = Loaded(1)
  BY <1>1 DEF Wanted, Loaded
<1>4. Started.pc = "round" /\ Started.elapsed = 0 /\ Started.base = 0
  BY DEF Started, Idle
<1>5. Phase(loop', calm) /\ Fills' /\ NotBusy(final)'
  <2>1. CASE loop' = loop
    BY <1>1, <1>3, <2>1 DEF RecoverInv, Fills, NotBusy, InTheEnd
  <2>2. CASE loop' = Started
    BY <1>2, <2>2, AtStart
  <2> QED
    BY <1>1, <2>1, <2>2
<1>6. Phase(loop, calm)'
  BY <1>1, <1>5 DEF Phase, Begun, Inherited
<1>7. EarlierLoaded(final)'
  BY <1>1, <1>3 DEF RecoverInv, EarlierLoaded, InTheEnd
<1>8. ASSUME NEW m \in WatchMarks, 1 <= m, m <= clock,
             clock + Notice(m, final) <= calm + m
      PROVE  Served(m)'
  <2>0. /\ m \in Nat /\ Notice(m, final) \in Nat /\ Settled \in {3, 4}
        /\ Notice(m, final) >= Settled
        /\ m = 1 => Notice(m, final) = InTheEnd(final) + 2
        /\ InTheEnd(final) \in Nat
    BY <1>2, Thresholds
  <2>1. CASE AllFresh
    BY <1>3, <2>1 DEF Served, AllFresh
  <2>2. CASE ~AllFresh /\ ~Running
    <3>1. m = clock
      BY <1>8, <2>2 DEF RecoverInv, AllServed, Served
    <3>2. loop' = Started
      BY <1>1, <2>2 DEF Fresh, AllFresh
    <3>3. calm > 0
      BY <1>2, <2>0, <1>8, <3>1
    <3> QED
      BY <1>1, <1>2, <1>4, <3>1, <3>2, <3>3 DEF Served, Running
  <2>3. CASE ~AllFresh /\ Running /\ m # clock
    <3>1. loop' = loop
      BY <1>1, <2>3
    <3>2. loop.base = 0 /\ loop.elapsed < calm /\ loop.elapsed + m >= clock
      BY <1>8, <2>3 DEF RecoverInv, AllServed, Served
    <3> QED
      BY <1>1, <2>3, <3>1, <3>2 DEF Served, Running
  <2>4. CASE Running /\ m = clock
    <3>1. loop' = loop /\ loop.pc \in {"round", "polling"}
      BY <1>1, <1>2, <2>4 DEF Running
    <3>2. calm >= Notice(m, final) /\ calm >= Settled
      BY <1>2, <1>8, <2>0, <2>4
    <3>3. loop.elapsed < calm /\ Begun(loop)
      BY <1>2, <3>1, <3>2, Numbers DEF RecoverInv, Phase, Inherited, Settled
    <3>4. loop.elapsed <= 2 /\ (loop.pc = "round" => loop.elapsed <= 1)
      BY <3>1, <3>3 DEF Begun
    <3>5. loop.base = 0
      <4> SUFFICES ASSUME loop.base = 1 PROVE FALSE
        BY <1>2
      <4>1. m = 1 /\ loop.elapsed = 2 /\ loop.pc = "polling"
        BY <1>2, <1>8, <2>0, <2>4, <3>1, <3>4
      <4>2. calm >= InTheEnd(final) + 2
        BY <2>0, <3>2, <4>1
      <4>3. ~(1 * EditionUnits + clock < (EditionUnits - 1) + loop.elapsed)
        BY <1>2, <2>4, <4>1
      <4> QED
        BY <1>2, <2>0, <3>3, <4>1, <4>2, <4>3 DEF RecoverInv, NotBusy
    <3> QED
      BY <1>1, <1>2, <2>4, <3>1, <3>3, <3>5 DEF Served, Running
  <2> QED
    BY <2>1, <2>2, <2>3, <2>4
<1>9. AllServed(final)'
  BY <1>1, <1>8 DEF AllServed, Notice
<1> QED
  BY <1>5, <1>6, <1>7, <1>9 DEF RecoverInv

\* Steps that start, drop or kill a loop, and switching a grid.
LEMMA LauncherRecover ==
  ASSUME TimeInv, Accounted, NEW final, IsFinal(final), DeadlineUnits >= 2,
         RecoverInv(final),
         \/ FireCron \/ FireWatch \/ RunNow \/ RoundRaises \/ Restart
         \/ \E g \in Grids : ToggleGrid(g)
  PROVE  RecoverInv(final)'
<1>1. CASE calm' = 0
  <2>1. TimeInv' /\ Accounted'
    BY LauncherTime
  <2> QED
    BY <1>1, <2>1, StepNotCalm
<1>2. CASE FireWatch
  BY <1>2, WatchRecover
<1>3. CASE (FireCron \/ RunNow \/ \E g \in Grids : ToggleGrid(g)) /\ calm' # 0
  <2>1. /\ UNCHANGED <<clock, stored, calm>> /\ active' \subseteq active
        /\ "watch" \in due => "watch" \in due'
        /\ loop' = loop \/ (loop' = Started /\ ~Running)
    BY <1>3 DEF FireCron, RunNow, ToggleGrid
  <2>2. /\ Wanted' \subseteq Wanted
        /\ Loaded(0)' = Loaded(0) /\ Loaded(1)' = Loaded(1)
    BY <2>1 DEF Wanted, Loaded
  <2>3. Phase(loop', calm) /\ Fills' /\ NotBusy(final)'
    <3>1. CASE loop' = loop
      BY <2>1, <2>2, <3>1 DEF RecoverInv, Fills, NotBusy, InTheEnd
    <3>2. CASE loop' = Started
      BY <3>2, AtStart, Here
    <3> QED
      BY <2>1, <3>1, <3>2
  <2> QED
    BY <2>1, <2>2, <2>3, GoesOn DEF Running
<1> QED
  BY <1>1, <1>2, <1>3 DEF RoundRaises, Restart

\* A unit passes over the loop: every case of Phase one unit on.
LEMMA TickPhase ==
  ASSUME NEW r \in Loop, r.pc # "idle", r.stepped, r.todo = {},
         NEW s, s.pc = r.pc, s.elapsed = r.elapsed + 1, s.stepped = FALSE,
         s.todo = {}, s.failed = r.failed,
         NEW k \in Nat, NEW j \in Nat, Phase(r, k),
         j = k + 1 \/ (j = k /\ k >= Settled),
         DeadlineUnits \in Nat
  PROVE  Phase(s, j)
<1>1. r.elapsed \in Nat /\ r.pc \in {"round", "polling"}
  BY DEF Loop
<1>2. CASE k = 0
  BY <1>1, <1>2 DEF Phase, Inherited, Settled
<1>3. CASE k # 0 /\ r.elapsed < k /\ Begun(r)
  BY <1>1, <1>3 DEF Phase, Begun, Settled
<1>4. CASE k # 0 /\ r.elapsed >= k /\ Inherited(r, k)
  <2>1. s.elapsed >= j /\ Inherited(s, j)
    BY <1>1, <1>4 DEF Inherited, Settled
  <2> QED
    BY <2>1 DEF Phase
<1> QED
  BY <1>2, <1>3, <1>4 DEF Phase

LEMMA TickRecover ==
  ASSUME TimeInv, Accounted, NEW final, IsFinal(final), DeadlineUnits >= 2,
         RecoverInv(final), CalmCap >= Settled, Tick
  PROVE  RecoverInv(final)'
<1> DEFINE wrapped == clock + 1 = EditionUnits
           older(a) == IF wrapped THEN a + 1 ELSE a
<1>1. /\ clock' = IF wrapped THEN 0 ELSE clock + 1
      /\ stored' = [r \in Regs |-> {older(a) : a \in stored[r]} \cap Ages]
      /\ active' = active
      /\ due' = (IF wrapped THEN {"cron"} ELSE {})
                  \cup (IF clock' \in WatchMarks THEN {"watch"} ELSE {})
      /\ "watch" \notin due
      /\ Running => loop.stepped
      /\ ~Running => loop' = Idle
  BY DEF Tick
<1>2. /\ loop \in Loop /\ loop.elapsed \in Nat /\ loop.base \in {0, 1}
      /\ loop.pc \in {"idle", "round", "polling"}
      /\ loop.base = 1 => loop.elapsed > clock
      /\ clock \in Nat /\ clock <= EditionUnits - 1
      /\ calm \in Nat /\ calm <= CalmCap /\ CalmCap \in Nat
      /\ WatchMarks \subseteq Nat
      /\ EditionUnits \in Nat /\ EditionUnits >= 5
      /\ DeadlineUnits \in Nat
      /\ stored \in [Regs -> SUBSET Ages]
  BY Here
<1>3. CASE loop.todo # {}
  <2>1. TimeInv' /\ Accounted' /\ calm' = 0
    BY <1>3, TickTime DEF Tick
  <2> QED
    BY <2>1, StepNotCalm
<1>4. CASE loop.todo = {}
  <2>1. /\ Settled \in {3, 4}
        /\ InTheEnd(final) \in Nat /\ InTheEnd(final) >= Settled
    BY Thresholds
  <2>2. /\ calm' \in Nat
        /\ calm' = calm + 1 \/ (calm' = calm /\ calm >= Settled)
    <3>1. calm' = IF calm < CalmCap THEN calm + 1 ELSE calm
      BY <1>4 DEF Tick
    <3> QED
      BY <1>2, <2>1, <3>1
  <2>3. Running => /\ loop'.pc = loop.pc /\ loop'.base = older(loop.base)
                   /\ loop'.elapsed = loop.elapsed + 1 /\ loop'.stepped = FALSE
                   /\ loop'.todo = {} /\ loop'.failed = loop.failed
    <3> SUFFICES ASSUME Running
                 PROVE  /\ loop'.pc = loop.pc /\ loop'.base = older(loop.base)
                        /\ loop'.elapsed = loop.elapsed + 1 /\ loop'.stepped = FALSE
                        /\ loop'.todo = {} /\ loop'.failed = loop.failed
      OBVIOUS
    <3>1. loop'.pc = loop.pc /\ loop'.failed = loop.failed
          /\ loop'.todo = {} /\ loop'.elapsed = loop.elapsed + 1
      BY <1>4, AgedLoop
    <3>2. loop'.base = IF loop.base < 2 THEN older(loop.base) ELSE loop.base
      BY <1>2 DEF Tick, Loop
    <3>3. loop'.stepped = FALSE
      BY <1>2 DEF Tick, Loop
    <3> QED
      BY <1>2, <3>1, <3>2, <3>3
  <2>4. ~Running => loop'.pc = "idle"
    BY <1>1 DEF Idle
  <2>5. Wanted' = Wanted
    BY <1>1 DEF Wanted
\* Nothing is lost of an edition but that it grows older.
  <2>6. /\ ~wrapped => Loaded(0)' = Loaded(0) /\ Loaded(1)' = Loaded(1)
        /\ wrapped => Loaded(1)' = Loaded(0)
    <3>1. \A r \in Regs, b \in Ages : b \in stored'[r] <=>
                                        \E a \in stored[r] : b = older(a)
      BY <1>1
    <3>2. \A r \in Regs : stored[r] \subseteq {0, 1}
      BY <1>2 DEF Ages
    <3>3. 0 \in Ages /\ 1 \in Ages
      BY DEF Ages
    <3>4. ~wrapped => \A r \in Regs, b \in Ages : b \in stored'[r] <=> b \in stored[r]
      BY <3>1
    <3>5. wrapped => \A r \in Regs : 1 \in stored'[r] <=> 0 \in stored[r]
      <4> SUFFICES ASSUME wrapped, NEW r \in Regs
                   PROVE  1 \in stored'[r] <=> 0 \in stored[r]
        OBVIOUS
      <4>1. older(0) = 1 /\ older(1) = 2
        OBVIOUS
      <4> HIDE DEF older, wrapped
      <4> QED
        BY <3>1, <3>2, <3>3, <4>1
    <3> HIDE DEF older, wrapped
    <3> QED
      BY <3>3, <3>4, <3>5 DEF Loaded
  <2>7. Phase(loop', calm')
    <3>1. CASE Running
      BY <1>1, <1>2, <1>4, <2>2, <2>3, <3>1, TickPhase DEF RecoverInv, Running
    <3>2. CASE ~Running
      BY <2>4, <3>2 DEF Phase
    <3> QED
      BY <3>1, <3>2
  <2>8. Phase(loop, calm)'
    BY <2>7 DEF Phase, Begun, Inherited
\* A loop that began in the calm did so before this unit passed too.
  <2>9. Running /\ loop'.elapsed < calm' => loop.elapsed < calm
    BY <1>2, <2>2, <2>3
  <2>10. Fills'
    <3> SUFFICES ASSUME loop'.pc = "polling", loop'.base = 0,
                        loop'.elapsed < calm'
                 PROVE  Wanted' \ loop'.todo \subseteq Loaded(0)'
      BY DEF Fills
    <3>1. Running /\ loop.pc = "polling"
      BY <2>3, <2>4
    <3>2. ~wrapped /\ loop.base = 0
      BY <1>2, <2>3, <3>1
    <3>3. Wanted \ loop.todo \subseteq Loaded(0)
      BY <2>9, <3>1, <3>2 DEF RecoverInv, Fills
    <3> HIDE DEF wrapped
    <3> QED
      BY <1>4, <2>3, <2>5, <2>6, <3>1, <3>2, <3>3
  <2>11. EarlierLoaded(final)'
    <3> SUFFICES ASSUME calm' >= InTheEnd(final) + clock' + 1
                 PROVE  Wanted' \subseteq Loaded(1)'
      BY DEF EarlierLoaded, InTheEnd
    <3>1. CASE wrapped
      <4>1. clock' = 0 /\ clock >= EditionUnits - 1
        BY <1>1, <1>2, <3>1
      <4>2. calm >= InTheEnd(final)
        BY <1>2, <2>1, <2>2, <4>1
      <4>3. AllFresh
        BY <4>1, <4>2, FreshInTheEnd
      <4> HIDE DEF wrapped
      <4> QED
        BY <2>5, <2>6, <3>1, <4>3 DEF AllFresh
    <3>2. CASE ~wrapped
      <4>1. clock' = clock + 1
        BY <1>1, <3>2
      <4>2. calm >= InTheEnd(final) + clock + 1
        BY <1>2, <2>1, <2>2, <4>1
      <4> HIDE DEF wrapped
      <4> QED
        BY <2>5, <2>6, <3>2, <4>2 DEF RecoverInv, EarlierLoaded
    <3> QED
      BY <3>1, <3>2
  <2>12. NotBusy(final)'
    <3> SUFFICES ASSUME loop'.pc = "polling", loop'.elapsed < calm'
                 PROVE  \/ loop'.base * EditionUnits + clock'
                             < (EditionUnits - 1) + loop'.elapsed
                        \/ calm' < InTheEnd(final) + loop'.elapsed
      BY DEF NotBusy, InTheEnd
    <3>1. Running /\ loop.pc = "polling"
      BY <2>3, <2>4
    <3>2. loop'.elapsed = loop.elapsed + 1 /\ loop'.base = older(loop.base)
      BY <2>3, <3>1
    <3>3. \/ loop.base * EditionUnits + clock < (EditionUnits - 1) + loop.elapsed
          \/ calm < InTheEnd(final) + loop.elapsed
      BY <2>9, <3>1 DEF RecoverInv, NotBusy
    <3>4. CASE calm < InTheEnd(final) + loop.elapsed
      BY <1>2, <2>1, <2>2, <3>2, <3>4
    <3>5. CASE loop.base = 0 /\ clock < (EditionUnits - 1) + loop.elapsed
      <4>1. CASE wrapped
        <5>1. loop'.base = 1 /\ clock' = 0
          BY <1>1, <3>2, <3>5, <4>1
        <5>2. loop'.base * EditionUnits + clock' = EditionUnits
          BY <1>2, <5>1
        <5>3. loop.elapsed > 0
          BY <1>2, <3>5, <4>1
        <5> QED
          BY <1>2, <3>2, <5>2, <5>3
      <4>2. CASE ~wrapped
        <5>1. loop'.base = 0 /\ clock' = clock + 1
          BY <1>1, <3>2, <3>5, <4>2
        <5>2. loop'.base * EditionUnits + clock' = clock + 1
          BY <1>2, <5>1
        <5> QED
          BY <1>2, <3>2, <3>5, <5>2
      <4> QED
        BY <4>1, <4>2
    <3>6. CASE loop.base = 1 /\ 1 * EditionUnits + clock < (EditionUnits - 1) + loop.elapsed
      <4>1. ~wrapped
        <5>1. loop'.base \in {0, 1}
          <6>1. Accounted'
            BY TickTime
          <6> QED
            BY <6>1 DEF Accounted
        <5> QED
          BY <3>2, <3>6, <5>1
      <4>2. loop'.base = 1 /\ clock' = clock + 1
        BY <1>1, <3>2, <3>6, <4>1
      <4>3. loop'.base * EditionUnits + clock' = EditionUnits + clock + 1
        BY <1>2, <4>2
      <4> QED
        BY <1>2, <3>2, <3>6, <4>3
    <3>7. loop.base = 0 => loop.base * EditionUnits + clock = clock
      BY <1>2
    <3> QED
      BY <1>2, <3>3, <3>4, <3>5, <3>6, <3>7
  <2>13. ASSUME NEW m \in WatchMarks, 1 <= m, m <= clock',
                clock' + Notice(m, final) <= calm' + m
         PROVE  Served(m)'
    <3>1. /\ m \in Nat /\ clock' = clock + 1 /\ ~wrapped
          /\ Notice(m, final) \in Nat
      BY <1>1, <1>2, <2>13, Thresholds
    <3>2. CASE m = clock'
      BY <1>1, <3>2 DEF Served
    <3>3. CASE m # clock'
      <4>1. m <= clock /\ clock + Notice(m, final) <= calm + m
        <5>1. m <= clock + 1 /\ m # clock + 1
              /\ clock + 1 + Notice(m, final) <= calm' + m
          BY <2>13, <3>1, <3>3
        <5>2. calm' = calm + 1 \/ calm' = calm
          BY <2>2
        <5> QED
          BY <1>2, <3>1, <5>1, <5>2
      <4>2. Served(m)
        BY <2>13, <4>1 DEF RecoverInv, AllServed
      <4>3. CASE AllFresh
        <5> HIDE DEF wrapped
        <5> QED
          BY <2>5, <2>6, <3>1, <4>3 DEF Served, AllFresh
      <4>4. CASE /\ Running /\ loop.base = 0
                 /\ loop.elapsed < calm /\ loop.elapsed + m >= clock
        <5>1. loop.elapsed <= 1
          BY <1>1, <1>2, <4>4 DEF RecoverInv, Phase, Begun, Running
        <5>2. loop'.elapsed < calm'
          BY <1>2, <2>1, <2>2, <2>3, <4>4, <5>1
        <5>3. loop'.base = 0 /\ loop'.elapsed + m >= clock'
          BY <1>2, <2>3, <3>1, <4>4
        <5> QED
          BY <2>3, <4>4, <5>2, <5>3 DEF Served, Running
      <4> QED
        BY <1>1, <4>2, <4>3, <4>4 DEF Served
    <3> QED
      BY <3>2, <3>3
  <2>14. AllServed(final)'
    BY <2>13 DEF AllServed, Notice
  <2> QED
    BY <2>8, <2>10, <2>11, <2>12, <2>14 DEF RecoverInv
<1> QED
  BY <1>3, <1>4

LEMMA NextRecover ==
  ASSUME TimeInv, Accounted, NEW final, IsFinal(final), DeadlineUnits >= 2,
         RecoverInv(final), CalmCap >= Settled, [Next]_vars
  PROVE  RecoverInv(final)'
<1>1. CASE \/ FireCron \/ FireWatch \/ RunNow \/ RoundRaises \/ Restart
           \/ \E g \in Grids : ToggleGrid(g)
  BY <1>1, LauncherRecover
<1>2. CASE Round \/ EndRound \/ \E r \in Regs : PollRegion(r)
  BY <1>2, RoundRecover, EndRoundRecover, PollRegionRecover
<1>3. CASE Tick
  BY <1>3, TickRecover
<1>4. CASE UNCHANGED vars
  <2>1. /\ Wanted' = Wanted /\ Loaded(0)' = Loaded(0) /\ Loaded(1)' = Loaded(1)
        /\ UNCHANGED <<clock, due, calm, loop>>
    BY <1>4 DEF vars, Wanted, Loaded
  <2>2. Phase(loop', calm) /\ Fills' /\ NotBusy(final)'
    BY <2>1 DEF RecoverInv, Fills, NotBusy, InTheEnd
  <2> QED
    BY <2>1, <2>2, GoesOn DEF Running
<1> QED
  BY <1>1, <1>2, <1>3, <1>4 DEF Next, LoopStep

\* The invariant, for a watch that serves its edition in time.
LEMMA RecoverInvariant ==
  ASSUME NEW final, IsFinal(final), DeadlineUnits >= 2, CalmCap >= Settled
  PROVE  Spec => []RecoverInv(final)
<1>1. Init => RecoverInv(final)
  <2>1. Init => calm = 0
    BY DEF Init
  <2> QED
    BY <2>1, InitTime, NotCalm
<1>2. TimeInv /\ Accounted /\ RecoverInv(final) /\ [Next]_vars => RecoverInv(final)'
  BY NextRecover
<1> QED
  BY <1>1, <1>2, MidInvariant, PTL DEF Spec

\* mid_freshness_watchdog makes good whatever was missed: within RecoveryUnits
\* of calm every region of an active grid has its rows of the expected edition,
\* for any regions and grids, if the marks serve the edition.  A loop that makes
\* a watch stand back does the same work, or has nothing to poll and is gone
\* before it could.
THEOREM WatchdogRefillsAlways ==
  ASSUME MarksServe
  PROVE  Spec => []WatchdogRefills
<1>1. PICK final \in WatchMarks :
        /\ 2 <= final /\ final + 2 < EditionUnits
        /\ \A c \in LoadUnits..(EditionUnits - 1) :
             \E m \in WatchMarks : /\ 1 <= m /\ m + 2 <= c
                                   /\ c + Notice(m, final) <= m + RecoveryUnits
  BY DEF MarksServe
<1>2. IsFinal(final)
  BY <1>1 DEF IsFinal
<1>3. /\ DeadlineUnits >= 2 /\ CalmCap >= Settled
      /\ {CalmCap, RecoveryUnits, LoadUnits} \subseteq Nat
  <2>1. {CalmCap, RecoveryUnits, LoadUnits} \subseteq Nat
    BY UnitsAssumption
  <2> QED
    BY <2>1 DEF MarksServe, Settled
<1>4. Spec => []RecoverInv(final)
  BY <1>2, <1>3, RecoverInvariant
<1>5. ASSUME TimeInv, Accounted, RecoverInv(final)
      PROVE  WatchdogRefills
  <2> SUFFICES ASSUME calm >= RecoveryUnits, clock >= LoadUnits
               PROVE  AllFresh
    BY DEF WatchdogRefills, AllFresh
  <2>1. /\ clock \in Nat /\ calm \in Nat /\ WatchMarks \subseteq Nat
        /\ clock \in LoadUnits..(EditionUnits - 1)
    BY <1>2, <1>3, <1>5, Here
  <2>2. PICK m \in WatchMarks : /\ 1 <= m /\ m + 2 <= clock
                                /\ clock + Notice(m, final) <= m + RecoveryUnits
    BY <1>1, <2>1
  <2>3. m \in Nat /\ Notice(m, final) \in Nat
    BY <1>2, <2>1, Thresholds
  <2>4. clock + Notice(m, final) <= calm + m
    BY <1>3, <2>1, <2>2, <2>3
  <2> QED
    BY <1>2, <1>3, <1>5, <2>2, <2>4, ServedIsFresh
<1> QED
  BY <1>4, <1>5, MidInvariant, PTL
=============================================================================
