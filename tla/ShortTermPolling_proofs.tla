---------------------- MODULE ShortTermPolling_proofs ----------------------
(***************************************************************************)
(* For every set of hubs and grids and every clock: the loop's state is    *)
(* well typed, a loop ends soon after its deadline however long the list   *)
(* of grids, no grid's rows go back to an earlier edition, and housekeeping*)
(* takes only what is past its slots.  One hub alone reports exactly what  *)
(* is missing and, once its surroundings are calm, fills every grid within *)
(* the slot.                                                               *)
(***************************************************************************)
EXTENDS ShortTermPolling, FiniteSetTheorems, TLAPS

\* How far past its start a loop may be at each of its points, before and
\* after it took a step in the current unit.
InTime(r) ==
  LET spare == IF r.stepped THEN 0 ELSE 1
  IN \/ r.pc = "idle" /\ r.elapsed = 0
     \/ r.pc = "round" /\ r.elapsed <= DeadlineUnits + 1 + spare
     \/ r.pc = "polling" /\ r.todo = {} /\ r.elapsed <= DeadlineUnits + spare
     \/ r.pc = "polling" /\ r.todo # {} /\ r.elapsed <= DeadlineUnits - 1 + spare

\* The inductive strengthening of LoopEndsSoon.
TimeInv == TypeOK /\ \A h \in Hubs : InTime(loop[h])

\* Whatever a grid list has lost, its size is a value the gauge can take.
LEMMA CountOfGrids ==
  ASSUME NEW S \in SUBSET Grids
  PROVE  Cardinality(S) \in 0..Cardinality(Grids)
<1>1. IsFiniteSet(Grids)
  BY UnitsAssumption
<1>2. /\ Cardinality(Grids) \in Nat
      /\ Cardinality(S) \in Nat
      /\ Cardinality(S) <= Cardinality(Grids)
  BY <1>1, FS_Subset, FS_CardinalityType
<1> QED
  BY <1>2

\* The units as numbers.
LEMMA Numbers ==
  /\ SlotUnits \in Nat /\ SlotUnits >= 1
  /\ DeadlineUnits \in Nat /\ DeadlineUnits >= 1
  /\ CalmCap \in Nat
<1>1. SlotUnits \in Nat \ {0} /\ DeadlineUnits \in Nat \ {0} /\ CalmCap \in Nat
  BY UnitsAssumption
<1> QED
  BY <1>1

\* The records a loop starts and ends with are well typed and in time.
LEMMA FixedRecords ==
  /\ Idle \in Loop /\ InTime(Idle)
  /\ Started \in Loop /\ InTime(Started)
<1>1. Idle \in Loop
  BY DEF Idle, Loop, Gone
<1>2. Started \in Loop
  BY <1>1 DEF Idle, Started, Loop
<1>3. InTime(Idle)
  BY DEF Idle, InTime
<1>4. /\ Started.pc = "round" /\ Started.elapsed = 0
      /\ Started.stepped = TRUE
  BY DEF Started, Idle
<1>5. InTime(Started)
  BY <1>4, Numbers DEF InTime
<1> QED
  BY <1>1, <1>2, <1>3, <1>5

\* Changing one hub's record to a good one keeps every hub's record good.
LEMMA OneHub ==
  ASSUME TimeInv, NEW h \in Hubs, NEW r \in Loop, InTime(r),
         loop' = [loop EXCEPT ![h] = r]
  PROVE  /\ loop' \in [Hubs -> Loop]
         /\ \A i \in Hubs : InTime(loop'[i])
BY DEF TimeInv, TypeOK

\* A step that changes one hub's record and leaves the rest well typed.
LEMMA HubStep ==
  ASSUME TimeInv, NEW h \in Hubs, NEW r \in Loop, InTime(r),
         loop' = [loop EXCEPT ![h] = r],
         clock' = clock, active' = active,
         age' \in [Grids -> 0..Gone],
         due' \in [Hubs -> BOOLEAN],
         gauge' \in 0..Cardinality(Grids),
         calm' \in 0..CalmCap
  PROVE  TimeInv'
<1>1. loop' \in [Hubs -> Loop] /\ \A i \in Hubs : InTime(loop'[i])
  BY OneHub
<1>2. \A i \in Hubs : InTime(loop[i])'
  BY <1>1 DEF InTime
<1> QED
  BY <1>1, <1>2 DEF TimeInv, TypeOK

\* The numbers the step lemmas need.
LEMMA Zeroes == 0 \in 0..Cardinality(Grids) /\ 0 \in 0..CalmCap
<1>1. Cardinality({}) \in 0..Cardinality(Grids)
  BY CountOfGrids
<1> QED
  BY <1>1, FS_EmptySet, UnitsAssumption

\* First deployment satisfies the invariant.
LEMMA InitTime == Init => TimeInv
<1> SUFFICES ASSUME Init PROVE TimeInv
  OBVIOUS
<1>1. TypeOK
  BY FixedRecords, Zeroes, UnitsAssumption DEF Init, TypeOK, Gone
<1>2. \A h \in Hubs : InTime(loop[h])
  BY FixedRecords DEF Init
<1> QED
  BY <1>1, <1>2 DEF TimeInv

\* The head of the while loop.
LEMMA RoundTime ==
  ASSUME TimeInv, NEW h \in Hubs, Round(h)
  PROVE  TimeInv'
<1> DEFINE polling(S) == [loop[h] EXCEPT !.pc = "polling", !.targets = S,
                            !.todo = S, !.failed = {}, !.stepped = TRUE]
<1>1. loop[h] \in Loop /\ InTime(loop[h])
  BY DEF TimeInv, TypeOK
<1>2. CASE \E S \in SUBSET Grids : ExitLoop(h, Cardinality(S))
  BY <1>2, HubStep, FixedRecords, CountOfGrids
     DEF ExitLoop, Round, TimeInv, TypeOK
<1>3. CASE ExitLoop(h, 0)
  BY <1>3, HubStep, FixedRecords, Zeroes DEF ExitLoop, Round, TimeInv, TypeOK
<1>4. ASSUME NEW S \in SUBSET Grids, S # {}, ~PastDeadline(h),
             loop' = [loop EXCEPT ![h] = polling(S)], UNCHANGED gauge
      PROVE  TimeInv'
  <2>1. polling(S) \in Loop
    BY <1>1 DEF Loop
  <2>2. InTime(polling(S))
    BY <1>1, <1>4, UnitsAssumption DEF InTime, PastDeadline, Loop
  <2> HIDE DEF polling
  <2> QED
    BY <1>4, <2>1, <2>2, HubStep DEF Round, TimeInv, TypeOK
<1>5. CASE PastDeadline(h)
  <2>1. loop[h].failed \in SUBSET Grids
    BY <1>1 DEF Loop
  <2> QED
    BY <1>2, <1>5, <2>1 DEF Round
<1>6. CASE ~PastDeadline(h)
  <2> PICK older \in SUBSET MayHold(loop[h].base) :
         LET pending == active \ (Loaded(loop[h].base) \cup older)
         IN \/ pending = {} /\ ExitLoop(h, 0)
            \/ /\ pending # {}
               /\ loop' = [loop EXCEPT ![h] = polling(pending)]
               /\ UNCHANGED gauge
    BY <1>6 DEF Round, SetLoop
  <2> DEFINE S == active \ (Loaded(loop[h].base) \cup older)
  <2>1. S \in SUBSET Grids
    BY DEF TimeInv, TypeOK
  <2> HIDE DEF polling
  <2> QED
    BY <1>3, <1>4, <1>6, <2>1
<1> QED
  BY <1>5, <1>6

\* One grid of the round, whatever comes of it.
LEMMA PollGridTime ==
  ASSUME TimeInv, NEW h \in Hubs, NEW g \in Grids, PollGrid(h, g)
  PROVE  TimeInv'
<1> DEFINE gaveUp == [loop[h] EXCEPT !.todo = {}, !.failed = @ \cup loop[h].todo,
                                     !.stepped = TRUE]
           stored == [loop[h] EXCEPT !.todo = @ \ {g}, !.stepped = TRUE]
           missed == [loop[h] EXCEPT !.todo = @ \ {g}, !.failed = @ \cup {g},
                                     !.stepped = TRUE]
<1>1. loop[h] \in Loop /\ InTime(loop[h])
  BY DEF TimeInv, TypeOK
<1>2. gaveUp \in Loop /\ stored \in Loop /\ missed \in Loop
  BY <1>1 DEF Loop
<1>3. loop[h].pc = "polling" /\ loop[h].todo # {}
  BY DEF PollGrid
<1>4. InTime(gaveUp)
  BY <1>1, <1>3, UnitsAssumption DEF InTime, Loop
<1>5. ~PastDeadline(h) => InTime(stored) /\ InTime(missed)
  BY <1>1, <1>3, UnitsAssumption DEF InTime, Loop, PastDeadline
<1>6. /\ clock' = clock /\ active' = active
      /\ due' \in [Hubs -> BOOLEAN] /\ gauge' \in 0..Cardinality(Grids)
  BY DEF PollGrid, TimeInv, TypeOK
<1>7. CASE /\ PastDeadline(h)
           /\ loop' = [loop EXCEPT ![h] = gaveUp]
           /\ UNCHANGED <<age, calm>>
  <2> HIDE DEF gaveUp
  <2>1. age' \in [Grids -> 0..Gone] /\ calm' \in 0..CalmCap
    BY <1>7 DEF TimeInv, TypeOK
  <2> QED
    BY <1>2, <1>4, <1>6, <1>7, <2>1, HubStep
<1>8. CASE /\ ~PastDeadline(h)
           /\ age' = [age EXCEPT ![g] = Upsert(@, loop[h].base)]
           /\ loop' = [loop EXCEPT ![h] = stored]
           /\ UNCHANGED calm
  <2> HIDE DEF stored
  <2>1. Upsert(age[g], loop[h].base) \in 0..Gone
    BY <1>1 DEF Upsert, Loop, TimeInv, TypeOK
  <2>2. age' \in [Grids -> 0..Gone]
    BY <1>8, <2>1 DEF TimeInv, TypeOK
  <2>3. calm' \in 0..CalmCap
    BY <1>8 DEF TimeInv, TypeOK
  <2> QED
    BY <1>2, <1>5, <1>6, <1>8, <2>2, <2>3, HubStep
<1>9. CASE /\ ~PastDeadline(h)
           /\ loop' = [loop EXCEPT ![h] = missed]
           /\ calm' = 0
           /\ UNCHANGED age
  <2> HIDE DEF missed
  <2>1. age' \in [Grids -> 0..Gone] /\ calm' \in 0..CalmCap
    BY <1>9, Zeroes DEF TimeInv, TypeOK
  <2> QED
    BY <1>2, <1>5, <1>6, <1>9, <2>1, HubStep
<1> QED
  BY <1>7, <1>8, <1>9 DEF PollGrid, Store, Fail, SetLoop

\* The end of the for loop.
LEMMA EndRoundTime ==
  ASSUME TimeInv, NEW h \in Hubs, EndRound(h)
  PROVE  TimeInv'
<1> DEFINE again == [loop[h] EXCEPT !.pc = "round", !.stepped = TRUE]
<1>1. loop[h] \in Loop /\ InTime(loop[h])
  BY DEF TimeInv, TypeOK
<1>2. again \in Loop
  BY <1>1 DEF Loop
<1>3. InTime(again)
  BY <1>1, UnitsAssumption DEF InTime, Loop, EndRound
<1>4. /\ clock' = clock /\ active' = active
      /\ age' \in [Grids -> 0..Gone] /\ due' \in [Hubs -> BOOLEAN]
      /\ calm' \in 0..CalmCap
  BY DEF EndRound, TimeInv, TypeOK
<1>5. CASE ExitLoop(h, 0)
  BY <1>4, <1>5, HubStep, FixedRecords, Zeroes DEF ExitLoop
<1>6. CASE loop' = [loop EXCEPT ![h] = again] /\ UNCHANGED gauge
  <2> HIDE DEF again
  <2>1. gauge' \in 0..Cardinality(Grids)
    BY <1>6 DEF TimeInv, TypeOK
  <2> QED
    BY <1>2, <1>3, <1>4, <1>6, <2>1, HubStep
<1> QED
  BY <1>5, <1>6 DEF EndRound, SetLoop

\* Steps that start, drop or kill a loop.
LEMMA LauncherTime ==
  ASSUME TimeInv, NEW h \in Hubs,
         FireJob(h) \/ RunNow(h) \/ RoundRaises(h) \/ Restart(h)
  PROVE  TimeInv'
<1>1. /\ clock' = clock /\ active' = active /\ age' \in [Grids -> 0..Gone]
      /\ due' \in [Hubs -> BOOLEAN]
  BY DEF TimeInv, TypeOK, FireJob, RunNow, RoundRaises, Restart
<1>2. gauge' \in 0..Cardinality(Grids) /\ calm' \in 0..CalmCap
  BY Zeroes DEF TimeInv, TypeOK, FireJob, RunNow, RoundRaises, Restart
<1>3. CASE loop' = [loop EXCEPT ![h] = Started]
  BY <1>1, <1>2, <1>3, HubStep, FixedRecords
<1>4. CASE loop' = [loop EXCEPT ![h] = Idle]
  BY <1>1, <1>2, <1>4, HubStep, FixedRecords
<1>5. CASE loop' = loop
  BY <1>1, <1>2, <1>5 DEF TimeInv, TypeOK, InTime
<1> QED
  BY <1>3, <1>4, <1>5 DEF FireJob, RunNow, RoundRaises, Restart

\* A unit passes only when every running loop has used it.
LEMMA TickTime ==
  ASSUME TimeInv, Tick
  PROVE  TimeInv'
<1> DEFINE wrapped == clock + 1 = SlotUnits
           older(a) == IF wrapped /\ a < Gone THEN a + 1 ELSE a
           aged(h) == [loop[h] EXCEPT !.base = older(@), !.elapsed = @ + 1,
                                      !.stepped = FALSE]
<1>1. \A a \in 0..Gone : older(a) \in 0..Gone
  BY DEF Gone
<1>2. age' = [g \in Grids |-> older(age[g])]
  BY DEF Tick
<1>3. loop' = [h \in Hubs |-> IF Running(h) THEN aged(h) ELSE Idle]
  BY DEF Tick
<1>4. \A h \in Hubs : loop[h] \in Loop /\ InTime(loop[h])
  BY DEF TimeInv, TypeOK
<1>5. ASSUME NEW h \in Hubs, Running(h)
      PROVE  aged(h) \in Loop /\ InTime(aged(h))
  <2>1. loop[h] \in Loop /\ InTime(loop[h]) /\ loop[h].stepped
    BY <1>4, <1>5 DEF Tick
  <2>2. loop[h].base \in 0..Gone
    BY <2>1 DEF Loop
  <2>3. older(loop[h].base) \in 0..Gone
    BY <1>1, <2>2
  <2> HIDE DEF older
  <2>4. aged(h) \in Loop
    <3>1. loop[h].elapsed + 1 \in Nat
      BY <2>1 DEF Loop
    <3> QED
      BY <2>1, <2>3, <3>1, Zenon DEF Loop
  <2>5. InTime(aged(h))
    BY <1>5, <2>1, UnitsAssumption DEF InTime, Loop, Running
  <2> QED
    BY <2>4, <2>5
<1>6. \A h \in Hubs : loop'[h] \in Loop /\ InTime(loop'[h])
  <2> HIDE DEF aged
  <2> QED
    BY <1>3, <1>5, FixedRecords
<1>7. loop' \in [Hubs -> Loop]
  BY <1>3, <1>6
<1>8. clock' \in 0..(SlotUnits - 1)
  <2>1. clock' = IF wrapped THEN 0 ELSE clock + 1
    BY DEF Tick
  <2>2. clock \in 0..(SlotUnits - 1)
    BY DEF TimeInv, TypeOK
  <2> QED
    BY <2>1, <2>2, Numbers
<1>9. age' \in [Grids -> 0..Gone]
  <2> HIDE DEF older
  <2> QED
    BY <1>1, <1>2 DEF TimeInv, TypeOK
<1>10. due' \in [Hubs -> BOOLEAN]
  <2>1. \E n : due' = [h \in Hubs |-> n \in FireMarks]
    BY DEF Tick
  <2> QED
    BY <2>1
<1>11. calm' \in 0..CalmCap
  <2>1. \/ calm' = 0
        \/ calm' = calm
        \/ calm < CalmCap /\ calm' = calm + 1
    BY DEF Tick
  <2> QED
    BY <2>1, Numbers DEF TimeInv, TypeOK
<1>12. active' \subseteq Grids /\ gauge' \in 0..Cardinality(Grids)
  BY DEF Tick, TimeInv, TypeOK
<1>13. TypeOK'
  BY <1>7, <1>8, <1>9, <1>10, <1>11, <1>12 DEF TypeOK
<1>14. \A h \in Hubs : InTime(loop[h])'
  BY <1>6 DEF InTime
<1> QED
  BY <1>13, <1>14 DEF TimeInv

\* Every step preserves the invariant.
LEMMA NextTime == TimeInv /\ [Next]_vars => TimeInv'
<1> SUFFICES ASSUME TimeInv, [Next]_vars PROVE TimeInv'
  OBVIOUS
<1>1. ASSUME NEW h \in Hubs,
             FireJob(h) \/ RunNow(h) \/ LoopStep(h) \/ Restart(h)
      PROVE  TimeInv'
  BY <1>1, LauncherTime, RoundTime, PollGridTime, EndRoundTime DEF LoopStep
<1>2. ASSUME NEW g \in Grids, ToggleGrid(g)
      PROVE  TimeInv'
  <2>1. active' \subseteq Grids
    BY <1>2 DEF ToggleGrid, TimeInv, TypeOK
  <2>2. calm' \in 0..CalmCap
    BY <1>2, Zeroes DEF ToggleGrid, TimeInv, TypeOK
  <2> QED
    BY <1>2, <2>1, <2>2 DEF ToggleGrid, TimeInv, TypeOK, InTime
<1>3. CASE Housekeep
  <2>1. age' \in [Grids -> 0..Gone]
    BY <1>3 DEF Housekeep, TimeInv, TypeOK, Gone
  <2> QED
    BY <1>3, <2>1 DEF Housekeep, TimeInv, TypeOK, InTime
<1>4. CASE Tick
  BY <1>4, TickTime
<1>5. CASE UNCHANGED vars
  BY <1>5 DEF vars, TimeInv, TypeOK, InTime
<1> QED
  BY <1>1, <1>2, <1>3, <1>4, <1>5 DEF Next

\* The invariant the two results below share.
THEOREM TimeInvariant == Spec => []TimeInv
BY InitTime, NextTime, PTL DEF Spec

\* short_term_polling_loop's state is well typed, for any hubs, grids, clock.
THEOREM TypeCorrect == Spec => []TypeOK
<1>1. TimeInv => TypeOK
  BY DEF TimeInv
<1> QED
  BY <1>1, TimeInvariant, PTL

\* KMA_RETRY_MAX_DURATION_SEC bounds a loop's life for any number of grids.
THEOREM LoopEndsSoonAlways == Spec => []LoopEndsSoon
<1>1. TimeInv => LoopEndsSoon
  BY UnitsAssumption DEF TimeInv, TypeOK, InTime, LoopEndsSoon, Loop
<1> QED
  BY <1>1, TimeInvariant, PTL

\* Within a slot no step of any hub takes a grid's rows back to an earlier
\* edition: the upsert's WHERE clause, for any number of overlapping hubs.
THEOREM EditionNeverRegressesAlways == Spec => EditionNeverRegresses
<1> DEFINE Later == ~Tick => \A g \in Grids : age'[g] <= age[g] \/ age'[g] = Gone
<1>1. TimeInv /\ [Next]_vars => [Later]_vars
  <2> SUFFICES ASSUME TimeInv, Next, ~Tick, NEW g \in Grids
               PROVE  age'[g] <= age[g] \/ age'[g] = Gone
    OBVIOUS
  <2>1. age \in [Grids -> 0..Gone]
    BY DEF TimeInv, TypeOK
  <2>2. ASSUME NEW h \in Hubs, NEW i \in Grids, PollGrid(h, i)
        PROVE  age'[g] <= age[g]
    <3>1. loop[h].base \in 0..Gone
      BY DEF TimeInv, TypeOK, Loop
    <3> QED
      BY <2>1, <2>2, <3>1 DEF PollGrid, Store, Fail, Upsert, Gone
  <2>3. CASE Housekeep
    BY <2>1, <2>3 DEF Housekeep, Gone
  <2>4. CASE UNCHANGED age
    BY <2>1, <2>4 DEF Gone
  <2> QED
    BY <2>2, <2>3, <2>4 DEF Next, LoopStep, FireJob, RunNow, Round, RoundRaises,
                            EndRound, Restart, ToggleGrid
<1> QED
  BY <1>1, TimeInvariant, PTL DEF Spec, EditionNeverRegresses

-----------------------------------------------------------------------------
\* What is left of an edition's life, in numbers.
LEMMA Lives ==
  ASSUME TimeInv, NEW a \in {0, 1}, Expired(a)
  PROVE  a = 1 /\ clock + MarginUnits >= SlotUnits
<1>1. /\ clock \in Nat /\ clock < SlotUnits
      /\ MarginUnits \in Nat /\ TtlUnits \in Nat
  BY Numbers, UnitsAssumption DEF TimeInv, TypeOK
<1>2. 2 * SlotUnits <= TtlUnits /\ MarginUnits <= SlotUnits
  BY <1>1, Numbers, LifeAssumption
<1>3. a * SlotUnits + clock + MarginUnits >= TtlUnits
  BY DEF Expired
<1>4. a # 0
  BY <1>1, <1>2, <1>3, Numbers
<1> QED
  BY <1>1, <1>2, <1>3, <1>4, Numbers

\* DELETE WHERE expires_at < now() never takes the newest edition, and the one
\* before only once the next is issued.
THEOREM HousekeepingSparesCurrentAlways == Spec => HousekeepingSparesCurrent
<1> DEFINE Spares == Housekeep => \A g \in Grids :
             age'[g] # age[g] => age[g] = 1 /\ clock + MarginUnits >= SlotUnits
<1>1. TimeInv /\ [Next]_vars => [Spares]_vars
  <2> SUFFICES ASSUME TimeInv, Housekeep, NEW g \in Grids, age'[g] # age[g]
               PROVE  age[g] = 1 /\ clock + MarginUnits >= SlotUnits
    OBVIOUS
  <2>1. age[g] \in 0..Gone
    BY DEF TimeInv, TypeOK
  <2>2. Expired(age[g]) /\ age[g] \in {0, 1}
    BY <2>1 DEF Housekeep, Gone
  <2> QED
    BY <2>2, Lives
<1> QED
  BY <1>1, TimeInvariant, PTL DEF Spec, HousekeepingSparesCurrent

-----------------------------------------------------------------------------
\* One process polls at a time.
Alone == \A i, j \in Hubs : i = j

\* A loop alone asks for the newest edition, or for the one before while it is
\* still the loop of that slot's end; nothing stored is newer than what it asks
\* for; of its list, the grids without that edition are those still to be polled
\* and those that failed.
Faithful(r, ages, now) ==
  /\ r.base = 0 \/ (r.base = 1 /\ r.elapsed > now)
  /\ \A g \in Grids : ages[g] >= r.base
  /\ r.pc # "polling" => r.todo = {}
  /\ r.todo \cap r.failed = {}
  /\ {g \in r.targets : ages[g] > r.base} = r.todo \cup r.failed

LoadInv == \A h \in Hubs : Faithful(loop[h], age, clock)

\* A loop that has not asked for anything, or is over, owes nothing.
LEMMA FixedFaithful ==
  ASSUME TimeInv, NEW ages \in [Grids -> 0..Gone], NEW now
  PROVE  Faithful(Idle, ages, now) /\ Faithful(Started, ages, now)
BY DEF Faithful, Idle, Started, Gone

\* Alone, the one record that changes is all there is.
LEMMA OnlyHub ==
  ASSUME TimeInv, Alone, NEW h \in Hubs, NEW r, loop' = [loop EXCEPT ![h] = r],
         Faithful(r, age', clock')
  PROVE  LoadInv'
BY DEF Alone, LoadInv, TimeInv, TypeOK

\* A loop's own steps.
LEMMA RoundLoad ==
  ASSUME TimeInv, LoadInv, Alone, NEW h \in Hubs, Round(h)
  PROVE  LoadInv'
<1>1. /\ loop[h] \in Loop /\ Faithful(loop[h], age, clock)
      /\ age \in [Grids -> 0..Gone] /\ age' = age /\ clock' = clock
  BY DEF TimeInv, TypeOK, LoadInv, Round
<1>2. CASE \E n : ExitLoop(h, n)
  BY <1>1, <1>2, FixedFaithful, OnlyHub DEF ExitLoop
<1>3. CASE ~\E n : ExitLoop(h, n)
  <2>1. PICK older \in SUBSET MayHold(loop[h].base) :
          loop' = [loop EXCEPT ![h] = [loop[h] EXCEPT
                     !.pc = "polling",
                     !.targets = active \ (Loaded(loop[h].base) \cup older),
                     !.todo = active \ (Loaded(loop[h].base) \cup older),
                     !.failed = {}, !.stepped = TRUE]]
    BY <1>3 DEF Round, SetLoop
  <2> DEFINE S == active \ (Loaded(loop[h].base) \cup older)
             r == [loop[h] EXCEPT !.pc = "polling", !.targets = S, !.todo = S,
                                  !.failed = {}, !.stepped = TRUE]
  <2>2. S \subseteq Grids
    BY DEF TimeInv, TypeOK
  <2>3. \A g \in S : age[g] > loop[h].base
    BY <1>1, <2>2 DEF Loaded, Faithful, Loop, Gone
  <2>4. /\ r.base = loop[h].base /\ r.elapsed = loop[h].elapsed
        /\ r.pc = "polling" /\ r.targets = S /\ r.todo = S /\ r.failed = {}
    BY <1>1 DEF Loop
  <2> HIDE DEF S
  <2>5. Faithful(r, age, clock)
    <3> HIDE DEF r
    <3> QED
      BY <1>1, <2>3, <2>4 DEF Faithful
  <2> QED
    BY <1>1, <2>1, <2>5, OnlyHub DEF S
<1> QED
  BY <1>2, <1>3

LEMMA PollGridLoad ==
  ASSUME TimeInv, LoadInv, Alone, NEW h \in Hubs, NEW g \in Grids, PollGrid(h, g)
  PROVE  LoadInv'
<1> DEFINE gaveUp == [loop[h] EXCEPT !.todo = {}, !.failed = @ \cup loop[h].todo,
                                     !.stepped = TRUE]
           stored == [loop[h] EXCEPT !.todo = @ \ {g}, !.stepped = TRUE]
           missed == [loop[h] EXCEPT !.todo = @ \ {g}, !.failed = @ \cup {g},
                                     !.stepped = TRUE]
<1>1. /\ loop[h] \in Loop /\ Faithful(loop[h], age, clock)
      /\ age \in [Grids -> 0..Gone] /\ clock' = clock
      /\ loop[h].pc = "polling" /\ g \in loop[h].todo
  BY DEF TimeInv, TypeOK, LoadInv, PollGrid
<1>2. CASE loop' = [loop EXCEPT ![h] = gaveUp] /\ age' = age
  <2>1. Faithful(gaveUp, age, clock)
    BY <1>1 DEF Faithful, Loop
  <2> HIDE DEF gaveUp
  <2> QED
    BY <1>1, <1>2, <2>1, OnlyHub
<1>3. CASE loop' = [loop EXCEPT ![h] = missed] /\ age' = age
  <2>1. Faithful(missed, age, clock)
    BY <1>1 DEF Faithful, Loop
  <2> HIDE DEF missed
  <2> QED
    BY <1>1, <1>3, <2>1, OnlyHub
<1>4. CASE /\ loop' = [loop EXCEPT ![h] = stored]
           /\ age' = [age EXCEPT ![g] = Upsert(@, loop[h].base)]
  <2>1. /\ loop[h].base \in 0..Gone /\ age[g] \in 0..Gone
        /\ age[g] >= loop[h].base /\ g \notin loop[h].failed
    BY <1>1 DEF Faithful, Loop
  <2>2. age' = [age EXCEPT ![g] = loop[h].base]
    BY <1>4, <2>1 DEF Upsert
  <2>3. /\ age'[g] = loop[h].base
        /\ \A i \in Grids \ {g} : age'[i] = age[i]
    BY <1>1, <2>2
  <2>4. /\ stored.base = loop[h].base /\ stored.elapsed = loop[h].elapsed
        /\ stored.pc = "polling" /\ stored.targets = loop[h].targets
        /\ stored.todo = loop[h].todo \ {g} /\ stored.failed = loop[h].failed
        /\ loop[h].targets \subseteq Grids
    BY <1>1 DEF Loop
  <2> HIDE DEF stored
  <2>5. {i \in stored.targets : age'[i] > stored.base} = stored.todo \cup stored.failed
    <3>1. {i \in loop[h].targets : age[i] > loop[h].base}
            = loop[h].todo \cup loop[h].failed
      BY <1>1 DEF Faithful
    <3>2. ~(age'[g] > loop[h].base)
      BY <2>1, <2>3 DEF Gone
    <3> QED
      BY <2>1, <2>3, <2>4, <3>1, <3>2
  <2>6. \A i \in Grids : age'[i] >= stored.base
    BY <1>1, <2>1, <2>3, <2>4 DEF Faithful, Gone
  <2>7. Faithful(stored, age', clock')
    BY <1>1, <2>4, <2>5, <2>6 DEF Faithful
  <2> QED
    BY <1>4, <2>7, OnlyHub
<1> QED
  BY <1>2, <1>3, <1>4 DEF PollGrid, Store, Fail, SetLoop

LEMMA EndRoundLoad ==
  ASSUME TimeInv, LoadInv, Alone, NEW h \in Hubs, EndRound(h)
  PROVE  LoadInv'
<1> DEFINE again == [loop[h] EXCEPT !.pc = "round", !.stepped = TRUE]
<1>1. /\ loop[h] \in Loop /\ Faithful(loop[h], age, clock)
      /\ age \in [Grids -> 0..Gone] /\ age' = age /\ clock' = clock
  BY DEF TimeInv, TypeOK, LoadInv, EndRound
<1>2. CASE ExitLoop(h, 0)
  BY <1>1, <1>2, FixedFaithful, OnlyHub DEF ExitLoop
<1>3. CASE loop' = [loop EXCEPT ![h] = again]
  <2>1. Faithful(again, age, clock)
    BY <1>1 DEF Faithful, Loop, EndRound
  <2> HIDE DEF again
  <2> QED
    BY <1>1, <1>3, <2>1, OnlyHub
<1> QED
  BY <1>2, <1>3 DEF EndRound, SetLoop

\* Starting, dropping or killing a loop.
LEMMA LauncherLoad ==
  ASSUME TimeInv, LoadInv, Alone, NEW h \in Hubs,
         FireJob(h) \/ RunNow(h) \/ RoundRaises(h) \/ Restart(h)
  PROVE  LoadInv'
<1>1. age \in [Grids -> 0..Gone] /\ age' = age /\ clock' = clock
  BY DEF TimeInv, TypeOK, FireJob, RunNow, RoundRaises, Restart
<1>2. CASE loop' = loop
  BY <1>1, <1>2 DEF LoadInv
<1>3. CASE loop' = [loop EXCEPT ![h] = Started]
  BY <1>1, <1>3, FixedFaithful, OnlyHub
<1>4. CASE loop' = [loop EXCEPT ![h] = Idle]
  BY <1>1, <1>4, FixedFaithful, OnlyHub
<1> QED
  BY <1>2, <1>3, <1>4 DEF FireJob, RunNow, RoundRaises, Restart

\* Housekeeping never takes rows of the edition that a loop asks for: the loop
\* is too young for that.
LEMMA HousekeepLoad ==
  ASSUME TimeInv, LoadInv, Housekeep
  PROVE  LoadInv'
<1> SUFFICES ASSUME NEW h \in Hubs
             PROVE  Faithful(loop[h], age', clock)
  BY DEF LoadInv, Housekeep
<1>1. /\ loop[h] \in Loop /\ InTime(loop[h]) /\ Faithful(loop[h], age, clock)
      /\ age \in [Grids -> 0..Gone]
  BY DEF TimeInv, TypeOK, LoadInv
<1>2. /\ clock \in Nat /\ MarginUnits \in Nat /\ loop[h].elapsed \in Nat
      /\ loop[h].elapsed <= DeadlineUnits + 2
  BY <1>1, Numbers, UnitsAssumption DEF TimeInv, TypeOK, Loop, InTime
<1>3. ~Expired(loop[h].base)
  BY <1>1, <1>2, Numbers, Lives, LifeAssumption DEF Faithful
<1>4. \A g \in Grids : /\ age'[g] > loop[h].base <=> age[g] > loop[h].base
                       /\ age'[g] >= loop[h].base
  <2> SUFFICES ASSUME NEW g \in Grids
               PROVE  /\ age'[g] > loop[h].base <=> age[g] > loop[h].base
                      /\ age'[g] >= loop[h].base
    OBVIOUS
  <2>1. /\ age[g] \in 0..Gone /\ age[g] >= loop[h].base
        /\ loop[h].base \in {0, 1}
    BY <1>1 DEF Faithful
  <2>2. age'[g] = IF Expired(age[g]) THEN Gone ELSE age[g]
    BY DEF Housekeep
  <2> QED
    BY <1>3, <2>1, <2>2 DEF Gone
<1>5. loop[h].targets \subseteq Grids
  BY <1>1 DEF Loop
<1> QED
  BY <1>1, <1>4, <1>5 DEF Faithful

\* When an edition passes, rows and loops grow old together, and no loop lives
\* to see a second one pass.
LEMMA TickLoad ==
  ASSUME TimeInv, LoadInv, Tick
  PROVE  LoadInv'
<1> DEFINE wrapped == clock + 1 = SlotUnits
           older(a) == IF wrapped /\ a < Gone THEN a + 1 ELSE a
           aged(h) == [loop[h] EXCEPT !.base = older(@), !.elapsed = @ + 1,
                                      !.stepped = FALSE]
<1>1. /\ age \in [Grids -> 0..Gone]
      /\ age' = [g \in Grids |-> older(age[g])]
      /\ clock' = IF wrapped THEN 0 ELSE clock + 1
      /\ loop' = [h \in Hubs |-> IF Running(h) THEN aged(h) ELSE Idle]
  BY DEF Tick, TimeInv, TypeOK
<1>2. clock \in Nat /\ clock < SlotUnits
  BY Numbers DEF TimeInv, TypeOK
<1>3. age' \in [Grids -> 0..Gone]
  BY TickTime DEF TimeInv, TypeOK
<1>4. ASSUME NEW h \in Hubs, Running(h)
      PROVE  Faithful(aged(h), age', clock')
  <2>1. /\ loop[h] \in Loop /\ InTime(loop[h]) /\ Faithful(loop[h], age, clock)
    BY DEF TimeInv, TypeOK, LoadInv
  <2>2. /\ loop[h].elapsed \in Nat /\ loop[h].elapsed <= DeadlineUnits + 2
        /\ MarginUnits \in Nat /\ loop[h].base \in 0..Gone
    BY <2>1, Numbers, UnitsAssumption DEF Loop, InTime
  <2>3. /\ aged(h).base = older(loop[h].base)
        /\ aged(h).elapsed = loop[h].elapsed + 1
        /\ aged(h).pc = loop[h].pc /\ aged(h).todo = loop[h].todo
        /\ aged(h).failed = loop[h].failed /\ aged(h).targets = loop[h].targets
    BY <2>1 DEF Loop
  <2>4. wrapped => loop[h].base = 0
    <3> HIDE DEF aged
    <3>1. loop[h].elapsed <= DeadlineUnits + 1
      <4>1. loop[h].stepped /\ loop[h].pc # "idle"
        BY <1>4 DEF Tick, Running
      <4> QED
        BY <2>1, <2>2, <4>1, Numbers DEF InTime
    <3>2. loop[h].elapsed < SlotUnits
      BY <2>2, <3>1, Numbers, LifeAssumption
    <3>3. wrapped => ~(loop[h].elapsed > clock)
      BY <1>2, <2>2, <3>2, Numbers
    <3> QED
      BY <2>1, <3>3 DEF Faithful
  <2>5. /\ loop[h].base \in {0, 1}
        /\ loop[h].base = 1 => loop[h].elapsed > clock
    BY <2>1 DEF Faithful
  <2>6. older(loop[h].base) = 0
          \/ (older(loop[h].base) = 1 /\ loop[h].elapsed + 1 > clock')
    <3>0. clock' = IF wrapped THEN 0 ELSE clock + 1
      BY <1>1
    <3>1. CASE wrapped
      BY <2>2, <2>4, <3>0, <3>1 DEF Gone
    <3>2. CASE ~wrapped
      BY <1>2, <2>2, <2>5, <3>0, <3>2
    <3> QED
      BY <3>1, <3>2
  <2>7. \A g \in Grids :
          /\ age'[g] > older(loop[h].base) <=> age[g] > loop[h].base
          /\ age'[g] >= older(loop[h].base)
    <3> SUFFICES ASSUME NEW g \in Grids
                 PROVE  /\ age'[g] > older(loop[h].base) <=> age[g] > loop[h].base
                        /\ age'[g] >= older(loop[h].base)
      OBVIOUS
    <3>1. /\ age[g] \in 0..Gone /\ age[g] >= loop[h].base
          /\ age'[g] = older(age[g])
      BY <1>1, <2>1 DEF Faithful
    <3> QED
      BY <2>4, <2>5, <3>1 DEF Gone
  <2>8. loop[h].targets \subseteq Grids
    BY <2>1 DEF Loop
  <2> HIDE DEF aged, older
  <2> QED
    BY <2>1, <2>3, <2>6, <2>7, <2>8 DEF Faithful
<1> HIDE DEF aged
<1>5. \A h \in Hubs : Faithful(loop'[h], age', clock')
  BY <1>1, <1>3, <1>4, FixedFaithful
<1> QED
  BY <1>5 DEF LoadInv

\* First deployment: the lifespan's loop has asked for nothing yet.
LEMMA InitLoad == Init => LoadInv
<1> SUFFICES ASSUME Init, NEW h \in Hubs PROVE Faithful(loop[h], age, clock)
  BY DEF LoadInv
<1>1. TimeInv /\ age \in [Grids -> 0..Gone]
  BY InitTime DEF TimeInv, TypeOK
<1> QED
  BY <1>1, FixedFaithful DEF Init

LEMMA NextLoad == Alone /\ TimeInv /\ LoadInv /\ [Next]_vars => LoadInv'
<1> SUFFICES ASSUME Alone, TimeInv, LoadInv, [Next]_vars PROVE LoadInv'
  OBVIOUS
<1>1. ASSUME NEW h \in Hubs,
             FireJob(h) \/ RunNow(h) \/ LoopStep(h) \/ Restart(h)
      PROVE  LoadInv'
  BY <1>1, LauncherLoad, RoundLoad, PollGridLoad, EndRoundLoad DEF LoopStep
<1>2. CASE Housekeep
  BY <1>2, HousekeepLoad
<1>3. CASE Tick
  BY <1>3, TickLoad
<1>4. CASE UNCHANGED <<loop, age, clock>>
  BY <1>4 DEF LoadInv
<1> QED
  BY <1>1, <1>2, <1>3, <1>4 DEF Next, ToggleGrid, vars

\* Alone, what a loop asks for and still lacks is what its record says.
LEMMA LoadInvariant ==
  ASSUME Alone
  PROVE  Spec => []LoadInv
<1>1. Init => LoadInv
  BY InitLoad
<1>2. TimeInv /\ LoadInv /\ [Next]_vars => LoadInv'
  BY NextLoad
<1> QED
  BY <1>1, <1>2, TimeInvariant, PTL DEF Spec

\* The gauge of a hub that runs alone is the number of grids without the
\* edition its loop asked for, whatever failed and whenever it was cut.
THEOREM ReportIsExactAlone ==
  ASSUME Alone
  PROVE  Spec => ReportIsExact
<1> DEFINE Missing(h) == {g \in Listed(h) : age[g] > loop[h].base}
           Exact == \A h \in Hubs :
             (Round(h) \/ EndRound(h)) /\ loop'[h].pc = "idle"
               => gauge' = Cardinality({g \in Listed(h) : age[g] > loop[h].base})
<1>1. TimeInv /\ LoadInv /\ [Next]_vars => [Exact]_vars
  <2> SUFFICES ASSUME TimeInv, LoadInv, NEW h \in Hubs, loop'[h].pc = "idle",
                      Round(h) \/ EndRound(h)
               PROVE  gauge' = Cardinality(Missing(h))
    OBVIOUS
  <2>1. /\ loop[h] \in Loop /\ Faithful(loop[h], age, clock)
        /\ loop \in [Hubs -> Loop] /\ active \subseteq Grids
    BY DEF TimeInv, TypeOK, LoadInv
  <2>2. CASE EndRound(h)
    <3>1. loop[h].todo = {} /\ loop[h].failed = {} /\ gauge' = 0
      BY <2>1, <2>2 DEF EndRound, ExitLoop, SetLoop, Loop
    <3>2. Missing(h) = {}
      BY <2>1, <2>2, <3>1 DEF Faithful, Listed, EndRound
    <3> QED
      BY <3>1, <3>2, FS_EmptySet
  <2>3. CASE Round(h) /\ PastDeadline(h)
    <3>1. gauge' = Cardinality(loop[h].failed) /\ loop[h].pc = "round"
      BY <2>3 DEF Round, ExitLoop
    <3>2. Missing(h) = loop[h].failed
      BY <2>1, <2>3, <3>1 DEF Faithful, Listed
    <3> QED
      BY <3>1, <3>2
  <2>4. CASE Round(h) /\ ~PastDeadline(h)
    <3>1. PICK older \in SUBSET MayHold(loop[h].base) :
            /\ active \ (Loaded(loop[h].base) \cup older) = {}
            /\ gauge' = 0
      <4>1. \A r \in Loop : r.pc = "polling" => loop' # [loop EXCEPT ![h] = r]
        BY <2>1
      <4>2. \A S \in SUBSET Grids :
              LET r == [[loop[h] EXCEPT !.pc = "polling", !.targets = S, !.todo = S,
                                        !.failed = {}] EXCEPT !.stepped = TRUE]
              IN r \in Loop /\ r.pc = "polling"
        BY <2>1 DEF Loop
      <4>3. \A older : active \ (Loaded(loop[h].base) \cup older) \in SUBSET Grids
        BY <2>1
      <4>4. PICK older \in SUBSET MayHold(loop[h].base) :
              LET pending == active \ (Loaded(loop[h].base) \cup older)
              IN \/ pending = {} /\ ExitLoop(h, 0)
                 \/ SetLoop(h, [loop[h] EXCEPT
                      !.pc = "polling", !.targets = pending,
                      !.todo = pending, !.failed = {}])
        BY <2>4 DEF Round
      <4> QED
        BY <4>1, <4>2, <4>3, <4>4 DEF ExitLoop, SetLoop
    <3>2. loop[h].pc = "round" /\ Listed(h) = active
      BY <2>4 DEF Round, Listed
    <3>3. \A g \in active : age[g] = loop[h].base \/ age[g] < loop[h].base
      BY <3>1 DEF Loaded, MayHold
    <3>4. Missing(h) = {}
      <4>1. \A g \in active : age[g] \in Nat /\ loop[h].base \in Nat
        BY <2>1 DEF TimeInv, TypeOK, Loop, Gone
      <4> QED
        BY <3>2, <3>3, <4>1
    <3> QED
      BY <3>1, <3>4, FS_EmptySet
  <2> QED
    BY <2>2, <2>3, <2>4
<1>2. Spec => []LoadInv
  BY LoadInvariant
<1> QED
  BY <1>1, <1>2, TimeInvariant, PTL DEF Spec, ReportIsExact

-----------------------------------------------------------------------------
\* A loop that started after the calm began fails nothing, so it makes one
\* round: at most two units pass over it.
Begun(r) ==
  /\ r.failed = {}
  /\ r.pc = "round" => IF r.stepped THEN r.elapsed = 0 ELSE r.elapsed = 1
  /\ r.pc = "polling" => IF r.stepped THEN r.elapsed \in {0, 1}
                         ELSE r.elapsed \in {1, 2} /\ r.todo = {}

\* A loop that was there when the calm began, k units later: what failed before
\* sends it round once more, then it ends with its list or at its deadline.
Inherited(r, k) ==
  \/ r.pc = "round" /\ k = 1
  \/ r.pc = "round" /\ k = 2 /\ ~r.stepped
  \/ r.pc = "polling" /\ k = 1 /\ ~r.stepped /\ r.todo = {}
  \/ /\ r.pc = "polling" /\ k \in {1, 2} /\ r.stepped
     /\ r.failed = {} /\ r.elapsed < DeadlineUnits
  \/ /\ r.pc = "polling" /\ k \in {2, 3} /\ ~r.stepped
     /\ r.failed = {} /\ r.todo = {} /\ r.elapsed <= DeadlineUnits

\* Where a loop stands after k calm units.
Phase(r, k) ==
  \/ r.pc = "idle"
  \/ k = 0
  \/ r.elapsed < k /\ Begun(r)
  \/ r.elapsed >= k /\ Inherited(r, k)

\* Off its list, a loop begun in the calm has left nothing without the edition.
Fills(r, k, on, ages) ==
  r.pc = "polling" /\ r.base = 0 /\ r.elapsed < k
    => \A g \in on \ r.todo : ages[g] = 0

AllFresh(on, ages) == \A g \in on : ages[g] = 0

\* A mark passed in the calm: its job is still to fire, or all is fresh, or a
\* loop no younger than the mark is at it.
Served(r, d, k, on, ages, now, m) ==
  \/ now = m /\ d
  \/ AllFresh(on, ages)
  \/ r.pc # "idle" /\ r.base = 0 /\ r.elapsed < k /\ r.elapsed + m >= now

Keeps(r, d, k, on, ages, now) ==
  /\ Phase(r, k)
  /\ Fills(r, k, on, ages)
  /\ \A m \in FireMarks :
       2 <= m /\ m <= now /\ now + Settled <= k + m => Served(r, d, k, on, ages, now, m)

\* The inductive strengthening of RecoversInSlot, with TimeInv and LoadInv.
RecoverInv == \A h \in Hubs : Keeps(loop[h], due[h], calm, active, age, clock)

\* What a step may use of its hub.
LEMMA Here ==
  ASSUME TimeInv, LoadInv, RecoverInv, NEW h \in Hubs
  PROVE  /\ loop[h] \in Loop /\ InTime(loop[h])
         /\ Faithful(loop[h], age, clock)
         /\ Keeps(loop[h], due[h], calm, active, age, clock)
         /\ age \in [Grids -> 0..Gone] /\ active \subseteq Grids
         /\ clock \in Nat /\ calm \in Nat /\ calm <= CalmCap
         /\ FireMarks \subseteq Nat
BY Numbers, UnitsAssumption DEF TimeInv, TypeOK, LoadInv, RecoverInv

\* Alone, the one record that changes is all there is.
LEMMA OnlyHubKeeps ==
  ASSUME TimeInv, Alone, NEW h \in Hubs, NEW r, loop' = [loop EXCEPT ![h] = r],
         Keeps(r, due'[h], calm', active', age', clock')
  PROVE  RecoverInv'
BY DEF Alone, RecoverInv, TimeInv, TypeOK

\* Nothing is owed when the calm has just ended.
LEMMA NotCalm ==
  ASSUME NEW r, r.elapsed \in Nat, NEW d, NEW on, NEW ages, NEW now \in Nat
  PROVE  Keeps(r, d, 0, on, ages, now)
<1>1. \A m \in FireMarks : ~(m <= now /\ now + Settled <= 0 + m)
  BY UnitsAssumption, Numbers DEF Settled
<1> QED
  BY <1>1 DEF Keeps, Phase, Fills

LEMMA StepNotCalm ==
  ASSUME TimeInv', calm' = 0
  PROVE  RecoverInv'
<1>1. clock' \in Nat /\ \A h \in Hubs : loop'[h].elapsed \in Nat
  BY Numbers DEF TimeInv, TypeOK, Loop
<1> QED
  BY <1>1, NotCalm DEF RecoverInv

\* A loop that ends in the calm, having begun in it, leaves everything fresh.
LEMMA Ended ==
  ASSUME NEW r, NEW d, NEW k, NEW on, NEW ages, NEW now,
         Keeps(r, d, k, on, ages, now),
         r.pc # "idle" /\ r.base = 0 /\ r.elapsed < k => AllFresh(on, ages)
  PROVE  Keeps(Idle, d, k, on, ages, now)
<1>1. Idle.pc = "idle"
  BY DEF Idle
<1> QED
  BY <1>1 DEF Keeps, Phase, Fills, Served

\* A loop that starts, with or without the job of a mark.
LEMMA Starts ==
  ASSUME NEW r, NEW d, NEW e, NEW k \in Nat, NEW on, NEW ages, NEW now \in Nat,
         Keeps(r, d, k, on, ages, now), r.pc = "idle"
  PROVE  Keeps(Started, e, k, on, ages, now)
<1>1. /\ Started.pc = "round" /\ Started.stepped = TRUE /\ Started.base = 0
      /\ Started.elapsed = 0 /\ Started.failed = {}
  BY DEF Started, Idle
<1>2. Phase(Started, k)
  BY <1>1 DEF Phase, Begun
<1>3. Fills(Started, k, on, ages)
  BY <1>1 DEF Fills
<1>4. ASSUME NEW m \in FireMarks, 2 <= m, m <= now, now + Settled <= k + m
      PROVE  Served(Started, e, k, on, ages, now, m)
  <2>1. m \in Nat
    BY UnitsAssumption, Numbers
  <2>2. now = m \/ AllFresh(on, ages)
    BY <1>4 DEF Keeps, Served
  <2> QED
    BY <1>1, <1>4, <2>1, <2>2 DEF Served, Settled
<1> QED
  BY <1>2, <1>3, <1>4 DEF Keeps

\* A step of the loop within a unit that neither ends it nor changes its past.
LEMMA GoesOn ==
  ASSUME NEW r, NEW s, NEW d, NEW k, NEW on, NEW ages, NEW later, NEW now,
         Keeps(r, d, k, on, ages, now),
         s.pc # "idle", s.base = r.base, s.elapsed = r.elapsed,
         AllFresh(on, ages) => AllFresh(on, later),
         Phase(s, k), Fills(s, k, on, later)
  PROVE  Keeps(s, d, k, on, later, now)
BY DEF Keeps, Served

LEMMA RoundRecover ==
  ASSUME TimeInv, LoadInv, RecoverInv, Alone, DeadlineUnits >= 2,
         NEW h \in Hubs, Round(h)
  PROVE  RecoverInv'
<1> DEFINE r == loop[h]
<1>1. /\ r \in Loop /\ InTime(r) /\ Faithful(r, age, clock)
      /\ Keeps(r, due[h], calm, active, age, clock)
      /\ age \in [Grids -> 0..Gone] /\ active \subseteq Grids
      /\ calm \in Nat /\ r.elapsed \in Nat /\ r.pc = "round"
      /\ DeadlineUnits \in Nat
  BY Here, Numbers DEF Loop, Round
<1>2. UNCHANGED <<clock, active, age, due, calm>>
  BY DEF Round
<1>3. CASE PastDeadline(h)
  <2>1. loop' = [loop EXCEPT ![h] = Idle]
    BY <1>3 DEF Round, ExitLoop
  <2>2. ~(r.elapsed < calm)
    BY <1>1, <1>3 DEF Keeps, Phase, Begun, PastDeadline
  <2> QED
    BY <1>1, <1>2, <2>1, <2>2, Ended, OnlyHubKeeps
<1>4. CASE ~PastDeadline(h)
  <2> PICK older \in SUBSET MayHold(r.base) :
         LET pending == active \ (Loaded(r.base) \cup older)
         IN \/ pending = {} /\ ExitLoop(h, 0)
            \/ /\ pending # {}
               /\ SetLoop(h, [loop[h] EXCEPT
                        !.pc = "polling", !.targets = pending,
                        !.todo = pending, !.failed = {}])
    BY <1>4 DEF Round
  <2> DEFINE S == active \ (Loaded(r.base) \cup older)
             s == [loop[h] EXCEPT !.pc = "polling", !.targets = S, !.todo = S,
                                  !.failed = {}, !.stepped = TRUE]
  <2>1. r.base = 0 => \A g \in active \ S : age[g] = 0
    BY <1>1 DEF Loaded, MayHold, Gone
  <2>2. CASE S = {} /\ ExitLoop(h, 0)
    <3>1. r.base = 0 => AllFresh(active, age)
      BY <2>1, <2>2 DEF AllFresh
    <3>2. loop' = [loop EXCEPT ![h] = Idle]
      BY <2>2 DEF ExitLoop
    <3> QED
      BY <1>1, <1>2, <3>1, <3>2, Ended, OnlyHubKeeps
  <2>3. CASE loop' = [loop EXCEPT ![h] = s]
    <3>1. /\ s.pc = "polling" /\ s.base = r.base /\ s.elapsed = r.elapsed
          /\ s.todo = S /\ s.failed = {} /\ s.stepped = TRUE
      BY <1>1 DEF Loop
    <3> HIDE DEF s, S
    <3>2. Phase(s, calm)
      BY <1>1, <1>4, <3>1 DEF Keeps, Phase, Begun, Inherited, PastDeadline
    <3>3. Fills(s, calm, active, age)
      BY <2>1, <3>1 DEF Fills
    <3>4. Keeps(s, due[h], calm, active, age, clock)
      BY <1>1, <3>1, <3>2, <3>3, GoesOn
    <3> QED
      BY <1>2, <2>3, <3>4, OnlyHubKeeps
  <2> QED
    BY <2>2, <2>3 DEF SetLoop
<1> QED
  BY <1>3, <1>4

LEMMA PollGridRecover ==
  ASSUME TimeInv, LoadInv, RecoverInv, Alone, DeadlineUnits >= 2,
         NEW h \in Hubs, NEW g \in Grids, PollGrid(h, g)
  PROVE  RecoverInv'
<1> DEFINE r == loop[h]
           gaveUp == [loop[h] EXCEPT !.todo = {}, !.failed = @ \cup loop[h].todo,
                                     !.stepped = TRUE]
           stored == [loop[h] EXCEPT !.todo = @ \ {g}, !.stepped = TRUE]
<1>1. /\ r \in Loop /\ InTime(r) /\ Faithful(r, age, clock)
      /\ Keeps(r, due[h], calm, active, age, clock)
      /\ age \in [Grids -> 0..Gone] /\ active \subseteq Grids
      /\ calm \in Nat /\ r.elapsed \in Nat /\ r.pc = "polling" /\ g \in r.todo
      /\ DeadlineUnits \in Nat /\ r.base \in 0..Gone
  BY Here, Numbers DEF Loop, PollGrid
<1>2. UNCHANGED <<clock, active, due>>
  BY DEF PollGrid
<1>3. CASE calm' = 0
  BY <1>3, PollGridTime, StepNotCalm
<1>4. CASE /\ PastDeadline(h)
           /\ loop' = [loop EXCEPT ![h] = gaveUp]
           /\ UNCHANGED <<age, calm>>
  <2>1. /\ gaveUp.pc = "polling" /\ gaveUp.base = r.base
        /\ gaveUp.elapsed = r.elapsed /\ gaveUp.stepped = TRUE
    BY <1>1 DEF Loop
  <2> HIDE DEF gaveUp
  <2>2. ~(r.elapsed < calm)
    BY <1>1, <1>4 DEF Keeps, Phase, Begun, PastDeadline
  <2>3. Phase(gaveUp, calm)
    BY <1>1, <1>4, <2>1, <2>2 DEF Keeps, Phase, Inherited, PastDeadline
  <2>4. Fills(gaveUp, calm, active, age)
    BY <2>1, <2>2 DEF Fills
  <2>5. Keeps(gaveUp, due[h], calm, active, age, clock)
    BY <1>1, <2>1, <2>3, <2>4, GoesOn
  <2> QED
    BY <1>2, <1>4, <2>5, OnlyHubKeeps
<1>5. CASE /\ ~PastDeadline(h)
           /\ age' = [age EXCEPT ![g] = Upsert(@, loop[h].base)]
           /\ loop' = [loop EXCEPT ![h] = stored]
           /\ UNCHANGED calm
  <2>1. /\ stored.pc = "polling" /\ stored.base = r.base
        /\ stored.elapsed = r.elapsed /\ stored.stepped = TRUE
        /\ stored.todo = r.todo \ {g} /\ stored.failed = r.failed
    BY <1>1 DEF Loop
  <2> HIDE DEF stored
  <2>2. \A i \in Grids : age'[i] = IF i = g THEN Upsert(age[i], r.base) ELSE age[i]
    BY <1>1, <1>5
  <2>3. AllFresh(active, age) => AllFresh(active, age')
    BY <1>1, <2>2 DEF AllFresh, Upsert, Gone
  <2>4. r.base = 0 => age'[g] = 0
    BY <1>1, <2>2 DEF Upsert, Gone
  <2>5. Phase(stored, calm)
    BY <1>1, <1>5, <2>1 DEF Keeps, Phase, Begun, Inherited, PastDeadline
  <2>6. Fills(stored, calm, active, age')
    <3> SUFFICES ASSUME r.base = 0, r.elapsed < calm, NEW i \in active \ stored.todo
                 PROVE  age'[i] = 0
      BY <2>1 DEF Fills
    <3>1. i # g => age[i] = 0
      BY <1>1, <2>1 DEF Keeps, Fills
    <3> QED
      BY <1>1, <2>2, <2>4, <3>1
  <2>7. Keeps(stored, due[h], calm, active, age', clock)
    BY <1>1, <2>1, <2>3, <2>5, <2>6, GoesOn
  <2> QED
    BY <1>2, <1>5, <2>7, OnlyHubKeeps
<1> QED
  BY <1>3, <1>4, <1>5 DEF PollGrid, Store, Fail, SetLoop

LEMMA EndRoundRecover ==
  ASSUME TimeInv, LoadInv, RecoverInv, Alone, NEW h \in Hubs, EndRound(h)
  PROVE  RecoverInv'
<1> DEFINE r == loop[h]
           again == [loop[h] EXCEPT !.pc = "round", !.stepped = TRUE]
<1>1. /\ r \in Loop
      /\ Keeps(r, due[h], calm, active, age, clock)
      /\ calm \in Nat /\ r.elapsed \in Nat /\ r.pc = "polling" /\ r.todo = {}
  BY Here DEF Loop, EndRound
<1>2. UNCHANGED <<clock, active, age, due, calm>>
  BY DEF EndRound
<1>3. CASE r.failed = {} /\ ExitLoop(h, 0)
  <2>1. r.base = 0 /\ r.elapsed < calm => AllFresh(active, age)
    BY <1>1 DEF Keeps, Fills, AllFresh
  <2>2. loop' = [loop EXCEPT ![h] = Idle]
    BY <1>3 DEF ExitLoop
  <2> QED
    BY <1>1, <1>2, <2>1, <2>2, Ended, OnlyHubKeeps
<1>4. CASE r.failed # {} /\ loop' = [loop EXCEPT ![h] = again]
  <2>1. /\ again.pc = "round" /\ again.base = r.base
        /\ again.elapsed = r.elapsed /\ again.stepped = TRUE
    BY <1>1 DEF Loop
  <2> HIDE DEF again
  <2>2. ~(r.elapsed < calm)
    BY <1>1, <1>4 DEF Keeps, Phase, Begun
  <2>3. Phase(again, calm)
    BY <1>1, <1>4, <2>1, <2>2 DEF Keeps, Phase, Inherited
  <2>4. Fills(again, calm, active, age)
    BY <2>1 DEF Fills
  <2>5. Keeps(again, due[h], calm, active, age, clock)
    BY <1>1, <2>1, <2>3, <2>4, GoesOn
  <2> QED
    BY <1>2, <1>4, <2>5, OnlyHubKeeps
<1> QED
  BY <1>3, <1>4 DEF EndRound, SetLoop

\* A job that meets a running loop is dropped.  After so long a calm that loop
\* is a young one of the newest edition: it serves the mark as well.
LEMMA DroppedRecover ==
  ASSUME TimeInv, LoadInv, RecoverInv, Alone, NEW h \in Hubs, FireJob(h),
         Running(h)
  PROVE  RecoverInv'
<1> DEFINE r == loop[h]
<1>1. /\ r \in Loop /\ Faithful(r, age, clock)
      /\ Keeps(r, due[h], calm, active, age, clock)
      /\ calm \in Nat /\ clock \in Nat /\ r.elapsed \in Nat
      /\ r.pc \in {"round", "polling"} /\ FireMarks \subseteq Nat
  BY Here DEF Loop, Running
<1>2. UNCHANGED <<loop, clock, active, age, calm>>
  BY DEF FireJob
<1>3. ASSUME NEW m \in FireMarks, 2 <= m, m <= clock, clock + Settled <= calm + m
      PROVE  Served(r, due'[h], calm, active, age, clock, m)
  <2>1. m \in Nat /\ calm >= Settled
    BY <1>1, <1>3 DEF Settled
  <2>2. r.elapsed < calm /\ r.elapsed <= 2
    BY <1>1, <2>1, Numbers DEF Keeps, Phase, Begun, Inherited, Settled
  <2>3. r.base = 0
    BY <1>1, <1>3, <2>1, <2>2 DEF Faithful
  <2> QED
    BY <1>1, <1>3, <2>1, <2>2, <2>3 DEF Keeps, Served
<1>4. Keeps(r, due'[h], calm, active, age, clock)
  BY <1>1, <1>3 DEF Keeps
<1> QED
  BY <1>2, <1>4 DEF RecoverInv, Alone

LEMMA LauncherRecover ==
  ASSUME TimeInv, LoadInv, RecoverInv, Alone, NEW h \in Hubs,
         FireJob(h) \/ RunNow(h) \/ RoundRaises(h) \/ Restart(h)
  PROVE  RecoverInv'
<1>1. CASE RoundRaises(h) \/ Restart(h)
  BY <1>1, LauncherTime, StepNotCalm DEF RoundRaises, Restart
<1>2. CASE FireJob(h) /\ Running(h)
  BY <1>2, DroppedRecover
<1>3. CASE (FireJob(h) \/ RunNow(h)) /\ ~Running(h)
  <2>1. /\ Keeps(loop[h], due[h], calm, active, age, clock)
        /\ calm \in Nat /\ clock \in Nat /\ loop[h].pc = "idle"
    BY <1>3, Here DEF Running
  <2>2. /\ UNCHANGED <<clock, active, age, calm>>
        /\ loop' = [loop EXCEPT ![h] = Started]
    BY <1>3 DEF FireJob, RunNow
  <2>3. Keeps(Started, due'[h], calm, active, age, clock)
    BY <2>1, Starts
  <2> QED
    BY <2>2, <2>3, OnlyHubKeeps
<1> QED
  BY <1>1, <1>2, <1>3 DEF RunNow

\* Switching a grid off, or deleting what expired, takes nothing fresh away.
LEMMA TableRecover ==
  ASSUME TimeInv, LoadInv, RecoverInv,
         Housekeep \/ \E g \in Grids : ToggleGrid(g)
  PROVE  RecoverInv'
<1>1. CASE calm' = 0
  <2>1. TimeInv'
    BY NextTime DEF Next
  <2> QED
    BY <1>1, <2>1, StepNotCalm
<1>2. CASE calm' # 0
  <2>1. UNCHANGED <<loop, clock, due, calm>> /\ active' \subseteq active
    BY <1>2 DEF Housekeep, ToggleGrid
  <2>2. \A g \in active : age[g] = 0 => age'[g] = 0
    <3> SUFFICES ASSUME NEW g \in active, age[g] = 0 PROVE age'[g] = 0
      OBVIOUS
    <3>1. g \in Grids
      BY DEF TimeInv, TypeOK
    <3>2. ~Expired(age[g])
      BY Lives
    <3> QED
      BY <3>1, <3>2 DEF Housekeep, ToggleGrid
  <2> SUFFICES ASSUME NEW h \in Hubs
               PROVE  Keeps(loop[h], due[h], calm, active', age', clock)
    BY <2>1 DEF RecoverInv
  <2>3. Keeps(loop[h], due[h], calm, active, age, clock)
    BY DEF RecoverInv
  <2> QED
    BY <2>1, <2>2, <2>3 DEF Keeps, Fills, Served, AllFresh
<1> QED
  BY <1>1, <1>2

\* A unit passes over a loop: every case of Phase one unit on.
LEMMA TickPhase ==
  ASSUME NEW r \in Loop, r.pc # "idle", r.stepped, r.todo = {},
         NEW s, s.pc = r.pc, s.elapsed = r.elapsed + 1, s.stepped = FALSE,
         s.todo = {}, s.failed = r.failed,
         NEW k \in Nat, NEW j \in Nat, Phase(r, k),
         j = k + 1 \/ (j = k /\ k >= Settled),
         DeadlineUnits \in Nat
  PROVE  Phase(s, j)
<1>1. r.elapsed \in Nat /\ r.pc \in {"round", "polling"}
  BY DEF Loop
<1>2. CASE k = 0
  BY <1>1, <1>2 DEF Phase, Inherited, Settled
<1>3. CASE k # 0 /\ r.elapsed < k /\ Begun(r)
  BY <1>1, <1>3 DEF Phase, Begun, Settled
<1>4. CASE k # 0 /\ r.elapsed >= k /\ Inherited(r, k)
  <2>1. s.elapsed >= j /\ Inherited(s, j)
    BY <1>1, <1>4 DEF Inherited, Settled
  <2> QED
    BY <2>1 DEF Phase
<1> QED
  BY <1>2, <1>3, <1>4 DEF Phase

LEMMA TickRecover ==
  ASSUME TimeInv, LoadInv, RecoverInv, CalmCap >= Settled, Tick
  PROVE  RecoverInv'
<1> DEFINE wrapped == clock + 1 = SlotUnits
           older(a) == IF wrapped /\ a < Gone THEN a + 1 ELSE a
           aged(h) == [loop[h] EXCEPT !.base = older(@), !.elapsed = @ + 1,
                                      !.stepped = FALSE]
<1>1. /\ age' = [g \in Grids |-> older(age[g])]
      /\ clock' = IF wrapped THEN 0 ELSE clock + 1
      /\ loop' = [h \in Hubs |-> IF Running(h) THEN aged(h) ELSE Idle]
      /\ due' = [h \in Hubs |-> clock' \in FireMarks]
      /\ active' = active
      /\ \A h \in Hubs : ~due[h] /\ (Running(h) => loop[h].stepped)
  BY DEF Tick
<1>2. CASE \E h \in Hubs : loop[h].todo # {}
  BY <1>2, TickTime, StepNotCalm DEF Tick
<1>3. CASE \A h \in Hubs : loop[h].todo = {}
  <2> SUFFICES ASSUME NEW h \in Hubs
               PROVE  Keeps(loop'[h], due'[h], calm', active, age', clock')
    BY <1>1 DEF RecoverInv
  <2>1. /\ loop[h] \in Loop /\ Keeps(loop[h], due[h], calm, active, age, clock)
        /\ age \in [Grids -> 0..Gone] /\ active \subseteq Grids
        /\ clock \in Nat /\ calm \in Nat /\ calm <= CalmCap
        /\ FireMarks \subseteq Nat
        /\ CalmCap \in Nat /\ SlotUnits \in Nat /\ SlotUnits >= 1
        /\ DeadlineUnits \in Nat
    BY Here, Numbers
  <2>2. /\ calm' \in Nat
        /\ calm' = calm + 1 \/ (calm' = calm /\ calm >= Settled)
    <3>1. calm' = IF calm < CalmCap THEN calm + 1 ELSE calm
      BY <1>3 DEF Tick
    <3>2. Settled \in Nat
      BY DEF Settled
    <3> QED
      BY <2>1, <3>1, <3>2
  <2>3. /\ aged(h).pc = loop[h].pc /\ aged(h).base = older(loop[h].base)
        /\ aged(h).elapsed = loop[h].elapsed + 1 /\ aged(h).stepped = FALSE
        /\ aged(h).todo = loop[h].todo /\ aged(h).failed = loop[h].failed
        /\ loop[h].elapsed \in Nat /\ loop[h].base \in 0..Gone
    BY <2>1 DEF Loop
  <2>4. Running(h) => loop'[h] = aged(h) /\ loop[h].stepped
    BY <1>1
  <2>5. ~Running(h) => loop'[h].pc = "idle"
    BY <1>1 DEF Idle
  <2> HIDE DEF aged
  <2>6. Phase(loop'[h], calm')
    <3>1. CASE Running(h)
      BY <1>3, <2>1, <2>2, <2>3, <2>4, <3>1, TickPhase DEF Keeps, Running
    <3>2. CASE ~Running(h)
      BY <2>5, <3>2 DEF Phase
    <3> QED
      BY <3>1, <3>2
  <2>7. ~wrapped => \A g \in Grids : age'[g] = age[g]
    BY <1>1
  <2>8. wrapped => older(loop[h].base) # 0
    BY <2>3 DEF Gone
  <2>9. ~wrapped => older(loop[h].base) = loop[h].base
    OBVIOUS
  <2> HIDE DEF older, wrapped
  <2>10. Fills(loop'[h], calm', active, age')
    <3> SUFFICES ASSUME loop'[h].pc = "polling", loop'[h].base = 0,
                        loop'[h].elapsed < calm', NEW g \in active \ loop'[h].todo
                 PROVE  age'[g] = 0
      BY DEF Fills
    <3>1. Running(h) /\ ~wrapped
      BY <2>3, <2>4, <2>5, <2>8
    <3>2. loop[h].elapsed < calm
      BY <2>1, <2>2, <2>3, <2>4, <3>1
    <3>3. age[g] = 0
      BY <2>1, <2>3, <2>4, <2>9, <3>1, <3>2 DEF Keeps, Fills
    <3> QED
      BY <2>1, <2>7, <3>1, <3>3
  <2>11. ASSUME NEW m \in FireMarks, 2 <= m, m <= clock', clock' + Settled <= calm' + m
         PROVE  Served(loop'[h], due'[h], calm', active, age', clock', m)
    <3>1. m \in Nat /\ clock' = clock + 1 /\ ~wrapped
      BY <1>1, <2>1, <2>11
    <3>2. CASE m = clock'
      BY <1>1, <3>2 DEF Served
    <3>3. CASE m # clock'
      <4>1. m <= clock /\ clock + Settled <= calm + m
        <5>1. clock' = clock + 1 /\ m \in Nat /\ calm \in Nat /\ clock \in Nat
          BY <2>1, <3>1
        <5>2. m <= clock + 1 /\ m # clock + 1 /\ clock + 1 + Settled <= calm' + m
          BY <2>11, <3>3, <5>1
        <5>3. calm' = calm + 1 \/ calm' = calm
          BY <2>2
        <5>4. Settled \in Nat
          BY DEF Settled
        <5> QED
          BY <5>1, <5>2, <5>3, <5>4
      <4>2. /\ ~due[h]
            /\ Served(loop[h], due[h], calm, active, age, clock, m)
        BY <1>1, <2>1, <2>11, <4>1 DEF Keeps
      <4>3. CASE AllFresh(active, age)
        BY <2>1, <2>7, <3>1, <4>3 DEF Served, AllFresh
      <4>4. CASE /\ loop[h].pc # "idle" /\ loop[h].base = 0
                 /\ loop[h].elapsed < calm /\ loop[h].elapsed + m >= clock
        <5>1. Running(h)
          BY <4>4 DEF Running
        <5>2. loop[h].elapsed <= 1
          <6>1. loop[h].pc \in {"round", "polling"} /\ loop[h].stepped
            BY <1>1, <2>1, <5>1 DEF Loop, Running
          <6> QED
            BY <2>1, <2>3, <4>4, <6>1 DEF Keeps, Phase, Begun
        <5>3. loop'[h].elapsed < calm'
          <6>1. Settled \in Nat /\ Settled >= 3
            BY DEF Settled
          <6> QED
            BY <2>1, <2>2, <2>3, <2>4, <4>4, <5>1, <5>2, <6>1
        <5> QED
          BY <2>1, <2>3, <2>4, <2>9, <3>1, <4>4, <5>1, <5>3 DEF Served
      <4> QED
        BY <4>2, <4>3, <4>4 DEF Served
    <3> QED
      BY <3>2, <3>3
  <2> QED
    BY <2>6, <2>10, <2>11 DEF Keeps
<1> QED
  BY <1>2, <1>3

LEMMA InitRecover == Init => RecoverInv
<1> SUFFICES ASSUME Init PROVE RecoverInv
  OBVIOUS
<1>1. TimeInv /\ calm = 0
  BY InitTime DEF Init
<1>2. clock \in Nat /\ \A h \in Hubs : loop[h].elapsed \in Nat
  BY <1>1, Numbers DEF TimeInv, TypeOK, Loop
<1> QED
  BY <1>1, <1>2, NotCalm DEF RecoverInv

LEMMA NextRecover ==
  ASSUME Alone, MarksServe, TimeInv, LoadInv, RecoverInv, [Next]_vars
  PROVE  RecoverInv'
<1>1. DeadlineUnits >= 2 /\ CalmCap >= Settled
  BY Numbers, UnitsAssumption DEF MarksServe, Settled
<1>2. ASSUME NEW h \in Hubs,
             FireJob(h) \/ RunNow(h) \/ LoopStep(h) \/ Restart(h)
      PROVE  RecoverInv'
  BY <1>1, <1>2, LauncherRecover, RoundRecover, PollGridRecover, EndRoundRecover
     DEF LoopStep
<1>3. CASE Housekeep \/ \E g \in Grids : ToggleGrid(g)
  BY <1>3, TableRecover
<1>4. CASE Tick
  BY <1>1, <1>4, TickRecover
<1>5. CASE UNCHANGED vars
  BY <1>5 DEF vars, RecoverInv
<1> QED
  BY <1>2, <1>3, <1>4, <1>5 DEF Next

\* "A failed/missed short-term run recovers before the next 3-hour slot": one
\* hub, whatever its grids, fills them all within RecoveryUnits of calm, if the
\* marks serve the slot.  The job of the mark is not lost to the guard: the loop
\* it may meet is one that does the same work.
THEOREM RecoversInSlotAlone ==
  ASSUME Alone, Hubs # {}, MarksServe
  PROVE  Spec => []RecoversInSlot
<1>1. Init => RecoverInv
  BY InitRecover
<1>2. TimeInv /\ LoadInv /\ RecoverInv /\ [Next]_vars => RecoverInv'
  BY NextRecover
<1>3. ASSUME TimeInv, LoadInv, RecoverInv
      PROVE  RecoversInSlot
  <2> SUFFICES ASSUME calm >= RecoveryUnits, clock >= LoadUnits
               PROVE  AllFresh(active, age)
    BY DEF RecoversInSlot, AllFresh
  <2>1. PICK h \in Hubs : TRUE
    OBVIOUS
  <2>2. /\ loop[h] \in Loop /\ Keeps(loop[h], due[h], calm, active, age, clock)
        /\ clock \in Nat /\ calm \in Nat /\ FireMarks \subseteq Nat
    BY <1>3, Here
  <2>3. /\ clock \in LoadUnits..(SlotUnits - 1)
        /\ RecoveryUnits \in Nat
    BY <1>3, UnitsAssumption, Numbers DEF TimeInv, TypeOK
  <2>4. PICK m \in FireMarks :
          2 <= m /\ m + 2 <= clock /\ clock + Settled <= m + RecoveryUnits
    BY <2>3 DEF MarksServe
  <2>5. /\ m \in Nat /\ m <= clock /\ m # clock /\ clock + Settled <= calm + m
    BY <2>2, <2>3, <2>4 DEF Settled
  <2>6. Served(loop[h], due[h], calm, active, age, clock, m)
    BY <2>2, <2>4, <2>5 DEF Keeps
  <2>7. ASSUME loop[h].pc # "idle", loop[h].base = 0, loop[h].elapsed < calm,
               loop[h].elapsed + m >= clock
        PROVE  AllFresh(active, age)
    <3>1. /\ loop[h].pc \in {"round", "polling"} /\ loop[h].elapsed \in Nat
      BY <2>2, <2>7 DEF Loop
    <3>2. loop[h].pc = "polling" /\ loop[h].todo = {}
      BY <2>2, <2>4, <2>5, <2>7, <3>1 DEF Keeps, Phase, Begun
    <3> QED
      BY <2>2, <2>7, <3>2 DEF Keeps, Fills, AllFresh
  <2> QED
    BY <2>5, <2>6, <2>7 DEF Served
<1> QED
  BY <1>1, <1>2, <1>3, TimeInvariant, LoadInvariant, PTL DEF Spec
=============================================================================
