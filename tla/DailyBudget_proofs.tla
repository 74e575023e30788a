-------------------------- MODULE DailyBudget_proofs --------------------------
(***************************************************************************)
(* For any calls, amounts and cap: the counter is the units of the calls   *)
(* that are in it, and what is granted on one counter stays within the cap.*)
(***************************************************************************)
EXTENDS DailyBudget, FiniteSetTheorems, TLAPS

\* Calls already granted or bound to be: their total is within the cap.
Good(d) ==
  {c \in Calls :
     /\ call[c].day = d
     /\ \/ call[c].status = "granted"
        \/ call[c].status \in {"created", "counted"} /\ call[c].total <= Cap}

CountInv ==
  \A d \in Days :
    gone[d] \/ count[d] = Cardinality(Units(OfDay(d, InCounter)))

GoodInv == \A d \in Days : gone[d] \/ Cardinality(Units(Good(d))) <= Cap

\* The inductive strengthening of CapHolds and CounterSettles.
BudgetInv == TypeOK /\ CountInv /\ GoodInv

-----------------------------------------------------------------------------
\* The units of one call: as many as it asks for, and no other call's.
LEMMA OneCallsUnits ==
  ASSUME NEW c \in Calls
  PROVE  /\ IsFiniteSet({c} \X (1..Amount[c]))
         /\ Cardinality({c} \X (1..Amount[c])) = Amount[c]
         /\ Amount[c] \in Nat /\ Amount[c] >= 1
<1>1. Amount[c] \in Nat /\ Amount[c] >= 1
  BY BudgetAssumption
<1>2. IsFiniteSet({c}) /\ Cardinality({c}) = 1
  BY FS_Singleton
<1>3. IsFiniteSet(1..Amount[c]) /\ Cardinality(1..Amount[c]) = Amount[c]
  BY <1>1, FS_Interval
<1>4. /\ IsFiniteSet({c} \X (1..Amount[c]))
      /\ Cardinality({c} \X (1..Amount[c])) = Cardinality({c}) * Cardinality(1..Amount[c])
  BY <1>2, <1>3, FS_Product
<1>5. Cardinality({c} \X (1..Amount[c])) = 1 * Amount[c]
  BY <1>2, <1>3, <1>4
<1>6. 1 * Amount[c] = Amount[c]
  BY <1>1
<1> QED
  BY <1>1, <1>4, <1>5, <1>6

\* The units of any set of calls are finitely many.
LEMMA UnitsFinite ==
  ASSUME NEW C \in SUBSET Calls
  PROVE  IsFiniteSet(Units(C)) /\ Cardinality(Units(C)) \in Nat
<1> DEFINE share == [c \in C |-> {c} \X (1..Amount[c])]
           shares == {{c} \X (1..Amount[c]) : c \in C}
<1>1. IsFiniteSet(C)
  BY BudgetAssumption, FS_Subset
<1>2. share \in Surjection(C, shares)
  BY DEF Surjection
<1>3. IsFiniteSet(shares)
  BY <1>1, <1>2, FS_Surjection
<1>4. \A T \in shares : IsFiniteSet(T)
  BY OneCallsUnits
<1>5. IsFiniteSet(UNION shares)
  BY <1>3, <1>4, FS_UNION
<1> QED
  BY <1>5, FS_CardinalityType DEF Units

\* A call more, its amount more.
LEMMA UnitsOneMore ==
  ASSUME NEW C \in SUBSET Calls, NEW c \in Calls, c \notin C
  PROVE  Cardinality(Units(C \cup {c})) = Cardinality(Units(C)) + Amount[c]
<1> DEFINE own == {c} \X (1..Amount[c])
<1>1. Units(C \cup {c}) = Units(C) \cup own
  BY DEF Units
<1>2. Units(C) \cap own = {}
  BY DEF Units
<1>3. IsFiniteSet(Units(C)) /\ Cardinality(Units(C)) \in Nat
  BY UnitsFinite
<1>4. IsFiniteSet(own) /\ Cardinality(own) = Amount[c] /\ Amount[c] \in Nat
  BY OneCallsUnits
<1> HIDE DEF own
<1>5. Cardinality(Units(C) \cup own)
        = Cardinality(Units(C)) + Cardinality(own) - Cardinality(Units(C) \cap own)
  BY <1>3, <1>4, FS_Union
<1>6. Cardinality(Units(C) \cap own) = 0
  BY <1>2, FS_EmptySet
<1>7. Cardinality(Units(C \cup {c})) = Cardinality(Units(C) \cup own)
  BY <1>1, Zenon
<1> QED
  BY <1>3, <1>4, <1>5, <1>6, <1>7

\* Fewer calls, no more units.
LEMMA UnitsMonotone ==
  ASSUME NEW C \in SUBSET Calls, NEW B \in SUBSET C
  PROVE  Cardinality(Units(B)) <= Cardinality(Units(C))
<1>1. Units(B) \subseteq Units(C)
  BY DEF Units
<1> QED
  BY <1>1, UnitsFinite, FS_Subset

-----------------------------------------------------------------------------
\* A call changing a status outside the counter's for another such, or one
\* inside for another inside that is good only if it was, on one counter.
LEMMA QuietCall ==
  ASSUME BudgetInv, TypeOK',
         UNCHANGED <<count, gone>>,
         \A d \in Days : OfDay(d, InCounter)' = OfDay(d, InCounter),
         \A d \in Days : Good(d)' \subseteq Good(d)
  PROVE  BudgetInv'
<1>1. CountInv'
  BY DEF BudgetInv, CountInv
<1>2. GoodInv'
  <2> SUFFICES ASSUME NEW d \in Days, ~gone[d]
               PROVE  Cardinality(Units(Good(d)')) <= Cap
    BY DEF GoodInv, Units
  <2>1. Good(d) \in SUBSET Calls /\ Good(d)' \in SUBSET Good(d)
    BY DEF Good
  <2>2. Cardinality(Units(Good(d)')) <= Cardinality(Units(Good(d)))
    BY <2>1, UnitsMonotone
  <2>3. /\ Cardinality(Units(Good(d)')) \in Nat
        /\ Cardinality(Units(Good(d))) \in Nat
    BY <2>1, UnitsFinite
  <2>4. Cardinality(Units(Good(d))) <= Cap
    BY DEF BudgetInv, GoodInv
  <2> QED
    BY <2>2, <2>3, <2>4, BudgetAssumption
<1> QED
  BY <1>1, <1>2 DEF BudgetInv

\* Steps of a call that move no units.
LEMMA StatusSteps ==
  ASSUME BudgetInv, NEW c \in Calls,
         Ask(c) \/ AskFails(c) \/ SetExpiry(c) \/ Judge(c) \/ Lose(c)
  PROVE  BudgetInv'
<1>1. TypeOK
  BY DEF BudgetInv
<1>2. UNCHANGED <<count, gone, day, late>>
  BY DEF Ask, AskFails, SetExpiry, Judge, Lose
<1>3. CASE Ask(c)
  <2>1. TypeOK'
    BY <1>1, <1>3 DEF TypeOK, Ask, SetCall, Call, Status
  <2>2. \A d \in Days : OfDay(d, InCounter)' = OfDay(d, InCounter)
    BY <1>1, <1>3 DEF OfDay, InCounter, TypeOK, Ask, SetCall, Call
  <2>3. \A d \in Days : Good(d)' \subseteq Good(d)
    BY <1>1, <1>3 DEF Good, TypeOK, Ask, SetCall, Call
  <2> QED
    BY <1>2, <2>1, <2>2, <2>3, QuietCall
<1>4. CASE AskFails(c) \/ SetExpiry(c) \/ Judge(c) \/ Lose(c)
  <2> PICK s \in Status :
         /\ SetCall(c, s)
         /\ s \in InCounter <=> call[c].status \in InCounter
         /\ s = "granted" => call[c].status = "counted" /\ call[c].total <= Cap
         /\ s = "counted" => call[c].status = "created"
         /\ s # "created"
    <3>1. CASE AskFails(c)
      BY <3>1 DEF AskFails, Status, InCounter
    <3>2. CASE SetExpiry(c)
      BY <3>2 DEF SetExpiry, Status, InCounter
    <3>3. CASE Judge(c)
      BY <3>3 DEF Judge, Status, InCounter, WithinCap
    <3>4. CASE Lose(c)
      BY <3>4 DEF Lose, Status, InCounter
    <3> QED
      BY <1>4, <3>1, <3>2, <3>3, <3>4
  <2>1. /\ call' \in [Calls -> Call]
        /\ call'[c].status = s
        /\ call'[c].day = call[c].day
        /\ call'[c].total = call[c].total
        /\ \A b \in Calls \ {c} : call'[b] = call[b]
    BY <1>1 DEF TypeOK, SetCall, Call
  <2>3. \A d \in Days : OfDay(d, InCounter)' = OfDay(d, InCounter)
    BY <2>1 DEF OfDay
  <2>4. \A d \in Days : Good(d)' \subseteq Good(d)
    BY <2>1 DEF Good
  <2>5. TypeOK'
    <3>1. ttl' \in [Days -> Ttl]
      BY <1>1, <1>4 DEF TypeOK, AskFails, SetExpiry, Judge, Lose, Ttl, Lifetime
    <3>2. \A d \in Days : ttl'[d] = "absent" => count'[d] = 0
      BY <1>1, <1>2, <1>4
         DEF TypeOK, AskFails, SetExpiry, Judge, Lose, Lifetime
    <3> QED
      BY <1>1, <1>2, <2>1, <3>1, <3>2 DEF TypeOK
  <2> QED
    BY <1>2, <2>3, <2>4, <2>5, QuietCall
<1> QED
  BY <1>3, <1>4

\* The addition: the new total is the units in the counter with c's.
LEMMA AddStep ==
  ASSUME BudgetInv, NEW c \in Calls, Add(c)
  PROVE  BudgetInv'
<1> TypeOK
  BY DEF BudgetInv
<1> PICK d \in Days : d = call[c].day
  BY DEF TypeOK, Call
<1>0. count[d] \in Int /\ Amount[c] \in Nat
  BY OneCallsUnits DEF TypeOK
<1> PICK total \in Int : total = count[d] + Amount[c]
  BY <1>0
<1> PICK s \in {"created", "counted"} :
         s = IF IsNewKey(total, Amount[c]) THEN "created" ELSE "counted"
  OBVIOUS
<1>1. Amount[c] \in Nat /\ Amount[c] >= 1
  BY OneCallsUnits
<1>2. /\ call' = [call EXCEPT ![c].status = s, ![c].total = total]
      /\ count' = [count EXCEPT ![d] = total]
      /\ ttl' = [ttl EXCEPT ![d] = IF @ = "absent" THEN "none" ELSE @]
      /\ UNCHANGED <<day, late, gone>>
      /\ call[c].status = "asking"
  BY DEF Add
<1>4. /\ call' \in [Calls -> Call]
      /\ call'[c].status = s /\ call'[c].day = d /\ call'[c].total = total
      /\ \A b \in Calls \ {c} : call'[b] = call[b]
  <2> DEFINE r == [call[c] EXCEPT !.status = s, !.total = total]
  <2>1. call \in [Calls -> Call] /\ call[c] \in Call
    BY DEF TypeOK
  <2>2. r \in Call /\ r.status = s /\ r.day = d /\ r.total = total
    BY <2>1 DEF Call, Status
  <2>3. call' = [call EXCEPT ![c] = r]
    BY <1>2, <2>1 DEF Call
  <2> HIDE DEF r
  <2> QED
    BY <2>1, <2>2, <2>3
<1>5. TypeOK'
  BY <1>1, <1>2, <1>4 DEF TypeOK, Ttl
<1>6. /\ c \notin OfDay(d, InCounter)
      /\ OfDay(d, InCounter)' = OfDay(d, InCounter) \cup {c}
      /\ \A e \in Days \ {d} : OfDay(e, InCounter)' = OfDay(e, InCounter)
  BY <1>2, <1>4 DEF OfDay, InCounter
<1>7. /\ Good(d)' = IF total <= Cap THEN Good(d) \cup {c} ELSE Good(d)
      /\ \A e \in Days \ {d} : Good(e)' = Good(e)
  <2>1. c \notin Good(d)
    BY <1>2 DEF Good
  <2> QED
    BY <1>2, <1>4, <2>1 DEF Good
<1>8. Good(d)' \subseteq OfDay(d, InCounter)'
  BY DEF Good, OfDay, InCounter
<1>9. CountInv'
  <2> SUFFICES ASSUME NEW e \in Days, ~gone[e]
               PROVE  count'[e] = Cardinality(Units(OfDay(e, InCounter)'))
    BY <1>2 DEF CountInv, Units
  <2>1. count[e] = Cardinality(Units(OfDay(e, InCounter)))
    BY DEF BudgetInv, CountInv
  <2>2. CASE e # d
    BY <1>1, <1>2, <1>6, <2>1, <2>2 DEF TypeOK
  <2>3. CASE e = d
    <3>1. OfDay(d, InCounter) \in SUBSET Calls
      BY DEF OfDay
    <3>2. Cardinality(Units(OfDay(d, InCounter)'))
            = Cardinality(Units(OfDay(d, InCounter))) + Amount[c]
      BY <1>6, <3>1, UnitsOneMore
    <3> QED
      BY <1>1, <1>2, <2>1, <2>3, <3>2 DEF TypeOK
  <2> QED
    BY <2>2, <2>3
<1>10. GoodInv'
  <2> SUFFICES ASSUME NEW e \in Days, ~gone[e]
               PROVE  Cardinality(Units(Good(e)')) <= Cap
    BY <1>2 DEF GoodInv, Units
  <2>1. Cardinality(Units(Good(e))) <= Cap
    BY DEF BudgetInv, GoodInv
  <2>2. CASE e # d \/ ~(total <= Cap)
    BY <1>7, <2>1, <2>2
  <2>3. CASE e = d /\ total <= Cap
    <3>1. OfDay(d, InCounter)' \in SUBSET Calls
      BY DEF OfDay
    <3>2. Cardinality(Units(Good(d)')) <= Cardinality(Units(OfDay(d, InCounter)'))
      BY <1>8, <3>1, UnitsMonotone
    <3>3. count'[d] = Cardinality(Units(OfDay(d, InCounter)'))
      BY <1>2, <1>9, <2>3 DEF CountInv, Units
    <3>4. count'[d] = total
      BY <1>1, <1>2 DEF TypeOK
    <3>5. Good(d)' \in SUBSET Calls
      BY DEF Good
    <3>6. /\ Cardinality(Units(Good(d)')) \in Nat
          /\ Cardinality(Units(OfDay(d, InCounter)')) \in Nat
      BY <3>1, <3>5, UnitsFinite
    <3> QED
      BY <2>3, <3>2, <3>3, <3>4, <3>6, BudgetAssumption
  <2> QED
    BY <2>2, <2>3
<1> QED
  BY <1>5, <1>9, <1>10 DEF BudgetInv

\* Taking back removes exactly c's units.
LEMMA TakeBackStep ==
  ASSUME BudgetInv, NEW c \in Calls, TakeBack(c)
  PROVE  BudgetInv'
<1> TypeOK
  BY DEF BudgetInv
<1> PICK d \in Days : d = call[c].day
  BY DEF TypeOK, Call
<1>1. Amount[c] \in Nat /\ Amount[c] >= 1
  BY OneCallsUnits
<1>2. /\ call' = [call EXCEPT ![c].status = "refused"]
      /\ count' = [count EXCEPT ![d] = @ - Amount[c]]
      /\ UNCHANGED <<day, late, gone>>
      /\ call[c].status = "over"
  BY DEF TakeBack, SetCall
<1>3. PICK t : /\ ttl' = [ttl EXCEPT ![d] = t]
               /\ t \in {"none", Lifetime(c), ttl[d]} \ {"absent"}
  BY DEF TakeBack, Lifetime
<1>4. t \in Ttl /\ t # "absent"
  BY <1>1, <1>3 DEF TypeOK, Lifetime, Ttl
<1>5. /\ call' \in [Calls -> Call]
      /\ call'[c].status = "refused" /\ call'[c].day = d
      /\ \A b \in Calls \ {c} : call'[b] = call[b]
  BY <1>1, <1>2 DEF TypeOK, Call, Status
<1>6. TypeOK'
  <2>1. count' \in [Days -> Int]
    BY <1>1, <1>2 DEF TypeOK
  <2>2. ttl' \in [Days -> Ttl]
    BY <1>1, <1>3, <1>4 DEF TypeOK
  <2>3. \A e \in Days : ttl'[e] = "absent" => count'[e] = 0
    BY <1>1, <1>2, <1>3, <1>4 DEF TypeOK
  <2> QED
    BY <1>1, <1>2, <1>5, <2>1, <2>2, <2>3 DEF TypeOK
<1>7. /\ c \notin OfDay(d, InCounter)'
      /\ OfDay(d, InCounter) = OfDay(d, InCounter)' \cup {c}
      /\ \A e \in Days \ {d} : OfDay(e, InCounter)' = OfDay(e, InCounter)
  BY <1>2, <1>5 DEF OfDay, InCounter
<1>8. \A e \in Days : Good(e)' = Good(e)
  BY <1>2, <1>5 DEF Good
<1>9. CountInv'
  <2> SUFFICES ASSUME NEW e \in Days, ~gone[e]
               PROVE  count'[e] = Cardinality(Units(OfDay(e, InCounter)'))
    BY <1>2 DEF CountInv, Units
  <2>1. count[e] = Cardinality(Units(OfDay(e, InCounter)))
    BY DEF BudgetInv, CountInv
  <2>2. CASE e # d
    BY <1>1, <1>2, <1>7, <2>1, <2>2 DEF TypeOK
  <2>3. CASE e = d
    <3>1. OfDay(d, InCounter)' \in SUBSET Calls
      BY DEF OfDay
    <3>2. Cardinality(Units(OfDay(d, InCounter)))
            = Cardinality(Units(OfDay(d, InCounter)')) + Amount[c]
      BY <1>7, <3>1, UnitsOneMore
    <3>3. Cardinality(Units(OfDay(d, InCounter)')) \in Nat
      BY <3>1, UnitsFinite
    <3>4. count'[d] = count[d] - Amount[c]
      BY <1>1, <1>2 DEF TypeOK
    <3> QED
      BY <1>1, <2>1, <2>3, <3>2, <3>3, <3>4
  <2> QED
    BY <2>2, <2>3
<1>10. GoodInv'
  BY <1>2, <1>8 DEF BudgetInv, GoodInv, Units
<1> QED
  BY <1>6, <1>9, <1>10 DEF BudgetInv

\* The calendar and the expiry of keys.
LEMMA CalendarStep ==
  ASSUME BudgetInv, Calendar
  PROVE  BudgetInv'
<1>1. TypeOK
  BY DEF BudgetInv
<1>2. call' = call
  BY DEF Calendar, Expire, LastSecond, Midnight
<1>3. \A d \in Days :
        /\ OfDay(d, InCounter)' = OfDay(d, InCounter)
        /\ Good(d)' = Good(d)
  BY <1>2 DEF OfDay, Good
<1>4. ASSUME NEW e \in Days, Expire(e)
      PROVE  BudgetInv'
  <2>1. /\ gone' = [gone EXCEPT ![e] = TRUE]
        /\ count' = [count EXCEPT ![e] = 0]
        /\ ttl' = [ttl EXCEPT ![e] = "absent"]
        /\ UNCHANGED <<day, late>>
    BY <1>4 DEF Expire
  <2>2. TypeOK'
    BY <1>1, <1>2, <2>1 DEF TypeOK, Ttl
  <2>3. \A d \in Days : ~gone'[d] => ~gone[d] /\ count'[d] = count[d]
    BY <1>1, <2>1 DEF TypeOK
  <2>4. CountInv'
    BY <1>3, <2>3 DEF BudgetInv, CountInv, Units
  <2>5. GoodInv'
    BY <1>3, <2>3 DEF BudgetInv, GoodInv, Units
  <2> QED
    BY <2>2, <2>4, <2>5 DEF BudgetInv
<1>5. CASE LastSecond \/ Midnight
  <2>1. UNCHANGED <<count, ttl, gone>>
    BY <1>5 DEF LastSecond, Midnight
  <2>2. day' \in Days /\ late' \in BOOLEAN
    <3>1. day \in 0..LastDay /\ late \in BOOLEAN
      BY <1>1 DEF TypeOK, Days
    <3>2. CASE LastSecond
      BY <3>1, <3>2 DEF LastSecond, Days
    <3>3. CASE Midnight
      <4>1. day' = day + 1 /\ day < LastDay /\ late' = FALSE
        BY <3>3 DEF Midnight
      <4>2. LastDay \in Nat
        BY BudgetAssumption
      <4>3. day + 1 \in 0..LastDay
        BY <3>1, <4>1, <4>2
      <4> QED
        BY <4>1, <4>3 DEF Days
    <3> QED
      BY <1>5, <3>2, <3>3
  <2>3. TypeOK'
    BY <1>1, <1>2, <2>1, <2>2 DEF TypeOK
  <2> QED
    BY <1>3, <2>1, <2>3, QuietCall
<1> QED
  BY <1>4, <1>5 DEF Calendar

\* No step takes a grant back: a call that has its grant keeps it.
LEMMA GrantsAreFinal ==
  ASSUME TypeOK, NEW c \in Calls, call[c].status = "granted", [Next]_budgetVars
  PROVE  call'[c].status = "granted" /\ call'[c].day = call[c].day
<1> USE DEF TypeOK, Call
<1>1. ASSUME NEW b \in Calls, CallStep(b)
      PROVE  call'[c].status = "granted" /\ call'[c].day = call[c].day
  BY <1>1 DEF CallStep, Ask, AskFails, Add, SetExpiry, Judge, TakeBack, Lose, SetCall
<1>2. CASE Calendar \/ UNCHANGED budgetVars
  BY <1>2 DEF Calendar, Expire, LastSecond, Midnight, budgetVars
<1> QED
  BY <1>1, <1>2 DEF Next

\* No units are counted before the first call.
LEMMA InitStep == Init => BudgetInv
<1> SUFFICES ASSUME Init PROVE BudgetInv
  OBVIOUS
<1>1. TypeOK
  <2>1. 0 \in Days
    BY BudgetAssumption DEF Days
  <2>2. call \in [Calls -> Call]
    BY <2>1 DEF Init, Call, Status
  <2>3. ttl \in [Days -> Ttl] /\ count \in [Days -> Int] /\ gone \in [Days -> BOOLEAN]
    BY DEF Init, Ttl
  <2>4. \A d \in Days : count[d] = 0
    BY DEF Init
  <2>5. day \in Days /\ late \in BOOLEAN
    BY <2>1 DEF Init
  <2> QED
    BY <2>2, <2>3, <2>4, <2>5 DEF TypeOK
<1>2. \A d \in Days : OfDay(d, InCounter) = {} /\ Good(d) = {}
  BY DEF Init, OfDay, Good, InCounter
<1>3. Units({}) = {} /\ Cardinality({}) = 0
  BY FS_EmptySet DEF Units
<1>4. CountInv
  BY <1>2, <1>3 DEF CountInv, Init
<1>5. GoodInv
  BY <1>2, <1>3, BudgetAssumption DEF GoodInv
<1> QED
  BY <1>1, <1>4, <1>5 DEF BudgetInv

\* Every step of the budget, or none, keeps the invariant.
LEMMA BudgetStep ==
  ASSUME BudgetInv, [Next]_budgetVars
  PROVE  BudgetInv'
<1>1. ASSUME NEW c \in Calls, CallStep(c)
      PROVE  BudgetInv'
  BY <1>1, StatusSteps, AddStep, TakeBackStep DEF CallStep
<1>2. CASE UNCHANGED budgetVars
  <2>1. TypeOK'
    BY <1>2 DEF budgetVars, BudgetInv, TypeOK
  <2>2. UNCHANGED <<count, gone, call>>
    BY <1>2 DEF budgetVars
  <2>3. \A d \in Days :
          /\ OfDay(d, InCounter)' = OfDay(d, InCounter)
          /\ Good(d)' = Good(d)
    BY <2>2 DEF OfDay, Good
  <2> QED
    BY <2>1, <2>2, <2>3, QuietCall
<1> QED
  BY <1>1, <1>2, CalendarStep DEF Next

\* The counter and the grants, in every order of additions, losses, midnights.
THEOREM BudgetInvariant == Spec => []BudgetInv
<1>1. BudgetInv /\ [Next]_budgetVars => BudgetInv'
  BY BudgetStep
<1> QED
  BY <1>1, InitStep, PTL DEF Spec

\* The state of the counters and of the calls is well typed.
THEOREM TypeCorrect == Spec => []TypeOK
<1>1. BudgetInv => TypeOK
  BY DEF BudgetInv
<1> QED
  BY <1>1, BudgetInvariant, PTL

\* The grants of a counter are among the calls bound to fit it.
LEMMA CapFollows == BudgetInv => CapHolds
<1> SUFFICES ASSUME BudgetInv, NEW d \in Days, ~gone[d]
             PROVE  Cardinality(Units(OfDay(d, {"granted"}))) <= Cap
  BY DEF CapHolds
<1>1. OfDay(d, {"granted"}) \in SUBSET Good(d) /\ Good(d) \in SUBSET Calls
  BY DEF OfDay, Good
<1>2. Cardinality(Units(OfDay(d, {"granted"}))) <= Cardinality(Units(Good(d)))
  BY <1>1, UnitsMonotone
<1>3. /\ Cardinality(Units(OfDay(d, {"granted"}))) \in Nat
      /\ Cardinality(Units(Good(d))) \in Nat
  BY <1>1, UnitsFinite
<1>4. Cardinality(Units(Good(d))) <= Cap
  BY DEF BudgetInv, GoodInv
<1> QED
  BY <1>2, <1>3, <1>4, BudgetAssumption

\* No interleaving of any number of calls grants more than the cap on one
\* counter: adding first and looking at the returned total is enough.
THEOREM CapHoldsAlways == Spec => []CapHolds
  BY CapFollows, BudgetInvariant, PTL

\* A counter nobody is working on and nothing was lost on holds the grants.
THEOREM CounterSettlesAlways == Spec => []CounterSettles
<1>1. BudgetInv => CounterSettles
  <2> SUFFICES ASSUME BudgetInv, NEW d \in Days, ~gone[d],
                      OfDay(d, InCounter \ {"granted"}) = {}
               PROVE  count[d] = Cardinality(Units(OfDay(d, {"granted"})))
    BY DEF CounterSettles
  <2>1. OfDay(d, InCounter) = OfDay(d, {"granted"})
    BY DEF OfDay, InCounter
  <2> QED
    BY <2>1 DEF BudgetInv, CountInv
<1> QED
  BY <1>1, BudgetInvariant, PTL

\* A call whose units are in a counter whose key has not expired has a key.
LEMMA KeyIsThere ==
  ASSUME BudgetInv, NEW c \in Calls, call[c].status \in InCounter, ~gone[call[c].day]
  PROVE  ttl[call[c].day] # "absent"
<1> DEFINE d == call[c].day
           C == OfDay(d, InCounter)
<1>1. d \in Days
  BY DEF BudgetInv, TypeOK, Call
<1>2. {c} \in SUBSET C /\ C \in SUBSET Calls /\ c \in Calls \ {}
  BY DEF OfDay
<1>3. Cardinality(Units({c})) <= Cardinality(Units(C))
  BY <1>2, UnitsMonotone
<1>4. Cardinality(Units({c})) = Amount[c] /\ Amount[c] \in Nat /\ Amount[c] >= 1
  <2>1. Units({c}) = {c} \X (1..Amount[c])
    BY DEF Units
  <2> QED
    BY <2>1, OneCallsUnits
<1>5. count[d] = Cardinality(Units(C)) /\ Cardinality(Units(C)) \in Nat
  BY <1>1, <1>2, UnitsFinite DEF BudgetInv, CountInv
<1> HIDE DEF C
<1>6. count[d] # 0
  BY <1>3, <1>4, <1>5
<1> QED
  BY <1>1, <1>6 DEF BudgetInv, TypeOK

\* A step of a call keeps the reason why a counter has no expiry yet.
LEMMA CallStepsKeepReason ==
  ASSUME BudgetInv, NoEternalCounter, NEW c \in Calls, CallStep(c)
  PROVE  NoEternalCounter'
<1> TypeOK
  BY DEF BudgetInv
<1> DEFINE e == call[c].day
           Waiting == {"created", "leaked"}
<1>1. /\ call \in [Calls -> Call] /\ call[c] \in Call
      /\ count \in [Days -> Int] /\ ttl \in [Days -> Ttl] /\ e \in Days
  BY DEF TypeOK, Call
<1>2. /\ UNCHANGED gone
      /\ \A b \in Calls \ {c} : call'[b] = call[b]
  BY <1>1 DEF CallStep, Ask, AskFails, Add, SetExpiry, Judge, TakeBack, Lose, SetCall
<1> SUFFICES ASSUME NEW d \in Days, ~gone[d], ttl'[d] = "none"
             PROVE  \E b \in Calls : call'[b].day = d /\ call'[b].status \in Waiting
  BY <1>2 DEF NoEternalCounter, OfDay
\* No step of c takes the reason away that another call is.
<1>3. ASSUME ttl[d] = "none", ~(c \in OfDay(d, Waiting) /\ call'[c].status \notin Waiting),
             call'[c].day = call[c].day \/ call[c].status = "idle"
      PROVE  \E b \in Calls : call'[b].day = d /\ call'[b].status \in Waiting
  <2>1. PICK b \in Calls : call[b].day = d /\ call[b].status \in Waiting
    BY <1>3 DEF NoEternalCounter, OfDay
  <2> QED
    BY <1>2, <1>3, <2>1 DEF OfDay
<1>4. CASE Ask(c) \/ AskFails(c) \/ Judge(c) \/ Lose(c)
  <2>1. ttl[d] = "none"
    BY <1>4 DEF Ask, AskFails, Judge, Lose
  <2>2. /\ c \in OfDay(d, Waiting) => call'[c].status \in Waiting
        /\ call'[c].day = call[c].day \/ call[c].status = "idle"
    BY <1>1, <1>4 DEF Ask, AskFails, Judge, Lose, SetCall, OfDay, Call
  <2> QED
    BY <1>3, <2>1, <2>2
<1>5. CASE Add(c)
  <2>1. /\ call'[c].day = call[c].day /\ call[c].status = "asking"
        /\ \A k \in Days \ {e} : ttl'[k] = ttl[k]
        /\ ttl[e] # "absent" => ttl'[e] = ttl[e]
    BY <1>1, <1>5 DEF Add, Call
  <2>2. CASE ttl[d] = "none"
    BY <1>3, <2>1, <2>2 DEF OfDay
  <2>3. CASE ttl[d] # "none"
    <3>1. d = e /\ ttl[e] = "absent"
      BY <2>1, <2>3
    <3>2. count[e] = 0 /\ Amount[c] \in Nat
      BY <1>1, <3>1, OneCallsUnits DEF TypeOK
    <3>3. count[e] + Amount[c] = Amount[c]
      BY <3>2
    <3>4. call'[c].status = "created"
      BY <1>1, <1>5, <3>3 DEF Add, IsNewKey, Call
    <3> QED
      BY <2>1, <3>1, <3>4
  <2> QED
    BY <2>2, <2>3
<1>6. CASE SetExpiry(c)
  <2>1. /\ call'[c].day = call[c].day
        /\ \A k \in Days \ {e} : ttl'[k] = ttl[k]
        /\ ttl'[e] # "none"
    <3>1. ttl' = [ttl EXCEPT ![e] = IF ttl[e] = "absent" THEN "absent" ELSE Lifetime(c)]
      BY <1>6 DEF SetExpiry
    <3>2. Lifetime(c) # "none"
      BY DEF Lifetime
    <3>3. call'[c].day = call[c].day
      BY <1>1, <1>6 DEF SetExpiry, SetCall, Call
    <3> QED
      BY <1>1, <3>1, <3>2, <3>3
  <2> QED
    BY <1>3, <2>1 DEF OfDay
<1>7. CASE TakeBack(c)
  <2>1. call'[c].day = call[c].day /\ call[c].status = "over"
    BY <1>1, <1>7 DEF TakeBack, SetCall, Call
  <2>2. ttl[d] = "none"
    <3>1. CASE d # e
      BY <1>1, <1>7, <3>1 DEF TakeBack
    <3>2. CASE d = e
      <4>1. ttl[e] # "absent"
        BY <2>1, <3>2, KeyIsThere DEF InCounter
      <4>2. ttl'[e] \in {ttl[e], Lifetime(c)}
        BY <1>1, <1>7, <4>1 DEF TakeBack
      <4>3. Lifetime(c) # "none"
        BY DEF Lifetime
      <4> QED
        BY <3>2, <4>2, <4>3
    <3> QED
      BY <3>1, <3>2
  <2> QED
    BY <1>3, <2>1, <2>2 DEF OfDay
<1> QED
  BY <1>4, <1>5, <1>6, <1>7 DEF CallStep

\* No counter is left without expiry unless its EXPIRE is to come or was lost,
\* whatever the calls ask for and in whatever order they add and take back.
THEOREM NoEternalCounterAlways == Spec => []NoEternalCounter
<1>1. Init => NoEternalCounter
  BY DEF Init, NoEternalCounter
<1>2. BudgetInv /\ NoEternalCounter /\ [Next]_budgetVars => NoEternalCounter'
  <2> SUFFICES ASSUME BudgetInv, NoEternalCounter, [Next]_budgetVars
               PROVE  NoEternalCounter'
    OBVIOUS
  <2>1. CASE Calendar
    <3>1. UNCHANGED call /\ ttl \in [Days -> Ttl] /\ gone \in [Days -> BOOLEAN]
      BY <2>1 DEF Calendar, Expire, LastSecond, Midnight, BudgetInv, TypeOK
    <3>2. \A d \in Days : gone[d] => gone'[d]
      BY <2>1, <3>1 DEF Calendar, Expire, LastSecond, Midnight
    <3>3. \A d \in Days : ttl'[d] \in {ttl[d], "absent"}
      BY <2>1, <3>1 DEF Calendar, Expire, LastSecond, Midnight
    <3> QED
      BY <3>1, <3>2, <3>3 DEF NoEternalCounter, OfDay
  <2>2. CASE UNCHANGED budgetVars
    BY <2>2 DEF budgetVars, NoEternalCounter, OfDay
  <2> QED
    BY <2>1, <2>2, CallStepsKeepReason DEF Next
<1> QED
  BY <1>1, <1>2, BudgetInvariant, PTL DEF Spec

-----------------------------------------------------------------------------
\* The calls whose units stay in the counter: granted, bound to be, or lost.
Kept(d) ==
  {c \in Calls :
     /\ call[c].day = d
     /\ \/ call[c].status \in {"granted", "leaked"}
        \/ call[c].status \in {"created", "counted"} /\ call[c].total <= Cap}

\* Too little is left of the cap for one of the calls.
Short(d) == \E b \in Calls : Cardinality(Units(Kept(d))) + Amount[b] > Cap

\* A total is known after the addition; units go back only for one too large.
TotalsInv ==
  \A c \in Calls :
    /\ call[c].status \in {"idle", "asking"} => call[c].total = 0
    /\ call[c].status = "over" => call[c].total > Cap

\* A total above the cap is only seen on a day on which too little was left
\* besides what is taken back again.
ShortInv ==
  \A d \in Days :
    gone[d] \/ Short(d) \/ \A c \in Calls : call[c].day = d => call[c].total <= Cap

\* What stays in the counter only grows, so too little remains too little.
LEMMA StaysShort ==
  ASSUME NEW d \in Days, Short(d), Kept(d) \subseteq Kept(d)'
  PROVE  Short(d)'
<1>1. Kept(d) \in SUBSET Kept(d)' /\ Kept(d) \in SUBSET Calls /\ Kept(d)' \in SUBSET Calls
  BY DEF Kept
<1>2. Cardinality(Units(Kept(d))) <= Cardinality(Units(Kept(d)'))
  BY <1>1, UnitsMonotone
<1>3. /\ Cardinality(Units(Kept(d))) \in Nat
      /\ Cardinality(Units(Kept(d)')) \in Nat
  BY <1>1, UnitsFinite
<1>4. PICK b \in Calls : Cardinality(Units(Kept(d))) + Amount[b] > Cap
  BY DEF Short
<1>5. Cardinality(Units(Kept(d)')) + Amount[b] > Cap
  BY <1>2, <1>3, <1>4, BudgetAssumption
<1> QED
  BY <1>5 DEF Short, Units

\* A step in which nothing leaves the kept calls and no new total is too large.
LEMMA NoNewTotal ==
  ASSUME ShortInv, UNCHANGED gone,
         \A d \in Days : Kept(d) \subseteq Kept(d)',
         \A c \in Calls : ~(call'[c].total <= Cap) =>
           ~(call[c].total <= Cap) /\ call'[c].day = call[c].day
  PROVE  ShortInv'
<1> SUFFICES ASSUME NEW d \in Days, ~gone[d], ~Short(d)',
                    NEW c \in Calls, call'[c].day = d
             PROVE  call'[c].total <= Cap
  BY DEF ShortInv
<1>1. ~Short(d)
  BY StaysShort
<1> QED
  BY <1>1 DEF ShortInv

\* The addition sees a total above the cap only when what is kept and the call
\* itself exceed it, or when an earlier call saw one.
LEMMA AddKeepsShort ==
  ASSUME BudgetInv, TotalsInv, ShortInv, NEW c \in Calls, Add(c)
  PROVE  TotalsInv' /\ ShortInv'
<1> TypeOK
  BY DEF BudgetInv
<1> DEFINE e == call[c].day
           total == count[e] + Amount[c]
<1>1. /\ call \in [Calls -> Call] /\ call[c] \in Call /\ e \in Days
      /\ count[e] \in Int /\ Amount[c] \in Nat /\ Cap \in Nat
  BY OneCallsUnits, BudgetAssumption DEF TypeOK, Call
<1>2. /\ call[c].status = "asking"
      /\ call'[c].status \in {"created", "counted"}
      /\ call'[c].day = e /\ call'[c].total = total
      /\ \A b \in Calls \ {c} : call'[b] = call[b]
      /\ UNCHANGED gone
  BY <1>1 DEF Add, Call
<1> HIDE DEF e, total
<1>3. TotalsInv'
  BY <1>2 DEF TotalsInv
<1>4. \A d \in Days : Kept(d) \subseteq Kept(d)'
  BY <1>2 DEF Kept
<1>5. CASE total <= Cap
  BY <1>2, <1>3, <1>4, <1>5, NoNewTotal
<1>6. CASE ~(total <= Cap)
  <2> SUFFICES ASSUME NEW d \in Days, ~gone[d]
               PROVE  \/ Short(d)'
                      \/ \A b \in Calls : call'[b].day = d => call'[b].total <= Cap
    BY <1>2, <1>3 DEF ShortInv
  <2>1. CASE Short(d)
    BY <1>4, <2>1, StaysShort
  <2>2. CASE ~Short(d) /\ d # e
    BY <1>2, <2>2 DEF ShortInv
  <2>3. CASE ~Short(d) /\ d = e
    <3>1. \A b \in Calls : call[b].day = e => call[b].total <= Cap
      BY <2>3 DEF ShortInv
    <3>2. OfDay(e, InCounter) = Kept(e)
      <4>1. \A b \in Calls : call[b].total \in Int
        BY <1>1 DEF Call
      <4> QED
        BY <1>1, <3>1, <4>1 DEF OfDay, Kept, InCounter, TotalsInv
    <3>3. count[e] = Cardinality(Units(Kept(e)))
      BY <1>1, <2>3, <3>2 DEF BudgetInv, CountInv
    <3>4. Cardinality(Units(Kept(e))) + Amount[c] > Cap
      BY <1>1, <1>6, <3>3 DEF total
    <3>5. Short(e)
      BY <3>4 DEF Short
    <3> QED
      BY <2>3, <3>5
  <2> QED
    BY <2>1, <2>2, <2>3
<1> QED
  BY <1>3, <1>5, <1>6

\* Every step of the budget, or none, keeps what is said of totals.
LEMMA ShortStep ==
  ASSUME BudgetInv, TotalsInv, ShortInv, [Next]_budgetVars
  PROVE  TotalsInv' /\ ShortInv'
<1> TypeOK
  BY DEF BudgetInv
<1>1. call \in [Calls -> Call] /\ Cap \in Nat
  BY BudgetAssumption DEF TypeOK
<1>2. ASSUME NEW c \in Calls, CallStep(c)
      PROVE  TotalsInv' /\ ShortInv'
  <2>1. CASE Add(c)
    BY <2>1, AddKeepsShort
  <2>2. CASE \/ Ask(c) \/ AskFails(c) \/ SetExpiry(c) \/ Judge(c)
             \/ TakeBack(c) \/ Lose(c)
    <3>1. /\ UNCHANGED gone
          /\ \A b \in Calls \ {c} : call'[b] = call[b]
          /\ call'[c].total = call[c].total
          /\ call'[c].day = call[c].day \/ call[c].status = "idle"
      BY <1>1, <2>2 DEF Ask, AskFails, SetExpiry, Judge, TakeBack, Lose, SetCall, Call
    <3>2. /\ call'[c].status \in {"idle", "asking"} => call[c].status = "idle"
          /\ call'[c].status = "over" => call[c].total > Cap
          /\ call[c].status = "idle" => call'[c].status \in {"asking", "refused"}
      <4>1. call[c].total \in Int
        BY <1>1 DEF Call
      <4> QED
        BY <1>1, <2>2, <4>1
           DEF Ask, AskFails, SetExpiry, Judge, WithinCap, TakeBack, Lose, SetCall, Call
    <3>3. TotalsInv'
      BY <3>1, <3>2 DEF TotalsInv
    <3>4. \A d \in Days : c \in Kept(d) => c \in Kept(d)'
      BY <1>1, <2>2 DEF Kept, Ask, AskFails, SetExpiry, Judge, WithinCap, TakeBack,
                        Lose, SetCall, Call
    <3>5. \A d \in Days : Kept(d) \subseteq Kept(d)'
      <4> SUFFICES ASSUME NEW d \in Days, NEW b \in Kept(d)
                   PROVE  b \in Kept(d)'
        OBVIOUS
      <4>1. CASE b = c
        BY <3>4, <4>1
      <4>2. CASE b # c
        BY <3>1, <4>2 DEF Kept
      <4> QED
        BY <4>1, <4>2
    <3>6. \A b \in Calls : ~(call'[b].total <= Cap) =>
            ~(call[b].total <= Cap) /\ call'[b].day = call[b].day
      BY <1>1, <3>1 DEF TotalsInv
    <3> QED
      BY <3>1, <3>3, <3>5, <3>6, NoNewTotal
  <2> QED
    BY <1>2, <2>1, <2>2 DEF CallStep
<1>3. CASE Calendar \/ UNCHANGED budgetVars
  <2>1. UNCHANGED call /\ \A d \in Days : gone[d] => gone'[d]
    BY <1>3 DEF Calendar, Expire, LastSecond, Midnight, budgetVars, TypeOK
  <2>2. \A d \in Days : Short(d)' = Short(d)
    BY <2>1 DEF Short, Kept
  <2> QED
    BY <2>1, <2>2 DEF TotalsInv, ShortInv
<1> QED
  BY <1>2, <1>3 DEF Next

\* At first nobody has a total.
LEMMA ShortInit == Init => TotalsInv /\ ShortInv
  BY BudgetAssumption DEF Init, TotalsInv, ShortInv
=============================================================================
