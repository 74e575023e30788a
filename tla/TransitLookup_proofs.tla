------------------------- MODULE TransitLookup_proofs -------------------------
(***************************************************************************)
(* For any number of lookups and any cap: lookups use the daily budget as  *)
(* DailyBudget describes its callers, so what is proved of the budget is   *)
(* proved of them (Books); requests stay within the cap, a call is turned  *)
(* away only when the cap is used up, and no failure becomes "there is no  *)
(* route".                                                                 *)
(***************************************************************************)
EXTENDS TransitLookup, FiniteSetTheorems, TLAPS

\* The budget of the lookups with what is proved of it.
Books == INSTANCE DailyBudget_proofs
           WITH Calls <- BudgetCalls, Amount <- [c \in BudgetCalls |-> 1]

\* The books are in order, a request went out for a grant, and what is told of
\* the route, by a lookup or by the entry, is so.
TransitInv ==
  /\ Books!BudgetInv /\ Books!TotalsInv /\ Books!ShortInv
  /\ lookup \in [Lookups -> Lookup]
  /\ entry \in Entry
  /\ route \in Answers
  /\ made \subseteq BudgetCalls
  /\ \A c \in made : call[c].status = "granted"
  /\ AnswersAreTrue
  /\ entry.status \in Answers => entry.status = route

-----------------------------------------------------------------------------
\* The books count sets as everyone does.
LEMMA SameCounting ==
  ASSUME NEW S
  PROVE  /\ Books!IsFiniteSet(S) <=> IsFiniteSet(S)
         /\ Books!Cardinality(S) = Cardinality(S)
<1>1. Books!IsFiniteSet(S) <=> IsFiniteSet(S)
  BY DEF Books!IsFiniteSet, IsFiniteSet
<1>2. Books!Cardinality(S) = Cardinality(S)
  BY Zenon DEF Books!Cardinality, Cardinality
<1> QED
  BY <1>1, <1>2

\* Two keys a lookup: finitely many calls, of one unit each.
LEMMA BudgetApplies == Books!BudgetAssumption
<1>1. IsFiniteSet({"primary"}) /\ IsFiniteSet({"fallback"})
  BY FS_Singleton
<1>2. Keys = {"primary"} \cup {"fallback"}
  BY DEF Keys
<1>3. IsFiniteSet(Keys)
  BY <1>1, <1>2, FS_Union
<1>4. IsFiniteSet(BudgetCalls)
  BY <1>3, LookupsAssumption, FS_Product DEF BudgetCalls
<1> QED
  BY <1>4, LookupsAssumption, SameCounting

\* The budget the lookups use is the one the books are kept of.
LEMMA SameBudget ==
  /\ Budget!Init <=> Books!Init
  /\ Budget!TypeOK <=> Books!TypeOK
  /\ [Budget!Next]_budgetVars => [Books!Next]_Books!budgetVars
<1>1. Budget!Init <=> Books!Init
  BY DEF Budget!Init, Books!Init, Budget!Days, Books!Days
<1>2. Budget!TypeOK <=> Books!TypeOK
  BY DEF Budget!TypeOK, Books!TypeOK, Budget!Days, Books!Days, Budget!Ttl, Books!Ttl,
         Budget!Call, Books!Call, Budget!Status, Books!Status
<1>3. Budget!Calendar => Books!Calendar
  BY DEF Budget!Calendar, Books!Calendar, Budget!Days, Books!Days,
         Budget!Expire, Books!Expire, Budget!LastSecond, Books!LastSecond,
         Budget!Midnight, Books!Midnight
<1>4. ASSUME NEW c \in BudgetCalls, Budget!CallStep(c)
      PROVE  Books!CallStep(c)
  BY <1>4
  DEF Budget!CallStep, Books!CallStep, Budget!SetCall, Books!SetCall,
      Budget!Ask, Books!Ask, Budget!AskFails, Books!AskFails,
      Budget!Add, Books!Add, Budget!IsNewKey, Books!IsNewKey,
      Budget!SetExpiry, Books!SetExpiry, Budget!Lifetime, Books!Lifetime,
      Budget!Judge, Books!Judge, Budget!WithinCap, Books!WithinCap,
      Budget!TakeBack, Books!TakeBack, Budget!Lose, Books!Lose
<1> QED
  BY <1>1, <1>2, <1>3, <1>4
  DEF Budget!Next, Books!Next, budgetVars, Books!budgetVars

\* A lookup that is cancelled in the middle of its budget call refuses or loses
\* that call, or leaves it as it was.
LEMMA CutOff ==
  ASSUME TransitInv, NEW l \in Lookups, TimeOut(l)
  PROVE  [Budget!Next]_budgetVars
<1> DEFINE c == Asked(l)
           s == call[c].status
<1>1. c \in BudgetCalls
  BY DEF TransitInv, Lookup, Asked, BudgetCalls
<1>2. call \in [BudgetCalls -> Books!Call]
  BY DEF TransitInv, Books!BudgetInv, Books!TypeOK
<1>3. UNCHANGED <<day, late, count, ttl, gone>>
  BY DEF TimeOut
<1>4. CASE lookup[l].pc # "budget"
  BY <1>3, <1>4 DEF TimeOut, budgetVars
<1>5. CASE lookup[l].pc = "budget"
  <2>1. call' = [call EXCEPT ![c].status = Cancelled(s)]
    BY <1>5 DEF TimeOut
  <2> HIDE DEF c
  <2>2. CASE s = "asking"
    <3>1. Cancelled(s) = "refused"
      BY <2>2 DEF Cancelled
    <3>2. Budget!AskFails(c)
      BY <1>3, <2>1, <2>2, <3>1 DEF Budget!AskFails, Budget!SetCall
    <3> QED
      BY <1>1, <3>2 DEF Budget!Next, Budget!CallStep
  <2>3. CASE s \in {"created", "counted", "over"}
    <3>1. Cancelled(s) = "leaked"
      BY <2>3 DEF Cancelled
    <3>2. Budget!Lose(c)
      BY <1>3, <2>1, <2>3, <3>1 DEF Budget!Lose, Budget!SetCall
    <3> QED
      BY <1>1, <3>2 DEF Budget!Next, Budget!CallStep
  <2>4. CASE s \notin {"asking", "created", "counted", "over"}
    <3>1. Cancelled(s) = s
      BY <2>4 DEF Cancelled
    <3>2. call' = call
      BY <1>1, <1>2, <2>1, <3>1 DEF Books!Call
    <3> QED
      BY <1>3, <3>2 DEF budgetVars
  <2> QED
    BY <2>2, <2>3, <2>4
<1> QED
  BY <1>4, <1>5

\* Whatever a lookup does is a step of the budget or none.
LEMMA BudgetSees ==
  ASSUME TransitInv, [Next]_vars
  PROVE  [Budget!Next]_budgetVars
<1>1. ASSUME NEW l \in Lookups, AskBudget(l)
      PROVE  [Budget!Next]_budgetVars
  <2>1. Asked(l) \in BudgetCalls
    BY DEF TransitInv, Lookup, Asked, BudgetCalls
  <2> QED
    BY <1>1, <2>1 DEF AskBudget, Budget!Next
<1>2. ASSUME NEW l \in Lookups,
             Look(l) \/ CallProvider(l) \/ Refused(l) \/ Answered(l) \/ WriteCache(l)
      PROVE  [Budget!Next]_budgetVars
  BY <1>2 DEF Look, CallProvider, Refused, Answered, WriteCache
<1>3. ASSUME NEW l \in Lookups, LookupStep(l)
      PROVE  [Budget!Next]_budgetVars
  BY <1>1, <1>2, <1>3, CutOff DEF LookupStep
<1>4. CASE EntryExpires \/ UNCHANGED vars
  BY <1>4 DEF EntryExpires, vars
<1>5. CASE PassTime
  BY <1>5 DEF PassTime, Budget!Next
<1> QED
  BY <1>3, <1>4, <1>5 DEF Next

\* The lookup l or none moves, and what it then tells of the route, or leaves
\* in the cache, is what it was told or what the cache said.
LEMMA OwnState ==
  ASSUME TransitInv, [Next]_vars
  PROVE  /\ lookup' \in [Lookups -> Lookup]
         /\ entry' \in Entry
         /\ route' = route
         /\ AnswersAreTrue'
         /\ entry'.status \in Answers => entry'.status = route
         /\ \/ made' = made
            \/ \E c \in BudgetCalls : call[c].status = "granted" /\ made' = made \cup {c}
<1> DEFINE Told == /\ lookup' \in [Lookups -> Lookup]
                   /\ \A l \in Lookups : lookup'[l].status \in Answers => lookup'[l].status = route
           Left == /\ entry' \in Entry
                   /\ entry'.status \in Answers => entry'.status = route
           Paid == \/ made' = made
                   \/ \E c \in BudgetCalls : call[c].status = "granted" /\ made' = made \cup {c}
<1>1. /\ lookup \in [Lookups -> Lookup]
      /\ \A l \in Lookups : lookup[l].status \in Answers => lookup[l].status = route
      /\ entry \in Entry
      /\ entry.status \in Answers => entry.status = route
      /\ route \in Answers
  BY DEF TransitInv, AnswersAreTrue
<1>2. ASSUME NEW l \in Lookups,
             NEW pc \in {"looking", "budget", "calling", "writing", "done"},
             NEW key \in Keys,
             Enter(l, pc, key)
      PROVE  Told
  <2> DEFINE r == [lookup[l] EXCEPT !.pc = pc, !.key = key]
  <2>1. r \in Lookup /\ r.status = lookup[l].status
    BY <1>1 DEF Lookup
  <2>2. lookup' = [lookup EXCEPT ![l] = r]
    BY <1>1, <1>2 DEF Enter, Lookup
  <2> HIDE DEF r
  <2> QED
    BY <1>1, <2>1, <2>2
<1>3. ASSUME NEW l \in Lookups,
             NEW pc \in {"looking", "budget", "calling", "writing", "done"},
             NEW status \in Answers \cup {"none", "unavailable"},
             NEW why \in {"none", "answer", "failure", "budget"},
             status \in Answers => status = route,
             Conclude(l, pc, status, why)
      PROVE  Told
  <2> DEFINE r == [lookup[l] EXCEPT !.pc = pc, !.status = status, !.why = why]
  <2>1. r \in Lookup /\ r.status = status
    BY <1>1 DEF Lookup
  <2>2. lookup' = [lookup EXCEPT ![l] = r]
    BY <1>1, <1>3 DEF Conclude, Lookup
  <2> HIDE DEF r
  <2> QED
    BY <1>1, <1>3, <2>1, <2>2
<1>4. ASSUME NEW l \in Lookups, entry' \in {entry, Learnt(l)}
      PROVE  Left
  BY <1>1, <1>4 DEF Learnt, Lookup, Entry
<1>5. ASSUME NEW l \in Lookups, LookupStep(l)
      PROVE  Told /\ Left /\ Paid /\ route' = route
  <2>1. lookup[l] \in Lookup /\ lookup[l].key \in Keys
    BY <1>1 DEF Lookup
  <2>2. CASE Look(l)
    <3>1. Told
      BY <1>1, <1>2, <1>3, <2>2 DEF Look, Entry, Keys
    <3> QED
      BY <1>1, <2>2, <3>1 DEF Look
  <2>3. CASE AskBudget(l)
    BY <1>1, <2>3 DEF AskBudget, lookupVars
  <2>4. CASE CallProvider(l)
    <3>1. Told
      BY <1>2, <2>1, <2>4 DEF CallProvider
    <3>2. Paid
      BY <2>1, <2>4 DEF CallProvider, FallbackAllowed, Asked, BudgetCalls
    <3> QED
      BY <1>1, <2>4, <3>1, <3>2 DEF CallProvider
  <2>5. CASE Refused(l)
    <3>1. Told
      BY <1>3, <2>5 DEF Refused, Answers
    <3> QED
      BY <1>1, <2>5, <3>1 DEF Refused
  <2>6. CASE Answered(l)
    <3>1. Told
      BY <1>1, <1>2, <1>3, <2>6 DEF Answered, Failed, Answers, Keys
    <3> QED
      BY <1>1, <2>6, <3>1 DEF Answered
  <2>7. CASE WriteCache(l)
    <3>1. Told
      BY <1>1, <1>3, <2>1, <2>7 DEF WriteCache, Lookup
    <3> QED
      BY <1>4, <2>7, <3>1 DEF WriteCache
  <2>8. CASE TimeOut(l)
    <3>1. Told
      BY <1>3, <2>8 DEF TimeOut, Answers
    <3> QED
      BY <1>4, <2>8, <3>1 DEF TimeOut
  <2> QED
    BY <1>5, <2>2, <2>3, <2>4, <2>5, <2>6, <2>7, <2>8 DEF LookupStep
<1>6. ASSUME EntryExpires
      PROVE  Told /\ Left /\ Paid /\ route' = route
  <2>1. UNCHANGED <<lookup, route, made>> /\ entry' = NoEntry
    BY <1>6 DEF EntryExpires
  <2>2. Left
    BY <2>1 DEF NoEntry, Entry, Answers
  <2> QED
    BY <1>1, <2>1, <2>2
<1>7. ASSUME PassTime \/ UNCHANGED vars
      PROVE  Told /\ Left /\ Paid /\ route' = route
  <2>1. UNCHANGED <<lookup, entry, route, made>>
    BY <1>7 DEF PassTime, vars, lookupVars
  <2> QED
    BY <1>1, <2>1
<1> HIDE DEF Told, Left, Paid
<1>8. Told /\ Left /\ Paid /\ route' = route
  BY <1>5, <1>6, <1>7 DEF Next
<1> USE DEF Told, Left, Paid
<1> QED
  BY <1>8 DEF AnswersAreTrue

\* Every step keeps the invariant.
LEMMA TransitStep ==
  ASSUME TransitInv, [Next]_vars
  PROVE  TransitInv'
<1>1. [Books!Next]_Books!budgetVars
  BY BudgetSees, SameBudget
<1>2. Books!BudgetInv /\ Books!TotalsInv /\ Books!ShortInv /\ Books!TypeOK
  BY DEF TransitInv, Books!BudgetInv
<1>3. Books!BudgetInv'
  BY <1>1, <1>2, Books!BudgetStep, BudgetApplies
<1>4. Books!TotalsInv' /\ Books!ShortInv'
  BY <1>1, <1>2, Books!ShortStep, BudgetApplies
<1>5. made' \subseteq BudgetCalls /\ \A c \in made' : call[c].status = "granted"
  BY OwnState DEF TransitInv
<1>6. \A c \in made' : call'[c].status = "granted"
  BY <1>1, <1>2, <1>5, Books!GrantsAreFinal, BudgetApplies
<1> QED
  BY <1>3, <1>4, <1>5, <1>6, OwnState DEF TransitInv

\* Lookups, whatever they do and whenever they are cancelled, keep the books
\* right and tell the truth.
THEOREM TransitInvariant == Spec => []TransitInv
<1>1. Init => TransitInv
  <2> SUFFICES ASSUME Init PROVE TransitInv
    OBVIOUS
  <2>1. Books!Init
    BY SameBudget DEF Init
  <2>2. Books!BudgetInv
    BY <2>1, Books!InitStep, BudgetApplies
  <2>3. Books!TotalsInv /\ Books!ShortInv
    BY <2>1, Books!ShortInit, BudgetApplies
  <2> QED
    BY <2>2, <2>3 DEF Init, TransitInv, Lookup, Keys, Entry, NoEntry, Answers, AnswersAreTrue
<1>2. TransitInv /\ [Next]_vars => TransitInv'
  BY TransitStep
<1> QED
  BY <1>1, <1>2, PTL DEF Spec

-----------------------------------------------------------------------------
\* A call has one unit: the units of some calls are as many as the calls.
LEMMA OneUnitEach ==
  ASSUME NEW C \in SUBSET BudgetCalls
  PROVE  /\ Books!Cardinality(Books!Units(C)) = Cardinality(C)
         /\ IsFiniteSet(C) /\ Cardinality(C) \in Nat
<1>1. IsFiniteSet(BudgetCalls)
  BY BudgetApplies, SameCounting
<1>2. IsFiniteSet(C) /\ Cardinality(C) \in Nat
  BY <1>1, FS_Subset, FS_CardinalityType
<1>3. IsFiniteSet({1}) /\ Cardinality({1}) = 1
  BY FS_Singleton
<1>4. Cardinality(C \X {1}) = Cardinality(C) * Cardinality({1})
  BY <1>2, <1>3, FS_Product
<1>5. Books!Units(C) = C \X {1}
  <2>1. 1..1 = {1}
    OBVIOUS
  <2> QED
    BY <2>1 DEF Books!Units
<1>6. Cardinality(C) * 1 = Cardinality(C)
  BY <1>2
<1> QED
  BY <1>2, <1>3, <1>4, <1>5, <1>6, SameCounting

\* Budget and lookups are well typed for any lookups and cap.
THEOREM LookupsTypeCorrect == Spec => []TypeOK
<1>1. TransitInv => TypeOK
  BY SameBudget DEF TransitInv, TypeOK, Books!BudgetInv
<1> QED
  BY <1>1, TransitInvariant, PTL

\* Lookups implement the callers of DailyBudget.
THEOREM UsesBudgetAsDescribed == Spec => BudgetSpec
<1>1. Init => Budget!Init
  BY DEF Init
<1>2. TransitInv /\ [Next]_vars => [Budget!Next]_Budget!budgetVars
  BY BudgetSees DEF budgetVars, Budget!budgetVars
<1> QED
  BY <1>1, <1>2, TransitInvariant, PTL DEF Spec, BudgetSpec, Budget!Spec

\* No failure, refusal or timeout becomes an answer about the route.
THEOREM AnswersAreTrueAlways == Spec => []AnswersAreTrue
<1>1. TransitInv => AnswersAreTrue
  BY DEF TransitInv
<1> QED
  BY <1>1, TransitInvariant, PTL

\* What is granted on one counter, in calls.
LEMMA GrantedWithinCap ==
  ASSUME TransitInv, NEW d \in 0..LastDay, ~gone[d]
  PROVE  Cardinality(OfDay(d, {"granted"})) <= Cap
<1>1. Books!CapHolds
  BY Books!CapFollows, BudgetApplies DEF TransitInv
<1>2. Books!OfDay(d, {"granted"}) = OfDay(d, {"granted"})
  BY DEF Books!OfDay, OfDay
<1>3. Books!Cardinality(Books!Units(OfDay(d, {"granted"}))) <= Cap
  BY <1>1, <1>2 DEF Books!CapHolds, Books!Days
<1>4. OfDay(d, {"granted"}) \in SUBSET BudgetCalls
  BY DEF OfDay
<1> QED
  BY <1>3, <1>4, OneUnitEach

\* The requests to the provider on one day's counter stay within the cap, for
\* any number of lookups with their retries.
THEOREM RequestsWithinCapAlways == Spec => []RequestsWithinCap
<1>1. TransitInv => RequestsWithinCap
  <2> SUFFICES ASSUME TransitInv, NEW d \in 0..LastDay, ~gone[d]
               PROVE  Cardinality(MadeOn(d)) <= Cap
    BY DEF RequestsWithinCap
  <2>1. MadeOn(d) \in SUBSET OfDay(d, {"granted"})
    BY DEF TransitInv, MadeOn, OfDay
  <2>2. OfDay(d, {"granted"}) \in SUBSET BudgetCalls
    BY DEF OfDay
  <2>3. IsFiniteSet(OfDay(d, {"granted"})) /\ Cardinality(OfDay(d, {"granted"})) \in Nat
    BY <2>2, OneUnitEach
  <2>4. /\ Cardinality(MadeOn(d)) <= Cardinality(OfDay(d, {"granted"}))
        /\ Cardinality(MadeOn(d)) \in Nat
    BY <2>1, <2>3, FS_Subset, FS_CardinalityType
  <2> QED
    BY <2>3, <2>4, GrantedWithinCap, LookupsAssumption
<1> QED
  BY <1>1, TransitInvariant, PTL

\* A call turned away for its total was one too many: when nothing is under way
\* or lost, the cap is used up by grants, however the additions overlapped.
THEOREM RefusedOnlyWhenFullAlways == Spec => []RefusedOnlyWhenFull
<1>1. TransitInv => RefusedOnlyWhenFull
  <2> DEFINE busy == {"asking", "created", "counted", "over", "leaked"}
  <2> SUFFICES ASSUME TransitInv, NEW d \in 0..LastDay, ~gone[d],
                      OfDay(d, busy) = {},
                      NEW c \in OfDay(d, {"refused"}), ~(call[c].total <= Cap)
               PROVE  Cardinality(OfDay(d, {"granted"})) = Cap
    BY DEF RefusedOnlyWhenFull
  <2>1. Books!Short(d)
    BY DEF TransitInv, Books!ShortInv, Books!Days, OfDay
  <2>2. PICK b \in BudgetCalls :
          Books!Cardinality(Books!Units(Books!Kept(d))) + [a \in BudgetCalls |-> 1][b] > Cap
    BY <2>1 DEF Books!Short
  <2>3. Books!Kept(d) = OfDay(d, {"granted"})
    BY DEF Books!Kept, OfDay
  <2>4. OfDay(d, {"granted"}) \in SUBSET BudgetCalls
    BY DEF OfDay
  <2>5. Cardinality(OfDay(d, {"granted"})) + 1 > Cap
    BY <2>2, <2>3, <2>4, OneUnitEach
  <2>6. Cardinality(OfDay(d, {"granted"})) \in Nat /\ Cap \in Nat
    BY <2>4, OneUnitEach, LookupsAssumption
  <2> QED
    BY <2>5, <2>6, GrantedWithinCap
<1> QED
  BY <1>1, TransitInvariant, PTL
=============================================================================
