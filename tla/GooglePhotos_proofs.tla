------------------------- MODULE GooglePhotos_proofs -------------------------
(***************************************************************************)
(* For any requests, numbers of pictures and cap: requests for pictures    *)
(* use the daily budget as DailyBudget describes its callers, so what is   *)
(* proved of the budget holds of them, and the URLs asked of Google on one *)
(* counter stay within the cap.                                            *)
(***************************************************************************)
EXTENDS GooglePhotos, DailyBudget_proofs

\* The budget's invariant and the type of the requests.
PhotosInv ==
  /\ BudgetInv
  /\ photo \in [Calls -> Phases]
  /\ placeId \in PlaceIds
  /\ issued \subseteq Calls
  /\ \A c \in issued : call[c].status = "granted"

-----------------------------------------------------------------------------
\* A request that is cut off in the middle of its budget call refuses or loses
\* that call, or leaves it as it was.
LEMMA CutOff ==
  ASSUME TypeOK, NEW c \in Calls, TimeOut(c)
  PROVE  [Next]_budgetVars
<1> DEFINE s == call[c].status
<1>1. call \in [Calls -> Call] /\ call[c] \in Call /\ s \in Status
  BY DEF TypeOK, Call
<1>2. CASE photo[c] # "budget"
  BY <1>2 DEF TimeOut, budgetVars
<1>3. CASE photo[c] = "budget"
  <2>1. call' = [call EXCEPT ![c].status = Abandon(s)]
    BY <1>3 DEF TimeOut
  <2>2. UNCHANGED <<day, late, count, ttl, gone>>
    BY DEF TimeOut
  <2>3. CASE s = "asking"
    <3>1. Abandon(s) = "refused"
      BY <2>3 DEF Abandon
    <3>2. AskFails(c)
      BY <2>1, <2>2, <2>3, <3>1 DEF AskFails, SetCall
    <3> QED
      BY <3>2 DEF Next, CallStep
  <2>4. CASE s \in {"created", "counted", "over"}
    <3>1. Abandon(s) = "leaked"
      BY <2>4 DEF Abandon
    <3>2. Lose(c)
      BY <2>1, <2>2, <2>4, <3>1 DEF Lose, SetCall
    <3> QED
      BY <3>2 DEF Next, CallStep
  <2>5. CASE s \notin {"asking", "created", "counted", "over"}
    <3>1. Abandon(s) = s
      BY <2>5 DEF Abandon
    <3>2. call' = call
      BY <1>1, <2>1, <3>1 DEF Call
    <3> QED
      BY <2>2, <3>2 DEF budgetVars
  <2> QED
    BY <2>3, <2>4, <2>5
<1> QED
  BY <1>2, <1>3

\* Whatever a request does is a step of the budget or none.
LEMMA BudgetSees ==
  ASSUME TypeOK, [PhotosNext]_vars
  PROVE  [Next]_budgetVars
<1>1. ASSUME NEW c \in Calls, AskBudget(c)
      PROVE  [Next]_budgetVars
  BY <1>1 DEF AskBudget, Next
<1>2. ASSUME NEW c \in Calls,
             \/ CachedPlaceId(c) \/ SearchPlaceId(c) \/ PlaceNotFound(c)
             \/ FetchNames(c) \/ Issue(c) \/ Refused(c) \/ Gathered(c)
      PROVE  [Next]_budgetVars
  BY <1>2 DEF CachedPlaceId, SearchPlaceId, PlaceNotFound, FetchNames, Issue,
              Refused, Gathered
<1>3. ASSUME NEW c \in Calls, TimeOut(c)
      PROVE  [Next]_budgetVars
  BY <1>3, CutOff
<1>4. ASSUME NEW c \in Calls, PhotoStep(c)
      PROVE  [Next]_budgetVars
  BY <1>1, <1>2, <1>3, <1>4 DEF PhotoStep
<1>5. CASE PlaceIdExpires
  BY <1>5 DEF PlaceIdExpires
<1>6. CASE PassTime
  BY <1>6 DEF PassTime, Next
<1>7. CASE UNCHANGED vars
  BY <1>7 DEF vars
<1> QED
  BY <1>4, <1>5, <1>6, <1>7 DEF PhotosNext

\* The requests' own state keeps its type, and a URL is asked only for a grant.
LEMMA PhotosStep ==
  ASSUME PhotosInv, [PhotosNext]_vars
  PROVE  PhotosInv'
<1>1. TypeOK
  BY DEF PhotosInv, BudgetInv
<1>2. BudgetInv'
  BY <1>1, BudgetSees, BudgetStep DEF PhotosInv
<1>3. /\ photo' \in [Calls -> Phases]
      /\ placeId' \in PlaceIds
      /\ \/ issued' = issued
         \/ \E c \in Calls : call[c].status = "granted" /\ issued' = issued \cup {c}
  <2>1. ASSUME NEW c \in Calls, PhotoStep(c)
        PROVE  <1>3!1 /\ <1>3!2 /\ <1>3!3
    BY <2>1 DEF PhotosInv, PhotoStep, CachedPlaceId, SearchPlaceId, PlaceNotFound,
                FetchNames, AskBudget, Issue, MayIssue, Refused, Gathered, TimeOut,
                Enter, Phases, PlaceIds, photoVars
  <2>2. CASE PlaceIdExpires \/ PassTime \/ UNCHANGED vars
    BY <2>2 DEF PhotosInv, PlaceIdExpires, PassTime, vars, photoVars, PlaceIds
  <2> QED
    BY <2>1, <2>2 DEF PhotosNext
<1>4. issued' \subseteq Calls
  BY <1>3 DEF PhotosInv
<1>5. \A c \in issued' : call[c].status = "granted"
  BY <1>3 DEF PhotosInv
<1>6. \A c \in issued' : call'[c].status = "granted"
  BY <1>1, <1>4, <1>5, BudgetSees, GrantsAreFinal
<1> QED
  BY <1>2, <1>3, <1>4, <1>6 DEF PhotosInv

\* The requests, whatever they do and whenever they are cut off, keep the
\* budget's books right.
THEOREM PhotosInvariant == PhotosSpec => []PhotosInv
<1>1. PhotosInit => PhotosInv
  BY InitStep DEF PhotosInit, PhotosInv, Phases
<1>2. PhotosInv /\ [PhotosNext]_vars => PhotosInv'
  BY PhotosStep
<1> QED
  BY <1>1, <1>2, PTL DEF PhotosSpec

-----------------------------------------------------------------------------
\* Budget and requests are well typed for any requests, pictures and cap.
THEOREM PhotosTypeCorrect == PhotosSpec => []PhotosTypeOK
<1>1. PhotosInv => PhotosTypeOK
  BY DEF PhotosInv, PhotosTypeOK, BudgetInv
<1> QED
  BY <1>1, PhotosInvariant, PTL

\* Requests for pictures implement the callers of DailyBudget.
THEOREM UsesBudgetAsDescribed == PhotosSpec => BudgetSpec
<1>1. PhotosInit => Init
  BY DEF PhotosInit
<1>2. PhotosInv /\ [PhotosNext]_vars => [Next]_budgetVars
  BY BudgetSees DEF PhotosInv, BudgetInv
<1> QED
  BY <1>1, <1>2, PhotosInvariant, PTL DEF PhotosSpec, BudgetSpec, Spec

\* The URLs asked of Google on one counter stay within the cap, for any number
\* of requests and pictures.
THEOREM UrlsWithinCapAlways == PhotosSpec => []UrlsWithinCap
<1>1. PhotosInv => UrlsWithinCap
  <2> SUFFICES ASSUME PhotosInv, NEW d \in Days, ~gone[d]
               PROVE  Cardinality(Units({c \in issued : call[c].day = d})) <= Cap
    BY DEF UrlsWithinCap
  <2> DEFINE I == {c \in issued : call[c].day = d}
             O == OfDay(d, {"granted"})
  <2>1. I \in SUBSET O /\ O \in SUBSET Calls
    BY DEF PhotosInv, OfDay
  <2>2. Cardinality(Units(I)) <= Cardinality(Units(O))
    BY <2>1, UnitsMonotone
  <2>3. Cardinality(Units(I)) \in Nat /\ Cardinality(Units(O)) \in Nat
    BY <2>1, UnitsFinite
  <2>4. Cardinality(Units(O)) <= Cap
    BY CapFollows DEF PhotosInv, CapHolds
  <2> QED
    BY <2>2, <2>3, <2>4, BudgetAssumption
<1> QED
  BY <1>1, PhotosInvariant, PTL

\* What is proved of the daily budget holds of the photo requests that use it,
\* cut off wherever: no counter grants more than the cap, what is settled is
\* what was granted, and every counter has an expiry.
THEOREM PhotosKeepTheBudget ==
  PhotosSpec => [](CapHolds /\ CounterSettles /\ NoEternalCounter)
  BY UsesBudgetAsDescribed, CapHoldsAlways, CounterSettlesAlways,
     NoEternalCounterAlways, PTL DEF BudgetSpec
=============================================================================
