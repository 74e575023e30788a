---------------------------- MODULE TransitLookup ----------------------------
(***************************************************************************)
(* Concurrent transit lookups for one pair of places: _subway_route and    *)
(* _transit_routes with their endpoints' total time limit and their retry  *)
(* with the fallback key (routers/hub_routers.py).  The two are the same   *)
(* machine under different cache keys.                                     *)
(*                                                                         *)
(* A lookup reads the cache, asks the daily budget, calls the provider, on *)
(* a failure of the key asks the budget again and calls with the other     *)
(* key, and writes what it learnt to the cache.  The budget is DailyBudget,*)
(* one call of one unit for each key a lookup tries.  wait_for may cancel  *)
(* the lookup at any await.  Modelled is the deployment with a primary key *)
(* and Redis; without either the lookup answers at once.                   *)
(***************************************************************************)
EXTENDS Integers, FiniteSets

CONSTANTS
  Lookups,      \* requests under way for the same cache key
  HasFallback,  \* ODSAY_API_KEY_FALLBACK is set
  Cap,          \* ODSAY_DAILY_CALL_CAP
  LastDay       \* bound of the calendar

ASSUME LookupsAssumption ==
  /\ IsFiniteSet(Lookups)
  /\ Cap \in Nat
  /\ LastDay \in Nat

VARIABLES
  day, late, count, ttl, gone, call,  \* DailyBudget
  lookup,   \* lookup[l]: where the coroutine of request l is
  entry,    \* the cache entry of the key
  route,    \* what the provider knows: a route exists, or none
  made      \* history: the budget's calls for which a request went out

budgetVars == <<day, late, count, ttl, gone, call>>
lookupVars == <<lookup, entry, route, made>>
vars == <<budgetVars, lookupVars>>

Keys == {"primary", "fallback"}
BudgetCalls == Lookups \X Keys

Budget == INSTANCE DailyBudget
            WITH Calls <- BudgetCalls, Amount <- [c \in BudgetCalls |-> 1]

Answers == {"ok", "not_found"}

(***************************************************************************)
(* looking: reading the cache; budget: in _odsay_call_allowed for `key`;   *)
(* calling: request out; writing: answer known, cache to be written.  Why  *)
(* an answer came about is kept with it for the properties.                *)
(***************************************************************************)
Lookup ==
  [pc : {"looking", "budget", "calling", "writing", "done"},
   key : Keys,
   status : Answers \cup {"none", "unavailable"},
   why : {"none", "answer", "failure", "budget"}]

Entry ==
  [status : Answers \cup {"none", "unavailable"},
   why : {"none", "answer", "failure", "budget"}]

NoEntry == [status |-> "none", why |-> "none"]

TypeOK ==
  /\ Budget!TypeOK
  /\ lookup \in [Lookups -> Lookup]
  /\ entry \in Entry
  /\ route \in Answers
  /\ made \subseteq BudgetCalls
  /\ \A c \in made : call[c].status = "granted"

Init ==
  /\ Budget!Init
  /\ lookup = [l \in Lookups |->
       [pc |-> "looking", key |-> "primary", status |-> "none", why |-> "none"]]
  /\ entry = NoEntry
  /\ route \in Answers
  /\ made = {}

-----------------------------------------------------------------------------
Asked(l) == <<l, lookup[l].key>>

Enter(l, pc, key) == lookup' = [lookup EXCEPT ![l].pc = pc, ![l].key = key]

Conclude(l, pc, status, why) ==
  lookup' = [lookup EXCEPT ![l].pc = pc, ![l].status = status, ![l].why = why]

\* The cache answers, or has no entry, or Redis fails: then on to the budget.
Look(l) ==
  /\ lookup[l].pc = "looking"
  /\ \/ /\ entry # NoEntry
        /\ Conclude(l, "done", entry.status, entry.why)
     \/ Enter(l, "budget", "primary")
  /\ UNCHANGED <<budgetVars, entry, route, made>>

\* _odsay_call_allowed
AskBudget(l) ==
  /\ lookup[l].pc = "budget"
  /\ Budget!CallStep(Asked(l))
  /\ UNCHANGED lookupVars

\* Mutant of FallbackAllowed: the retry does not ask the budget.
FallbackUngated(l) ==
  lookup[l].key = "fallback" \/ call[Asked(l)].status = "granted"

FallbackAllowed(l) == call[Asked(l)].status = "granted"

\* Allowed: the request goes out.
CallProvider(l) ==
  /\ lookup[l].pc = "budget"
  /\ FallbackAllowed(l)
  /\ Enter(l, "calling", lookup[l].key)
  /\ made' = made \cup {Asked(l)}
  /\ UNCHANGED <<budgetVars, entry, route>>

\* Refused: the first call's refusal is answered and not cached, that of the
\* retry becomes the retry's result.
Refused(l) ==
  /\ lookup[l].pc = "budget"
  /\ call[Asked(l)].status \in {"refused", "leaked"}
  /\ \/ /\ lookup[l].key = "primary"
        /\ Conclude(l, "done", "unavailable", "budget")
     \/ /\ lookup[l].key = "fallback"
        /\ Conclude(l, "writing", "unavailable", "budget")
  /\ UNCHANGED <<budgetVars, entry, route, made>>

\* Mutant of Failed: a failing retry is read as an empty result.
FailedIsNotFound(l) ==
  IF lookup[l].key = "fallback" THEN Conclude(l, "writing", "not_found", "answer")
  ELSE Conclude(l, "writing", "unavailable", "failure")

Failed(l) == Conclude(l, "writing", "unavailable", "failure")

\* The provider answers, or fails for good, or rejects the primary key.  What
\* it says is taken for what it knows: the client reads a body with neither an
\* error nor a result as one without paths, and so as "no route".
Answered(l) ==
  /\ lookup[l].pc = "calling"
  /\ \/ Conclude(l, "writing", route, "answer")
     \/ Failed(l)
     \/ /\ lookup[l].key = "primary"
        /\ HasFallback
        /\ Enter(l, "budget", "fallback")
  /\ UNCHANGED <<budgetVars, entry, route, made>>

Learnt(l) == [status |-> lookup[l].status, why |-> lookup[l].why]

\* set_json, whose failure is only logged.
WriteCache(l) ==
  /\ lookup[l].pc = "writing"
  /\ Conclude(l, "done", lookup[l].status, lookup[l].why)
  /\ entry' \in {entry, Learnt(l)}
  /\ UNCHANGED <<budgetVars, route, made>>

\* What cancelling the coroutine does to the budget's call it is in.
Cancelled(s) ==
  CASE s = "asking" -> "refused"
    [] s \in {"created", "counted", "over"} -> "leaked"
    [] OTHER -> s

\* Mutant of TimeOut: cancelling gives the unit of the call back.
TimeOutTakesBack(l) ==
  /\ lookup[l].pc # "done"
  /\ Conclude(l, "done", "unavailable", "failure")
  /\ count' = IF lookup[l].pc = "calling"
              THEN [count EXCEPT ![call[Asked(l)].day] = @ - 1] ELSE count
  /\ UNCHANGED <<day, late, ttl, gone, call, entry, route, made>>

\* ODSAY_TOTAL_BUDGET_SEC is over: the request is answered, nothing is cached
\* unless Redis had taken the SET already.
TimeOut(l) ==
  /\ lookup[l].pc # "done"
  /\ Conclude(l, "done", "unavailable", "failure")
  /\ call' = IF lookup[l].pc = "budget"
             THEN [call EXCEPT ![Asked(l)].status = Cancelled(@)] ELSE call
  /\ entry' \in {entry} \cup (IF lookup[l].pc = "writing" THEN {Learnt(l)} ELSE {})
  /\ UNCHANGED <<day, late, count, ttl, gone, route, made>>

\* The entry's time to live is over.
EntryExpires ==
  /\ entry # NoEntry
  /\ entry' = NoEntry
  /\ UNCHANGED <<budgetVars, lookup, route, made>>

PassTime ==
  /\ Budget!Calendar
  /\ UNCHANGED lookupVars

LookupStep(l) ==
  \/ Look(l)
  \/ AskBudget(l)
  \/ CallProvider(l)
  \/ Refused(l)
  \/ Answered(l)
  \/ WriteCache(l)
  \/ TimeOut(l)

Next ==
  \/ \E l \in Lookups : LookupStep(l)
  \/ EntryExpires
  \/ PassTime

Spec == Init /\ [][Next]_vars

-----------------------------------------------------------------------------
\* Lookups, whatever they do and whenever they are cancelled, use the budget
\* the way DailyBudget describes its callers.
BudgetSpec == Budget!Spec

MadeOn(d) == {c \in made : call[c].day = d}

\* Requests to the provider on one day's counter stay within the cap, retries
\* with the fallback key and lookups cancelled on the way included.
RequestsWithinCap == \A d \in 0..LastDay : gone[d] \/ Cardinality(MadeOn(d)) <= Cap

\* "ok" and "not_found" are only ever told when the provider said so, now or
\* to the lookup that wrote the entry: a failure, a refusal or a timeout never
\* turns into "there is no route".
AnswersAreTrue ==
  \A l \in Lookups : lookup[l].status \in Answers => lookup[l].status = route

OfDay(d, statuses) ==
  {c \in BudgetCalls : call[c].day = d /\ call[c].status \in statuses}

\* With one unit a call, overlapping additions never shut out a call there was
\* room for: when all is settled and nothing was lost, a call turned away for
\* its total means that the cap was used up.
RefusedOnlyWhenFull ==
  \A d \in 0..LastDay :
    \/ gone[d]
    \/ OfDay(d, {"asking", "created", "counted", "over", "leaked"}) # {}
    \/ \A c \in OfDay(d, {"refused"}) : call[c].total <= Cap
    \/ Cardinality(OfDay(d, {"granted"})) = Cap

\* README: "하루 상한에 걸린 사실은 캐시하지 않는다" (that the daily cap was hit
\* is not cached): no entry outlives midnight saying "unavailable" because
\* yesterday's budget was spent.
RefusalNotCached == entry.why # "budget"
=============================================================================
