---------------------------- MODULE CachedLookups ----------------------------
(***************************************************************************)
(* The lookups that stand between the app and a provider with nothing but  *)
(* a Redis entry (routers/hub_routers.py): places, address, nearby, blog   *)
(* reviews, the line shape of a transit route (lane), the bike snapshot    *)
(* and the shared-mobility vehicles (pm), with the clients they call       *)
(* (clients/hub_clients.py).                                               *)
(*                                                                         *)
(* All are one machine: read the entry; ask the provider, in one call, in  *)
(* pages or of several companies at once; decide whether all of it came;   *)
(* remember it for a time that depends on that; answer.  They differ in    *)
(* what a failure costs and in whether it is remembered.  The behaviours   *)
(* are those of one cache key of one kind.  Modelled is the deployment     *)
(* with keys and Redis; without a client or with the stub every lookup     *)
(* answers at once and remembers nothing of a provider.                    *)
(*                                                                         *)
(* What the provider holds is a set of parts: the pages of the bike list;  *)
(* of each company of pm its first page (PM_NUMOFROWS rows, maybe none)    *)
(* and what lies behind it; or the one part that a single call brings.     *)
(* Time passes in units of the shortest lifetime, 30 s, which no lookup    *)
(* with a total limit (4 s) outlasts.                                      *)
(***************************************************************************)
EXTENDS Integers, FiniteSets

CONSTANTS
  Requests,   \* requests under way for the same cache key
  MaxPages,   \* SEOUL_BIKE_MAX_PAGES
  Companies,  \* PM_PROVIDERS
  LongUnits   \* bound: longer lifetimes are cut to this many units

ASSUME LookupAssumption ==
  /\ IsFiniteSet(Companies)
  /\ MaxPages \in Nat \ {0}
  /\ LongUnits \in Nat
  /\ LongUnits >= 4

VARIABLES
  kind,      \* which lookup
  whole,     \* the parts the provider holds for the key
  lastFull,  \* the last bike page is a full page
  thin,      \* bike pages with rows that have no usable position
  entry,     \* the cache entry
  req,       \* req[r]: where the coroutine of request r is
  calm       \* history: units since the provider last failed

lookupVars == <<kind, whole, lastFull, thin, entry, req, calm>>

Kinds == {"places", "address", "nearby", "reviews", "lane", "bike", "pm"}

\* An endpoint's wait_for.
Limited == {"lane", "bike", "pm"}

\* Lifetimes in units: of an "ok" result and of a lesser one, 0 when a lesser
\* one is not remembered.
KeepWhole == IF kind = "pm" THEN 4 ELSE LongUnits

KeepLess == CASE kind = "lane" -> 2
              [] kind \in {"bike", "pm"} -> 1
              [] OTHER -> 0

\* <<c, 1>> is the first page of company c, <<c, 2>> all that lies behind it.
Parts == CASE kind = "bike" -> 1..MaxPages + 1
           [] kind = "pm" -> Companies \X {1, 2}
           [] OTHER -> {1}

FirstPages == Companies \X {1}

\* What a lookup sets out to get.  Of the companies that is a first page each:
\* how many rows a company has in total is not looked at.
Sought == IF kind = "pm" THEN FirstPages ELSE whole

Statuses == {"none", "ok", "partial", "unavailable", "503", "500"}

Absent == [status |-> "none", got |-> {}, left |-> 0]

\* reading: the cache; locating: the place's centre (places only); asking:
\* the provider; writing: the cache; done: answered.  aged: a unit has passed
\* since the request began.
Fresh == [pc |-> "reading", page |-> 1, got |-> {}, lost |-> {},
          status |-> "none", aged |-> FALSE]

LookupsTypeOK ==
  /\ kind \in Kinds
  /\ whole \subseteq Parts
  /\ lastFull \in BOOLEAN
  /\ thin \subseteq whole
  /\ entry \in [status : Statuses, got : SUBSET whole, left : 0..LongUnits]
  /\ req \in [Requests -> [pc : {"reading", "locating", "asking", "writing", "done"},
                           page : 1..MaxPages + 1, got : SUBSET whole,
                           lost : SUBSET Companies, status : Statuses,
                           aged : BOOLEAN]]
  /\ calm \in 0..4

\* A bike list has a first page, and one longer than the page cap is like one
\* that is one page longer; any company may have more than a page of vehicles;
\* a lookup of one part may have nothing to find.
LookupsInit ==
  /\ kind \in Kinds
  /\ whole \in CASE kind = "bike" -> {1..n : n \in 1..MaxPages + 1}
                 [] kind = "pm" -> {FirstPages \cup (more \X {2}) : more \in SUBSET Companies}
                 [] OTHER -> {{}, {1}}
  /\ lastFull \in IF kind = "bike" THEN BOOLEAN ELSE {FALSE}
  /\ thin \in IF kind = "bike" THEN SUBSET whole ELSE {{}}
  /\ entry = Absent
  /\ req = [r \in Requests |-> Fresh]
  /\ calm = 4

-----------------------------------------------------------------------------
Provided == UNCHANGED <<kind, whole, lastFull, thin>>

Become(r, pc) == req' = [req EXCEPT ![r].pc = pc]

Answer(r, status, got) ==
  req' = [req EXCEPT ![r].pc = "done", ![r].status = status, ![r].got = got]

\* The result is known and is to be remembered before it is answered.
Remember(r, status, got) ==
  req' = [req EXCEPT ![r].pc = "writing", ![r].status = status, ![r].got = got]

Trouble == calm' = 0

\* get_json: an entry is the answer; without one, or when Redis fails, the
\* provider is asked.
ReadCache(r) ==
  /\ req[r].pc = "reading"
  /\ \/ /\ entry # Absent
        /\ Answer(r, entry.status, entry.got)
     \/ Become(r, IF kind = "places" THEN "locating" ELSE "asking")
  /\ Provided /\ UNCHANGED <<entry, calm>>

\* get_places after a KakaoApiError: the courses near the place are answered
\* when there are some, else 503.
PlacesWithoutKakao(r) ==
  \/ Answer(r, "partial", {})
  \/ Answer(r, "503", {})

\* geocode_address: the search goes on with a centre or without one.  A body
\* that is not JSON counts as a failure like any other.
Locate(r) ==
  /\ req[r].pc = "locating"
  /\ \/ Become(r, "asking") /\ UNCHANGED calm
     \/ PlacesWithoutKakao(r) /\ Trouble
  /\ Provided /\ UNCHANGED entry

\* search_keyword
AskPlaces(r) ==
  /\ kind = "places" /\ req[r].pc = "asking"
  /\ \/ Remember(r, "ok", whole) /\ UNCHANGED calm
     \/ PlacesWithoutKakao(r) /\ Trouble
  /\ Provided /\ UNCHANGED entry

\* search_address: a failure is answered with an empty list and not
\* remembered; a body that is not JSON is no KakaoApiError and escapes.
AskAddress(r) ==
  /\ kind = "address" /\ req[r].pc = "asking"
  /\ \/ Remember(r, "ok", whole) /\ UNCHANGED calm
     \/ Answer(r, "unavailable", {}) /\ Trouble
     \/ Answer(r, "500", {}) /\ Trouble
  /\ Provided /\ UNCHANGED entry

\* search_category: a failure is 503.
AskNearby(r) ==
  /\ kind = "nearby" /\ req[r].pc = "asking"
  /\ \/ Remember(r, "ok", whole) /\ UNCHANGED calm
     \/ Answer(r, "503", {}) /\ Trouble
     \/ Answer(r, "500", {}) /\ Trouble
  /\ Provided /\ UNCHANGED entry

\* search_blog
AskReviews(r) ==
  /\ kind = "reviews" /\ req[r].pc = "asking"
  /\ Remember(r, "ok", whole)
  /\ Provided /\ UNCHANGED <<entry, calm>>

\* Whatever goes wrong there is one NaverApiError: an empty list is answered
\* and not remembered.
ReviewsFail(r) ==
  /\ kind = "reviews" /\ req[r].pc = "asking"
  /\ Answer(r, "unavailable", {}) /\ Trouble
  /\ Provided /\ UNCHANGED entry

\* _transit_lane: the day's budget may refuse, which is not remembered; a
\* failure and an answer without shapes are, for the shorter time.
AskLane(r) ==
  /\ kind = "lane" /\ req[r].pc = "asking"
  /\ \/ Answer(r, "unavailable", {}) /\ UNCHANGED calm
     \/ /\ Remember(r, IF whole = {} THEN "unavailable" ELSE "ok", whole)
        /\ UNCHANGED calm
     \/ Remember(r, "unavailable", {}) /\ Trouble
  /\ Provided /\ UNCHANGED entry

\* Mutant of FullPage: a page is judged by the rows that could be used.
FullPageOfUsable(p) == (p + 1 \in whole \/ lastFull) /\ p \notin thin

FullPage(p) == p + 1 \in whole \/ lastFull

\* A page short of rows ends the list, a full one at the page cap too, but
\* then the list may not be whole.
BikePage(r) ==
  /\ kind = "bike" /\ req[r].pc = "asking"
  /\ LET p == req[r].page
         got == req[r].got \cup {p} IN
     /\ p \in whole
     /\ \/ ~FullPage(p) /\ Remember(r, "ok", got)
        \/ FullPage(p) /\ p = MaxPages /\ Remember(r, "partial", got)
        \/ /\ FullPage(p) /\ p < MaxPages
           /\ req' = [req EXCEPT ![r].got = got, ![r].page = p + 1]
  /\ Provided /\ UNCHANGED <<entry, calm>>

\* A page fails, as the one behind a last page that is full always does: the
\* pages that came are the snapshot, without any there is none.
BikeFails(r) ==
  /\ kind = "bike" /\ req[r].pc = "asking"
  /\ \/ req[r].got = {} /\ Answer(r, "unavailable", {})
     \/ req[r].got # {} /\ Remember(r, "partial", req[r].got)
  /\ Trouble
  /\ Provided /\ UNCHANGED entry

\* A company's reply to its share of _pm_vehicles' gather: its first page, and
\* a success too when that cuts its vehicles off.
PmReply(r, c) ==
  /\ kind = "pm" /\ req[r].pc = "asking"
  /\ c \notin req[r].lost /\ <<c, 1>> \notin req[r].got
  /\ \/ req' = [req EXCEPT ![r].got = @ \cup {<<c, 1>>}] /\ UNCHANGED calm
     \/ req' = [req EXCEPT ![r].lost = @ \cup {c}] /\ Trouble
  /\ Provided /\ UNCHANGED entry

\* All have replied.  Only companies that failed make it "partial".
PmGathered(r) ==
  /\ kind = "pm" /\ req[r].pc = "asking"
  /\ \A c \in Companies : c \in req[r].lost \/ <<c, 1>> \in req[r].got
  /\ \/ /\ Companies # {} /\ req[r].lost = Companies
        /\ Answer(r, "unavailable", {})
     \/ /\ req[r].lost = {}
        /\ Remember(r, "ok", req[r].got)
     \/ /\ req[r].lost \notin {{}, Companies}
        /\ Remember(r, "partial", req[r].got)
  /\ Provided /\ UNCHANGED <<entry, calm>>

\* Mutant of Lifetime: what is less than "ok" is kept as long.
LifetimeOfWhole(status) == KeepWhole

Lifetime(status) == IF status = "ok" THEN KeepWhole ELSE KeepLess

Learnt(r) == [status |-> req[r].status, got |-> req[r].got,
              left |-> Lifetime(req[r].status)]

\* set_json, whose failure is only logged.
WriteCache(r) ==
  /\ req[r].pc = "writing"
  /\ entry' \in {entry, Learnt(r)}
  /\ Become(r, "done")
  /\ Provided /\ UNCHANGED calm

\* The endpoint's limit: the pages or vehicles that came are dropped.  The
\* command of a set_json that was waiting for Redis may have gone through.
TimeOut(r) ==
  /\ kind \in Limited
  /\ req[r].pc \in {"reading", "asking", "writing"}
  /\ Answer(r, "unavailable", {})
  /\ entry' \in {entry} \cup (IF req[r].pc = "writing" THEN {Learnt(r)} ELSE {})
  /\ Trouble
  /\ Provided

\* The client's next request.
AskAgain(r) ==
  /\ req[r].pc = "done"
  /\ req' = [req EXCEPT ![r] = Fresh]
  /\ Provided /\ UNCHANGED <<entry, calm>>

\* A unit passes; no request outlasts a second one.
PassUnit ==
  /\ \A r \in Requests : req[r].aged => req[r].pc = "done"
  /\ req' = [r \in Requests |-> [req[r] EXCEPT !.aged = req[r].pc # "done"]]
  /\ entry' = IF entry.left <= 1 THEN Absent ELSE [entry EXCEPT !.left = @ - 1]
  /\ calm' = IF calm < 4 THEN calm + 1 ELSE calm
  /\ Provided

LookupsNext ==
  \/ \E r \in Requests :
       \/ ReadCache(r)
       \/ Locate(r)
       \/ AskPlaces(r)
       \/ AskAddress(r)
       \/ AskNearby(r)
       \/ AskReviews(r)
       \/ ReviewsFail(r)
       \/ AskLane(r)
       \/ BikePage(r)
       \/ BikeFails(r)
       \/ \E c \in Companies : PmReply(r, c)
       \/ PmGathered(r)
       \/ WriteCache(r)
       \/ TimeOut(r)
       \/ AskAgain(r)
  \/ PassUnit

LookupsSpec == LookupsInit /\ [][LookupsNext]_lookupVars

-----------------------------------------------------------------------------
\* What is remembered for the long time or answered as "ok" holds all that the
\* lookup set out to get: every page of the bike list, so that neither
\* unusable rows, nor the page cap, nor a page that failed makes a piece pass
\* for the list; the first page of every company, so that none that failed
\* is hidden; what the one call brought.  What a company has behind its first
\* page is missing from an "ok" result and nothing tells that.  (For bike and
\* pm this is the status of the snapshot; their endpoints answer a partial one
\* as "ok", too.)
OkHoldsAllSought ==
  /\ entry.status = "ok" => entry.got = Sought
  /\ \A r \in Requests : req[r].status = "ok" => req[r].got = Sought

\* Once the provider has answered for longer than the shorter lifetime, nothing
\* that a failure or a time limit left behind is still remembered: a
\* bad moment of a provider is not served to the users after it.
ForgetsTrouble ==
  calm > KeepLess =>
    \/ entry.status \in {"none", "ok"}
    \/ kind = "bike" /\ MaxPages + 1 \in whole  \* longer than the page cap
    \/ kind = "bike" /\ lastFull /\ MaxPages \in whole
    \/ kind = "lane" /\ whole = {}             \* nothing to be found
=============================================================================
