---------------------------- MODULE HubParts_proofs ----------------------------
(***************************************************************************)
(* Parts of the hub that MCHub puts side by side, each for any values of   *)
(* its constants.                                                          *)
(* CachedLookups: a result without a part the lookup set out to get is     *)
(* never "ok", and what a failure left is soon forgotten.                  *)
(* RouteLegs: a process with a data version set answers roads of that      *)
(* version only; type correctness and the property are one induction, for  *)
(* the entry a process reads was written under the version in its key.     *)
(* HubProcess: the database engine is not disposed of while a startup task *)
(* is alive, no session of one loses its engine, and one engine serves the *)
(* process until then.                                                     *)
(* WeatherNow and AirQuality: what GET /v1/weather/now compares with is of *)
(* an earlier day, and the station it tells was measured at the hour told. *)
(* KmaEdition: an edition read over pages is one edition and whole.        *)
(* TransitOptions: the choice for the button and the shapes on the legs.   *)
(* CourseSync and two processes of ShortTermPolling: their types, and that *)
(* no grid's rows go back to an earlier edition.                           *)
(* The last part composes: a hub with all its parts behaves as each one,   *)
(* so what is proved of a part holds of the hub.                           *)
(***************************************************************************)
EXTENDS MCHub, FiniteSetTheorems, SequenceTheorems, WellFoundedInduction, TLAPS

\* What the provider holds for a list of pages and for several companies.
Supply ==
  /\ kind = "bike" => \E n \in 1..MaxPages + 1 : whole = 1..n
  /\ kind = "pm" => FirstPages \subseteq whole

\* A request has no result before it asked; one that walks the pages has those
\* before the page it asks for, one that gathers has first pages only.
Walks(q) ==
  /\ q.pc = "locating" => kind = "places"
  /\ q.pc \in {"reading", "locating", "asking"} => q.status = "none"
  /\ q.pc \in {"reading", "asking"} /\ kind = "bike" =>
       /\ q.page \in 1..MaxPages
       /\ q.got = 1..q.page - 1
  /\ q.pc \in {"reading", "asking"} /\ kind = "pm" => q.got \subseteq FirstPages

\* A result that is called "ok" lacks nothing that was sought.
True(q) == q.status = "ok" => q.got = Sought

LookupInv ==
  /\ LookupsTypeOK
  /\ Supply
  /\ \A r \in Requests : Walks(req[r]) /\ True(req[r])
  /\ True(entry)

Request == [pc : {"reading", "locating", "asking", "writing", "done"},
            page : 1..MaxPages + 1, got : SUBSET whole, lost : SUBSET Companies,
            status : Statuses, aged : BOOLEAN]

\* Only r moves, to where it may be.
Moves(r) ==
  \E q \in Request : req' = [req EXCEPT ![r] = q] /\ Walks(q) /\ True(q)

-----------------------------------------------------------------------------
\* A step of one request keeps the invariant when what becomes of its record
\* and of the entry does.
LEMMA OneRequest ==
  ASSUME LookupInv, NEW r \in Requests, Moves(r), Provided, calm' \in 0..4,
         entry' \in {entry, Learnt(r)}
  PROVE  LookupInv'
<1> PICK q \in Request : req' = [req EXCEPT ![r] = q] /\ Walks(q) /\ True(q)
  BY DEF Moves
<1>1. /\ req \in [Requests -> Request]
      /\ entry \in [status : Statuses, got : SUBSET whole, left : 0..LongUnits]
      /\ kind \in Kinds /\ req[r] \in Request
  BY DEF LookupInv, LookupsTypeOK, Request
<1>2. entry' \in [status : Statuses, got : SUBSET whole, left : 0..LongUnits]
  <2>1. Lifetime(req[r].status) \in 0..LongUnits
    BY LookupAssumption DEF Lifetime, KeepWhole, KeepLess
  <2>2. Learnt(r) \in [status : Statuses, got : SUBSET whole, left : 0..LongUnits]
    BY <1>1, <2>1 DEF Learnt, Request
  <2> QED
    BY <1>1, <2>2
<1>3. True(entry')
  BY DEF LookupInv, True, Learnt
<1>4. UNCHANGED <<kind, whole, lastFull, thin>>
  BY DEF Provided
<1>5. req' \in [Requests -> Request]
  BY <1>1
<1>6. LookupsTypeOK'
  BY <1>2, <1>4, <1>5 DEF LookupInv, LookupsTypeOK, Request, Parts
<1>7. \A s \in Requests : Walks(req'[s]) /\ True(req'[s])
  BY <1>1 DEF LookupInv
<1>8. Supply'
  BY <1>4 DEF LookupInv, Supply, FirstPages
<1>9. Sought' = Sought /\ FirstPages' = FirstPages
  BY <1>4 DEF Sought, FirstPages
<1> QED
  BY <1>3, <1>4, <1>6, <1>7, <1>8, <1>9 DEF LookupInv, Walks, True

\* Steps that only read the entry, write it or turn a request away.
LEMMA PlainSteps ==
  ASSUME LookupInv, NEW r \in Requests,
         \/ ReadCache(r) \/ Locate(r) \/ ReviewsFail(r) \/ WriteCache(r)
         \/ TimeOut(r) \/ AskAgain(r)
  PROVE  LookupInv'
<1>1. /\ req \in [Requests -> Request] /\ req[r] \in Request
      /\ entry \in [status : Statuses, got : SUBSET whole, left : 0..LongUnits]
      /\ calm \in 0..4
      /\ Walks(req[r]) /\ True(req[r]) /\ True(entry)
  BY DEF LookupInv, LookupsTypeOK, Request
<1>2. ASSUME ReadCache(r) \/ Locate(r) \/ ReviewsFail(r) \/ WriteCache(r)
             \/ TimeOut(r) \/ AskAgain(r)
      PROVE  Provided /\ calm' \in 0..4 /\ entry' \in {entry, Learnt(r)}
  BY <1>1, <1>2 DEF ReadCache, Locate, ReviewsFail, WriteCache, TimeOut, AskAgain, Trouble
<1>3. ASSUME NEW pc \in {"locating", "asking"}, Become(r, pc),
             req[r].pc \in {"reading", "locating"},
             pc = "locating" => kind = "places"
      PROVE  Moves(r)
  <2> DEFINE q == [req[r] EXCEPT !.pc = pc]
  <2>1. q \in Request /\ Walks(q) /\ True(q)
    BY <1>1, <1>3 DEF Request, Walks, True
  <2> QED
    BY <2>1, <1>3 DEF Become, Moves
<1>4. ASSUME NEW status \in Statuses, NEW got \in SUBSET whole, Answer(r, status, got),
             status = "ok" => got = Sought
      PROVE  Moves(r)
  <2> DEFINE q == [req[r] EXCEPT !.pc = "done", !.status = status, !.got = got]
  <2>1. q \in Request /\ Walks(q) /\ True(q)
    BY <1>1, <1>4 DEF Request, Walks, True
  <2> QED
    BY <2>1, <1>4 DEF Answer, Moves
<1>5. CASE ReadCache(r)
  <2>1. CASE Answer(r, entry.status, entry.got)
    <3>1. /\ entry.status \in Statuses /\ entry.got \in SUBSET whole
          /\ entry.status = "ok" => entry.got = Sought
      BY <1>1 DEF True
    <3>2. Moves(r)
      BY <3>1, <2>1, <1>4
    <3> QED
      BY <3>2, <1>2, <1>5, OneRequest
  <2>2. CASE Become(r, IF kind = "places" THEN "locating" ELSE "asking")
    BY <1>3, <2>2, <1>2, <1>5, OneRequest DEF ReadCache
  <2> QED
    BY <1>5, <2>1, <2>2 DEF ReadCache
<1>6. CASE Locate(r)
  <2>1. CASE Become(r, "asking")
    BY <1>3, <2>1, <1>2, <1>6, OneRequest DEF Locate
  <2>2. CASE PlacesWithoutKakao(r)
    BY <1>4, <2>2, <1>2, <1>6, OneRequest DEF PlacesWithoutKakao, Statuses
  <2> QED
    BY <1>6, <2>1, <2>2 DEF Locate
<1>7. CASE ReviewsFail(r) \/ TimeOut(r)
  <2>1. Answer(r, "unavailable", {})
    BY <1>7 DEF ReviewsFail, TimeOut
  <2> QED
    BY <1>4, <2>1, <1>2, <1>7, OneRequest DEF Statuses
<1>8. CASE WriteCache(r)
  <2> DEFINE q == [req[r] EXCEPT !.pc = "done"]
  <2>1. q \in Request /\ Walks(q) /\ True(q)
    BY <1>1 DEF Request, Walks, True
  <2>2. Moves(r)
    BY <2>1, <1>8 DEF WriteCache, Become, Moves
  <2> QED
    BY <2>2, <1>2, <1>8, OneRequest
<1>9. CASE AskAgain(r)
  <2>1. Fresh \in Request /\ Walks(Fresh) /\ True(Fresh)
    BY LookupAssumption DEF Fresh, Request, Walks, True, Statuses
  <2>2. Moves(r)
    BY <2>1, <1>9 DEF AskAgain, Moves
  <2> QED
    BY <2>2, <1>2, <1>9, OneRequest
<1> QED
  BY <1>5, <1>6, <1>7, <1>8, <1>9

\* A provider's answer in one piece.
LEMMA AskSteps ==
  ASSUME LookupInv, NEW r \in Requests,
         AskPlaces(r) \/ AskAddress(r) \/ AskNearby(r) \/ AskReviews(r) \/ AskLane(r)
  PROVE  LookupInv'
<1>1. req \in [Requests -> Request] /\ req[r] \in Request /\ calm \in 0..4
  BY DEF LookupInv, LookupsTypeOK, Request
<1>2. Provided /\ UNCHANGED entry /\ calm' \in 0..4
  BY <1>1 DEF AskPlaces, AskAddress, AskNearby, AskReviews, AskLane, Trouble
<1>3. \/ \E s \in {"ok", "unavailable"}, got \in SUBSET whole :
           Remember(r, s, got) /\ (s = "ok" => got = Sought)
      \/ \E s \in {"partial", "unavailable", "503", "500"} : Answer(r, s, {})
  <2>1. kind # "pm"
    BY DEF AskPlaces, AskAddress, AskNearby, AskReviews, AskLane
  <2>2. Sought = whole
    BY <2>1 DEF Sought
  <2> QED
    BY <2>2 DEF AskPlaces, AskAddress, AskNearby, AskReviews, AskLane, PlacesWithoutKakao
<1>4. CASE \E s \in {"ok", "unavailable"}, got \in SUBSET whole :
             Remember(r, s, got) /\ (s = "ok" => got = Sought)
  <2>1. PICK s \in {"ok", "unavailable"}, got \in SUBSET whole :
               Remember(r, s, got) /\ (s = "ok" => got = Sought)
    BY <1>4
  <2> DEFINE q == [req[r] EXCEPT !.pc = "writing", !.status = s, !.got = got]
  <2>2. q \in Request /\ Walks(q) /\ True(q)
    BY <1>1, <2>1 DEF Request, Statuses, Walks, True
  <2>3. Moves(r)
    BY <2>1, <2>2 DEF Remember, Moves
  <2> QED
    BY <1>2, <2>3, OneRequest
<1>5. CASE \E s \in {"partial", "unavailable", "503", "500"} : Answer(r, s, {})
  <2>1. PICK s \in {"partial", "unavailable", "503", "500"} : Answer(r, s, {})
    BY <1>5
  <2> DEFINE q == [req[r] EXCEPT !.pc = "done", !.status = s, !.got = {}]
  <2>2. q \in Request /\ Walks(q) /\ True(q)
    BY <1>1 DEF Request, Statuses, Walks, True
  <2>3. Moves(r)
    BY <2>1, <2>2 DEF Answer, Moves
  <2> QED
    BY <1>2, <2>3, OneRequest
<1> QED
  BY <1>3, <1>4, <1>5

\* A page of the bike list: what came before it are the pages below it.
LEMMA BikeSteps ==
  ASSUME LookupInv, NEW r \in Requests, BikePage(r) \/ BikeFails(r)
  PROVE  LookupInv'
<1> DEFINE p == req[r].page
<1>1. /\ req \in [Requests -> Request] /\ req[r] \in Request /\ calm \in 0..4
      /\ Walks(req[r]) /\ Supply /\ MaxPages \in Nat
  BY LookupAssumption DEF LookupInv, LookupsTypeOK, Request
<1>2. Provided /\ UNCHANGED entry /\ calm' \in 0..4 /\ kind = "bike" /\ req[r].pc = "asking"
  BY <1>1 DEF BikePage, BikeFails, Trouble
<1>3. p \in 1..MaxPages /\ req[r].got = 1..p - 1 /\ req[r].status = "none"
  BY <1>1, <1>2 DEF Walks
<1>4. CASE BikePage(r)
  <2> DEFINE got == req[r].got \cup {p}
  <2>1. p \in whole /\ got \in SUBSET whole
    BY <1>1, <1>4 DEF BikePage, Request
  <2>2. got = 1..p
    BY <1>1, <1>3
  <2>3. CASE FullPage(p) /\ p < MaxPages
             /\ req' = [req EXCEPT ![r].got = got, ![r].page = p + 1]
    <3> DEFINE q == [req[r] EXCEPT !.got = got, !.page = p + 1]
    <3>1. p + 1 \in 1..MaxPages /\ p + 1 \in 1..MaxPages + 1 /\ (p + 1) - 1 = p
      BY <1>1, <1>3, <2>3
    <3>2. q \in Request
      BY <1>1, <2>1, <3>1 DEF Request
    <3>3. Walks(q) /\ True(q)
      BY <1>1, <1>2, <1>3, <2>2, <3>1 DEF Walks, True, Request
    <3>4. Moves(r)
      BY <3>2, <3>3, <2>3 DEF Moves
    <3> QED
      BY <3>4, <1>2, OneRequest
  <2>4. CASE \E s \in {"ok", "partial"} : Remember(r, s, got) /\ (s = "ok" => ~FullPage(p))
    <3>1. PICK s \in {"ok", "partial"} : Remember(r, s, got) /\ (s = "ok" => ~FullPage(p))
      BY <2>4
    <3>2. s = "ok" => got = Sought
      <4>1. PICK n \in 1..MaxPages + 1 : whole = 1..n
        BY <1>1, <1>2 DEF Supply
      <4>2. s = "ok" => p + 1 \notin 1..n
        BY <3>1, <4>1 DEF FullPage
      <4>3. Sought = whole
        BY <1>2 DEF Sought
      <4> QED
        BY <1>1, <1>3, <2>1, <2>2, <4>1, <4>2, <4>3
    <3> DEFINE q == [req[r] EXCEPT !.pc = "writing", !.status = s, !.got = got]
    <3>3. q \in Request /\ Walks(q) /\ True(q)
      BY <1>1, <2>1, <3>2 DEF Request, Walks, True, Statuses
    <3>4. Moves(r)
      BY <3>1, <3>3 DEF Remember, Moves
    <3> QED
      BY <3>4, <1>2, OneRequest
  <2> QED
    BY <1>4, <2>3, <2>4 DEF BikePage
<1>5. CASE BikeFails(r)
  <2>1. PICK pc \in {"done", "writing"}, s \in {"unavailable", "partial"},
             got \in SUBSET whole :
          req' = [req EXCEPT ![r].pc = pc, ![r].status = s, ![r].got = got]
    BY <1>1, <1>5 DEF BikeFails, Answer, Remember, Request
  <2> DEFINE q == [req[r] EXCEPT !.pc = pc, !.status = s, !.got = got]
  <2>2. q \in Request /\ Walks(q) /\ True(q)
    BY <1>1 DEF Request, Walks, True, Statuses
  <2>3. Moves(r)
    BY <2>1, <2>2 DEF Moves
  <2> QED
    BY <2>3, <1>2, OneRequest
<1> QED
  BY <1>4, <1>5

\* The companies: all that were asked have answered and none failed.
LEMMA PmSteps ==
  ASSUME LookupInv, NEW r \in Requests,
         PmGathered(r) \/ \E c \in Companies : PmReply(r, c)
  PROVE  LookupInv'
<1>1. /\ req \in [Requests -> Request] /\ req[r] \in Request /\ calm \in 0..4
      /\ Walks(req[r]) /\ Supply
  BY DEF LookupInv, LookupsTypeOK, Request
<1>2. /\ Provided /\ UNCHANGED entry /\ calm' \in 0..4
      /\ kind = "pm" /\ FirstPages \subseteq whole /\ req[r].pc = "asking"
      /\ req[r].status = "none" /\ req[r].got \subseteq FirstPages
  <2>1. /\ Provided /\ UNCHANGED entry /\ calm' \in 0..4
        /\ kind = "pm" /\ req[r].pc = "asking"
    <3>1. CASE PmGathered(r)
      BY <1>1, <3>1 DEF PmGathered
    <3>2. CASE \E c \in Companies : PmReply(r, c)
      BY <1>1, <3>2 DEF PmReply, Trouble
    <3> QED
      BY <3>1, <3>2
  <2>2. FirstPages \subseteq whole
    BY <1>1, <2>1 DEF Supply
  <2>3. req[r].status = "none" /\ req[r].got \subseteq FirstPages
    BY <1>1, <2>1 DEF Walks
  <2> QED
    BY <2>1, <2>2, <2>3
<1>3. CASE \E c \in Companies : PmReply(r, c)
  <2>1. PICK c \in Companies : PmReply(r, c)
    BY <1>3
  <2>2. CASE req' = [req EXCEPT ![r].got = @ \cup {<<c, 1>>}]
    <3> DEFINE q == [req[r] EXCEPT !.got = @ \cup {<<c, 1>>}]
    <3>1. <<c, 1>> \in FirstPages
      BY DEF FirstPages
    <3>2. q \in Request /\ Walks(q) /\ True(q)
      BY <1>1, <1>2, <3>1 DEF Request, Walks, True
    <3>3. Moves(r)
      BY <2>2, <3>2 DEF Moves
    <3> QED
      BY <3>3, <1>2, OneRequest
  <2>3. CASE req' = [req EXCEPT ![r].lost = @ \cup {c}]
    <3> DEFINE q == [req[r] EXCEPT !.lost = @ \cup {c}]
    <3>1. q \in Request /\ Walks(q) /\ True(q)
      BY <1>1, <1>2 DEF Request, Walks, True
    <3>2. Moves(r)
      BY <2>3, <3>1 DEF Moves
    <3> QED
      BY <3>2, <1>2, OneRequest
  <2> QED
    BY <2>1, <2>2, <2>3 DEF PmReply
<1>4. CASE PmGathered(r)
  <2>0. req[r].lost = {} => req[r].got = Sought
    BY <1>2, <1>4 DEF PmGathered, FirstPages, Sought
  <2>1. PICK pc \in {"done", "writing"}, s \in {"unavailable", "partial", "ok"},
             got \in SUBSET whole :
          /\ req' = [req EXCEPT ![r].pc = pc, ![r].status = s, ![r].got = got]
          /\ s = "ok" => got = Sought
    BY <1>1, <1>2, <1>4, <2>0 DEF PmGathered, Answer, Remember, Request
  <2> DEFINE q == [req[r] EXCEPT !.pc = pc, !.status = s, !.got = got]
  <2>2. q \in Request /\ Walks(q) /\ True(q)
    BY <1>1, <2>1 DEF Request, Walks, True, Statuses
  <2>3. Moves(r)
    BY <2>1, <2>2 DEF Moves
  <2> QED
    BY <2>3, <1>2, OneRequest
<1> QED
  BY <1>3, <1>4

\* Time: an entry that is over leaves nothing behind.
LEMMA UnitStep ==
  ASSUME LookupInv, PassUnit
  PROVE  LookupInv'
<1>1. /\ req \in [Requests -> Request] /\ calm \in 0..4
      /\ entry \in [status : Statuses, got : SUBSET whole, left : 0..LongUnits]
  BY DEF LookupInv, LookupsTypeOK, Request
<1>2. UNCHANGED <<kind, whole, lastFull, thin>>
  BY DEF PassUnit, Provided
<1>3. /\ entry' \in [status : Statuses, got : SUBSET whole, left : 0..LongUnits]
      /\ True(entry')
  BY <1>1, LookupAssumption DEF PassUnit, Absent, Statuses, LookupInv, True
<1>4. calm' \in 0..4
  BY <1>1 DEF PassUnit
<1>5. req' \in [Requests -> Request]
  BY <1>1 DEF PassUnit, Request
<1>6. \A r \in Requests : Walks(req'[r]) /\ True(req'[r])
  BY <1>1 DEF PassUnit, LookupInv, Walks, True, Request
<1>7. LookupsTypeOK'
  BY <1>2, <1>3, <1>4, <1>5 DEF LookupInv, LookupsTypeOK, Request, Parts
<1>8. Supply' /\ Sought' = Sought /\ FirstPages' = FirstPages
  BY <1>2 DEF LookupInv, Supply, Sought, FirstPages
<1> QED
  BY <1>2, <1>3, <1>6, <1>7, <1>8 DEF LookupInv, Walks, True

LEMMA LookupsBegin == LookupsInit => LookupInv
<1> SUFFICES ASSUME LookupsInit PROVE LookupInv
  OBVIOUS
<1>1. whole \subseteq Parts /\ thin \subseteq whole /\ kind \in Kinds /\ lastFull \in BOOLEAN
  <2>1. CASE kind = "bike"
    BY <2>1, LookupAssumption DEF LookupsInit, Parts, Kinds
  <2>2. CASE kind = "pm"
    <3>1. PICK more \in SUBSET Companies : whole = FirstPages \cup (more \X {2})
      BY <2>2 DEF LookupsInit
    <3>2. whole \subseteq Companies \X {1, 2}
      BY <3>1 DEF FirstPages
    <3> QED
      BY <2>2, <3>2 DEF LookupsInit, Parts, Kinds
  <2>3. CASE kind \notin {"bike", "pm"}
    BY <2>3 DEF LookupsInit, Parts, Kinds
  <2> QED
    BY <2>1, <2>2, <2>3
<1>2. LookupsTypeOK
  BY <1>1, LookupAssumption DEF LookupsInit, LookupsTypeOK, Absent, Fresh, Statuses
<1>3. Supply
  BY LookupAssumption DEF LookupsInit, Supply
<1>4. \A r \in Requests : Walks(req[r]) /\ True(req[r])
  <2>1. 1 \in 1..MaxPages /\ 1..1 - 1 = {}
    BY LookupAssumption
  <2> QED
    BY <2>1 DEF LookupsInit, Fresh, Walks, True
<1> QED
  BY <1>2, <1>3, <1>4 DEF LookupInv, LookupsInit, Absent, True

-----------------------------------------------------------------------------
\* What requests and entry know of the provider's parts, over all its steps.
THEOREM LookupInvariant == LookupsSpec => []LookupInv
<1>1. LookupInv /\ [LookupsNext]_lookupVars => LookupInv'
  <2> SUFFICES ASSUME LookupInv, [LookupsNext]_lookupVars PROVE LookupInv'
    OBVIOUS
  <2>1. CASE UNCHANGED lookupVars
    <3>1. Sought' = Sought /\ FirstPages' = FirstPages /\ Parts' = Parts
      BY <2>1 DEF lookupVars, Sought, FirstPages, Parts
    <3> QED
      BY <2>1, <3>1 DEF lookupVars, LookupInv, LookupsTypeOK, Supply, Walks, True
  <2> QED
    BY <2>1, PlainSteps, AskSteps, BikeSteps, PmSteps, UnitStep DEF LookupsNext
<1> QED
  BY <1>1, LookupsBegin, PTL DEF LookupsSpec

\* Lookups and their entry are well typed, for any requests and parts.
THEOREM LookupsTypeCorrect == LookupsSpec => []LookupsTypeOK
<1>1. LookupInv => LookupsTypeOK
  BY DEF LookupInv
<1> QED
  BY <1>1, LookupInvariant, PTL

\* No page cap, failing page or unusable row makes a piece of the bike list
\* pass for it, and no company that failed is hidden by an "ok", however many
\* pages, companies and requests there are.
THEOREM OkHoldsAllSoughtAlways == LookupsSpec => []OkHoldsAllSought
<1>1. LookupInv => OkHoldsAllSought
  BY DEF LookupInv, OkHoldsAllSought, True
<1> QED
  BY <1>1, LookupInvariant, PTL

(***************************************************************************)
(* ForgetsTrouble.  Between the moment a provider fails and the write of   *)
(* what that left lies at most one unit, within the life of one request;   *)
(* from then on the entry's time and the calm since add up to the same.    *)
(***************************************************************************)

\* Lesser results that no trouble of the provider is behind.
Excepted ==
  \/ kind = "bike" /\ MaxPages + 1 \in whole
  \/ kind = "bike" /\ lastFull /\ MaxPages \in whole
  \/ kind = "lane" /\ whole = {}

\* q, at k units since the last trouble: its own is no older than itself.
RecentAt(q, k) ==
  /\ q.pc \in {"reading", "locating"} => q.lost = {}
  /\ q.pc = "writing" /\ q.status # "ok" => kind \in Limited
  /\ \/ q.pc = "asking" /\ q.lost # {}
     \/ q.pc = "writing" /\ q.status # "ok"
     => k = 0 \/ (k = 1 /\ q.aged)

EntrySoonOver ==
  entry.status \notin {"none", "ok"} =>
    entry.left >= 1 /\ entry.left + calm <= KeepLess + 1

TroubleIsRecent == EntrySoonOver /\ \A r \in Requests : RecentAt(req[r], calm)

TroubleInv == LookupInv /\ (Excepted \/ TroubleIsRecent)

\* Only r moves, and any trouble behind its new place is recent.
MovesRecently(r) ==
  \E q \in Request : req' = [req EXCEPT ![r] = q] /\ RecentAt(q, calm')

\* What a step writes to the entry is the result r was about to write.
WritesOwn(r) ==
  \/ entry' = entry
  \/ req[r].pc = "writing" /\ entry' = Learnt(r)

LEMMA OneRecentRequest ==
  ASSUME LookupInv, TroubleIsRecent, NEW r \in Requests, MovesRecently(r), Provided,
         calm' \in {0, calm}, WritesOwn(r)
  PROVE  TroubleIsRecent'
<1> PICK q \in Request : req' = [req EXCEPT ![r] = q] /\ RecentAt(q, calm')
  BY DEF MovesRecently
<1>1. /\ req \in [Requests -> Request] /\ req[r] \in Request /\ calm \in 0..4
      /\ entry \in [status : Statuses, got : SUBSET whole, left : 0..LongUnits]
      /\ kind \in Kinds /\ RecentAt(req[r], calm)
  BY DEF LookupInv, LookupsTypeOK, Request, TroubleIsRecent
<1>2. UNCHANGED kind /\ KeepLess \in 0..2 /\ UNCHANGED KeepLess
  BY <1>1 DEF Provided, KeepLess
<1>3. \A s \in Requests : RecentAt(req'[s], calm')
  <2>1. \A s \in Requests \ {r} : req'[s] = req[s] /\ RecentAt(req[s], calm)
    BY <1>1 DEF TroubleIsRecent
  <2>2. \A s \in Requests \ {r} : RecentAt(req'[s], calm')
    BY <2>1 DEF RecentAt
  <2> QED
    BY <1>1, <2>2
<1>4. EntrySoonOver'
  <2>1. CASE entry' = entry
    BY <1>1, <1>2, <2>1 DEF TroubleIsRecent, EntrySoonOver
  <2>2. CASE entry' = Learnt(r) /\ req[r].pc = "writing"
    <3>1. CASE req[r].status = "ok"
      BY <2>2, <3>1 DEF EntrySoonOver, Learnt
    <3>2. CASE req[r].status # "ok"
      <4>1. calm' <= 1 /\ calm' \in 0..4 /\ kind \in Limited
        BY <1>1, <2>2, <3>2 DEF RecentAt
      <4>2. entry'.left = KeepLess /\ KeepLess >= 1
        BY <2>2, <3>2, <4>1 DEF Learnt, Lifetime, KeepLess, Limited
      <4>3. KeepLess' = KeepLess /\ KeepLess \in 0..2
        BY <1>2
      <4>4. entry'.left + calm' <= KeepLess + 1 /\ entry'.left >= 1
        <5>1. CASE calm' = 0
          BY <4>2, <4>3, <5>1
        <5>2. CASE calm' = 1
          BY <4>2, <4>3, <5>2
        <5> QED
          BY <4>1, <5>1, <5>2
      <4> QED
        BY <4>3, <4>4 DEF EntrySoonOver
    <3> QED
      BY <3>1, <3>2
  <2> QED
    BY <2>1, <2>2 DEF WritesOwn
<1> QED
  BY <1>2, <1>3, <1>4 DEF TroubleIsRecent, RecentAt

\* Where a request goes with its answer there is nothing left to be recent.
LEMMA AnsweredIsRecent ==
  ASSUME NEW r \in Requests, NEW status \in Statuses, NEW got \in SUBSET whole,
         req \in [Requests -> Request], Answer(r, status, got)
  PROVE  MovesRecently(r)
<1> DEFINE q == [req[r] EXCEPT !.pc = "done", !.status = status, !.got = got]
<1>1. q \in Request /\ RecentAt(q, calm')
  BY DEF Request, RecentAt
<1> QED
  BY <1>1 DEF Answer, MovesRecently

\* A result to be remembered is whole, or its trouble is recent.
LEMMA RememberedIsRecent ==
  ASSUME NEW r \in Requests, NEW status \in Statuses, NEW got \in SUBSET whole,
         req \in [Requests -> Request], Remember(r, status, got),
         status # "ok" => /\ kind \in Limited
                          /\ calm' = 0 \/ (calm' = 1 /\ req[r].aged)
  PROVE  MovesRecently(r)
<1> DEFINE q == [req[r] EXCEPT !.pc = "writing", !.status = status, !.got = got]
<1>1. q \in Request /\ RecentAt(q, calm')
  BY DEF Request, RecentAt
<1> QED
  BY <1>1 DEF Remember, MovesRecently

\* Steps before and after the provider is asked.
LEMMA PlainStepsForget ==
  ASSUME LookupInv, TroubleIsRecent, NEW r \in Requests,
         \/ ReadCache(r) \/ Locate(r) \/ ReviewsFail(r) \/ WriteCache(r)
         \/ TimeOut(r) \/ AskAgain(r)
  PROVE  TroubleIsRecent'
<1>1. /\ req \in [Requests -> Request] /\ req[r] \in Request
      /\ entry \in [status : Statuses, got : SUBSET whole, left : 0..LongUnits]
      /\ RecentAt(req[r], calm)
  BY DEF LookupInv, LookupsTypeOK, Request, TroubleIsRecent
<1>2. Provided /\ calm' \in {0, calm} /\ WritesOwn(r)
  <2>1. CASE ReadCache(r) \/ Locate(r) \/ ReviewsFail(r) \/ AskAgain(r)
    BY <2>1 DEF ReadCache, Locate, ReviewsFail, AskAgain, Trouble, WritesOwn
  <2>2. CASE WriteCache(r)
    BY <2>2 DEF WriteCache, WritesOwn
  <2>3. CASE TimeOut(r)
    <3>1. calm' = 0 /\ Provided
      BY <2>3 DEF TimeOut, Trouble
    <3>2. entry' = entry \/ (req[r].pc = "writing" /\ entry' = Learnt(r))
      BY <2>3 DEF TimeOut
    <3> QED
      BY <3>1, <3>2 DEF WritesOwn
  <2> QED
    BY <2>1, <2>2, <2>3
<1>3. ASSUME NEW pc \in {"locating", "asking"}, Become(r, pc),
             req[r].pc \in {"reading", "locating"}
      PROVE  MovesRecently(r)
  <2> DEFINE q == [req[r] EXCEPT !.pc = pc]
  <2>1. q \in Request /\ RecentAt(q, calm')
    BY <1>1, <1>3 DEF Request, RecentAt
  <2> QED
    BY <2>1, <1>3 DEF Become, MovesRecently
<1>4. CASE ReadCache(r)
  <2>1. \/ Answer(r, entry.status, entry.got)
        \/ \E pc \in {"locating", "asking"} : Become(r, pc)
    BY <1>4 DEF ReadCache
  <2>2. entry.status \in Statuses /\ entry.got \in SUBSET whole /\ req[r].pc = "reading"
    BY <1>1, <1>4 DEF ReadCache
  <2> QED
    BY <1>1, <1>2, <1>3, <2>1, <2>2, AnsweredIsRecent, OneRecentRequest
<1>5. CASE Locate(r)
  <2>1. \/ \E s \in {"partial", "503"} : Answer(r, s, {})
        \/ Become(r, "asking") /\ req[r].pc = "locating"
    BY <1>5 DEF Locate, PlacesWithoutKakao
  <2> QED
    BY <1>1, <1>2, <1>3, <2>1, AnsweredIsRecent, OneRecentRequest DEF Statuses
<1>6. CASE ReviewsFail(r) \/ TimeOut(r)
  <2>1. Answer(r, "unavailable", {})
    BY <1>6 DEF ReviewsFail, TimeOut
  <2> QED
    BY <1>1, <1>2, <2>1, AnsweredIsRecent, OneRecentRequest DEF Statuses
<1>7. CASE WriteCache(r)
  <2> DEFINE q == [req[r] EXCEPT !.pc = "done"]
  <2>1. q \in Request /\ RecentAt(q, calm')
    BY <1>1 DEF Request, RecentAt
  <2>2. MovesRecently(r)
    BY <2>1, <1>7 DEF WriteCache, Become, MovesRecently
  <2> QED
    BY <2>2, <1>2, OneRecentRequest
<1>8. CASE AskAgain(r)
  <2>1. Fresh \in Request /\ RecentAt(Fresh, calm')
    BY LookupAssumption DEF Fresh, Request, RecentAt, Statuses
  <2>2. MovesRecently(r)
    BY <2>1, <1>8 DEF AskAgain, MovesRecently
  <2> QED
    BY <2>2, <1>2, OneRecentRequest
<1> QED
  BY <1>4, <1>5, <1>6, <1>7, <1>8

\* A provider's answer in one piece: what is less than whole is its trouble's.
LEMMA AskStepsForget ==
  ASSUME LookupInv, TroubleIsRecent, ~Excepted, NEW r \in Requests,
         AskPlaces(r) \/ AskAddress(r) \/ AskNearby(r) \/ AskReviews(r) \/ AskLane(r)
  PROVE  TroubleIsRecent'
<1>1. req \in [Requests -> Request]
  BY DEF LookupInv, LookupsTypeOK, Request
<1>2. Provided /\ calm' \in {0, calm} /\ WritesOwn(r)
  BY DEF AskPlaces, AskAddress, AskNearby, AskReviews, AskLane, Trouble, WritesOwn
<1>3. \/ Remember(r, "ok", whole)
      \/ Remember(r, "unavailable", {}) /\ calm' = 0 /\ kind \in Limited
      \/ \E s \in {"partial", "unavailable", "503", "500"} : Answer(r, s, {})
  <2>1. CASE AskLane(r)
    BY <2>1 DEF AskLane, Excepted, Trouble, Limited
  <2>2. CASE ~AskLane(r)
    BY <2>2 DEF AskPlaces, AskAddress, AskNearby, AskReviews, PlacesWithoutKakao
  <2> QED
    BY <2>1, <2>2
<1>4. MovesRecently(r)
  <2>1. CASE Remember(r, "ok", whole)
    BY <1>1, <2>1, RememberedIsRecent DEF Statuses
  <2>2. CASE Remember(r, "unavailable", {}) /\ calm' = 0 /\ kind \in Limited
    BY <1>1, <2>2, RememberedIsRecent DEF Statuses
  <2>3. CASE \E s \in {"partial", "unavailable", "503", "500"} : Answer(r, s, {})
    BY <1>1, <2>3, AnsweredIsRecent DEF Statuses
  <2> QED
    BY <1>3, <2>1, <2>2, <2>3
<1> QED
  BY <1>2, <1>4, OneRecentRequest

\* Pages of a bike list no longer than the cap: only a failure cuts it short.
LEMMA BikeStepsForget ==
  ASSUME LookupInv, TroubleIsRecent, ~Excepted, NEW r \in Requests,
         BikePage(r) \/ BikeFails(r)
  PROVE  TroubleIsRecent'
<1> DEFINE p == req[r].page
<1>1. /\ req \in [Requests -> Request] /\ req[r] \in Request
      /\ Walks(req[r]) /\ RecentAt(req[r], calm) /\ MaxPages \in Nat
  BY LookupAssumption DEF LookupInv, LookupsTypeOK, Request, TroubleIsRecent
<1>2. /\ Provided /\ calm' \in {0, calm} /\ WritesOwn(r)
      /\ kind = "bike" /\ req[r].pc = "asking"
  BY DEF BikePage, BikeFails, Trouble, WritesOwn
<1>3. MovesRecently(r)
  <2>1. CASE BikePage(r)
    <3> DEFINE got == req[r].got \cup {p}
    <3>1. p \in whole /\ got \in SUBSET whole /\ calm' = calm
      BY <1>1, <2>1 DEF BikePage, Request
    <3>2. ~(FullPage(p) /\ p = MaxPages)
      BY <1>2, <3>1 DEF FullPage, Excepted
    <3>3. CASE Remember(r, "ok", got)
      BY <1>1, <3>1, <3>3, RememberedIsRecent DEF Statuses
    <3>4. CASE p < MaxPages /\ req' = [req EXCEPT ![r].got = got, ![r].page = p + 1]
      <4> DEFINE q == [req[r] EXCEPT !.got = got, !.page = p + 1]
      <4>1. p \in 1..MaxPages /\ p + 1 \in 1..MaxPages + 1
        BY <1>1, <1>2 DEF Walks
      <4>2. q \in Request
        BY <1>1, <3>1, <4>1 DEF Request
      <4>3. RecentAt(q, calm')
        BY <1>1, <1>2, <3>1 DEF RecentAt, Request
      <4> QED
        BY <3>4, <4>2, <4>3 DEF MovesRecently
    <3> QED
      BY <2>1, <3>2, <3>3, <3>4 DEF BikePage
  <2>2. CASE BikeFails(r)
    <3>1. calm' = 0 /\ kind \in Limited /\ req[r].got \in SUBSET whole
      BY <1>1, <1>2, <2>2 DEF BikeFails, Trouble, Limited, Request
    <3>2. Answer(r, "unavailable", {}) \/ Remember(r, "partial", req[r].got)
      BY <2>2 DEF BikeFails
    <3> QED
      BY <1>1, <3>1, <3>2, AnsweredIsRecent, RememberedIsRecent DEF Statuses
  <2> QED
    BY <2>1, <2>2
<1> QED
  BY <1>2, <1>3, OneRecentRequest

\* A company that failed did so while the others were still awaited.
LEMMA PmStepsForget ==
  ASSUME LookupInv, TroubleIsRecent, NEW r \in Requests,
         PmGathered(r) \/ \E c \in Companies : PmReply(r, c)
  PROVE  TroubleIsRecent'
<1>1. /\ req \in [Requests -> Request] /\ req[r] \in Request
      /\ Supply /\ RecentAt(req[r], calm)
  BY DEF LookupInv, LookupsTypeOK, Request, TroubleIsRecent
<1>2. /\ Provided /\ calm' \in {0, calm} /\ WritesOwn(r)
      /\ kind = "pm" /\ FirstPages \subseteq whole /\ req[r].pc = "asking"
      /\ kind \in Limited
  BY <1>1 DEF PmGathered, PmReply, Trouble, WritesOwn, Supply, Limited
<1>3. CASE \E c \in Companies : PmReply(r, c)
  <2>1. PICK c \in Companies : PmReply(r, c)
    BY <1>3
  <2>2. CASE req' = [req EXCEPT ![r].got = @ \cup {<<c, 1>>}] /\ UNCHANGED calm
    <3> DEFINE q == [req[r] EXCEPT !.got = @ \cup {<<c, 1>>}]
    <3>1. q \in Request /\ RecentAt(q, calm')
      BY <1>1, <1>2, <2>2 DEF Request, RecentAt, FirstPages
    <3>2. MovesRecently(r)
      BY <2>2, <3>1 DEF MovesRecently
    <3> QED
      BY <3>2, <1>2, OneRecentRequest
  <2>3. CASE req' = [req EXCEPT ![r].lost = @ \cup {c}] /\ Trouble
    <3> DEFINE q == [req[r] EXCEPT !.lost = @ \cup {c}]
    <3>1. q \in Request /\ RecentAt(q, calm')
      BY <1>1, <1>2, <2>3 DEF Request, RecentAt, Trouble
    <3>2. MovesRecently(r)
      BY <2>3, <3>1 DEF MovesRecently
    <3> QED
      BY <3>2, <1>2, OneRecentRequest
  <2> QED
    BY <2>1, <2>2, <2>3 DEF PmReply
<1>4. CASE PmGathered(r)
  <2>1. req[r].got \in SUBSET whole /\ calm' = calm
    BY <1>1, <1>4 DEF PmGathered, Request
  <2>2. \/ Answer(r, "unavailable", {})
        \/ Remember(r, "ok", req[r].got)
        \/ req[r].lost # {} /\ Remember(r, "partial", req[r].got)
    BY <1>4 DEF PmGathered
  <2>3. req[r].lost # {} => calm' = 0 \/ (calm' = 1 /\ req[r].aged)
    BY <1>1, <1>2, <2>1 DEF RecentAt
  <2>4. MovesRecently(r)
    BY <1>1, <1>2, <2>1, <2>2, <2>3, AnsweredIsRecent, RememberedIsRecent DEF Statuses
  <2> QED
    BY <2>4, <1>2, OneRecentRequest
<1> QED
  BY <1>3, <1>4

\* A unit: the entry's time falls as the calm grows, and a request whose trouble
\* is a unit old is over.
LEMMA UnitStepForgets ==
  ASSUME LookupInv, TroubleIsRecent, PassUnit
  PROVE  TroubleIsRecent'
<1>1. /\ req \in [Requests -> Request] /\ calm \in 0..4 /\ kind \in Kinds
      /\ entry \in [status : Statuses, got : SUBSET whole, left : 0..LongUnits]
      /\ UNCHANGED kind
  BY DEF LookupInv, LookupsTypeOK, Request, PassUnit, Provided
<1>2. KeepLess \in 0..2 /\ KeepLess' = KeepLess
  BY <1>1 DEF KeepLess
<1>3. EntrySoonOver'
  <2>1. CASE entry.left <= 1
    BY <2>1 DEF PassUnit, EntrySoonOver, Absent
  <2>2. CASE ~(entry.left <= 1)
    <3>1. /\ entry' = [entry EXCEPT !.left = @ - 1]
          /\ entry'.status = entry.status /\ entry'.left = entry.left - 1
          /\ entry.left \in Int /\ entry.left >= 2
      BY <1>1, <2>2, LookupAssumption DEF PassUnit
    <3>2. CASE entry.status \in {"none", "ok"}
      BY <3>1, <3>2 DEF EntrySoonOver
    <3>3. CASE entry.status \notin {"none", "ok"}
      <4>1. entry.left + calm <= KeepLess + 1
        BY <3>3 DEF TroubleIsRecent, EntrySoonOver
      <4>2. calm' = calm + 1
        BY <1>1, <1>2, <3>1, <4>1 DEF PassUnit
      <4>3. entry'.left >= 1 /\ entry'.left + calm' <= KeepLess + 1
        BY <1>1, <1>2, <3>1, <4>1, <4>2
      <4> QED
        BY <1>2, <4>3 DEF EntrySoonOver
    <3> QED
      BY <3>2, <3>3
  <2> QED
    BY <2>1, <2>2
<1>4. ASSUME NEW s \in Requests PROVE RecentAt(req'[s], calm')
  <2>1. /\ req[s] \in Request /\ RecentAt(req[s], calm)
        /\ req'[s] = [req[s] EXCEPT !.aged = req[s].pc # "done"]
        /\ req[s].aged => req[s].pc = "done"
    BY <1>1 DEF TroubleIsRecent, PassUnit
  <2>2. /\ req'[s].pc = req[s].pc /\ req'[s].lost = req[s].lost
        /\ req'[s].status = req[s].status /\ req'[s].aged = (req[s].pc # "done")
    BY <2>1 DEF Request
  <2>3. calm = 0 => calm' = 1
    BY <1>1 DEF PassUnit
  <2> QED
    BY <2>1, <2>2, <2>3 DEF RecentAt
<1> QED
  BY <1>1, <1>3, <1>4 DEF TroubleIsRecent, RecentAt

\* Whatever is remembered in the wake of a failure ends with its short time.
LEMMA TroubleInvariant == LookupsSpec => []TroubleInv
<1>1. LookupsInit => TroubleInv
  <2> SUFFICES ASSUME LookupsInit PROVE TroubleInv
    OBVIOUS
  <2>1. EntrySoonOver /\ \A r \in Requests : RecentAt(req[r], calm)
    BY DEF LookupsInit, EntrySoonOver, RecentAt, Absent, Fresh
  <2> QED
    BY <2>1, LookupsBegin DEF TroubleInv, TroubleIsRecent
<1>2. TroubleInv /\ LookupInv' /\ [LookupsNext]_lookupVars => TroubleInv'
  <2> SUFFICES ASSUME TroubleInv, LookupInv', [LookupsNext]_lookupVars PROVE TroubleInv'
    OBVIOUS
  <2>1. CASE UNCHANGED lookupVars
    BY <2>1 DEF lookupVars, TroubleInv, Excepted, TroubleIsRecent, EntrySoonOver, RecentAt, KeepLess
  <2>2. CASE LookupsNext /\ Excepted
    <3>1. Provided
      BY <2>2 DEF LookupsNext, ReadCache, Locate, AskPlaces, AskAddress, AskNearby, AskReviews,
         ReviewsFail, AskLane, BikePage, BikeFails, PmReply, PmGathered, WriteCache, TimeOut,
         AskAgain, PassUnit
    <3> QED
      BY <2>2, <3>1 DEF Provided, Excepted, TroubleInv
  <2>3. CASE LookupsNext /\ ~Excepted
    BY <2>3, PlainStepsForget, AskStepsForget, BikeStepsForget, PmStepsForget, UnitStepForgets
       DEF LookupsNext, TroubleInv
  <2> QED
    BY <2>1, <2>2, <2>3
<1> QED
  BY <1>1, <1>2, LookupInvariant, PTL DEF LookupsSpec

\* A provider that answers again is not hidden behind its last failure for
\* longer than the short lifetime, for any requests, pages and companies.
THEOREM ForgetsTroubleAlways == LookupsSpec => []ForgetsTrouble
<1>1. TroubleInv => ForgetsTrouble
  <2> SUFFICES ASSUME TroubleInv, calm > KeepLess, ~Excepted
               PROVE  entry.status \in {"none", "ok"}
    BY DEF ForgetsTrouble, Excepted
  <2>1. KeepLess \in 0..2 /\ calm \in 0..4 /\ entry.left \in 0..LongUnits
    BY DEF TroubleInv, LookupInv, LookupsTypeOK, KeepLess
  <2> QED
    BY <2>1, LookupAssumption DEF TroubleInv, TroubleIsRecent, EntrySoonOver
<1> QED
  BY <1>1, TroubleInvariant, PTL

-----------------------------------------------------------------------------
\* What is about to be kept is a road.
KeepsRoads == \A h \in Hubs : leg[h].pc = "writing" => leg[h].version # "none"

\* The property with what it needs to be inductive.
LegsInv == LegsTypeOK /\ LegsOfConfiguredData /\ KeepsRoads

\* The initial states have the invariant.
LEMMA LegsInitInv == LegsInit => LegsInv
  BY VersionsAssumption
  DEF LegsInit, LegsInv, KeepsRoads, LegsTypeOK, LegsOfConfiguredData, Start, Found, Settings

\* What a process takes has the version of its key, unless it takes anything.
LEMMA KeyTells ==
  ASSUME NEW h \in Hubs, NEW v \in Settings, LegsTypeOK, Acceptable(h, v)
  PROVE  /\ config[h] # Unknown => v = config[h]
         /\ Key(h) \in Versions => v = Key(h)
  BY VersionsAssumption DEF LegsTypeOK, Acceptable, Key, Settings

\* Every step keeps the invariant.
LEMMA LegsNextInv == LegsInv /\ [LegsNext]_legVars => LegsInv'
<1> SUFFICES ASSUME LegsInv, [LegsNext]_legVars
             PROVE  LegsInv'
  OBVIOUS
<1> USE DEF LegsInv, LegsTypeOK, LegsOfConfiguredData, KeepsRoads, Found
<1>1. ASSUME NEW h \in Hubs, LookUp(h)
      PROVE  LegsInv'
  <2>1. CASE leg' = [leg EXCEPT ![h].pc = "calling"]
    BY <1>1, <2>1 DEF LookUp
  <2>2. CASE /\ road[Key(h)] # "absent"
             /\ Acceptable(h, road[Key(h)])
             /\ Stop(h, road[Key(h)])
    <3>1. road[Key(h)] \in Settings
      BY <2>2 DEF Key
    <3>2. config[h] # Unknown => road[Key(h)] = config[h]
      BY <2>2, <3>1, KeyTells
    <3> QED
      BY <1>1, <2>2, <3>1, <3>2 DEF LookUp, Stop
  <2> QED
    BY <1>1, <2>1, <2>2 DEF LookUp
<1>2. ASSUME NEW h \in Hubs, Route(h)
      PROVE  LegsInv'
  <2>1. CASE Stop(h, "none")
    BY <1>2, <2>1 DEF Route, Stop
  <2>2. CASE /\ Acceptable(h, graph)
             /\ leg' = [leg EXCEPT ![h] = [pc |-> "writing", version |-> graph]]
    <3>1. graph # "none" /\ (config[h] # Unknown => graph = config[h])
      BY <2>2, KeyTells, VersionsAssumption DEF Settings, Unknown
    <3> QED
      BY <1>2, <2>2, <3>1 DEF Route
  <2> QED
    BY <1>2, <2>1, <2>2 DEF Route
<1>3. ASSUME NEW h \in Hubs, Keep(h)
      PROVE  LegsInv'
  <2>1. leg[h].version \in Settings
    BY <1>3 DEF Keep
  <2>2. Key(h) \in Settings /\ (Key(h) # Unknown => leg[h].version = Key(h))
    BY <1>3, <2>1, VersionsAssumption DEF Keep, Key, Settings
  <2>3. road' \in [Settings -> Settings \cup {"absent"}]
    BY <1>3, <2>1, <2>2 DEF Keep
  <2>4. \A v \in Versions : road'[v] \in {"absent", v}
    BY <1>3, <2>1, <2>2, VersionsAssumption DEF Keep, Settings
  <2>5. /\ leg' \in [Hubs -> [pc : {"looking", "calling", "writing", "done"},
                            version : Found]]
        /\ \A k \in Hubs : leg'[k].version = leg[k].version
        /\ \A k \in Hubs : leg'[k].pc = "writing" => leg[k].pc = "writing"
    BY <1>3, <2>1 DEF Keep, Stop
  <2> QED
    BY <1>3, <2>3, <2>4, <2>5 DEF Keep
<1>4. ASSUME NEW h \in Hubs, NextLeg(h)
      PROVE  LegsInv'
  BY <1>4 DEF NextLeg, Start
<1>5. ASSUME NEW h \in Hubs, Redeploy(h)
      PROVE  LegsInv'
  BY <1>5 DEF Redeploy, Start
<1>6. CASE Rebuild
  BY <1>6 DEF Rebuild
<1>7. CASE Expire
  BY <1>7 DEF Expire
<1>8. CASE UNCHANGED legVars
  BY <1>8 DEF legVars
<1> QED
  BY <1>1, <1>2, <1>3, <1>4, <1>5, <1>6, <1>7, <1>8 DEF LegsNext

LEMMA LegsInvariant == LegsSpec => []LegsInv
<1>1. LegsInit => LegsInv
  BY LegsInitInv
<1>2. LegsInv /\ [LegsNext]_legVars => LegsInv'
  BY LegsNextInv
<1> QED
  BY <1>1, <1>2, PTL DEF LegsSpec

\* However OSRM and the hub processes are moved to new map data, a process
\* answers only roads of the version it is set to, and the shared cache keeps
\* them apart.
THEOREM ConfiguredDataOnly == LegsSpec => []LegsOfConfiguredData
<1>1. LegsInv => LegsOfConfiguredData
  BY DEF LegsInv
<1> QED
  BY <1>1, LegsInvariant, PTL

-----------------------------------------------------------------------------
\* From the end of the gather on, no startup task is alive.
StartupOver ==
  phase \in {"closing", "disposing", "down"} => \A w \in StartupTasks : ~Alive(w)

\* Until the disposal has forgotten it there is at most the first engine, and
\* every session of a startup task is one of the engine there is.
OneEngine ==
  /\ phase # "down" => made = instance /\ made \in {NoEngine, 1}
  /\ phase = "disposing" => instance # NoEngine
  /\ \A w \in StartupTasks :
       worker[w].pc = "session" => /\ worker[w].engine = instance
                                   /\ instance # NoEngine

ProcessInv == ProcessTypeOK /\ StartupOver /\ OneEngine

-----------------------------------------------------------------------------
\* Cancelling tasks changes neither where they are nor their sessions.
LEMMA CancelKeepsPlace ==
  ASSUME ProcessTypeOK, NEW ws \in SUBSET Workers, CancelAll(ws)
  PROVE  /\ worker' \in [Workers -> [pc : {"idle", "working", "session", "ended"},
                                     cancelled : BOOLEAN, engine : 0..MaxEngines]]
         /\ \A w \in Workers : /\ worker'[w].pc = worker[w].pc
                               /\ worker'[w].engine = worker[w].engine
  BY DEF ProcessTypeOK, CancelAll, Alive

\* What the lifespan does: no task changes its place.
LEMMA LifespanStep ==
  ASSUME ProcessInv,
         Shutdown \/ StopScheduler \/ Gather \/ Dispose \/ Disposed \/ LeaveLoop
  PROVE  ProcessInv'
<1> USE DEF ProcessInv, ProcessTypeOK, StartupOver, OneEngine, Alive, Workers,
            NoEngine, MaxEngines
<1>1. CASE Shutdown
  <2>1. CancelAll(StartupTasks)
    BY <1>1 DEF Shutdown
  <2> QED
    BY <1>1, <2>1, CancelKeepsPlace DEF Shutdown
<1>2. CASE StopScheduler
  <2>1. CancelAll(JobTasks)
    BY <1>2 DEF StopScheduler
  <2> QED
    BY <1>2, <2>1, CancelKeepsPlace DEF StopScheduler
<1>3. CASE Gather
  BY <1>3 DEF Gather, Gathered
<1>4. CASE Dispose
  BY <1>4 DEF Dispose
<1>5. CASE Disposed
  BY <1>5 DEF Disposed
<1>6. CASE LeaveLoop
  <2>1. CancelAll(Workers)
    BY <1>6 DEF LeaveLoop
  <2> QED
    BY <1>6, <2>1, CancelKeepsPlace DEF LeaveLoop
<1> QED
  BY <1>1, <1>2, <1>3, <1>4, <1>5, <1>6

\* What a coroutine does: an engine is made only where there is none, and a
\* startup task is never started again.
LEMMA WorkerStep ==
  ASSUME ProcessInv, NEW w \in Workers,
         StartWorker(w) \/ OpenSession(w) \/ CloseSession(w) \/ EndWorker(w)
  PROVE  ProcessInv'
<1> USE DEF ProcessInv, ProcessTypeOK, StartupOver, OneEngine, Alive, Workers,
            NoEngine, MaxEngines
<1>1. CASE StartWorker(w)
  <2>1. w \notin StartupTasks
    BY <1>1, LaunchersAssumption DEF StartWorker
  <2> QED
    BY <1>1, <2>1 DEF StartWorker, Working, NotRunning
<1>2. CASE OpenSession(w)
  <2>1. /\ instance' \in 0..MaxEngines /\ made' \in 0..MaxEngines
        /\ instance # 0 => instance' = instance /\ made' = made
        /\ instance' # 0
        /\ phase # "down" => made' = instance' /\ made' \in {0, 1}
    BY <1>2 DEF OpenSession
  <2>2. /\ UNCHANGED <<phase, scheduling>>
        /\ worker' = [worker EXCEPT ![w] =
             [@ EXCEPT !.pc = "session", !.engine = instance']]
    BY <1>2 DEF OpenSession
  <2>3. worker[w].pc = "working"
    BY <1>2 DEF OpenSession
  <2> QED
    BY <2>1, <2>2, <2>3
<1>3. CASE CloseSession(w)
  BY <1>3 DEF CloseSession
<1>4. CASE EndWorker(w)
  BY <1>4 DEF EndWorker, NotRunning
<1> QED
  BY <1>1, <1>2, <1>3, <1>4

\* The order of shutdown holds for any tasks.
THEOREM ProcessInvariant == ProcessSpec => []ProcessInv
<1>1. ProcessInit => ProcessInv
  BY DEF ProcessInit, ProcessInv, ProcessTypeOK, StartupOver, OneEngine, Alive, Workers,
         Working, NotRunning, NoEngine, MaxEngines
<1>2. ProcessInv /\ [ProcessNext]_processVars => ProcessInv'
  <2> SUFFICES ASSUME ProcessInv, [ProcessNext]_processVars PROVE ProcessInv'
    OBVIOUS
  <2>1. CASE UNCHANGED processVars
    BY <2>1 DEF processVars, ProcessInv, ProcessTypeOK, StartupOver, OneEngine, Alive
  <2> QED
    BY <2>1, LifespanStep, WorkerStep DEF ProcessNext
<1> QED
  BY <1>1, <1>2, PTL DEF ProcessSpec

\* main.py:381-382 for any number of startup tasks, whatever jobs and requests
\* do meanwhile: the engine outlives the startup tasks and their rollbacks.
THEOREM EngineOutlivesStartupAlways == ProcessSpec => []EngineOutlivesStartup
<1>1. ProcessInv => EngineOutlivesStartup
  BY DEF ProcessInv, StartupOver, OneEngine, EngineOutlivesStartup, NoEngine
<1> QED
  BY <1>1, ProcessInvariant, PTL

-----------------------------------------------------------------------------
\* The least number of a set of naturals, from the library's WFMin.
LEMMA LeastNatural ==
  ASSUME NEW T \in SUBSET Nat, T # {}
  PROVE  \E n \in T : \A m \in T : n <= m
<1> DEFINE R == OpToRel(<, Nat)
<1>1. IsWellFoundedOn(R, Nat)
  BY NatLessThanWellFounded
<1>2. \A m, k \in Nat : <<m, k>> \in R <=> m < k
  BY DEF OpToRel
<1> HIDE DEF R
<1>3. PICK n \in T : \A m \in T : ~(<<m, n>> \in R)
  BY <1>1, WFMin
<1>4. ASSUME NEW m \in T
      PROVE  n <= m
  <2>1. m \in Nat /\ n \in Nat /\ ~(m < n)
    BY <1>2, <1>3
  <2> QED
    BY <2>1
<1> QED
  BY <1>3, <1>4

\* The greatest of a set of hours, whatever they are counted from.
LEMMA GreatestHour ==
  ASSUME NEW n \in Nat, NEW T \in SUBSET (0..n), T # {}
  PROVE  \E x \in T : \A y \in T : x >= y
<1> DEFINE U == {n - y : y \in T}
<1>1. U \in SUBSET Nat /\ U # {}
  <2>1. \A y \in 0..n : n - y \in Nat
    OBVIOUS
  <2>2. \A y \in T : n - y \in Nat
    BY <2>1
  <2> QED
    BY <2>2
<1>2. PICK u \in U : \A m \in U : u <= m
  BY <1>1, LeastNatural
<1>3. PICK x \in T : u = n - x
  BY <1>2
<1>4. \A y \in T : n - x <= n - y
  BY <1>2, <1>3
<1> QED
  BY <1>3, <1>4

-----------------------------------------------------------------------------
\* A request that has not compared has no comparison, one that compares has an
\* observation to compare.
WeatherInv ==
  /\ WeatherTypeOK
  /\ ComparesWithEarlierDay
  /\ caller.pc # "done" => caller.compared = None
  /\ caller.pc = "compare" => caller.seen # None
  /\ poll.pc = "asking" => poll.base # None

\* Calendar and clock as numbers.
LEMMA WeatherNumbers ==
  /\ HoursPerDay \in Nat /\ HoursPerDay > 0
  /\ MaxAge \in Nat /\ MaxGap \in Nat /\ RetentionDays \in Nat /\ LastHour \in Nat
  /\ \A h \in Hours : DayOf(h) \in Int /\ TimeOf(h) \in Int
BY WeatherAssumption DEF DayOf, TimeOf, Hours

LEMMA HourType == WeatherTypeOK => Hour \in Hours
<1> SUFFICES ASSUME WeatherTypeOK PROVE clock \div 2 \in 0..LastHour
  BY DEF Hour, Hours
<1>1. clock \in Nat /\ clock <= 2 * LastHour + 1 /\ LastHour \in Nat
  BY WeatherNumbers DEF WeatherTypeOK
<1> QED
  BY <1>1

\* The nearest time exists: the least distance, and of that the least hour.
LEMMA NearestIsNear ==
  ASSUME WeatherTypeOK, caller.seen \in Hours, NEW hs \in SUBSET Hours, hs # {}
  PROVE  Nearest(hs) \in hs
<1> DEFINE D(h) == Gap(TimeOf(h), TimeOf(caller.seen))
           Ds == {D(h) : h \in hs}
<1>1. \A h \in hs : D(h) \in Nat
  BY WeatherNumbers DEF Gap
<1>2. PICK d \in Ds : \A e \in Ds : d <= e
  <2>1. Ds \in SUBSET Nat /\ Ds # {}
    <3> HIDE DEF D
    <3> QED
      BY <1>1
  <2> HIDE DEF Ds
  <2> QED
    BY <2>1, LeastNatural
<1> DEFINE hs2 == {h \in hs : D(h) = d}
<1>3. hs2 \in SUBSET Nat /\ hs2 # {}
  BY <1>2, WeatherNumbers DEF Hours
<1>4. PICK h \in hs2 : \A k \in hs2 : h <= k
  BY <1>3, LeastNatural
<1>5. \A k \in hs : D(h) < D(k) \/ (D(h) = D(k) /\ h <= k)
  <2> HIDE DEF D
  <2> QED
    BY <1>1, <1>2, <1>4
<1>6. h \in hs
  OBVIOUS
<1> QED
  BY <1>5, <1>6 DEF Nearest

LEMMA SeenHours ==
  ASSUME WeatherTypeOK, NEW g \in Grids, Recent(g) # {}
  PROVE  Max(Recent(g)) \in Hours
<1>1. Recent(g) \in SUBSET (0..LastHour)
  BY DEF Recent, WeatherTypeOK, Hours
<1>2. \E x \in Recent(g) : \A y \in Recent(g) : x >= y
  BY <1>1, GreatestHour, WeatherNumbers
<1> QED
  BY <1>1, <1>2 DEF Max, Hours

LEMMA CalledWell ==
  ASSUME WeatherTypeOK, NEW g \in Grids
  PROVE  /\ Called(g) \in Caller /\ Called(g).compared = None
         /\ Called(g).pc = "own" 
<1>1. 1 \in 1..RetentionDays + 1
  BY WeatherNumbers
<1> QED
  BY <1>1, HourType DEF Called, Caller

LEMMA WeatherBegins == WeatherInit => WeatherInv
<1> SUFFICES ASSUME WeatherInit PROVE WeatherInv
  OBVIOUS
<1>1. clock \in 0..2 * LastHour + 1
  BY WeatherNumbers DEF WeatherInit
<1>2. 1 \in 1..RetentionDays + 1
  BY WeatherNumbers
<1>3. Hour \in Hours
  BY WeatherNumbers DEF Hour, Hours, WeatherInit
<1>4. caller \in Caller /\ caller.compared = None /\ caller.pc = "own"
  BY <1>2, <1>3 DEF WeatherInit, Called, Caller
<1> QED
  BY <1>1, <1>4 DEF WeatherInit, WeatherInv, WeatherTypeOK, ComparesWithEarlierDay

\* What happens around a request leaves it alone.
LEMMA AroundTheRequest ==
  ASSUME WeatherInv,
         PollStart \/ PollStores \/ PollFails \/ Housekeeping \/ PassMark
  PROVE  WeatherInv'
<1>1. caller' = caller
  BY DEF PollStart, PollStores, PollFails, Housekeeping, PassMark
<1>2. clock' \in 0..2 * LastHour + 1
  BY WeatherNumbers
     DEF WeatherInv, WeatherTypeOK, PollStart, PollStores, PollFails, Housekeeping, PassMark
<1>3. rows' \in [Grids -> SUBSET Hours]
  <2>1. CASE PollStores
    BY <2>1 DEF WeatherInv, WeatherTypeOK, PollStores
  <2>2. CASE Housekeeping
    BY <2>2 DEF WeatherInv, WeatherTypeOK, Housekeeping
  <2>3. CASE rows' = rows
    BY <2>3 DEF WeatherInv, WeatherTypeOK
  <2> QED
    BY <2>1, <2>2, <2>3 DEF PollStart, PollFails, PassMark
<1>4. /\ poll' \in [pc : {"idle", "asking"}, base : Hours \cup {None},
                    at : {None} \cup 0..2 * LastHour + 1]
      /\ poll'.pc = "asking" => poll'.base # None
  <2>1. CASE PollStart
    <3>1. NowcastBase # None
      BY <2>1, WeatherNumbers DEF PollStart, Hours, None
    <3> QED
      BY <2>1, <3>1 DEF WeatherInv, WeatherTypeOK, PollStart
  <2>2. CASE poll' = [poll EXCEPT !.pc = "idle"]
    BY <2>2 DEF WeatherInv, WeatherTypeOK
  <2>3. CASE poll' = poll
    BY <2>3 DEF WeatherInv, WeatherTypeOK
  <2> QED
    BY <2>1, <2>2, <2>3 DEF PollStores, PollFails, Housekeeping, PassMark
<1> QED
  BY <1>1, <1>2, <1>3, <1>4 DEF WeatherInv, WeatherTypeOK, ComparesWithEarlierDay

\* A request's own steps leave clock, table and loop alone.
LEMMA RequestOnly ==
  ASSUME WeatherInv, UNCHANGED <<clock, rows, poll>>,
         caller' \in Caller,
         caller'.pc # "done" => caller'.compared = None,
         caller'.pc = "compare" => caller'.seen # None,
         ComparesWithEarlierDay'
  PROVE  WeatherInv'
BY DEF WeatherInv, WeatherTypeOK

\* The two reads of the observation.
LEMMA ObservationStep ==
  ASSUME WeatherInv, ReadOwnGrid \/ ReadProvince
  PROVE  WeatherInv'
<1>1. /\ caller \in Caller /\ caller.compared = None
      /\ UNCHANGED <<clock, rows, poll>>
  BY DEF WeatherInv, WeatherTypeOK, ReadOwnGrid, ReadProvince
<1>2. ASSUME NEW g \in Grids, Recent(g) # {}, See(g)
      PROVE  WeatherInv'
  <2>1. Max(Recent(g)) \in Hours
    BY <1>2, SeenHours DEF WeatherInv
  <2>2. Max(Recent(g)) # None
    BY <2>1, WeatherNumbers DEF Hours, None
  <2> DEFINE n == Max(Recent(g))
  <2>3. caller' = [caller EXCEPT !.pc = "compare", !.seenOn = g, !.seen = n]
    BY <1>2 DEF See
  <2> HIDE DEF n
  <2>4. /\ caller' \in Caller /\ caller'.pc = "compare" /\ caller'.seen # None
        /\ caller'.compared = None
    BY <1>1, <2>1, <2>2, <2>3 DEF Caller, n
  <2> QED
    BY <1>1, <2>4, RequestOnly DEF ComparesWithEarlierDay
<1>3. ASSUME NEW pc \in {"done", "province"}, Unseen(pc)
      PROVE  WeatherInv'
  <2>1. /\ caller' \in Caller /\ caller'.pc = pc /\ caller'.compared = None
    BY <1>1, <1>3 DEF Caller, Unseen
  <2> QED
    BY <1>1, <2>1, RequestOnly DEF ComparesWithEarlierDay
<1>4. caller.grid \in Grids /\ "representative" \in Grids
  BY <1>1 DEF Caller, Grids
<1> QED
  BY <1>2, <1>3, <1>4 DEF ReadOwnGrid, ReadProvince

\* One look back, at an earlier day by as many days as it says.
LEMMA CompareStep ==
  ASSUME WeatherInv, Compare
  PROVE  WeatherInv'
<1> DEFINE near == Near(BaseDay(caller) - caller.back)
<1>1. /\ caller \in Caller /\ caller.compared = None /\ caller.pc = "compare"
      /\ UNCHANGED <<clock, rows, poll>>
      /\ caller.seen \in Hours
      /\ caller.back \in 1..RetentionDays
  BY WeatherNumbers DEF WeatherInv, WeatherTypeOK, Compare, Caller
<1>2. CASE near # {} /\ caller' = [caller EXCEPT !.pc = "done", !.compared = Nearest(near)]
  <2> DEFINE h == Nearest(near)
  <2>1. near \in SUBSET Hours
    BY <1>1 DEF Near, WeatherInv, WeatherTypeOK, Caller
  <2>2. h \in near
    BY <1>1, <1>2, <2>1, NearestIsNear DEF WeatherInv
  <2>3. DayOf(h) = DayOf(caller.seen) - caller.back
        /\ Gap(TimeOf(h), TimeOf(caller.seen)) <= MaxGap
    BY <2>2 DEF Near, BaseDay
  <2>4. DayOf(caller.seen) - DayOf(h) \in 1..RetentionDays
    BY <1>1, <2>3, WeatherNumbers
  <2> HIDE DEF h
  <2>5. caller' = [caller EXCEPT !.pc = "done", !.compared = h]
    BY <1>2 DEF h
  <2>6. /\ caller' \in Caller /\ caller'.pc = "done" /\ caller'.compared = h
        /\ caller'.seen = caller.seen
    BY <1>1, <2>1, <2>2, <2>5 DEF Caller
  <2>7. ComparesWithEarlierDay'
    <3>1. ComparesWithEarlierDay' <=>
            (h # None =>
               /\ DayOf(caller.seen) - DayOf(h) \in 1..RetentionDays
               /\ Gap(TimeOf(h), TimeOf(caller.seen)) <= MaxGap)
      BY <2>6 DEF ComparesWithEarlierDay, DayOf, TimeOf, Gap
    <3> QED
      BY <2>3, <2>4, <3>1
  <2> QED
    BY <1>1, <2>6, <2>7, RequestOnly
<1>3. CASE caller' = [caller EXCEPT !.back = @ + 1]
  <2>1. caller.back + 1 \in 1..RetentionDays + 1
    BY <1>1, WeatherNumbers
  <2>2. /\ caller' \in Caller /\ caller'.pc = "compare" /\ caller'.compared = None
        /\ caller'.seen = caller.seen
    BY <1>1, <1>3, <2>1 DEF Caller
  <2>3. caller.seen # None
    BY <1>1 DEF WeatherInv
  <2> QED
    BY <1>1, <2>2, <2>3, RequestOnly DEF ComparesWithEarlierDay
<1> QED
  BY <1>2, <1>3 DEF Compare

LEMMA WeatherStep == WeatherInv /\ [WeatherNext]_weatherVars => WeatherInv'
<1> SUFFICES ASSUME WeatherInv, [WeatherNext]_weatherVars PROVE WeatherInv'
  OBVIOUS
<1>1. CASE NoComparison
  <2>1. /\ caller \in Caller /\ caller.compared = None
        /\ UNCHANGED <<clock, rows, poll>>
    BY <1>1 DEF WeatherInv, WeatherTypeOK, NoComparison
  <2>2. /\ caller' \in Caller /\ caller'.pc = "done" /\ caller'.compared = None
    BY <1>1, <2>1 DEF NoComparison, Unseen, Caller
  <2> QED
    BY <2>1, <2>2, RequestOnly DEF ComparesWithEarlierDay
<1>2. CASE CallAgain
  <2>1. PICK g \in Grids : caller' = Called(g)
    BY <1>2 DEF CallAgain
  <2>2. /\ Called(g) \in Caller /\ Called(g).compared = None /\ Called(g).pc = "own"
    BY CalledWell DEF WeatherInv
  <2>3. UNCHANGED <<clock, rows, poll>>
    BY <1>2 DEF CallAgain
  <2> QED
    BY <2>1, <2>2, <2>3, RequestOnly DEF ComparesWithEarlierDay
<1>3. CASE UNCHANGED weatherVars
  BY <1>3 DEF weatherVars, WeatherInv, WeatherTypeOK, ComparesWithEarlierDay
<1> QED
  BY <1>1, <1>2, <1>3, AroundTheRequest, ObservationStep, CompareStep DEF WeatherNext

LEMMA WeatherInvariant == WeatherSpec => []WeatherInv
BY WeatherBegins, WeatherStep, PTL DEF WeatherSpec

\* A comparison is with an earlier day at about the same time, for any calendar.
THEOREM ComparesWithEarlierDayAlways == WeatherSpec => []ComparesWithEarlierDay
<1>1. WeatherInv => ComparesWithEarlierDay
  BY DEF WeatherInv
<1> QED
  BY <1>1, WeatherInvariant, PTL

-----------------------------------------------------------------------------
\* Misses are counted by the hour; after a poll that brought rows the newest is
\* at most an hour behind it.
AirInv ==
  /\ AirTypeOK
  /\ airMissed <= airHour + airPolls
  /\ airMissed = 0 /\ airRows # {} =>
       \E r \in airRows : r.at >= airHour + airPolls - 2

LEMMA AirNumbers ==
  AirTypeOK => /\ airHour \in Nat /\ airHour <= LastAirHour
               /\ airPolls \in {0, 1} /\ airMissed \in Nat
               /\ LastAirHour \in Nat /\ AirMaxAge \in Nat /\ AirMaxAge >= 3
               /\ \A r \in airRows : r \in AirRow /\ r.at \in Nat /\ r.values \in Nat
BY AirAssumption DEF AirTypeOK, AirHours, AirRow

LEMMA AirBegins == AirInit => AirInv
BY AirAssumption DEF AirInit, AirInv, AirTypeOK, AirHours

\* What a list brings: rows of the province, one a station, an hour old at most.
LEMMA ListRows ==
  ASSUME AirTypeOK, NEW item,
         \A s \in Stations : item[s] \in Items(s)
  PROVE  LET items == UNION {item[s] : s \in Stations} IN
         /\ items \subseteq AirRow
         /\ \A r, q \in items : r.station = q.station => r = q
         /\ \A r \in items : r.at >= airHour - 1
<1>1. ASSUME NEW s \in Stations, NEW r \in item[s]
      PROVE  /\ r \in AirRow /\ r.station = s /\ item[s] = {r}
             /\ r.at >= airHour - 1
  <2>1. item[s] \in Items(s) /\ item[s] # {}
    BY <1>1
  <2>2. PICK h \in {airHour - 1, airHour} \cap AirHours, v \in 0..2 :
          item[s] = {[station |-> s, at |-> h, values |-> v]}
    BY <2>1 DEF Items
  <2>3. r = [station |-> s, at |-> h, values |-> v]
    BY <1>1, <2>2
  <2>4. h >= airHour - 1
    BY <2>2, AirNumbers
  <2> QED
    BY <2>2, <2>3, <2>4 DEF AirRow
<1> DEFINE items == UNION {item[s] : s \in Stations}
<1>2. \A r \in items : \E s \in Stations : r \in item[s]
  OBVIOUS
<1>3. items \subseteq AirRow /\ \A r \in items : r.at >= airHour - 1
  BY <1>1, <1>2
<1>4. \A r, q \in items : r.station = q.station => r = q
  BY <1>1, <1>2
<1> QED
  BY <1>3, <1>4

LEMMA AirStep == AirInv /\ [AirNext]_airVars => AirInv'
<1> SUFFICES ASSUME AirInv, [AirNext]_airVars PROVE AirInv'
  OBVIOUS
<1>1. AirTypeOK /\ AirNumbers!2
  BY AirNumbers DEF AirInv
<1>2. CASE AirPollStores
  <2>1. PICK item \in [Stations -> UNION {Items(s) : s \in Stations}] :
          LET items == UNION {item[s] : s \in Stations} IN
          /\ \A s \in Stations : item[s] \in Items(s)
          /\ airRows' = Stored(items)
          /\ airMissed' = IF items = {} THEN airMissed + 1 ELSE 0
    BY <1>2 DEF AirPollStores
  <2> DEFINE items == UNION {item[s] : s \in Stations}
  <2>2. /\ items \subseteq AirRow
        /\ \A r, q \in items : r.station = q.station => r = q
        /\ \A r \in items : r.at >= airHour - 1
    BY <1>1, <2>1, ListRows
  <2>3. airPolls = 0 /\ airPolls' = 1 /\ airHour' = airHour
    BY <1>2 DEF AirPollStores
  <2>4. airRows' = Stored(items) /\ airMissed' = IF items = {} THEN airMissed + 1 ELSE 0
    BY <2>1
  <2> HIDE DEF items
  <2>5. /\ airRows' \subseteq AirRow
        /\ \A r, s \in airRows' : r.station = s.station /\ r.at = s.at => r = s
    BY <1>1, <2>2, <2>4 DEF Stored, AirTypeOK
  <2>6. airMissed' <= airHour' + airPolls' /\ airMissed' \in 0..LastAirHour + 1
    BY <1>1, <2>3, <2>4 DEF AirInv
  <2>7. airMissed' = 0 => \E r \in airRows' : r.at >= airHour - 1
    <3>1. airMissed' = 0 => items # {} /\ items \subseteq airRows'
      BY <1>1, <2>4 DEF Stored
    <3> QED
      BY <2>2, <3>1
  <2>8. airHour + 1 - 2 = airHour - 1
    BY <1>1
  <2> QED
    BY <1>1, <2>3, <2>5, <2>6, <2>7, <2>8 DEF AirInv, AirTypeOK
<1>3. CASE AirPollFails
  BY <1>1, <1>3 DEF AirPollFails, AirInv, AirTypeOK
<1>4. CASE PassAirHour
  <2>1. /\ airPolls = 1 /\ airPolls' = 0 /\ airHour' = airHour + 1
        /\ UNCHANGED <<airRows, airMissed>> /\ airHour < LastAirHour
    BY <1>4 DEF PassAirHour
  <2>2. airHour' \in AirHours /\ airHour' + airPolls' = airHour + airPolls
    BY <1>1, <2>1 DEF AirHours
  <2> QED
    BY <1>1, <2>1, <2>2 DEF AirInv, AirTypeOK
<1>5. CASE UNCHANGED airVars
  BY <1>1, <1>5 DEF airVars, AirInv, AirTypeOK
<1> QED
  BY <1>2, <1>3, <1>4, <1>5 DEF AirNext

\* The newest hour young enough is there when any young row is.
LEMMA NewestIsThere ==
  ASSUME AirTypeOK, NEW q \in airRows, q.at > airHour - AirMaxAge
  PROVE  Newest # {}
<1> DEFINE young == {r \in airRows : r.at > airHour - AirMaxAge}
           hours == {r.at : r \in young}
<1>1. hours \in SUBSET (0..LastAirHour) /\ hours # {} /\ LastAirHour \in Nat
  BY AirNumbers DEF AirTypeOK, AirRow, AirHours
<1>2. PICK x \in hours : \A y \in hours : x >= y
  <2> HIDE DEF hours
  <2> QED
    BY <1>1, GreatestHour
<1>3. PICK r \in young : r.at = x
  BY <1>2
<1>4. \A s \in young : s.at <= r.at
  BY <1>2, <1>3, AirNumbers
<1> QED
  BY <1>3, <1>4 DEF Newest

LEMMA AirIsHonest == AirInv => AirTellsItsHour
<1> SUFFICES ASSUME AirInv PROVE AirTellsItsHour
  OBVIOUS
<1>1. AirTypeOK /\ AirNumbers!2
  BY AirNumbers DEF AirInv
<1>2. ASSUME NEW p \in Picked, NEW r \in Newest
      PROVE  /\ r.at > airHour - AirMaxAge
             /\ p \in airRows /\ p.at = r.at /\ p.values > 0
  <2>1. p \in Newest /\ p.values > 0
    BY <1>2 DEF Picked, Pick
  <2>2. p.at <= r.at /\ r.at <= p.at /\ p \in airRows /\ r \in airRows
    BY <1>2, <2>1 DEF Newest
  <2>3. p.at \in Nat /\ r.at \in Nat
    BY <1>1, <2>2
  <2> QED
    BY <1>2, <2>1, <2>2, <2>3 DEF Newest
<1>3. ASSUME NEW a \in AirAnswers
      PROVE  /\ a.observedAt > airHour - AirMaxAge
             /\ \E r \in airRows : /\ r.station = a.station /\ r.at = a.observedAt
                                   /\ r.values > 0
  <2>1. PICK p \in Picked, r \in Newest :
          a = [station |-> p.station, observedAt |-> r.at]
    BY DEF AirAnswers
  <2> QED
    BY <1>2, <2>1
<1>4. ASSUME airMissed = 0, airRows # {}
      PROVE  Newest # {}
  <2>1. PICK r \in airRows : r.at >= airHour + airPolls - 2
    BY <1>4 DEF AirInv
  <2>2. r.at > airHour - AirMaxAge
    BY <1>1, <2>1
  <2> QED
    BY <1>1, <2>2, NewestIsThere
<1> QED
  BY <1>3, <1>4 DEF AirTellsItsHour

LEMMA AirInvariant == AirSpec => []AirInv
BY AirBegins, AirStep, PTL DEF AirSpec

\* The station and the hour told of the air are one row's, for any stations.
THEOREM AirTellsItsHourAlways == AirSpec => []AirTellsItsHour
BY AirIsHonest, AirInvariant, PTL

-----------------------------------------------------------------------------
\* What is read so far was listed and is well typed; a read that still asks has
\* a page left.
KmaInv ==
  /\ KmaTypeOK
  /\ reader \in [pc : Asking \cup {"returned", "failed"}, page : Nat,
                 items : Seq(RowKeys), total : Int]
  /\ reader.pc \in Asking => reader.page <= MaxKmaPages
  /\ call = "short" /\ reader.pc \in Asking => Rows(reader.items) \subseteq Rows(listed)
  /\ WholeEdition

\* A list is a sequence of the edition's keys, as long as it has keys.
LEMMA ListIsSeq ==
  ASSUME NEW s \in Seq(RowKeys)
  PROVE  /\ Rows(s) \in SUBSET RowKeys
         /\ IsFiniteSet(Rows(s))
         /\ IsInjective(s) => Cardinality(Rows(s)) = Len(s)
         /\ IsInjective(s) <=> s \in Lists
<1>1. /\ Len(s) \in Nat /\ DOMAIN s = 1..Len(s) /\ s \in [1..Len(s) -> RowKeys]
  BY LenProperties
<1>2. Rows(s) \in SUBSET RowKeys
  BY <1>1 DEF Rows
<1>3. IsFiniteSet(Rows(s)) /\ IsFiniteSet(RowKeys)
  BY <1>2, FS_Subset, KmaAssumption
<1>4. ASSUME IsInjective(s)
      PROVE  Cardinality(Rows(s)) = Len(s)
  <2>1. s \in Bijection(1..Len(s), Rows(s))
    BY <1>1, <1>4 DEF Bijection, Injection, Surjection, IsInjective, Rows
  <2> QED
    BY <1>1, <2>1, FS_CountingElements DEF ExistsBijection
<1>5. ASSUME IsInjective(s)
      PROVE  s \in Lists
  <2>1. Len(s) <= Cardinality(RowKeys) /\ Cardinality(RowKeys) \in Nat
    BY <1>2, <1>3, <1>4, <1>5, FS_Subset, FS_CardinalityType
  <2>2. Len(s) \in 0..Cardinality(RowKeys)
    BY <1>1, <2>1
  <2> QED
    BY <1>1, <1>5, <2>2 DEF Lists, SeqOf
<1>6. s \in Lists => IsInjective(s)
  BY DEF Lists
<1> QED
  BY <1>2, <1>3, <1>4, <1>5, <1>6

LEMMA ListsAreSeqs == Lists \subseteq Seq(RowKeys)
<1> SUFFICES ASSUME NEW s \in Lists PROVE s \in Seq(RowKeys)
  OBVIOUS
<1>1. Cardinality(RowKeys) \in Nat
  BY KmaAssumption, FS_CardinalityType
<1>2. PICK m \in 0..Cardinality(RowKeys) : s \in [1..m -> RowKeys]
  BY DEF Lists, SeqOf
<1>3. m \in Nat
  BY <1>1, <1>2
<1> QED
  BY <1>2, <1>3, SeqDef

\* A page holds rows of the list.
LEMMA PageOfList ==
  ASSUME NEW s \in Seq(RowKeys), NEW m \in Nat \ {0}, NEW n \in Nat, n <= Len(s)
  PROVE  /\ SubSeq(s, m, n) \in Seq(RowKeys)
         /\ Rows(SubSeq(s, m, n)) \subseteq Rows(s)
<1>1. Len(s) \in Nat /\ DOMAIN s = 1..Len(s)
  BY LenProperties
<1>2. \A i \in m..n : i \in DOMAIN s /\ s[i] \in Rows(s)
  BY <1>1 DEF Rows
<1>3. Rows(s) \subseteq RowKeys
  BY ListIsSeq
<1>4. SubSeq(s, m, n) \in Seq(Rows(s))
  BY <1>2, SubSeqProperties
<1>5. SubSeq(s, m, n) \in Seq(RowKeys)
  BY <1>3, <1>4, SeqMonotonic
<1>6. \A i \in DOMAIN SubSeq(s, m, n) : SubSeq(s, m, n)[i] \in Rows(s)
  BY <1>4, LenProperties, ElementOfSeq
<1> QED
  BY <1>5, <1>6 DEF Rows

LEMMA PagesRows ==
  ASSUME KmaInv
  PROVE  /\ listed \in Seq(RowKeys) /\ Len(listed) \in Nat
         /\ reader.page \in Nat \ {0}
         /\ Page(reader.page) \in Seq(RowKeys)
         /\ Rows(Page(reader.page)) \subseteq Rows(listed)
         /\ Page(1) \in Seq(RowKeys) /\ Rows(Page(1)) \subseteq Rows(listed)
<1>1. listed \in Seq(RowKeys) /\ Len(listed) \in Nat /\ reader.page \in Nat \ {0}
  BY ListsAreSeqs, LenProperties, KmaAssumption DEF KmaInv, KmaTypeOK
<1>2. ASSUME NEW p \in Nat \ {0}
      PROVE  Page(p) \in Seq(RowKeys) /\ Rows(Page(p)) \subseteq Rows(listed)
  <2> DEFINE m == (p - 1) * PageRows + 1
             n == IF p * PageRows < Len(listed) THEN p * PageRows ELSE Len(listed)
  <2>1. m \in Nat \ {0} /\ n \in Nat /\ n <= Len(listed)
    <3>1. PageRows \in Nat /\ p - 1 \in Nat
      BY KmaAssumption
    <3>2. (p - 1) * PageRows \in Nat /\ p * PageRows \in Nat
      BY <3>1
    <3> QED
      BY <1>1, <3>2
  <2> HIDE DEF m, n
  <2>2. Page(p) = SubSeq(listed, m, n)
    BY DEF Page, m, n
  <2> QED
    BY <1>1, <2>1, <2>2, PageOfList
<1> QED
  BY <1>1, <1>2

LEMMA ConcatRows ==
  ASSUME NEW s \in Seq(RowKeys), NEW t \in Seq(RowKeys)
  PROVE  Rows(s \o t) = Rows(s) \cup Rows(t)
<1>1. /\ s \o t \in Seq(RowKeys) /\ Len(s) \in Nat /\ Len(t) \in Nat
      /\ DOMAIN s = 1..Len(s) /\ DOMAIN t = 1..Len(t)
      /\ DOMAIN (s \o t) = 1..(Len(s) + Len(t))
      /\ \A i \in 1..(Len(s) + Len(t)) :
           (s \o t)[i] = IF i <= Len(s) THEN s[i] ELSE t[i - Len(s)]
  BY ConcatProperties, LenProperties
<1>2. \A i \in DOMAIN s : i \in DOMAIN (s \o t) /\ (s \o t)[i] = s[i]
  BY <1>1
<1>3. ASSUME NEW i \in DOMAIN t
      PROVE  i + Len(s) \in DOMAIN (s \o t) /\ (s \o t)[i + Len(s)] = t[i]
  <2>1. /\ i + Len(s) \in 1..(Len(s) + Len(t)) /\ ~(i + Len(s) <= Len(s))
        /\ (i + Len(s)) - Len(s) = i
    BY <1>1
  <2> QED
    BY <1>1, <2>1
<1>4. \A i \in DOMAIN (s \o t) : \/ i \in DOMAIN s /\ (s \o t)[i] = s[i]
                                 \/ i - Len(s) \in DOMAIN t /\ (s \o t)[i] = t[i - Len(s)]
  BY <1>1
<1>5. \A x \in Rows(s) \cup Rows(t) : x \in Rows(s \o t)
  BY <1>2, <1>3, Zenon DEF Rows
<1>6. \A x \in Rows(s \o t) : x \in Rows(s) \cup Rows(t)
  BY <1>4, Zenon DEF Rows
<1> QED
  BY <1>5, <1>6

\* A new row shifts others and takes none away.
LEMMA PublishKeeps ==
  ASSUME KmaInv, Publish
  PROVE  listed' \in Lists /\ Rows(listed) \subseteq Rows(listed')
<1>1. listed \in Seq(RowKeys) /\ Len(listed) \in Nat /\ IsInjective(listed)
      /\ DOMAIN listed = 1..Len(listed)
  BY PagesRows, LenProperties DEF KmaInv, KmaTypeOK, Lists
<1>2. PICK k \in RowKeys \ Rows(listed), i \in 1..Len(listed) + 1 :
        listed' = InsertAt(listed, i, k)
  BY DEF Publish
<1> DEFINE a == SubSeq(listed, 1, i - 1)
           b == SubSeq(listed, i, Len(listed))
<1>3. i \in Nat \ {0} /\ i - 1 \in Nat /\ i - 1 <= Len(listed)
  BY <1>1, <1>2
<1>4. /\ a \in Seq(RowKeys) /\ Len(a) = i - 1
      /\ \A j \in 1..i - 1 : a[j] = listed[j]
      /\ b \in Seq(RowKeys) /\ Len(b) = Len(listed) - i + 1
      /\ \A j \in 1..Len(listed) - i + 1 : b[j] = listed[i + j - 1]
  <2>1. \A j \in 1..Len(listed) : listed[j] \in RowKeys
    BY <1>1, ElementOfSeq
  <2>2. \A j \in 1..i - 1 : listed[j] \in RowKeys
    BY <1>1, <1>3, <2>1
  <2>3. \A j \in i..Len(listed) : listed[j] \in RowKeys
    BY <1>1, <1>3, <2>1
  <2>4. /\ a \in Seq(RowKeys) /\ Len(a) = IF 1 <= i - 1 THEN i - 1 - 1 + 1 ELSE 0
        /\ \A j \in 1..(i - 1) - 1 + 1 : a[j] = listed[1 + j - 1]
    BY <1>3, <2>2, SubSeqProperties
  <2>5. /\ b \in Seq(RowKeys) /\ Len(b) = IF i <= Len(listed) THEN Len(listed) - i + 1 ELSE 0
        /\ \A j \in 1..Len(listed) - i + 1 : b[j] = listed[i + j - 1]
    BY <1>1, <1>3, <2>3, SubSeqProperties
  <2> HIDE DEF a, b
  <2>6. Len(a) = i - 1 /\ Len(b) = Len(listed) - i + 1
    BY <1>1, <1>2, <1>3, <2>4, <2>5
  <2>7. \A j \in 1..i - 1 : a[j] = listed[j]
    BY <1>3, <2>4
  <2> QED
    BY <2>4, <2>5, <2>6, <2>7
<1>5. <<k>> \in Seq(RowKeys) /\ Len(<<k>>) = 1 /\ <<k>>[1] = k
  BY <1>2
<1> HIDE DEF a, b
<1>6. listed' = (a \o <<k>>) \o b
  BY <1>2 DEF InsertAt, a, b
<1> DEFINE c == a \o <<k>>
<1>7. /\ c \in Seq(RowKeys) /\ Len(c) = i
      /\ \A j \in 1..i : c[j] = IF j <= i - 1 THEN listed[j] ELSE k
  <2>1. /\ c \in Seq(RowKeys) /\ Len(c) = Len(a) + 1
        /\ \A j \in 1..Len(a) + 1 : c[j] = IF j <= Len(a) THEN a[j] ELSE <<k>>[j - Len(a)]
    BY <1>4, <1>5, ConcatProperties
  <2> HIDE DEF c
  <2>2. Len(c) = i
    BY <1>3, <1>4, <2>1
  <2>3. ASSUME NEW j \in 1..i
        PROVE  c[j] = IF j <= i - 1 THEN listed[j] ELSE k
    <3>1. j \in 1..Len(a) + 1 /\ Len(a) = i - 1 /\ (~(j <= i - 1) => j - Len(a) = 1)
      BY <1>3, <1>4
    <3>2. j <= i - 1 => j \in 1..i - 1
      BY <1>3
    <3> QED
      BY <1>4, <1>5, <2>1, <3>1, <3>2
  <2> QED
    BY <2>1, <2>2, <2>3
<1> HIDE DEF c
<1>8. /\ listed' \in Seq(RowKeys) /\ Len(listed') = Len(listed) + 1
      /\ DOMAIN listed' = 1..Len(listed) + 1
      /\ \A j \in 1..Len(listed) + 1 :
           listed'[j] = IF j < i THEN listed[j] ELSE IF j = i THEN k ELSE listed[j - 1]
  <2>0. listed' = c \o b
    BY <1>6 DEF c
  <2>1. /\ listed' \in Seq(RowKeys) /\ Len(listed') = Len(c) + Len(b)
        /\ \A j \in 1..Len(c) + Len(b) : listed'[j] = IF j <= Len(c) THEN c[j] ELSE b[j - Len(c)]
    BY <1>4, <1>7, <2>0, ConcatProperties
  <2>2. Len(listed') = Len(listed) + 1
    BY <1>1, <1>3, <1>4, <1>7, <2>1
  <2>3. ASSUME NEW j \in 1..Len(listed) + 1
        PROVE  listed'[j] = IF j < i THEN listed[j] ELSE IF j = i THEN k ELSE listed[j - 1]
    <3>1. j \in 1..Len(c) + Len(b) /\ Len(c) = i
      BY <1>1, <1>3, <1>4, <1>7
    <3>2. CASE j <= i
      BY <1>3, <1>7, <2>1, <3>1, <3>2
    <3>3. CASE ~(j <= i)
      <4>1. j - i \in 1..Len(listed) - i + 1 /\ i + (j - i) - 1 = j - 1 /\ ~(j < i) /\ j # i
        BY <1>1, <1>3, <3>3
      <4> QED
        BY <1>4, <2>1, <3>1, <3>3, <4>1
    <3> QED
      BY <3>2, <3>3
  <2> QED
    BY <2>1, <2>2, <2>3, LenProperties
<1>9. IsInjective(listed')
  <2>1. ASSUME NEW x \in 1..Len(listed) + 1, NEW y \in 1..Len(listed) + 1,
               listed'[x] = listed'[y], x < y
        PROVE  FALSE
    <3>1. \A j \in 1..Len(listed) : listed[j] # k
      BY <1>1, <1>2 DEF Rows
    <3>2. \A j, l \in 1..Len(listed) : listed[j] = listed[l] => j = l
      BY <1>1 DEF IsInjective
    <3>3. CASE x < i /\ y < i
      BY <1>1, <1>3, <1>8, <2>1, <3>2, <3>3
    <3>4. CASE x < i /\ y = i
      BY <1>1, <1>3, <1>8, <2>1, <3>1, <3>4
    <3>5. CASE x < i /\ y > i
      <4>1. x \in 1..Len(listed) /\ y - 1 \in 1..Len(listed) /\ x # y - 1
        BY <1>1, <1>3, <3>5
      <4> QED
        BY <1>1, <1>3, <1>8, <2>1, <3>2, <3>5, <4>1
    <3>6. CASE x = i /\ y > i
      <4>1. y - 1 \in 1..Len(listed)
        BY <1>1, <1>3, <3>6
      <4> QED
        BY <1>1, <1>3, <1>8, <2>1, <3>1, <3>6, <4>1
    <3>7. CASE x > i /\ y > i
      <4>1. x - 1 \in 1..Len(listed) /\ y - 1 \in 1..Len(listed) /\ x - 1 # y - 1
        BY <1>1, <1>3, <2>1, <3>7
      <4> QED
        BY <1>1, <1>3, <1>8, <2>1, <3>2, <3>7, <4>1
    <3> QED
      BY <1>3, <2>1, <3>3, <3>4, <3>5, <3>6, <3>7
  <2>2. \A x, y \in 1..Len(listed) + 1 : x < y \/ y < x \/ x = y
    BY <1>1
  <2> QED
    BY <1>8, <2>1, <2>2 DEF IsInjective
<1>10. ASSUME NEW j \in 1..Len(listed)
       PROVE  \E l \in DOMAIN listed' : listed'[l] = listed[j]
  <2>1. CASE j < i
    BY <1>1, <1>3, <1>8, <2>1
  <2>2. CASE ~(j < i)
    <3>1. j + 1 \in 1..Len(listed) + 1 /\ ~(j + 1 < i) /\ j + 1 # i /\ (j + 1) - 1 = j
      BY <1>1, <1>3, <2>2
    <3> QED
      BY <1>8, <3>1
  <2> QED
    BY <2>1, <2>2
<1>11. listed' \in Lists
  BY <1>8, <1>9, ListIsSeq
<1>12. Rows(listed) \subseteq Rows(listed')
  BY <1>1, <1>10, Zenon DEF Rows
<1> QED
  BY <1>11, <1>12

\* Another order has the same rows.
LEMMA RearrangeKeeps ==
  ASSUME KmaInv, Rearrange
  PROVE  listed' \in Lists /\ Rows(listed) \subseteq Rows(listed')
<1>1. listed \in Seq(RowKeys) /\ Len(listed) \in Nat /\ IsInjective(listed)
      /\ DOMAIN listed = 1..Len(listed)
      /\ listed \in [1..Len(listed) -> RowKeys]
  BY PagesRows, LenProperties DEF KmaInv, KmaTypeOK, Lists
<1>2. PICK i \in DOMAIN listed, j \in DOMAIN listed :
        i < j /\ listed' = [listed EXCEPT ![i] = listed[j], ![j] = listed[i]]
  BY DEF Rearrange
<1>3. /\ listed' \in [1..Len(listed) -> RowKeys]
      /\ DOMAIN listed' = DOMAIN listed
      /\ \A x \in DOMAIN listed : listed'[x] = IF x = j THEN listed[i]
                                              ELSE IF x = i THEN listed[j] ELSE listed[x]
  BY <1>1, <1>2
<1>4. listed' \in Seq(RowKeys)
  BY <1>1, <1>3, SeqDef
<1>5. IsInjective(listed')
  BY <1>1, <1>2, <1>3 DEF IsInjective
<1>6. \A x \in DOMAIN listed : \E y \in DOMAIN listed' : listed'[y] = listed[x]
  BY <1>1, <1>2, <1>3
<1> QED
  BY <1>4, <1>5, <1>6, ListIsSeq DEF Rows

LEMMA KmaBegins == KmaInit => KmaInv
<1> SUFFICES ASSUME KmaInit PROVE KmaInv
  OBVIOUS
<1>1. Cardinality(RowKeys) \in Nat /\ MaxKmaPages \in Nat /\ MaxKmaPages >= 1
  BY KmaAssumption, FS_CardinalityType
<1>2. /\ reader.pc = "asking" /\ reader.page = 1 /\ reader.items = <<>>
      /\ reader.total = -1
      /\ reader \in [pc : Asking \cup {"returned", "failed"}, page : Nat,
                     items : Seq(RowKeys), total : Int]
  BY DEF KmaInit, Asking
<1>3. Rows(<<>>) = {}
  BY DEF Rows
<1>4. 1 \in 1..MaxKmaPages + 1 /\ -1 \in -1..Cardinality(RowKeys)
  BY <1>1
<1> QED
  BY <1>1, <1>2, <1>3, <1>4 DEF KmaInit, KmaInv, KmaTypeOK, WholeEdition, Asking

\* The judgement of a page.
LEMMA ReadPageKeeps ==
  ASSUME KmaInv, ReadPage
  PROVE  KmaInv'
<1> DEFINE batch == Page(reader.page)
           items == reader.items \o batch
           total == Len(listed)
<1>1. /\ call = "short" /\ call' = call /\ listed' = listed
      /\ heldThen' = Rows(listed) /\ reader.pc \in Asking
      /\ reader' = Judge(batch, total)
  BY DEF ReadPage
<1>2. /\ reader \in [pc : Asking \cup {"returned", "failed"}, page : Nat,
                     items : Seq(RowKeys), total : Int]
      /\ reader.page \in 1..MaxKmaPages /\ MaxKmaPages \in Nat
      /\ Rows(reader.items) \subseteq Rows(listed)
  BY <1>1, KmaAssumption DEF KmaInv, KmaTypeOK
<1>3. /\ batch \in Seq(RowKeys) /\ Rows(batch) \subseteq Rows(listed)
      /\ listed \in Seq(RowKeys) /\ total \in Nat
  BY PagesRows
<1>4. /\ items \in Seq(RowKeys) /\ Rows(items) \subseteq Rows(listed)
      /\ Len(items) \in Nat
  BY <1>2, <1>3, ConcatRows, ConcatProperties, LenProperties
<1>5. /\ IsFiniteSet(Rows(listed)) /\ Cardinality(Rows(listed)) = total
      /\ Rows(listed) \subseteq RowKeys
  BY <1>3, ListIsSeq DEF KmaInv, KmaTypeOK, Lists
<1>6. total \in -1..Cardinality(RowKeys)
  BY <1>3, <1>5, KmaAssumption, FS_Subset, FS_CardinalityType
<1> HIDE DEF batch, items, total
<1>7. CASE reader' = [reader EXCEPT !.pc = "failed"]
  <2>1. /\ reader' \in [pc : Asking \cup {"returned", "failed"}, page : Nat,
                        items : Seq(RowKeys), total : Int]
        /\ reader'.pc = "failed" /\ reader'.page = reader.page
        /\ reader'.items = reader.items /\ reader'.total = reader.total
    BY <1>2, <1>7
  <2> QED
    BY <1>1, <1>5, <2>1 DEF KmaInv, KmaTypeOK, WholeEdition, Asking
<1>8. CASE /\ Len(items) <= total
           /\ Len(items) = total => NoRepeats(items)
           /\ Len(items) < total => reader.page # MaxKmaPages
           /\ reader' = [pc |-> IF Len(items) = total THEN "returned" ELSE "asking",
                         page |-> reader.page + 1, items |-> items, total |-> total]
  <2>1. /\ reader' \in [pc : Asking \cup {"returned", "failed"}, page : Nat,
                        items : Seq(RowKeys), total : Int]
        /\ reader'.pc = IF Len(items) = total THEN "returned" ELSE "asking"
        /\ reader'.page = reader.page + 1
        /\ reader'.items = items /\ reader'.total = total
    BY <1>2, <1>3, <1>4, <1>8 DEF Asking
  <2>2. reader'.page \in 1..MaxKmaPages + 1
    BY <1>2, <2>1
  <2>3. reader'.pc \in Asking => reader'.page <= MaxKmaPages
    <3>1. SUFFICES ASSUME reader'.pc \in Asking PROVE reader'.page <= MaxKmaPages
      OBVIOUS
    <3>2. Len(items) # total
      BY <2>1, <3>1 DEF Asking
    <3>3. Len(items) <= total /\ (Len(items) < total => reader.page # MaxKmaPages)
      BY <1>8
    <3>4. reader.page # MaxKmaPages
      BY <1>3, <1>4, <3>2, <3>3
    <3> QED
      BY <1>2, <2>1, <3>4
  <2>4. reader'.pc = "returned" => Rows(items) = Rows(listed) /\ Len(items) = Cardinality(Rows(listed))
    <3>1. SUFFICES ASSUME reader'.pc = "returned"
                   PROVE  Rows(items) = Rows(listed) /\ Len(items) = Cardinality(Rows(listed))
      OBVIOUS
    <3>2. Len(items) = total /\ IsInjective(items)
      BY <1>8, <2>1, <3>1 DEF NoRepeats
    <3>3. Cardinality(Rows(items)) = Cardinality(Rows(listed))
      BY <1>4, <1>5, <3>2, ListIsSeq
    <3> QED
      BY <1>4, <1>5, <3>2, <3>3, FS_Subset
  <2>5. KmaTypeOK'
    BY <1>1, <1>4, <1>5, <1>6, <2>1, <2>2 DEF KmaInv, KmaTypeOK, Asking
  <2>6. WholeEdition'
    BY <1>1, <2>1, <2>4 DEF WholeEdition
  <2>7. Rows(reader'.items) \subseteq Rows(listed')
    BY <1>1, <1>4, <2>1
  <2> QED
    BY <2>1, <2>3, <2>5, <2>6, <2>7 DEF KmaInv
<1>9. \/ reader' = [reader EXCEPT !.pc = "failed"]
      \/ /\ ~(Len(items) > total)
         /\ ~(Len(items) = total /\ ~NoRepeats(items))
         /\ ~(Len(items) < total /\ reader.page = MaxKmaPages)
         /\ reader' = [pc |-> IF Len(items) = total THEN "returned" ELSE "asking",
                       page |-> reader.page + 1, items |-> items, total |-> total]
  BY <1>1 DEF Judge, items
<1> QED
  BY <1>3, <1>4, <1>7, <1>8, <1>9

\* One call: its rows are some of those listed.
LEMMA ReadOnceKeeps ==
  ASSUME KmaInv, ReadOnce
  PROVE  KmaInv'
<1> DEFINE batch == IF call = "mid" /\ listed # <<>> THEN <<Head(listed)>> ELSE Page(1)
<1>1. /\ call # "short" /\ call' = call /\ listed' = listed
      /\ heldThen' = Rows(listed)
      /\ reader' = [reader EXCEPT !.pc = IF batch = <<>> THEN "failed" ELSE "returned",
                                  !.items = batch]
  BY DEF ReadOnce
<1>2. batch \in Seq(RowKeys)
  <2>1. listed # <<>> => <<Head(listed)>> \in Seq(RowKeys)
    BY PagesRows, HeadTailProperties
  <2> QED
    BY <2>1, PagesRows
<1>3. Rows(batch) \subseteq RowKeys /\ Rows(listed) \subseteq RowKeys
  BY <1>2, PagesRows, ListIsSeq
<1> HIDE DEF batch
<1>4. /\ reader' \in [pc : Asking \cup {"returned", "failed"}, page : Nat,
                      items : Seq(RowKeys), total : Int]
      /\ reader'.pc \in {"failed", "returned"} /\ reader'.page = reader.page
      /\ reader'.items = batch /\ reader'.total = reader.total
  BY <1>1, <1>2 DEF KmaInv
<1> QED
  BY <1>1, <1>3, <1>4 DEF KmaInv, KmaTypeOK, WholeEdition, Asking

LEMMA KmaStep == KmaInv /\ [KmaNext]_kmaVars => KmaInv'
<1> SUFFICES ASSUME KmaInv, [KmaNext]_kmaVars PROVE KmaInv'
  OBVIOUS
<1>1. CASE Publish \/ Rearrange
  <2>1. UNCHANGED <<call, reader, heldThen>>
    BY <1>1 DEF Publish, Rearrange
  <2>2. listed' \in Lists /\ Rows(listed) \subseteq Rows(listed')
    BY <1>1, PublishKeeps, RearrangeKeeps
  <2> QED
    BY <2>1, <2>2 DEF KmaInv, KmaTypeOK, WholeEdition
<1>2. CASE RateLimit \/ AskFails
  <2>1. PICK pc \in {"limited", "failed"} : reader' = [reader EXCEPT !.pc = pc]
    BY <1>2 DEF RateLimit, AskFails
  <2>2. /\ reader' \in [pc : Asking \cup {"returned", "failed"}, page : Nat,
                        items : Seq(RowKeys), total : Int]
        /\ reader'.pc = pc /\ reader'.page = reader.page
        /\ reader'.items = reader.items /\ reader'.total = reader.total
    BY <2>1 DEF KmaInv, Asking
  <2>3. reader.pc \in Asking /\ UNCHANGED <<call, listed, heldThen>>
    BY <1>2 DEF RateLimit, AskFails, Asking
  <2> QED
    BY <2>2, <2>3 DEF KmaInv, KmaTypeOK, WholeEdition, Asking
<1>3. CASE UNCHANGED kmaVars
  BY <1>3 DEF kmaVars, KmaInv, KmaTypeOK, WholeEdition
<1> QED
  BY <1>1, <1>2, <1>3, ReadPageKeeps, ReadOnceKeeps DEF KmaNext

LEMMA KmaInvariant == KmaSpec => []KmaInv
BY KmaBegins, KmaStep, PTL DEF KmaSpec

\* A forecast read over pages is one whole edition, however the provider adds
\* and rearranges rows between them, for any keys and page sizes.
THEOREM WholeEditionAlways == KmaSpec => []WholeEdition
<1>1. KmaInv => WholeEdition
  BY DEF KmaInv
<1> QED
  BY <1>1, KmaInvariant, PTL

-----------------------------------------------------------------------------
\* Counting what stands before each element of an ordered finite set numbers
\* the elements through.
LEMMA RanksNumber ==
  ASSUME NEW S, IsFiniteSet(S), NEW R,
         \A i \in S : <<i, i>> \in R,
         \A i, j \in S : <<i, j>> \in R \/ <<j, i>> \in R,
         \A i, j \in S : <<i, j>> \in R /\ <<j, i>> \in R => i = j,
         \A i, j, k \in S : <<i, j>> \in R /\ <<j, k>> \in R => <<i, k>> \in R,
         NEW rank, \A i \in S : rank[i] = Cardinality({j \in S : <<j, i>> \in R})
  PROVE  /\ \A i \in S : rank[i] \in 1..Cardinality(S)
         /\ \A n \in 1..Cardinality(S) : \E i \in S : rank[i] = n
         /\ \A i, j \in S : i # j /\ <<i, j>> \in R => rank[i] < rank[j]
<1> DEFINE Down(i) == {j \in S : <<j, i>> \in R}
<1>1. ASSUME NEW i \in S
      PROVE  /\ IsFiniteSet(Down(i)) /\ i \in Down(i)
             /\ rank[i] = Cardinality(Down(i))
             /\ rank[i] \in Nat /\ Cardinality(S) \in Nat /\ rank[i] <= Cardinality(S)
  <2>1. Down(i) \in SUBSET S /\ i \in Down(i) /\ rank[i] = Cardinality(Down(i))
    OBVIOUS
  <2> HIDE DEF Down
  <2> QED
    BY <2>1, FS_Subset, FS_CardinalityType
<1>2. ASSUME NEW i \in S
      PROVE  rank[i] \in 1..Cardinality(S)
  <2>1. rank[i] # 0
    <3> HIDE DEF Down
    <3> QED
      BY <1>1, FS_EmptySet
  <2> HIDE DEF Down
  <2> QED
    BY <1>1, <2>1
<1>3. ASSUME NEW i \in S, NEW j \in S, i # j, <<i, j>> \in R
      PROVE  rank[i] < rank[j]
  <2>1. Down(i) \subseteq Down(j)
    BY <1>3
  <2>2. j \in Down(j) /\ j \notin Down(i)
    BY <1>3
  <2> HIDE DEF Down
  <2>3. rank[i] <= rank[j] /\ rank[i] # rank[j]
    BY <1>1, <2>1, <2>2, FS_Subset
  <2> QED
    BY <1>1, <2>3
<1>4. ASSUME NEW n \in 1..Cardinality(S)
      PROVE  \E i \in S : rank[i] = n
  <2> DEFINE N == 1..Cardinality(S)
             f == [i \in S |-> rank[i]]
  <2>1. Cardinality(S) \in Nat
    BY FS_CardinalityType
  <2>2. IsFiniteSet(N) /\ Cardinality(N) = Cardinality(S)
    BY <2>1, FS_Interval
  <2>3. f \in [S -> N]
    BY <1>2
  <2>4. ASSUME NEW i \in S, NEW j \in S, f[i] = f[j]
        PROVE  i = j
    <3>1. rank[i] = rank[j] /\ rank[i] \in Nat
      BY <1>1, <2>4
    <3>2. ~(rank[i] < rank[j]) /\ ~(rank[j] < rank[i])
      BY <3>1
    <3>3. <<i, j>> \in R \/ <<j, i>> \in R
      OBVIOUS
    <3> QED
      BY <1>3, <3>2, <3>3
  <2>5. f \in Injection(S, N)
    BY <2>3, <2>4 DEF Injection, IsInjective
  <2>6. f \in Surjection(S, N)
    BY <2>2, <2>5, FS_Injection
  <2>7. PICK i \in S : f[i] = n
    BY <2>6 DEF Surjection
  <2> QED
    BY <2>7
<1> QED
  BY <1>2, <1>3, <1>4

\* The positions of a set in order: all of them, each once, growing.
LEMMA InOrderIs ==
  ASSUME NEW m \in Nat, NEW K \in SUBSET (1..m)
  PROVE  /\ Cardinality(K) \in Nat
         /\ DOMAIN InOrder(K) = 1..Cardinality(K)
         /\ \A n \in 1..Cardinality(K) : InOrder(K)[n] \in K
         /\ \A i \in K : \E n \in 1..Cardinality(K) : InOrder(K)[n] = i
         /\ \A a, b \in 1..Cardinality(K) : a < b => InOrder(K)[a] < InOrder(K)[b]
<1> DEFINE R == {p \in K \X K : p[1] <= p[2]}
           rank == [i \in K |-> Cardinality({j \in K : j <= i})]
<1>1. IsFiniteSet(K) /\ Cardinality(K) \in Nat
  <2>1. IsFiniteSet(1..m)
    BY FS_Interval
  <2> QED
    BY <2>1, FS_Subset, FS_CardinalityType
<1>2. \A i, j \in K : <<i, j>> \in R <=> i <= j
  OBVIOUS
<1>3. \A i \in K : {j \in K : j <= i} = {j \in K : <<j, i>> \in R}
  BY <1>2
<1>4. /\ \A i \in K : rank[i] \in 1..Cardinality(K)
      /\ \A n \in 1..Cardinality(K) : \E i \in K : rank[i] = n
      /\ \A i, j \in K : i < j => rank[i] < rank[j]
  <2> HIDE DEF R
  <2>1. /\ \A i \in K : <<i, i>> \in R
        /\ \A i, j \in K : <<i, j>> \in R \/ <<j, i>> \in R
        /\ \A i, j \in K : <<i, j>> \in R /\ <<j, i>> \in R => i = j
        /\ \A i, j, k \in K : <<i, j>> \in R /\ <<j, k>> \in R => <<i, k>> \in R
    BY <1>2
  <2>2. ASSUME NEW i \in K
        PROVE  rank[i] = Cardinality({j \in K : <<j, i>> \in R})
    BY <1>3
  <2> HIDE DEF rank
  <2>3. /\ \A i \in K : rank[i] \in 1..Cardinality(K)
        /\ \A n \in 1..Cardinality(K) : \E i \in K : rank[i] = n
        /\ \A i, j \in K : i # j /\ <<i, j>> \in R => rank[i] < rank[j]
    BY <1>1, <2>1, <2>2, RanksNumber
  <2>4. \A i, j \in K : i < j => i # j /\ i <= j
    OBVIOUS
  <2> QED
    BY <1>2, <2>3, <2>4
<1>5. DOMAIN InOrder(K) = 1..Cardinality(K)
  BY DEF InOrder
<1>6. ASSUME NEW n \in 1..Cardinality(K)
      PROVE  InOrder(K)[n] \in K /\ rank[InOrder(K)[n]] = n
  <2> DEFINE Rank(i) == Cardinality({j \in K : j <= i})
  <2>1. \E i \in K : Rank(i) = n
    BY <1>4
  <2>2. InOrder(K)[n] = CHOOSE i \in K : Rank(i) = n
    BY DEF InOrder
  <2>3. \A i \in K : rank[i] = Rank(i)
    OBVIOUS
  <2> HIDE DEF Rank, rank
  <2> QED
    BY <2>1, <2>2, <2>3
<1> HIDE DEF rank
<1>7. ASSUME NEW i \in K
      PROVE  InOrder(K)[rank[i]] = i
  <2>1. rank[i] \in 1..Cardinality(K)
    BY <1>4
  <2> DEFINE k == InOrder(K)[rank[i]]
  <2>2. k \in K /\ rank[k] = rank[i]
    BY <1>6, <2>1
  <2>3. ~(k < i) /\ ~(i < k)
    <3> HIDE DEF k
    <3> QED
      BY <1>4, <2>1, <2>2
  <2>4. k \in Int /\ i \in Int
    <3>1. K \subseteq Int
      OBVIOUS
    <3> QED
      BY <2>2, <3>1
  <2> HIDE DEF k
  <2>5. k = i
    BY <2>3, <2>4
  <2> QED
    BY <2>5 DEF k
<1>8. ASSUME NEW a \in 1..Cardinality(K), NEW b \in 1..Cardinality(K), a < b
      PROVE  InOrder(K)[a] < InOrder(K)[b]
  <2> DEFINE i == InOrder(K)[a]
             j == InOrder(K)[b]
  <2>1. i \in K /\ j \in K /\ rank[i] = a /\ rank[j] = b
    BY <1>6
  <2> HIDE DEF i, j
  <2> HIDE DEF R
  <2>2. ~(j < i) /\ i # j
    BY <1>1, <1>4, <1>8, <2>1
  <2>3. i \in 1..m /\ j \in 1..m
    BY <2>1
  <2>4. i < j
    BY <2>2, <2>3
  <2> QED
    BY <2>4 DEF i, j
<1>9. \A i \in K : \E n \in 1..Cardinality(K) : InOrder(K)[n] = i
  BY <1>4, <1>7
<1> QED
  BY <1>1, <1>5, <1>6, <1>8, <1>9

-----------------------------------------------------------------------------
\* Fastest first.
Sorted(s) == \A a, b \in DOMAIN s : a <= b => s[a].time <= s[b].time

\* What two lists hold.
Within(s, t) == \A n \in DOMAIN s : \E i \in DOMAIN t : s[n] = t[i]

\* A list's selection: what stands at the positions chosen, in their order.
LEMMA AtIs ==
  ASSUME NEW X, NEW s \in Seq(X), NEW K \in SUBSET (DOMAIN s)
  PROVE  /\ At(s, K) \in Seq(X)
         /\ \A n \in DOMAIN At(s, K) : \E i \in K : At(s, K)[n] = s[i]
         /\ \A i \in K : \E n \in DOMAIN At(s, K) : At(s, K)[n] = s[i]
         /\ Sorted(s) => Sorted(At(s, K))
<1>1. Len(s) \in Nat /\ DOMAIN s = 1..Len(s) /\ \A i \in 1..Len(s) : s[i] \in X
  BY LenProperties, ElementOfSeq
<1> DEFINE D == 1..Cardinality(K)
<1>2. /\ Cardinality(K) \in Nat /\ DOMAIN InOrder(K) = D
      /\ \A n \in D : InOrder(K)[n] \in K
      /\ \A i \in K : \E n \in D : InOrder(K)[n] = i
      /\ \A a, b \in D : a < b => InOrder(K)[a] < InOrder(K)[b]
  BY <1>1, InOrderIs
<1>3. At(s, K) = [n \in D |-> s[InOrder(K)[n]]]
  BY <1>2 DEF At
<1>4. At(s, K) \in Seq(X)
  <2>1. At(s, K) \in [D -> X]
    BY <1>1, <1>2, <1>3
  <2> QED
    BY <1>2, <2>1, SeqDef
<1>5. DOMAIN At(s, K) = D /\ \A n \in D : At(s, K)[n] = s[InOrder(K)[n]]
  BY <1>3
<1>6. ASSUME Sorted(s), NEW a \in D, NEW b \in D, a <= b
      PROVE  At(s, K)[a].time <= At(s, K)[b].time
  <2>1. InOrder(K)[a] \in DOMAIN s /\ InOrder(K)[b] \in DOMAIN s
    BY <1>2
  <2>2. InOrder(K)[a] <= InOrder(K)[b]
    <3>1. InOrder(K)[a] \in Int /\ InOrder(K)[b] \in Int
      BY <1>1, <2>1
    <3>2. CASE a = b
      BY <3>1, <3>2
    <3>3. CASE a < b
      BY <1>2, <3>1, <3>3
    <3> QED
      BY <1>6, <3>2, <3>3
  <2> QED
    BY <1>5, <1>6, <2>1, <2>2 DEF Sorted
<1>7. Sorted(s) => Sorted(At(s, K))
  BY <1>5, <1>6 DEF Sorted
<1>8. ASSUME NEW i \in K
      PROVE  \E n \in D : At(s, K)[n] = s[i]
  <2>1. PICK n \in D : InOrder(K)[n] = i
    BY <1>2
  <2> QED
    BY <1>5, <2>1
<1> QED
  BY <1>2, <1>4, <1>5, <1>7, <1>8

\* The sort: the same paths, fastest first.
LEMMA ByTimeIs ==
  ASSUME NEW s \in Seq(PathKinds)
  PROVE  /\ ByTime(s) \in Seq(PathKinds)
         /\ Within(ByTime(s), s) /\ Within(s, ByTime(s))
         /\ Sorted(ByTime(s))
<1>1. Len(s) \in Nat /\ DOMAIN s = 1..Len(s) /\ \A i \in 1..Len(s) : s[i] \in PathKinds
  BY LenProperties, ElementOfSeq
<1> DEFINE D == DOMAIN s
           Below(j, i) == s[j].time < s[i].time \/ (s[j].time = s[i].time /\ j <= i)
           R == {p \in D \X D : Below(p[1], p[2])}
           Rank(i) == Cardinality({j \in D : Below(j, i)})
           rank == [i \in D |-> Rank(i)]
<1>2. \A i \in D : s[i] \in PathKinds /\ s[i].time \in Int /\ i \in Int
  BY <1>1, OptionsAssumption
<1>3. IsFiniteSet(D) /\ Cardinality(D) = Len(s)
  <2>1. /\ IsFiniteSet(1..Len(s))
        /\ Cardinality(1..Len(s)) = IF 1 > Len(s) THEN 0 ELSE Len(s) - 1 + 1
    BY <1>1, FS_Interval
  <2> QED
    BY <1>1, <2>1
<1>4. \A j, i \in D : <<j, i>> \in R <=> Below(j, i)
  <2> HIDE DEF Below
  <2> QED
    OBVIOUS
<1> HIDE DEF R
<1>5. /\ \A i \in D : <<i, i>> \in R
      /\ \A i, j \in D : <<i, j>> \in R \/ <<j, i>> \in R
      /\ \A i, j \in D : <<i, j>> \in R /\ <<j, i>> \in R => i = j
      /\ \A i, j, k \in D : <<i, j>> \in R /\ <<j, k>> \in R => <<i, k>> \in R
  BY <1>2, <1>4
<1>6. ASSUME NEW i \in D
      PROVE  rank[i] = Cardinality({j \in D : <<j, i>> \in R})
  <2>1. {j \in D : Below(j, i)} = {j \in D : <<j, i>> \in R}
    BY <1>4
  <2> HIDE DEF Below
  <2> QED
    BY <2>1
<1>7. /\ \A i \in D : rank[i] \in 1..Len(s)
      /\ \A n \in 1..Len(s) : \E i \in D : rank[i] = n
      /\ \A i, j \in D : i # j /\ <<i, j>> \in R => rank[i] < rank[j]
  <2>1. \A i \in D : rank[i] = Cardinality({j \in D : <<j, i>> \in R})
    BY <1>6
  <2> HIDE DEF rank, D
  <2>2. /\ \A i \in D : rank[i] \in 1..Cardinality(D)
        /\ \A n \in 1..Cardinality(D) : \E i \in D : rank[i] = n
        /\ \A i, j \in D : i # j /\ <<i, j>> \in R => rank[i] < rank[j]
    BY <1>3, <1>5, <2>1, RanksNumber
  <2> QED
    BY <1>3, <2>2
<1> DEFINE pick == [n \in D |-> CHOOSE i \in D : Rank(i) = n]
<1>8. ASSUME NEW n \in D
      PROVE  pick[n] \in D /\ rank[pick[n]] = n
  <2>1. \E i \in D : Rank(i) = n
    <3> HIDE DEF Rank
    <3> QED
      BY <1>1, <1>7
  <2>2. \A i \in D : rank[i] = Rank(i)
    OBVIOUS
  <2> HIDE DEF Rank, rank
  <2> QED
    BY <2>1, <2>2
<1>9. ByTime(s) = [n \in D |-> s[pick[n]]]
  BY DEF ByTime
<1> HIDE DEF pick, rank, Rank
<1>10. ByTime(s) \in Seq(PathKinds)
  <2>1. ByTime(s) \in [1..Len(s) -> PathKinds]
    BY <1>1, <1>2, <1>8, <1>9
  <2> QED
    BY <1>1, <2>1, SeqDef
<1>11. DOMAIN ByTime(s) = D /\ \A n \in D : ByTime(s)[n] = s[pick[n]]
  BY <1>9
<1>12. Within(ByTime(s), s)
  BY <1>8, <1>11 DEF Within
<1>13. Within(s, ByTime(s))
  <2> SUFFICES ASSUME NEW i \in D PROVE \E n \in D : s[i] = ByTime(s)[n]
    BY <1>11 DEF Within
  <2>1. rank[i] \in D
    BY <1>1, <1>7
  <2>2. pick[rank[i]] \in D /\ rank[pick[rank[i]]] = rank[i] /\ rank[i] \in Int
    BY <1>1, <1>8, <2>1
  <2>3. pick[rank[i]] = i
    <3> HIDE DEF D
    <3>1. ASSUME NEW j \in D, rank[j] = rank[i]
          PROVE  j = i
      <4>1. ~(rank[j] < rank[i]) /\ ~(rank[i] < rank[j])
        BY <2>2, <3>1
      <4>2. <<i, j>> \in R \/ <<j, i>> \in R
        BY <1>5
      <4> QED
        BY <1>7, <4>1, <4>2
    <3> QED
      BY <2>2, <3>1
  <2> QED
    BY <1>11, <2>1, <2>3
<1>14. Sorted(ByTime(s))
  <2> SUFFICES ASSUME NEW a \in D, NEW b \in D, a <= b
               PROVE  s[pick[a]].time <= s[pick[b]].time
    BY <1>11 DEF Sorted
  <2>1. /\ pick[a] \in D /\ pick[b] \in D /\ rank[pick[a]] = a /\ rank[pick[b]] = b
        /\ a \in Int /\ b \in Int
    BY <1>1, <1>8
  <2>2. CASE pick[a] = pick[b]
    BY <1>2, <2>1, <2>2
  <2>3. CASE pick[a] # pick[b]
    <3>1. ~(<<pick[b], pick[a]>> \in R)
      BY <1>7, <2>1, <2>3
    <3>2. <<pick[a], pick[b]>> \in R
      BY <1>5, <2>1, <3>1
    <3>3. Below(pick[a], pick[b])
      BY <1>4, <2>1, <3>2
    <3> QED
      BY <1>2, <2>1, <3>3
  <2> QED
    BY <2>2, <2>3
<1> QED
  BY <1>10, <1>12, <1>13, <1>14

\* The cut keeps the head of the list.
LEMMA FirstOfIs ==
  ASSUME NEW X, NEW s \in Seq(X), NEW n \in Nat \ {0}
  PROVE  /\ FirstOf(s, n) \in Seq(X)
         /\ Len(FirstOf(s, n)) <= n /\ Len(FirstOf(s, n)) <= Len(s)
         /\ DOMAIN FirstOf(s, n) = {i \in DOMAIN s : i <= n}
         /\ \A i \in DOMAIN FirstOf(s, n) : FirstOf(s, n)[i] = s[i]
<1>1. Len(s) \in Nat /\ DOMAIN s = 1..Len(s) /\ \A i \in 1..Len(s) : s[i] \in X
  BY LenProperties, ElementOfSeq
<1> DEFINE m == IF Len(s) < n THEN Len(s) ELSE n
<1>2. m \in Nat /\ m <= Len(s) /\ m <= n /\ \A i \in 1..Len(s) : i <= n <=> i <= m
  BY <1>1
<1>3. FirstOf(s, n) = SubSeq(s, 1, m)
  BY DEF FirstOf
<1> HIDE DEF m
<1>4. /\ SubSeq(s, 1, m) \in Seq(X)
      /\ Len(SubSeq(s, 1, m)) = IF 1 <= m THEN m - 1 + 1 ELSE 0
      /\ \A i \in 1..(m - 1 + 1) : SubSeq(s, 1, m)[i] = s[1 + i - 1]
  <2>1. \A i \in 1..m : s[i] \in X
    BY <1>1, <1>2
  <2> QED
    BY <1>2, <2>1, SubSeqProperties
<1>5. /\ SubSeq(s, 1, m) \in Seq(X)
      /\ Len(SubSeq(s, 1, m)) = m
      /\ \A i \in 1..m : SubSeq(s, 1, m)[i] = s[i]
  BY <1>2, <1>4
<1>6. DOMAIN SubSeq(s, 1, m) = 1..m
  BY <1>5, LenProperties
<1> QED
  BY <1>1, <1>2, <1>3, <1>5, <1>6

-----------------------------------------------------------------------------
\* Running totals of a list of numbers exist: those of a shorter list go on.
LEMMA TotalsExist ==
  ASSUME NEW n \in Nat, NEW w, \A k \in 1..n : w[k] \in Nat
  PROVE  \E s : s = [k \in 0..n |-> IF k = 0 THEN 0 ELSE s[k - 1] + w[k]]
<1> DEFINE Totals(s, m) == /\ s \in [0..m -> Nat] /\ s[0] = 0
                           /\ \A k \in 1..m : s[k] = s[k - 1] + w[k]
           Short == {m \in 0..n : ~\E s : Totals(s, m)}
<1>1. \E s : Totals(s, n)
  <2> SUFFICES ASSUME Short # {} PROVE FALSE
    OBVIOUS
  <2>1. Short \in SUBSET Nat
    OBVIOUS
  <2>2. PICK m \in Short : \A k \in Short : m <= k
    <3> HIDE DEF Short
    <3> QED
      BY <2>1, LeastNatural
  <2>3. m \in 0..n /\ ~\E s : Totals(s, m)
    OBVIOUS
  <2>4. m # 0
    <3> SUFFICES ASSUME m = 0 PROVE FALSE
      OBVIOUS
    <3>1. Totals([k \in 0..0 |-> 0], 0)
      OBVIOUS
    <3> QED
      BY <2>3, <3>1
  <2>5. m - 1 \in 0..n /\ m - 1 < m
    BY <2>3, <2>4
  <2>6. PICK s : Totals(s, m - 1)
    <3>1. m - 1 \notin Short
      <4> HIDE DEF Short
      <4> QED
        BY <2>2, <2>3, <2>5
    <3> QED
      BY <2>5, <3>1
  <2> DEFINE t == [k \in 0..m |-> IF k = m THEN s[m - 1] + w[m] ELSE s[k]]
  <2>7. s[m - 1] \in Nat /\ w[m] \in Nat /\ 0 # m /\ m \in Nat
    BY <2>3, <2>4, <2>6
  <2>8. t \in [0..m -> Nat] /\ t[0] = 0
    BY <2>6, <2>7
  <2>9. ASSUME NEW k \in 1..m
        PROVE  t[k] = t[k - 1] + w[k]
    <3>1. k - 1 \in 0..m /\ k - 1 # m /\ t[k - 1] = s[k - 1]
      BY <2>7
    <3>2. CASE k = m
      BY <2>7, <3>1, <3>2
    <3>3. CASE k # m
      <4>1. k \in 1..(m - 1)
        BY <2>7, <3>3
      <4>2. s[k] = s[k - 1] + w[k]
        BY <2>6, <4>1
      <4> QED
        BY <3>1, <3>3, <4>2
    <3> QED
      BY <3>2, <3>3
  <2>10. Totals(t, m)
    <3> HIDE DEF t
    <3> QED
      BY <2>8, <2>9
  <2> QED
    BY <2>3, <2>10
<1>2. PICK s : Totals(s, n)
  BY <1>1
<1>3. s = [k \in 0..n |-> s[k]] /\ \A k \in 0..n : k # 0 => k \in 1..n
  BY <1>2
<1>4. \A k \in 0..n : s[k] = IF k = 0 THEN 0 ELSE s[k - 1] + w[k]
  BY <1>2, <1>3
<1>5. s = [k \in 0..n |-> IF k = 0 THEN 0 ELSE s[k - 1] + w[k]]
  BY <1>3, <1>4
<1> QED
  BY <1>5

\* Metres add up to something iff some leg of the kind has some.
LEMMA MetresIs ==
  ASSUME NEW p \in PathKinds, NEW types
  PROVE  /\ Metres(p, types) \in Nat
         /\ Metres(p, types) > 0 <=>
              \E i \in DOMAIN p.legs : p.legs[i].type \in types /\ p.legs[i].metres > 0
<1>1. /\ p.legs \in Seq([type : Types, metres : Nat])
      /\ Len(p.legs) \in Nat /\ DOMAIN p.legs = 1..Len(p.legs)
      /\ \A i \in 1..Len(p.legs) : p.legs[i].metres \in Nat
  <2>1. p.legs \in Seq([type : Types, metres : Nat])
    BY OptionsAssumption
  <2>2. /\ Len(p.legs) \in Nat /\ DOMAIN p.legs = 1..Len(p.legs)
        /\ \A i \in 1..Len(p.legs) : p.legs[i] \in [type : Types, metres : Nat]
    BY <2>1, LenProperties, ElementOfSeq
  <2> QED
    BY <2>1, <2>2
<1> DEFINE n == Len(p.legs)
           W(k) == IF p.legs[k].type \in types THEN p.legs[k].metres ELSE 0
           w == [k \in 1..n |-> W(k)]
           IsSum(s) == s = [k \in 0..n |-> IF k = 0 THEN 0 ELSE s[k - 1] + W(k)]
           total == CHOOSE s : IsSum(s)
<1>2. \A k \in 1..n : W(k) \in Nat /\ w[k] = W(k)
  BY <1>1
<1>3. Metres(p, types) = total[n]
  BY DEF Metres
<1>4. \E s : IsSum(s)
  <2>1. \A k \in 1..n : w[k] \in Nat
    BY <1>2
  <2> HIDE DEF w
  <2>2. PICK s : s = [k \in 0..n |-> IF k = 0 THEN 0 ELSE s[k - 1] + w[k]]
    BY <1>1, <2>1, TotalsExist
  <2> HIDE DEF W, n
  <2>3. \A k \in 0..n : k # 0 => w[k] = W(k)
    BY <1>1, <1>2 DEF n
  <2>4. IsSum(s)
    BY <2>2, <2>3
  <2> QED
    BY <2>4
<1>5. IsSum(total)
  <2> HIDE DEF IsSum
  <2> QED
    BY <1>4
<1> HIDE DEF total, W
<1>6. total[0] = 0 /\ \A k \in 1..n : total[k] = total[k - 1] + W(k)
  <2>1. n \in Nat
    BY <1>1
  <2> HIDE DEF n
  <2>2. \A k \in 0..n : total[k] = IF k = 0 THEN 0 ELSE total[k - 1] + W(k)
    BY <1>5
  <2>3. 0 \in 0..n /\ \A k \in 1..n : k \in 0..n /\ k # 0
    BY <2>1
  <2> QED
    BY <2>2, <2>3
<1> HIDE DEF IsSum, n
<1> DEFINE Some(k) == \E i \in 1..k : W(i) > 0
           Right(k) == total[k] \in Nat /\ (total[k] > 0 <=> Some(k))
           Wrong == {k \in 0..n : ~Right(k)}
<1>7. \A k \in 0..n : Right(k)
  <2> SUFFICES ASSUME Wrong # {} PROVE FALSE
    OBVIOUS
  <2>1. n \in Nat /\ Wrong \in SUBSET Nat
    BY <1>1 DEF n
  <2>2. PICK k \in Wrong : \A m \in Wrong : k <= m
    <3> HIDE DEF Wrong
    <3> QED
      BY <2>1, LeastNatural
  <2>3. k \in 0..n /\ ~Right(k) /\ k \in Nat
    BY <2>1
  <2>4. Right(0)
    BY <1>6
  <2>5. k - 1 \in 0..n /\ k \in 1..n
    <3>1. k # 0
      <4> HIDE DEF Right
      <4> QED
        BY <2>3, <2>4
    <3> QED
      BY <2>1, <2>3, <3>1
  <2>6. Right(k - 1)
    <3> HIDE DEF Right
    <3> QED
      BY <2>2, <2>3, <2>5
  <2>7. total[k] = total[k - 1] + W(k) /\ W(k) \in Nat
    BY <1>2, <1>6, <2>5
  <2>8. Some(k) <=> Some(k - 1) \/ W(k) > 0
    <3>1. 1..k = 1..(k - 1) \cup {k}
      BY <2>3, <2>5
    <3> QED
      BY <3>1
  <2>9. Right(k)
    <3> HIDE DEF Some
    <3> QED
      BY <2>6, <2>7, <2>8
  <2> QED
    BY <2>3, <2>9
<1>8. Right(n)
  BY <1>1, <1>7 DEF n
<1>9. Some(n) <=> \E i \in 1..n : p.legs[i].type \in types /\ p.legs[i].metres > 0
  BY DEF W
<1> QED
  BY <1>1, <1>3, <1>8, <1>9 DEF n

\* What suits the button, said of a path's legs.
Suits(p) ==
  CASE button = "bus" -> NoRails(p)
    [] button = "subway" -> TakesSubway(p)
    [] OTHER -> TRUE

LEMMA SuitsIs ==
  ASSUME NEW p \in PathKinds
  PROVE  /\ NoRails(p) <=> Rides(p) \subseteq BusLike
         /\ TakesSubway(p) <=> /\ Metres(p, {"subway"}) > 0
                               /\ Rides(p) \cap NonRoad = {}
<1>1. NoRails(p) <=> Rides(p) \subseteq BusLike
  BY DEF NoRails, Rides
<1>2. Metres(p, {"subway"}) > 0 <=>
        \E i \in DOMAIN p.legs : p.legs[i].type \in {"subway"} /\ p.legs[i].metres > 0
  BY MetresIs
<1>3. Rides(p) \cap NonRoad = {} <=> \A i \in DOMAIN p.legs : p.legs[i].type \notin NonRoad
  BY DEF Rides, NonRoad
<1> QED
  BY <1>1, <1>2, <1>3 DEF TakesSubway

\* The button keeps paths that suit it, in order, all of them but mostly-bus
\* ones, and some if there are any.
LEMMA FilterIs ==
  ASSUME NEW s \in Seq(PathKinds), Sorted(s), button \in Buttons
  PROVE  /\ Filter(s) \in Seq(PathKinds)
         /\ Sorted(Filter(s))
         /\ Within(Filter(s), s)
         /\ \A n \in DOMAIN Filter(s) : Suits(Filter(s)[n])
         /\ \A i \in DOMAIN s : Suits(s[i]) =>
              \/ \E n \in DOMAIN Filter(s) : Filter(s)[n] = s[i]
              \/ button = "subway" /\ ~LittleBus(s[i])
         /\ (\E i \in DOMAIN s : Suits(s[i])) => DOMAIN Filter(s) # {}
<1> DEFINE withSubway == {i \in DOMAIN s : /\ Metres(s[i], {"subway"}) > 0
                                           /\ Rides(s[i]) \cap NonRoad = {}}
           kept == {i \in withSubway : LittleBus(s[i])}
           busOnly == {i \in DOMAIN s : Rides(s[i]) \subseteq BusLike}
           rail == IF kept # {} THEN kept ELSE withSubway
<1>1. \A i \in DOMAIN s : s[i] \in PathKinds
  BY LenProperties, ElementOfSeq
<1>2. /\ busOnly = {i \in DOMAIN s : NoRails(s[i])}
      /\ withSubway = {i \in DOMAIN s : TakesSubway(s[i])}
  BY <1>1, SuitsIs
<1>3. Filter(s) = CASE button = "bus" -> At(s, busOnly)
                    [] button = "subway" -> At(s, rail)
                    [] OTHER -> s
  BY DEF Filter
<1>4. kept \subseteq withSubway /\ \A i \in withSubway : i \notin kept => ~LittleBus(s[i])
  OBVIOUS
<1> HIDE DEF busOnly, withSubway, kept
<1>5. CASE button = "bus"
  <2>1. Filter(s) = At(s, busOnly) /\ \A p : Suits(p) <=> NoRails(p)
    BY <1>3, <1>5 DEF Suits
  <2>2. busOnly \in SUBSET (DOMAIN s)
    BY <1>2
  <2> HIDE DEF busOnly
  <2>3. /\ At(s, busOnly) \in Seq(PathKinds)
        /\ \A n \in DOMAIN At(s, busOnly) : \E i \in busOnly : At(s, busOnly)[n] = s[i]
        /\ \A i \in busOnly : \E n \in DOMAIN At(s, busOnly) : At(s, busOnly)[n] = s[i]
        /\ Sorted(At(s, busOnly))
    BY <2>2, AtIs
  <2>4. ASSUME NEW n \in DOMAIN At(s, busOnly)
        PROVE  Suits(At(s, busOnly)[n]) /\ \E i \in DOMAIN s : At(s, busOnly)[n] = s[i]
    BY <1>2, <2>1, <2>3
  <2>5. ASSUME NEW i \in DOMAIN s, Suits(s[i])
        PROVE  \E n \in DOMAIN At(s, busOnly) : At(s, busOnly)[n] = s[i]
    BY <1>2, <2>1, <2>3, <2>5
  <2> QED
    BY <2>1, <2>3, <2>4, <2>5 DEF Within
<1>6. CASE button = "subway"
  <2>1. Filter(s) = At(s, rail) /\ \A p : Suits(p) <=> TakesSubway(p)
    BY <1>3, <1>6 DEF Suits
  <2>2. /\ rail \in SUBSET (DOMAIN s) /\ rail \subseteq withSubway
        /\ withSubway # {} => rail # {}
        /\ \A i \in withSubway : i \in rail \/ ~LittleBus(s[i])
    BY <1>2, <1>4
  <2> HIDE DEF rail
  <2>3. /\ At(s, rail) \in Seq(PathKinds)
        /\ \A n \in DOMAIN At(s, rail) : \E i \in rail : At(s, rail)[n] = s[i]
        /\ \A i \in rail : \E n \in DOMAIN At(s, rail) : At(s, rail)[n] = s[i]
        /\ Sorted(At(s, rail))
    BY <2>2, AtIs
  <2>4. ASSUME NEW n \in DOMAIN At(s, rail)
        PROVE  Suits(At(s, rail)[n]) /\ \E i \in DOMAIN s : At(s, rail)[n] = s[i]
    BY <1>2, <2>1, <2>2, <2>3
  <2>5. ASSUME NEW i \in DOMAIN s, Suits(s[i])
        PROVE  \/ \E n \in DOMAIN At(s, rail) : At(s, rail)[n] = s[i]
               \/ ~LittleBus(s[i])
    BY <1>2, <2>1, <2>2, <2>3, <2>5
  <2>6. (\E i \in DOMAIN s : Suits(s[i])) => DOMAIN At(s, rail) # {}
    BY <1>2, <2>1, <2>2, <2>3
  <2> QED
    BY <1>6, <2>1, <2>3, <2>4, <2>5, <2>6 DEF Within
<1>7. CASE button = "all"
  <2>1. Filter(s) = s /\ \A p : Suits(p)
    BY <1>3, <1>7 DEF Suits
  <2> QED
    BY <2>1 DEF Within
<1> QED
  BY <1>5, <1>6, <1>7 DEF Buttons

-----------------------------------------------------------------------------
\* The list is the button's part of the reply, fastest first and cut; the
\* subway path is the first of its kind; lines lie on their own legs.
FastestOfSubway ==
  FirstOf(ByTime(At(reply, {i \in DOMAIN reply : OnlySubway(reply[i])})), 1)

ListOfReply == FirstOf(Filter(ByTime(reply)), MaxOptions)

OptionsInv ==
  /\ reply \in Seq(PathKinds)
  /\ button \in Buttons
  /\ screen.pc \in {"asking", "listed", "drawn"}
  /\ screen = [pc |-> screen.pc, options |-> screen.options,
               lanes |-> screen.lanes, shapes |-> screen.shapes]
  /\ screen.pc = "asking" => screen.options = <<>>
  /\ screen.pc # "asking" => screen.options = ListOfReply
  /\ subway = <<>> \/ subway = FastestOfSubway
  /\ ShapesOnTheirLegs

\* The list of an answer.
LEMMA ListIs ==
  ASSUME reply \in Seq(PathKinds), button \in Buttons
  PROVE  LET f == Filter(ByTime(reply)) IN
         /\ ListOfReply \in Seq(PathKinds) /\ Len(ListOfReply) <= MaxOptions
         /\ DOMAIN ListOfReply = {i \in DOMAIN f : i <= MaxOptions}
         /\ \A i \in DOMAIN ListOfReply : ListOfReply[i] = f[i]
<1>1. ByTime(reply) \in Seq(PathKinds) /\ Sorted(ByTime(reply))
  BY ByTimeIs
<1>2. Filter(ByTime(reply)) \in Seq(PathKinds) /\ Sorted(Filter(ByTime(reply)))
  BY <1>1, FilterIs
<1>3. MaxOptions \in Nat \ {0}
  BY OptionsAssumption
<1> QED
  BY <1>2, <1>3, FirstOfIs DEF ListOfReply

\* The subway path is one of the reply and the fastest of its kind.
LEMMA SubwayIs ==
  ASSUME reply \in Seq(PathKinds)
  PROVE  /\ FastestOfSubway \in Seq(PathKinds) /\ Len(FastestOfSubway) <= 1
         /\ FastestOfSubway # <<>> =>
              \A i \in DOMAIN reply :
                OnlySubway(reply[i]) => FastestOfSubway[1].time <= reply[i].time
<1> DEFINE K == {i \in DOMAIN reply : OnlySubway(reply[i])}
           s == At(reply, K)
           t == ByTime(s)
<1>1. /\ s \in Seq(PathKinds)
      /\ \A i \in K : \E n \in DOMAIN s : s[n] = reply[i]
  <2>1. K \in SUBSET (DOMAIN reply)
    OBVIOUS
  <2> HIDE DEF K
  <2> QED
    BY <2>1, AtIs
<1>2. t \in Seq(PathKinds) /\ Within(s, t) /\ Sorted(t)
  <2> HIDE DEF s
  <2> QED
    BY <1>1, ByTimeIs
<1>3. FastestOfSubway = FirstOf(t, 1)
  BY DEF FastestOfSubway
<1> HIDE DEF s, t
<1>4. /\ FirstOf(t, 1) \in Seq(PathKinds) /\ Len(FirstOf(t, 1)) <= 1
      /\ DOMAIN FirstOf(t, 1) = {i \in DOMAIN t : i <= 1}
      /\ \A i \in DOMAIN FirstOf(t, 1) : FirstOf(t, 1)[i] = t[i]
  <2>1. PICK one \in Nat \ {0} : one = 1
    OBVIOUS
  <2>2. /\ FirstOf(t, one) \in Seq(PathKinds) /\ Len(FirstOf(t, one)) <= one
        /\ DOMAIN FirstOf(t, one) = {i \in DOMAIN t : i <= one}
        /\ \A i \in DOMAIN FirstOf(t, one) : FirstOf(t, one)[i] = t[i]
    BY <1>2, FirstOfIs
  <2> QED
    BY <2>1, <2>2
<1>5. /\ Len(t) \in Nat /\ DOMAIN t = 1..Len(t)
      /\ DOMAIN FirstOf(t, 1) = 1..Len(FirstOf(t, 1)) /\ Len(FirstOf(t, 1)) \in Nat
  BY <1>2, <1>4, LenProperties
<1>6. ASSUME NEW i \in DOMAIN reply, OnlySubway(reply[i]), FirstOf(t, 1) # <<>>
      PROVE  FirstOf(t, 1)[1].time <= reply[i].time
  <2>1. PICK n \in DOMAIN s : s[n] = reply[i]
    BY <1>1, <1>6
  <2>2. PICK k \in DOMAIN t : s[n] = t[k]
    BY <1>2 DEF Within
  <2>3. 1 \in DOMAIN t /\ 1 <= k
    BY <1>5, <2>2
  <2>4. t[1].time <= t[k].time
    BY <1>2, <2>2, <2>3 DEF Sorted
  <2>5. FirstOf(t, 1)[1] = t[1]
    BY <1>4, <2>3
  <2> QED
    BY <2>1, <2>2, <2>4, <2>5
<1> QED
  BY <1>3, <1>4, <1>6

\* The button's promise from the list as it was made.
LEMMA ListGetsItsRoutes == OptionsInv => ButtonGetsItsRoutes
<1> SUFFICES ASSUME OptionsInv, screen.pc # "asking" PROVE ButtonGetsItsRoutes
  BY DEF ButtonGetsItsRoutes
<1> DEFINE t == ByTime(reply)
           f == Filter(t)
           list == ListOfReply
           told == {screen.options[i] : i \in DOMAIN screen.options}
           fit == {reply[i] : i \in {j \in DOMAIN reply : Suits(reply[j])}}
<1>1. /\ reply \in Seq(PathKinds) /\ button \in Buttons /\ screen.options = list
  BY DEF OptionsInv
<1>2. t \in Seq(PathKinds) /\ Within(t, reply) /\ Within(reply, t) /\ Sorted(t)
  BY <1>1, ByTimeIs
<1> HIDE DEF t
<1>3. /\ f \in Seq(PathKinds) /\ Sorted(f) /\ Within(f, t)
      /\ \A n \in DOMAIN f : Suits(f[n])
      /\ \A i \in DOMAIN t : Suits(t[i]) =>
           \/ \E n \in DOMAIN f : f[n] = t[i]
           \/ button = "subway" /\ ~LittleBus(t[i])
      /\ (\E i \in DOMAIN t : Suits(t[i])) => DOMAIN f # {}
  BY <1>1, <1>2, FilterIs
<1>4. /\ list \in Seq(PathKinds)
      /\ DOMAIN list = {i \in DOMAIN f : i <= MaxOptions}
      /\ \A i \in DOMAIN list : list[i] = f[i]
  BY <1>1, ListIs DEF t
<1> HIDE DEF f
<1>5. /\ Len(f) \in Nat /\ DOMAIN f = 1..Len(f) /\ MaxOptions \in Nat \ {0}
      /\ DOMAIN list = 1..Len(list) /\ Len(list) \in Nat
  BY <1>3, <1>4, LenProperties, OptionsAssumption
<1> HIDE DEF list
<1>6. told = {list[i] : i \in DOMAIN list}
  BY <1>1
<1>7. ASSUME NEW p \in told
      PROVE  /\ \E i \in DOMAIN reply : p = reply[i]
             /\ p \in fit
             /\ \E i \in DOMAIN list : p = f[i]
  <2>1. PICK i \in DOMAIN list : p = list[i]
    BY <1>6
  <2>2. i \in DOMAIN f /\ p = f[i]
    BY <1>4, <2>1
  <2>3. PICK k \in DOMAIN t : p = t[k]
    BY <1>3, <2>2 DEF Within
  <2>4. PICK j \in DOMAIN reply : p = reply[j]
    BY <1>2, <2>3 DEF Within
  <2>5. Suits(p)
    BY <1>3, <2>2
  <2> QED
    BY <2>1, <2>2, <2>4, <2>5
<1>8. ASSUME NEW q \in fit
      PROVE  \E k \in DOMAIN t : q = t[k] /\ Suits(t[k])
  <2>1. PICK j \in DOMAIN reply : q = reply[j] /\ Suits(q)
    OBVIOUS
  <2> QED
    BY <1>2, <2>1 DEF Within
<1>9. fit # {} => told # {}
  <2> SUFFICES ASSUME fit # {} PROVE told # {}
    OBVIOUS
  <2>1. DOMAIN f # {}
    BY <1>3, <1>8
  <2>2. 1 \in DOMAIN list
    BY <1>4, <1>5, <2>1
  <2> QED
    BY <1>6, <2>2
<1>10. ASSUME NEW p \in told, NEW q \in fit \ told
       PROVE  p.time <= q.time \/ (button = "subway" /\ ~LittleBus(q))
  <2>1. PICK k \in DOMAIN t : q = t[k] /\ Suits(t[k])
    BY <1>8
  <2> SUFFICES ASSUME NEW n \in DOMAIN f, f[n] = q
               PROVE  p.time <= q.time
    BY <1>3, <2>1
  <2>2. PICK i \in DOMAIN list : p = f[i]
    BY <1>7
  <2>3. n \notin DOMAIN list
    BY <1>4, <1>6
  <2>4. i \in DOMAIN f /\ i <= n
    BY <1>4, <1>5, <2>2, <2>3
  <2> QED
    BY <1>3, <2>2, <2>4 DEF Sorted
<1>11. ASSUME subway # <<>>, NEW p \in told, OnlySubway(p)
       PROVE  subway[1].time <= p.time
  <2>1. subway = FastestOfSubway
    BY <1>11 DEF OptionsInv
  <2>2. PICK i \in DOMAIN reply : p = reply[i]
    BY <1>7
  <2> QED
    BY <1>1, <1>11, <2>1, <2>2, SubwayIs
<1> HIDE DEF told, fit
<1>12. /\ told \subseteq fit
       /\ fit # {} => told # {}
       /\ \A p \in told, q \in fit \ told :
            p.time <= q.time \/ (button = "subway" /\ ~LittleBus(q))
       /\ subway # <<>> => \A p \in told : OnlySubway(p) => subway[1].time <= p.time
  BY <1>7, <1>9, <1>10, <1>11
<1> QED
  BY <1>12 DEF ButtonGetsItsRoutes, told, fit, Suits

\* Each line drawn is that of its leg, or straight.
LEMMA MergedIs ==
  ASSUME NEW path \in PathKinds, NEW lanes \in Lanes(path)
  PROVE  \A i \in DOMAIN Merged(path, lanes) : Merged(path, lanes)[i] \in {0, i}
<1> DEFINE K == Ridden(path)
           s == InOrder(K)
<1>1. /\ Len(path.legs) \in Nat /\ K \in SUBSET (1..Len(path.legs))
      /\ IsFiniteSet(1..Len(path.legs)) /\ IsFiniteSet(K)
  <2>1. path.legs \in Seq([type : Types, metres : Nat])
    BY OptionsAssumption
  <2>2. Len(path.legs) \in Nat /\ DOMAIN path.legs = 1..Len(path.legs)
    BY <2>1, LenProperties
  <2>3. K \in SUBSET (1..Len(path.legs)) /\ IsFiniteSet(1..Len(path.legs))
    BY <2>2, FS_Interval DEF Ridden
  <2> QED
    BY <2>2, <2>3, FS_Subset
<1>2. PICK came \in SUBSET K :
        \E drop \in SUBSET DOMAIN InOrder(came) :
          lanes = [n \in DOMAIN InOrder(came) |-> IF n \in drop THEN 0 ELSE InOrder(came)[n]]
  BY DEF Lanes
<1>3. PICK drop \in SUBSET DOMAIN InOrder(came) :
        lanes = [n \in DOMAIN InOrder(came) |-> IF n \in drop THEN 0 ELSE InOrder(came)[n]]
  BY <1>2
<1>4. /\ came \in SUBSET (1..Len(path.legs))
      /\ DOMAIN InOrder(came) = 1..Cardinality(came) /\ Cardinality(came) \in Nat
      /\ \A n \in 1..Cardinality(came) : InOrder(came)[n] \in came
  BY <1>1, InOrderIs
<1> SUFFICES ASSUME NEW i \in DOMAIN Merged(path, lanes),
                    Merged(path, lanes)[i] # 0
             PROVE  Merged(path, lanes)[i] = i
  OBVIOUS
<1> DEFINE at == {n \in DOMAIN lanes : s[n] = i}
<1>5. /\ Fits(path, lanes) /\ at # {}
      /\ Merged(path, lanes)[i] = lanes[CHOOSE n \in at : TRUE]
  BY DEF Merged
<1>6. Len(lanes) = Cardinality(came) /\ DOMAIN lanes = DOMAIN InOrder(came)
  <2>1. lanes \in [1..Cardinality(came) -> Nat]
    <3>1. \A n \in 1..Cardinality(came) : InOrder(came)[n] \in Nat
      <4>1. 1..Len(path.legs) \subseteq Nat
        BY <1>1
      <4>2. came \subseteq Nat
        BY <1>4, <4>1
      <4> QED
        BY <1>4, <4>2
    <3> QED
      BY <1>3, <1>4, <3>1
  <2>2. lanes \in Seq(Nat)
    BY <1>4, <2>1, SeqDef
  <2> QED
    BY <1>4, <2>1, <2>2, LenProperties
<1>7. came = K
  BY <1>1, <1>5, <1>6, FS_Subset DEF Fits
<1>8. PICK n \in at : Merged(path, lanes)[i] = lanes[n]
  BY <1>5
<1> QED
  BY <1>3, <1>6, <1>7, <1>8

LEMMA OptionsBegin == OptionsInit => OptionsInv
<1> SUFFICES ASSUME OptionsInit PROVE OptionsInv
  OBVIOUS
<1>1. reply \in Seq(PathKinds)
  <2>1. PICK m \in 0..MaxPaths : reply \in [1..m -> PathKinds]
    BY DEF OptionsInit, SeqOf
  <2>2. m \in Nat
    BY OptionsAssumption
  <2> QED
    BY <2>1, <2>2, SeqDef
<1> QED
  BY <1>1 DEF OptionsInit, OptionsInv, ShapesOnTheirLegs

LEMMA ListStays ==
  ASSUME UNCHANGED <<reply, button>>
  PROVE  ListOfReply' = ListOfReply /\ FastestOfSubway' = FastestOfSubway
<1>1. reply' = reply /\ button' = button
  OBVIOUS
<1>2. ListOfReply' = ListOfReply
  BY <1>1 DEF ListOfReply, Filter
<1>3. FastestOfSubway' = FastestOfSubway
  BY <1>1 DEF FastestOfSubway
<1> QED
  BY <1>2, <1>3

LEMMA OptionsStep == OptionsInv /\ [OptionsNext]_optionVars => OptionsInv'
<1> SUFFICES ASSUME OptionsInv, [OptionsNext]_optionVars PROVE OptionsInv'
  OBVIOUS
<1>1. CASE List
  <2>1. /\ UNCHANGED <<reply, button, subway>>
        /\ screen' = [screen EXCEPT !.pc = "listed", !.options = ListOfReply]
    BY <1>1 DEF List, ListOfReply
  <2>2. ListOfReply' = ListOfReply /\ FastestOfSubway' = FastestOfSubway
    BY <2>1, ListStays
  <2>3. screen' = [pc |-> "listed", options |-> ListOfReply,
                   lanes |-> screen.lanes, shapes |-> screen.shapes]
    BY <2>1 DEF OptionsInv
  <2>4. /\ screen'.pc = "listed" /\ screen'.options = ListOfReply
        /\ screen'.lanes = screen.lanes /\ screen'.shapes = screen.shapes
    BY <2>3
  <2>5. screen'.options = ListOfReply'
    BY <2>2, <2>4
  <2>6. ShapesOnTheirLegs'
    BY <2>4 DEF OptionsInv, ShapesOnTheirLegs
  <2> QED
    BY <2>1, <2>2, <2>3, <2>4, <2>5, <2>6 DEF OptionsInv
<1>2. CASE FastestSubway
  <2>1. UNCHANGED <<reply, button, screen>> /\ subway' = FastestOfSubway
    BY <1>2 DEF FastestSubway, FastestOfSubway
  <2>2. ListOfReply' = ListOfReply /\ FastestOfSubway' = FastestOfSubway
    BY <2>1, ListStays
  <2>3. ShapesOnTheirLegs'
    BY <2>1 DEF OptionsInv, ShapesOnTheirLegs
  <2> QED
    BY <2>1, <2>2, <2>3 DEF OptionsInv
<1>3. CASE Draw
  <2>1. screen.pc = "listed" /\ screen.options # <<>> /\ UNCHANGED <<reply, button, subway>>
    BY <1>3 DEF Draw
  <2>2. PICK lanes \in Lanes(screen.options[1]) :
          screen' = [screen EXCEPT !.pc = "drawn", !.lanes = lanes,
                                   !.shapes = Merged(screen.options[1], lanes)]
    BY <1>3 DEF Draw
  <2>3. ListOfReply' = ListOfReply /\ FastestOfSubway' = FastestOfSubway
    BY <2>1, ListStays
  <2> DEFINE drawn == Merged(screen.options[1], lanes)
  <2>4. \A i \in DOMAIN drawn : drawn[i] \in {0, i}
    <3>1. screen.options = ListOfReply /\ ListOfReply \in Seq(PathKinds)
      BY <2>1, ListIs DEF OptionsInv
    <3>2. screen.options[1] \in PathKinds
      BY <2>1, <3>1, LenProperties, ElementOfSeq, EmptySeq
    <3> QED
      BY <2>2, <3>2, MergedIs
  <2> HIDE DEF drawn
  <2>5. screen' = [pc |-> "drawn", options |-> screen.options,
                   lanes |-> lanes, shapes |-> drawn]
    BY <2>2 DEF OptionsInv, drawn
  <2>6. /\ screen'.pc = "drawn" /\ screen'.options = screen.options
        /\ screen'.lanes = lanes /\ screen'.shapes = drawn
    BY <2>5
  <2>7. ShapesOnTheirLegs'
    BY <2>4, <2>6 DEF ShapesOnTheirLegs
  <2>8. screen'.options = ListOfReply'
    BY <2>1, <2>3, <2>6 DEF OptionsInv
  <2> QED
    BY <2>1, <2>3, <2>5, <2>6, <2>7, <2>8 DEF OptionsInv
<1>4. CASE UNCHANGED optionVars
  <2>1. UNCHANGED <<reply, button, screen, subway>>
    BY <1>4 DEF optionVars
  <2>2. ListOfReply' = ListOfReply /\ FastestOfSubway' = FastestOfSubway
    BY <2>1, ListStays
  <2>3. ShapesOnTheirLegs'
    BY <2>1 DEF OptionsInv, ShapesOnTheirLegs
  <2> QED
    BY <2>1, <2>2, <2>3 DEF OptionsInv
<1> QED
  BY <1>1, <1>2, <1>3, <1>4 DEF OptionsNext

LEMMA OptionsInvariant == OptionsSpec => []OptionsInv
BY OptionsBegin, OptionsStep, PTL DEF OptionsSpec

\* Lists are cut and hold the provider's paths, for any paths and sizes.
THEOREM OptionsTypeCorrect == OptionsSpec => []OptionsTypeOK
<1>1. OptionsInv => OptionsTypeOK
  <2> SUFFICES ASSUME OptionsInv PROVE OptionsTypeOK
    OBVIOUS
  <2>1. ListOfReply \in Seq(PathKinds) /\ Len(ListOfReply) <= MaxOptions
    BY ListIs DEF OptionsInv
  <2>2. FastestOfSubway \in Seq(PathKinds) /\ Len(FastestOfSubway) <= 1
    BY SubwayIs DEF OptionsInv
  <2>3. /\ <<>> \in Seq(PathKinds) /\ Len(<<>>) = 0 /\ MaxOptions \in Nat
    BY OptionsAssumption, EmptySeq
  <2>4. screen.options \in Seq(PathKinds) /\ Len(screen.options) <= MaxOptions
    <3>1. screen.options = <<>> \/ screen.options = ListOfReply
      BY DEF OptionsInv
    <3>2. CASE screen.options = <<>>
      BY <2>3, <3>2
    <3>3. CASE screen.options = ListOfReply
      BY <2>1, <3>3
    <3> QED
      BY <3>1, <3>2, <3>3
  <2>5. Len(subway) <= 1
    BY <2>2, <2>3 DEF OptionsInv
  <2>6. \A i \in DOMAIN screen.options : screen.options[i] \in PathKinds
    BY <2>4, LenProperties, ElementOfSeq
  <2>7. \A i \in DOMAIN reply : reply[i] \in PathKinds
    BY LenProperties, ElementOfSeq DEF OptionsInv
  <2> QED
    BY <2>4, <2>5, <2>6, <2>7 DEF OptionsInv, OptionsTypeOK
<1> QED
  BY <1>1, OptionsInvariant, PTL

\* The button gets its routes and lines lie on their own legs, for any paths
\* the provider sends, any length of the list and any bus ratio.
THEOREM TransitIsDrawnTrueAlone ==
  OptionsSpec => [](ButtonGetsItsRoutes /\ ShapesOnTheirLegs)
<1>1. OptionsInv => ButtonGetsItsRoutes /\ ShapesOnTheirLegs
  BY ListGetsItsRoutes DEF OptionsInv
<1> QED
  BY <1>1, OptionsInvariant, PTL

-----------------------------------------------------------------------------
\* The course table holds courses of the provider and a run is on a page it may
\* ask for.
LEMMA SyncBegins == SyncInit => SyncTypeOK
BY CoursesAssumption DEF SyncInit, SyncTypeOK, Idle

LEMMA SyncStep == SyncTypeOK /\ [SyncNext]_syncVars => SyncTypeOK'
<1> SUFFICES ASSUME SyncTypeOK, [SyncNext]_syncVars PROVE SyncTypeOK'
  OBVIOUS
<1> DEFINE Run == [pc : {"idle", "counting", "fetching", "storing", "ended"},
                   page : 1..MaxCoursePages, left : SUBSET Courses]
<1>1. /\ MaxCoursePages \in Nat \ {0} /\ LastCourse \in Nat /\ MaxRestarts \in Nat
      /\ Courses \subseteq Nat
  BY CoursesAssumption DEF Courses
<1>2. table \subseteq Courses /\ run \in [Runs -> Run] /\ restarts \in 0..MaxRestarts
  BY DEF SyncTypeOK
<1>3. Idle \in Run /\ [Idle EXCEPT !.pc = "counting"] \in Run /\ Forced \in Run
  BY <1>1 DEF Idle, Forced
<1>4. ASSUME run' \in [Runs -> Run], table' \subseteq Courses,
             UNCHANGED <<up, restarts, healthy>>
      PROVE  SyncTypeOK'
  BY <1>4 DEF SyncTypeOK
<1>5. ASSUME NEW r \in Runs, RunStep(r)
      PROVE  run' \in [Runs -> Run] /\ UNCHANGED <<up, restarts, healthy>>
  <2>1. ASSUME End(r) PROVE run' \in [Runs -> Run]
    BY <1>2, <2>1 DEF End
  <2>2. ASSUME Done(r) PROVE run' \in [Runs -> Run]
    BY <1>2, <2>2 DEF Done
  <2>3. CASE Count(r)
    BY <1>2, <2>1, <2>3 DEF Count
  <2>4. CASE FetchPage(r)
    BY <1>2, <2>1, <2>4 DEF FetchPage, PageOf
  <2>5. CASE PageFails(r)
    BY <2>1, <2>5 DEF PageFails
  <2>6. CASE StoreCourse(r) \/ SkipCourse(r)
    BY <2>2, <2>6 DEF StoreCourse, SkipCourse
  <2>7. CASE NextPage(r)
    BY <1>1, <1>2, <2>1, <2>7 DEF NextPage
  <2> QED
    BY <1>5, <2>3, <2>4, <2>5, <2>6, <2>7
       DEF RunStep, Count, FetchPage, PageFails, StoreCourse, SkipCourse, NextPage
<1>6. ASSUME NEW r \in Runs, RunStep(r)
      PROVE  table' \subseteq Courses
  <2>1. CASE StoreCourse(r)
    <3>1. run[r].left \subseteq Courses /\ run[r].left # {}
      BY <1>2, <2>1 DEF StoreCourse
    <3>2. \E c \in run[r].left : \A d \in run[r].left : c <= d
      BY <1>1, <3>1, LeastNatural
    <3>3. Next1(run[r].left) \in run[r].left
      BY <3>2 DEF Next1
    <3> QED
      BY <1>2, <2>1, <3>1, <3>3 DEF StoreCourse
  <2>2. CASE UNCHANGED table
    BY <1>2, <2>2
  <2> QED
    BY <1>6, <2>1, <2>2 DEF RunStep, Count, FetchPage, PageFails, SkipCourse, NextPage
<1>7. CASE Weekly
  BY <1>2, <1>3, <1>7 DEF Weekly, SyncTypeOK, Runs
<1>8. CASE StopHub
  <2>1. restarts' \in 0..MaxRestarts
    BY <1>1, <1>2, <1>8 DEF StopHub
  <2>2. run' \in [Runs -> Run]
    BY <1>3, <1>8 DEF StopHub
  <2> QED
    BY <1>8, <2>1, <2>2 DEF StopHub, SyncTypeOK
<1>9. CASE BootHub
  BY <1>2, <1>3, <1>9 DEF BootHub, Begun, SyncTypeOK, Runs
<1>10. CASE Heal
  BY <1>10 DEF Heal, SyncTypeOK
<1>11. CASE UNCHANGED syncVars
  BY <1>11 DEF syncVars, SyncTypeOK
<1> QED
  BY <1>4, <1>5, <1>6, <1>7, <1>8, <1>9, <1>10, <1>11 DEF SyncNext

-----------------------------------------------------------------------------
\* The two polling processes, of which ShortTermPolling_proofs speaks.
Shown ==
  INSTANCE ShortTermPolling_proofs
    WITH clock <- units, calm <- quiet, Grids <- {"grid"}, SlotUnits <- 12,
         MarginUnits <- 2, TtlUnits <- 24, DeadlineUnits <- 4,
         FireMarks <- {0, 3}, CalmCap <- 0, RecoveryUnits <- 1, LoadUnits <- 0

LEMMA PollingFits == Shown!UnitsAssumption /\ Shown!LifeAssumption
<1>1. Shown!UnitsAssumption
  <2>1. IsFiniteSet({"grid"})
    BY FS_Singleton
  <2>2. {12, 4} \subseteq Nat \ {0}
    OBVIOUS
  <2>3. {2, 24, 0, 1, 0} \subseteq Nat
    OBVIOUS
  <2>4. {0, 3} \subseteq 0..(12 - 1)
    OBVIOUS
  <2> QED
    BY <2>1, <2>2, <2>3, <2>4 DEF Shown!UnitsAssumption, Shown!IsFiniteSet, IsFiniteSet
<1>2. Shown!LifeAssumption
  BY DEF Shown!LifeAssumption
<1> QED
  BY <1>1, <1>2

LEMMA PollingIsShown ==
  /\ Polling!Init <=> Shown!Init
  /\ [Polling!Next]_polling <=> [Shown!Next]_Shown!vars
  /\ Polling!Tick <=> Shown!Tick
<1> USE DEF
  Polling!Gone, Polling!Idle, Polling!Started, Polling!Running, Polling!PastDeadline,
  Polling!SetLoop, Polling!ExitLoop, Polling!Upsert, Polling!Store, Polling!Fail,
  Polling!Expired, Shown!Gone, Shown!Idle, Shown!Started, Shown!Running,
  Shown!PastDeadline, Shown!SetLoop, Shown!ExitLoop, Shown!Upsert, Shown!Store, Shown!Fail,
  Shown!Expired
<1>1. Polling!Init <=> Shown!Init
  BY DEF Polling!Init, Shown!Init
<1>2. /\ Polling!Tick <=> Shown!Tick
      /\ Polling!Housekeep <=> Shown!Housekeep
  BY DEF Polling!Tick, Shown!Tick, Polling!Housekeep, Shown!Housekeep
<1>3. ASSUME NEW g
      PROVE  Polling!ToggleGrid(g) <=> Shown!ToggleGrid(g)
  BY DEF Polling!ToggleGrid, Shown!ToggleGrid
<1>4. ASSUME NEW h
      PROVE  /\ Polling!FireJob(h) <=> Shown!FireJob(h)
             /\ Polling!RunNow(h) <=> Shown!RunNow(h)
             /\ Polling!Restart(h) <=> Shown!Restart(h)
  BY DEF Polling!FireJob, Shown!FireJob, Polling!RunNow, Shown!RunNow,
         Polling!Restart, Shown!Restart
<1>5. ASSUME NEW h
      PROVE  Polling!LoopStep(h) <=> Shown!LoopStep(h)
  <2>1. \A base : /\ Polling!Loaded(base) = Shown!Loaded(base)
                  /\ Polling!MayHold(base) = Shown!MayHold(base)
    BY DEF Polling!Loaded, Shown!Loaded, Polling!MayHold, Shown!MayHold
  <2>2. Polling!Round(h) <=> Shown!Round(h)
    BY <2>1 DEF Polling!Round, Shown!Round, Polling!Cardinality, Shown!Cardinality
  <2>3. /\ Polling!RoundRaises(h) <=> Shown!RoundRaises(h)
        /\ Polling!EndRound(h) <=> Shown!EndRound(h)
    BY DEF Polling!RoundRaises, Shown!RoundRaises, Polling!EndRound, Shown!EndRound
  <2>4. \A g : Polling!PollGrid(h, g) <=> Shown!PollGrid(h, g)
    BY DEF Polling!PollGrid, Shown!PollGrid
  <2> QED
    BY <2>2, <2>3, <2>4 DEF Polling!LoopStep, Shown!LoopStep
<1>6. Polling!Next <=> Shown!Next
  BY <1>2, <1>3, <1>4, <1>5 DEF Polling!Next, Shown!Next
<1>7. UNCHANGED polling <=> UNCHANGED Shown!vars
  BY DEF polling, Shown!vars
<1> QED
  BY <1>1, <1>2, <1>6, <1>7

-----------------------------------------------------------------------------
\* Side by side the parts move as they do alone.
LEMMA PartsMove ==
  ASSUME [MCNext]_hub
  PROVE  /\ [LegsNext]_legVars /\ [LookupsNext]_lookupVars /\ [ProcessNext]_processVars
         /\ [WeatherNext]_weatherVars /\ [AirNext]_airVars /\ [KmaNext]_kmaVars
         /\ [SyncNext]_syncVars /\ [OptionsNext]_optionVars /\ [Polling!Next]_polling
<1>1. CASE MCNext
  BY <1>1 DEF MCNext
<1>2. CASE UNCHANGED hub
  BY <1>2 DEF hub
<1> QED
  BY <1>1, <1>2

\* Each part begins in an initial state of its own, whichever part moves.
LEMMA PartsBegin ==
  MCInit => /\ LegsInit /\ LookupsInit /\ ProcessInit /\ WeatherInit /\ AirInit /\ KmaInit
            /\ SyncInit /\ OptionsInit /\ Polling!Init
<1> SUFFICES ASSUME MCInit, part # "options" PROVE OptionsInit
  BY DEF MCInit
<1>1. reply \in SeqOf(PathKinds, MaxPaths)
  <2>1. 0 \in 0..MaxPaths
    BY OptionsAssumption
  <2>2. <<>> \in [1..0 -> PathKinds]
    OBVIOUS
  <2> QED
    BY <2>1, <2>2 DEF MCInit, SeqOf
<1> QED
  BY <1>1 DEF MCInit, OptionsInit, Buttons

\* A hub behaves as every one of its parts.
LEMMA PartsBehave ==
  MCSpec => /\ LegsSpec /\ LookupsSpec /\ ProcessSpec /\ WeatherSpec /\ AirSpec /\ KmaSpec
            /\ OptionsSpec /\ Shown!Spec
            /\ SyncInit /\ [][SyncNext]_syncVars
<1>1. [MCNext]_hub => /\ [LegsNext]_legVars /\ [LookupsNext]_lookupVars
                      /\ [ProcessNext]_processVars /\ [WeatherNext]_weatherVars
                      /\ [AirNext]_airVars /\ [KmaNext]_kmaVars
                      /\ [SyncNext]_syncVars /\ [OptionsNext]_optionVars
                      /\ [Shown!Next]_Shown!vars
  BY PartsMove, PollingIsShown
<1>2. MCInit => Shown!Init
  BY PartsBegin, PollingIsShown
<1> QED
  BY <1>1, <1>2, PartsBegin, PTL
     DEF MCSpec, LegsSpec, LookupsSpec, ProcessSpec, WeatherSpec, AirSpec, KmaSpec,
         OptionsSpec, Shown!Spec

\* Whichever part moves, the state of every part of the hub is well typed.
THEOREM HubTypesCorrect == MCSpec => []HubTypeOK
<1>1. LegsInv => LegsTypeOK
  BY DEF LegsInv
<1>2. WeatherInv => WeatherTypeOK
  BY DEF WeatherInv
<1>3. AirInv => AirTypeOK
  BY DEF AirInv
<1>4. KmaInv => KmaTypeOK
  BY DEF KmaInv
<1>5. ProcessInv => ProcessTypeOK
  BY DEF ProcessInv
<1>6. Shown!TypeOK => Polling!TypeOK
  BY DEF Shown!TypeOK, Polling!TypeOK, Shown!Gone, Polling!Gone, Shown!Loop, Polling!Loop,
         Shown!Cardinality, Polling!Cardinality
<1>7. Shown!Spec => []Shown!TypeOK
  BY PollingFits, Shown!TypeCorrect
<1>8. SyncInit /\ [][SyncNext]_syncVars => []SyncTypeOK
  BY SyncBegins, SyncStep, PTL
<1>9. HubTypeOK <=>
        /\ LegsTypeOK /\ LookupsTypeOK /\ WeatherTypeOK /\ AirTypeOK /\ SyncTypeOK
        /\ KmaTypeOK /\ ProcessTypeOK /\ OptionsTypeOK /\ Polling!TypeOK
  BY DEF HubTypeOK
<1> QED
  BY <1>1, <1>2, <1>3, <1>4, <1>5, <1>6, <1>7, <1>8, <1>9, PartsBehave, LegsInvariant,
     LookupsTypeCorrect, WeatherInvariant, AirInvariant, KmaInvariant, ProcessInvariant,
     OptionsTypeCorrect, PTL

\* Two processes that overlap never take a grid's rows back to an earlier
\* edition: the theorem of ShortTermPolling_proofs, in the hub.
THEOREM HubEditionNeverRegresses == MCSpec => EditionNeverRegresses
<1>1. Shown!Spec => Shown!EditionNeverRegresses
  BY PollingFits, Shown!EditionNeverRegressesAlways
<1> DEFINE Later(gone) ==
      \A g \in {"grid"} : age'[g] <= age[g] \/ age'[g] = gone
<1>2. [~Shown!Tick => Later(Shown!Gone)]_Shown!vars
        => [~Polling!Tick => Later(Polling!Gone)]_Polling!vars
  BY PollingIsShown DEF Shown!Gone, Polling!Gone, Shown!vars, Polling!vars
<1>3. Shown!EditionNeverRegresses => EditionNeverRegresses
  BY <1>2, PTL DEF Shown!EditionNeverRegresses, EditionNeverRegresses,
                   Polling!EditionNeverRegresses
<1> QED
  BY <1>1, <1>3, PartsBehave, PTL

\* GET /v1/weather/now is honest wherever the hub is: both halves hold of the
\* hub with all its parts.
THEOREM WeatherIsHonestAlways == MCSpec => []WeatherIsHonest
<1>1. ComparesWithEarlierDay /\ AirTellsItsHour => WeatherIsHonest
  BY DEF WeatherIsHonest
<1> QED
  BY <1>1, PartsBehave, ComparesWithEarlierDayAlways, AirTellsItsHourAlways, PTL

\* What the screen shows of the paths is true wherever the hub is.
THEOREM TransitIsDrawnTrueAlways == MCSpec => []TransitIsDrawnTrue
<1>1. ButtonGetsItsRoutes /\ ShapesOnTheirLegs => TransitIsDrawnTrue
  BY DEF TransitIsDrawnTrue
<1> QED
  BY <1>1, PartsBehave, TransitIsDrawnTrueAlone, PTL

\* The properties of lookups, roads, editions and of the process's end hold
\* wherever the hub is: what is proved of each part alone, in the hub.
THEOREM HubKeepsItsPartsPromises ==
  MCSpec => [](/\ OkHoldsAllSought /\ ForgetsTrouble /\ LegsOfConfiguredData
               /\ WholeEdition /\ EngineOutlivesStartup)
  BY PartsBehave, OkHoldsAllSoughtAlways, ForgetsTroubleAlways, ConfiguredDataOnly,
     WholeEditionAlways, EngineOutlivesStartupAlways, PTL
=============================================================================
