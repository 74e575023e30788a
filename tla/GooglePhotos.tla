---------------------------- MODULE GooglePhotos ----------------------------
(***************************************************************************)
(* Pictures of a place: _google_photos and its endpoint's time limit       *)
(* (routers/hub_routers.py) on top of DailyBudget.  A request finds the    *)
(* place id (cached, a known absence too), asks for the pictures' names,   *)
(* cuts the list to GOOGLE_PHOTOS_MAX_COUNT, asks the budget for as many   *)
(* units as are left and has all the URLs issued in parallel.  wait_for    *)
(* may cancel it at any await.                                             *)
(*                                                                         *)
(* A budget call of DailyBudget is the call of the request of that name;   *)
(* Amount[c] is how many pictures c asks for after the cut.  Modelled      *)
(* is the deployment with a key and Redis; without a client the answer is  *)
(* empty at once.                                                          *)
(***************************************************************************)
EXTENDS DailyBudget

VARIABLES
  photo,    \* photo[c]: where the coroutine of request c is
  placeId,  \* cache entry of the place, "absent" without one
  issued    \* history: requests whose URLs were asked of Google

photoVars == <<photo, placeId, issued>>
vars == <<budgetVars, photoVars>>

(***************************************************************************)
(* placing: in _google_place_id; naming: in fetch_photos; budget: in       *)
(* _google_media_allowed; issuing: the URLs are asked for; done: answered. *)
(***************************************************************************)
Phases == {"placing", "naming", "budget", "issuing", "done"}

PlaceIds == {"absent", "id", "none"}

PhotosTypeOK ==
  /\ TypeOK
  /\ photo \in [Calls -> Phases]
  /\ placeId \in PlaceIds
  /\ issued \subseteq Calls
  /\ \A c \in issued : call[c].status = "granted"

PhotosInit ==
  /\ Init
  /\ photo = [c \in Calls |-> "placing"]
  /\ placeId \in PlaceIds
  /\ issued = {}

-----------------------------------------------------------------------------
Enter(c, phase) == photo' = [photo EXCEPT ![c] = phase]

\* The head of _google_place_id: a cached id leads on, a cached absence ends
\* the request.
CachedPlaceId(c) ==
  /\ photo[c] = "placing"
  /\ \/ placeId = "id" /\ Enter(c, "naming")
     \/ placeId = "none" /\ Enter(c, "done")
  /\ UNCHANGED <<budgetVars, placeId, issued>>

\* No entry when the request read it, or a failing Redis: Google is asked.  An
\* id is cached (set_json may fail) ...
SearchPlaceId(c) ==
  /\ photo[c] = "placing"
  /\ Enter(c, "naming")
  /\ placeId' \in {placeId, "id"}
  /\ UNCHANGED <<budgetVars, issued>>

\* ... and so is, for a shorter time, that there is none; a
\* GooglePlacesApiError of search_place_id ends the request without an entry.
PlaceNotFound(c) ==
  /\ photo[c] = "placing"
  /\ Enter(c, "done")
  /\ placeId' \in {placeId, "none"}
  /\ UNCHANGED <<budgetVars, issued>>

\* The entry's time to live is over.
PlaceIdExpires ==
  /\ placeId # "absent"
  /\ placeId' = "absent"
  /\ UNCHANGED <<budgetVars, photo, issued>>

\* fetch_photos: an error or a place without pictures ends the request.
FetchNames(c) ==
  /\ photo[c] = "naming"
  /\ Enter(c, "budget") \/ Enter(c, "done")
  /\ UNCHANGED <<budgetVars, placeId, issued>>

\* _google_media_allowed(len(metas)), step by step.
AskBudget(c) ==
  /\ photo[c] = "budget"
  /\ CallStep(c)
  /\ UNCHANGED photoVars

\* Mutant of MayIssue: the total is known and not yet judged.
MayIssueEarly(c) == call[c].status \in {"counted", "over", "granted"}

MayIssue(c) == call[c].status = "granted"

\* Allowed: fetch_photo_uri for every picture at once.
Issue(c) ==
  /\ photo[c] = "budget"
  /\ MayIssue(c)
  /\ Enter(c, "issuing")
  /\ issued' = issued \cup {c}
  /\ UNCHANGED <<budgetVars, placeId>>

\* The budget says no: an empty answer.
Refused(c) ==
  /\ photo[c] = "budget"
  /\ call[c].status \in {"refused", "leaked"}
  /\ Enter(c, "done")
  /\ UNCHANGED <<budgetVars, placeId, issued>>

\* gather(return_exceptions=True): the URLs that failed are left out.
Gathered(c) ==
  /\ photo[c] = "issuing"
  /\ Enter(c, "done")
  /\ UNCHANGED <<budgetVars, placeId, issued>>

\* What cancelling the coroutine does to the budget's call it is in.
Abandon(s) ==
  CASE s = "asking" -> "refused"
    [] s \in {"created", "counted", "over"} -> "leaked"
    [] OTHER -> s

\* Mutant of TimeOut: the cancelled request gives its units back.
TimeOutTakesBack(c) ==
  /\ photo[c] # "done"
  /\ Enter(c, "done")
  /\ call' = IF photo[c] = "budget"
             THEN [call EXCEPT ![c].status = Abandon(@)] ELSE call
  /\ count' = IF call[c].status = "granted"
              THEN [count EXCEPT ![call[c].day] = @ - Amount[c]] ELSE count
  /\ UNCHANGED <<day, late, ttl, gone, placeId, issued>>

\* GOOGLE_PHOTOS_TOTAL_BUDGET_SEC is over: the answer is empty, whatever was
\* paid for and whichever URLs had already come.
TimeOut(c) ==
  /\ photo[c] # "done"
  /\ Enter(c, "done")
  /\ call' = IF photo[c] = "budget"
             THEN [call EXCEPT ![c].status = Abandon(@)] ELSE call
  /\ UNCHANGED <<day, late, count, ttl, gone, placeId, issued>>

PassTime ==
  /\ Calendar
  /\ UNCHANGED photoVars

PhotoStep(c) ==
  \/ CachedPlaceId(c)
  \/ SearchPlaceId(c)
  \/ PlaceNotFound(c)
  \/ FetchNames(c)
  \/ AskBudget(c)
  \/ Issue(c)
  \/ Refused(c)
  \/ Gathered(c)
  \/ TimeOut(c)

PhotosNext == (\E c \in Calls : PhotoStep(c)) \/ PlaceIdExpires \/ PassTime

PhotosSpec == PhotosInit /\ [][PhotosNext]_vars

-----------------------------------------------------------------------------
\* The URLs asked of Google on one day's counter never exceed the cap, however
\* requests overlap, fail half way and are cut off by their time limit.
UrlsWithinCap ==
  \A d \in Days :
    gone[d] \/ Cardinality(Units({c \in issued : call[c].day = d})) <= Cap

\* Requests, whatever they do and whenever they are cancelled, use the budget
\* the way DailyBudget describes its callers.
BudgetSpec == Spec
=============================================================================
