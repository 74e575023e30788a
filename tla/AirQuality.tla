------------------------------ MODULE AirQuality ------------------------------
(***************************************************************************)
(* Fine dust in GET /v1/weather/now: air_polling_loop stores what AirKorea *)
(* sends of a province's stations every hour, _stored_air answers with one *)
(* station of the newest hour that is young enough.                        *)
(*                                                                         *)
(* Modelled is one province.  A row is a station, the hour of its own      *)
(* dataTime and how many of its two values are numbers.  The upsert of a   *)
(* province is one transaction and the answer one SELECT, so the answer is *)
(* a function of the table.                                                *)
(***************************************************************************)
EXTENDS Integers, FiniteSets, FiniteSetsExt

CONSTANTS
  Stations,  \* the province's
  InCity,    \* those whose name holds the caller's city
  AirMaxAge, \* AIR_MAX_AGE_HOURS
  LastAirHour \* bound of the calendar

\* AirKorea may be an hour behind, and its list is an hour old before the next.
ASSUME AirAssumption ==
  /\ AirMaxAge \in Nat /\ AirMaxAge >= 3
  /\ LastAirHour \in Nat

VARIABLES
  airHour,   \* the hour that runs
  airRows,   \* air_quality_snapshots of the province
  airPolls,  \* polls done in this hour
  airMissed  \* history: hourly polls in a row that stored nothing

airVars == <<airHour, airRows, airPolls, airMissed>>

AirHours == 0..LastAirHour

AirRow == [station : Stations, at : AirHours, values : 0..2]

AirTypeOK ==
  /\ airHour \in AirHours
  /\ airRows \subseteq AirRow
  /\ \A r, s \in airRows : r.station = s.station /\ r.at = s.at => r = s
  /\ airPolls \in 0..1
  /\ airMissed \in 0..LastAirHour + 1

AirInit == airHour = 0 /\ airRows = {} /\ airPolls = 0 /\ airMissed = 0

-----------------------------------------------------------------------------
\* upsert_air_snapshots: a row replaces the one of its station and hour.
Stored(items) ==
  {r \in airRows : \A i \in items : i.station # r.station \/ i.at # r.at} \cup items

\* AirKorea's list: at most one row a station, of this hour or the one before,
\* stations under repair without values; rows without a station or a time are
\* left out.
Items(s) == {{}} \cup {{[station |-> s, at |-> h, values |-> v]} :
                        h \in {airHour - 1, airHour} \cap AirHours, v \in 0..2}

\* The poll of the hour stores a list, which may be empty, ...
AirPollStores ==
  /\ airPolls = 0 /\ airPolls' = 1
  /\ \E item \in [Stations -> UNION {Items(s) : s \in Stations}] :
       LET items == UNION {item[s] : s \in Stations} IN
       /\ \A s \in Stations : item[s] \in Items(s)
       /\ airRows' = Stored(items)
       /\ airMissed' = IF items = {} THEN airMissed + 1 ELSE 0
  /\ UNCHANGED airHour

\* ... or fails.
AirPollFails ==
  /\ airPolls = 0 /\ airPolls' = 1
  /\ airMissed' = airMissed + 1
  /\ UNCHANGED <<airHour, airRows>>

PassAirHour ==
  /\ airHour < LastAirHour /\ airPolls = 1
  /\ airHour' = airHour + 1 /\ airPolls' = 0
  /\ UNCHANGED <<airRows, airMissed>>

AirNext == AirPollStores \/ AirPollFails \/ PassAirHour

AirSpec == AirInit /\ [][AirNext]_airVars

-----------------------------------------------------------------------------
\* Mutant of Newest: every row that is young enough.
NewestOfEach == {r \in airRows : r.at > airHour - AirMaxAge}

\* fetch_recent_air: the rows of the newest hour young enough.
Newest ==
  LET young == {r \in airRows : r.at > airHour - AirMaxAge} IN
  {r \in young : \A s \in young : s.at <= r.at}

\* _pick_air_station: in the city first, then in the province; both values
\* before either.
Pick(pool) ==
  LET both == {r \in pool : r.values = 2}
      some == {r \in pool : r.values > 0} IN
  IF both # {} THEN both ELSE some

Picked ==
  LET near == Pick({r \in Newest : r.station \in InCity}) IN
  IF near # {} THEN near ELSE Pick(Newest)

\* _stored_air can answer with any of Picked, the time that of any row read.
AirAnswers == {[station |-> p.station, observedAt |-> r.at] : p \in Picked, r \in Newest}

\* Whichever station is answered, the time told with it is that station's own
\* and young enough: stations that report at different hours are never mixed.
\* And an hourly poll that brought rows keeps them answerable until the next,
\* though AirKorea may be an hour behind.
AirTellsItsHour ==
  /\ \A a \in AirAnswers :
       /\ a.observedAt > airHour - AirMaxAge
       /\ \E r \in airRows : /\ r.station = a.station /\ r.at = a.observedAt
                             /\ r.values > 0
  /\ airMissed = 0 /\ airRows # {} => Newest # {}
=============================================================================
