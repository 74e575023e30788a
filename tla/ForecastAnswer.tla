--------------------------- MODULE ForecastAnswer ---------------------------
(***************************************************************************)
(* GET /v1/weather over the three forecast tables: editions of the short-  *)
(* and mid-term forecast are stored, some late, some never; rows expire by *)
(* rules that differ per kind and are deleted by housekeeping; a request   *)
(* fixes today, reads the tables one after the other and picks for each    *)
(* day of its range the source that answers it.                            *)
(*                                                                         *)
(* Time is in hours (KST) from a midnight; an edition is named by the hour *)
(* of its issue, and the clock steps through the marks of the day.         *)
(***************************************************************************)
EXTENDS Integers, FiniteSets

CONSTANTS
  Marks,       \* hours of the day the clock stops at
  ShortHours,  \* hours at which a short-term edition is issued
  LongHours,   \* those whose editions reach D+4 (the others reach D+3)
  WholeHours,  \* those whose last day is whole (the others stop at noon)
  MidHours,    \* hours at which a mid-term edition is issued
  ShortTtl,    \* _SHORT_TTL
  MidTtl,      \* _MID_TTL
  ShortLate,   \* hours after its issue an edition may still be stored
  MidLate,
  Regions,     \* what lookup_region_by_name may return
  Ranges,      \* requested ranges, as first and last day relative to today
  Horizon      \* bound of the clock

ASSUME HoursAssumption ==
  /\ Marks \subseteq 0..23
  /\ ShortHours \cup MidHours \subseteq 0..23
  /\ LongHours \cup WholeHours \subseteq ShortHours
  /\ {ShortTtl, MidTtl, ShortLate, MidLate, Horizon} \subseteq Nat
  /\ Horizon >= 23
  /\ Regions \subseteq [grid : BOOLEAN, land : BOOLEAN, temp : BOOLEAN]
  /\ Ranges \subseteq Int \X Int

\* A loop that began just before a slot runs to its deadline, 20 minutes: no
\* edition is stored when its hourly rows have expired already.
ASSUME LateAssumption == ShortLate <= ShortTtl

\* How the sources fit: of a morning's mid-term editions one is live at any time,
\* none so long that only short-term answers for its first day.  Yesterday's
\* has D+3 until the hour h at which today's is issued; from then on it is left
\* to a short-term edition of today, those of yesterday have expired.
ASSUME SourcesAssumption ==
  /\ MidTtl \in 24..36
  /\ \E h \in MidHours : h < 12 /\ ShortTtl <= h

VARIABLES
  now,     \* the hour
  tables,  \* the three forecast tables
  request  \* one GET /v1/weather

vars == <<now, tables, request>>

Day(h) == h \div 24
Hour(h) == h % 24

-----------------------------------------------------------------------------
(***************************************************************************)
(* A day of the short-term table holds TMN (at 06), TMX (at 15) and hourly *)
(* rows, those of a half-day (POP, SKY) together; of each it has one row,  *)
(* and `short` gives its edition.  The edition is part of the key of the   *)
(* mid-term tables: `land` and `temp` are the editions they have rows of.  *)
(***************************************************************************)
LastHour == [tmn |-> 6, tmx |-> 15, am |-> 11, pm |-> 23]
ShortKinds == DOMAIN LastHour
Extremes == {"tmn", "tmx"}
Hourly == {"am", "pm"}
MidKinds == {"land", "temp"}

Empty == [short |-> [x \in {} |-> 0], land |-> {}, temp |-> {}]

LastDay(e) == Day(e) + (IF Hour(e) \in LongHours THEN 4 ELSE 3)

\* What KMA puts into the short-term edition e: the hours still to come.
Carried(e) ==
  {x \in (Day(e)..LastDay(e)) \X ShortKinds :
     /\ x[1] = Day(e) => Hour(e) < LastHour[x[2]]
     /\ x[1] = LastDay(e) /\ Hour(e) \notin WholeHours => x[2] = "am"}

\* Into a mid-term edition: D+4 to D+10 in the morning, D+5 on in the evening.
Offsets(e) == (IF Hour(e) < 12 THEN 4 ELSE 5)..10

Later(a, b) == IF a > b THEN a ELSE b

\* Mutant of Merge: ON CONFLICT without its WHERE.
MergeBlind(old, e) == e

\* ON CONFLICT DO UPDATE ... WHERE EXCLUDED.base_at >= base_at
Merge(old, e) == Later(old, e)

\* Mutant of ExpiresAt: the extremes expire like the hourly rows.
ExpiresAtIssue(x, e) == e + ShortTtl

\* _short_term_expires_at: the extremes of a day stay until the day is over.
ExpiresAt(x, e) ==
  IF x[2] \in Extremes THEN Later(e + ShortTtl, 24 * (x[1] + 1)) ELSE e + ShortTtl

\* The rows with expires_at > t, all three tables.
Unexpired(t) ==
  LET keys == {x \in DOMAIN tables.short : ExpiresAt(x, tables.short[x]) > t}
  IN [short |-> [x \in keys |-> tables.short[x]],
      land |-> {e \in tables.land : e + MidTtl > t},
      temp |-> {e \in tables.temp : e + MidTtl > t}]

Live == Unexpired(now)

\* The rows of tables T for day d, as kind and edition.
RowsFor(T, d) ==
  {<<x[2], T.short[x]>> : x \in {y \in DOMAIN T.short : y[1] = d}}
    \cup {r \in MidKinds \X (T.land \cup T.temp) :
            r[2] \in T[r[1]] /\ d - Day(r[2]) \in Offsets(r[2])}

-----------------------------------------------------------------------------
(***************************************************************************)
(* The request.                                                            *)
(***************************************************************************)
NoRegion == [grid |-> FALSE, land |-> FALSE, temp |-> FALSE]

Idle == [pc |-> "idle", today |-> 0, days |-> {}, region |-> NoRegion,
         read |-> Empty, known |-> Empty, prompt |-> FALSE, ticked |-> FALSE]

\* Every row of T is one an edition carries.
IsTables(T) ==
  /\ DOMAIN T = {"short", "land", "temp"}
  /\ DOMAIN T.short \subseteq Nat \X ShortKinds
  /\ \A x \in DOMAIN T.short : T.short[x] \in Nat /\ x \in Carried(T.short[x])
  /\ T.land \cup T.temp \subseteq Nat

TypeOK ==
  /\ now \in 0..Horizon
  /\ IsTables(tables)
  /\ request.pc \in {"idle", "short", "land", "temp", "done"}
  /\ request.today \in Nat
  /\ request.days \subseteq Int            \* date_start to date_end
  /\ request.region \in Regions \cup {NoRegion}
  /\ IsTables(request.read)   \* short_rows, land_rows, temp_rows
  /\ IsTables(request.known)  \* history: the rows live when it began
  /\ request.prompt \in BOOLEAN  \* history: polling was up to date throughout
  /\ request.ticked \in BOOLEAN  \* the hour turned during the request

Init ==
  /\ now \in Marks
  /\ tables = Empty
  /\ request = Idle

\* Mutant of OverlapDays: it ends with D+3 though mid-term begins at D+5.
OverlapDaysShort == {d \in request.days : d - request.today = 3}

\* _split_dates_by_horizon
ShortDays == {d \in request.days : d - request.today \in 0..2}
OverlapDays == {d \in request.days : d - request.today \in 3..4}
MidDays == {d \in request.days : d - request.today \in 5..10}

Has(item, kinds) == \E r \in item : r[1] \in kinds

ShortItem(d) == {r \in RowsFor(request.read, d) : r[1] \in ShortKinds}

\* Of land and temperature the latest edition that has the day, each its own.
MidItem(d) ==
  LET mid == {r \in RowsFor(request.read, d) : r[1] \in MidKinds}
  IN {r \in mid : \A q \in mid : q[1] = r[1] => q[2] <= r[2]}

\* Mutant of OverlapItem: a day cut off in short-term is left to mid-term.
OverlapItemNoResort(d) ==
  IF {"tmn", "tmx"} \subseteq {r[1] : r \in ShortItem(d)} THEN ShortItem(d)
  ELSE MidItem(d)

\* Short-term if it has TMN and TMX (require_full), else mid-term, else what
\* short-term has.
OverlapItem(d) ==
  IF {"tmn", "tmx"} \subseteq {r[1] : r \in ShortItem(d)} THEN ShortItem(d)
  ELSE IF MidItem(d) # {} THEN MidItem(d)
  ELSE ShortItem(d)

\* The rows the answer for a day is made of; without any it is in missing_dates.
Item(d) ==
  CASE d \in ShortDays -> ShortItem(d)
    [] d \in OverlapDays -> OverlapItem(d)
    [] d \in MidDays -> MidItem(d)
    [] OTHER -> {}

-----------------------------------------------------------------------------
Issued(hours) == {e \in 0..now : Hour(e) \in hours}

\* History: polling works: a short-term edition is stored that has not expired
\* and has hours of today (the one of 23 o'clock has none), and all such
\* mid-term ones, of a day at least.
UpToDate ==
  /\ \E x \in DOMAIN tables.short :
       /\ tables.short[x] + ShortTtl > now
       /\ <<Day(now), "pm">> \in Carried(tables.short[x])
  /\ now >= MidTtl
  /\ {e \in Issued(MidHours) : e + MidTtl > now} \subseteq tables.land \cap tables.temp

\* Mutant of StoreShort: the row is stamped with the hour it is stored.
StoreShortNow(e) ==
  /\ e \in Issued(ShortHours)
  /\ now - e <= ShortLate
  /\ tables' = [tables EXCEPT !.short =
                  [x \in DOMAIN @ \cup Carried(e) |-> IF x \in Carried(e) THEN now ELSE @[x]]]
  /\ UNCHANGED <<now, request>>

\* short_term_polling_loop gets a grid's edition and stores it; a loop that
\* began before the next one still asks for this one.
StoreShort(e) ==
  /\ e \in Issued(ShortHours)
  /\ now - e <= ShortLate
  /\ tables' = [tables EXCEPT !.short =
                  [x \in DOMAIN @ \cup Carried(e) |->
                     IF x \notin DOMAIN @ THEN e
                     ELSE IF x \in Carried(e) THEN Merge(@[x], e) ELSE @[x]]]
  /\ UNCHANGED <<now, request>>

\* mid_term_polling_loop stores an edition for the land or the temperature region.
StoreMid(kind, e) ==
  /\ e \in Issued(MidHours)
  /\ now - e <= MidLate
  /\ tables' = [tables EXCEPT ![kind] = @ \cup {e}]
  /\ UNCHANGED <<now, request>>

\* housekeeping_expire deletes where expires_at < now.
Housekeep ==
  /\ tables' = Unexpired(now - 1)
  /\ UNCHANGED <<now, request>>

\* The range passes the checks, today is fixed, the region is found.
Begin(range, region) ==
  LET first == Day(now) + range[1]
      last == Day(now) + range[2]
  IN /\ request.pc = "idle"
     /\ first <= last
     /\ last - first < 14
     /\ last >= Day(now)
     /\ request' = [Idle EXCEPT !.pc = "short", !.today = Day(now),
                                !.days = first..last, !.region = region,
                                !.known = Live, !.prompt = UpToDate]
     /\ UNCHANGED <<now, tables>>

\* fetch_short_term_range, for the days short-term may answer
ReadShort ==
  LET live == Live.short
      keys == {x \in DOMAIN live :
                 request.region.grid /\ x[1] \in ShortDays \cup OverlapDays}
  IN /\ request.pc = "short"
     /\ request' = [request EXCEPT !.pc = "land",
                                   !.read.short = [x \in keys |-> live[x]]]
     /\ UNCHANGED <<now, tables>>

\* fetch_mid_land_range, fetch_mid_temp_range: for a region code, if mid-term
\* may answer a day.
ReadMid(kind, next) ==
  /\ request.pc = kind
  /\ request' = [request EXCEPT !.pc = next,
                   !.read[kind] = IF OverlapDays \cup MidDays # {} /\ request.region[kind]
                                  THEN Live[kind] ELSE {}]
  /\ UNCHANGED <<now, tables>>

\* The response is sent.
End ==
  /\ request.pc = "done"
  /\ request' = Idle
  /\ UNCHANGED <<now, tables>>

\* The clock moves to the next mark.  The hourly housekeeping has run by then,
\* and a request, which takes seconds, sees at most the turn of one hour.
NextMark == {t \in (now + 1)..(now + 24) :
               /\ Hour(t) \in Marks
               /\ \A u \in (now + 1)..(t - 1) : Hour(u) \notin Marks}

Tick ==
  /\ tables = Unexpired(now - 1)
  /\ now' \in NextMark
  /\ request.pc # "idle" => ~request.ticked /\ now' = now + 1
  /\ now' <= Horizon
  /\ request' = IF request.pc = "idle" THEN Idle
                ELSE [request EXCEPT !.ticked = TRUE, !.prompt = FALSE]
  /\ UNCHANGED tables

Next ==
  \/ \E e \in Issued(ShortHours) : StoreShort(e)
  \/ \E e \in Issued(MidHours), kind \in MidKinds : StoreMid(kind, e)
  \/ Housekeep
  \/ \E range \in Ranges, region \in Regions : Begin(range, region)
  \/ ReadShort
  \/ ReadMid("land", "temp")
  \/ ReadMid("temp", "done")
  \/ End
  \/ Tick

Spec == Init /\ [][Next]_vars

-----------------------------------------------------------------------------
Done == request.pc = "done"

\* The rows for a day the region has a grid or a code for.
Served(T, d) == {r \in RowsFor(T, d) :
                   IF r[1] \in MidKinds THEN request.region[r[1]] ELSE request.region.grid}

\* Once stored, the lowest and highest temperature of a day can be read until
\* that day is over: through later editions that lack them, late ones that
\* come after newer ones, outages and housekeeping (_short_term_expires_at).
ExtremesKept ==
  [][{x \in DOMAIN Live.short : x[2] \in Extremes /\ Day(now') <= x[1]}
       \subseteq DOMAIN Live'.short]_vars

\* No day of the answer is older than what the tables held when the request
\* came: what a consumer has seen is never followed by an earlier edition.
\* Threats: a late loop overwriting a newer row, two editions that have the day.
NeverOlder ==
  Done => \A d \in request.days : \A r \in Item(d), k \in RowsFor(request.known, d) :
            k[1] = r[1] => k[2] <= r[2]

\* A day is reported missing only if no table had anything for it: no row that
\* was readable from the beginning of the request to its end.  The split by
\* horizon, the offsets stored, the expiries and the fallbacks must fit for it.
NothingWithheld ==
  Done => \A d \in request.days : d >= request.today /\ Item(d) = {} =>
            Served(request.known, d) \cap Served(Live, d) = {}

\* While polling is up to date every day from today to D+9 is answered, at any
\* hour: two mid-term editions of different first days, their expiry after a
\* day and the days they share with the short-term forecast leave no gap.
CoversTheWeek ==
  Done /\ request.prompt /\ request.region.grid /\ (request.region.land \/ request.region.temp) =>
    \A d \in request.days : d - request.today \in 0..9 => Item(d) # {}

\* "If the short-term forecast holds the whole of D+3 it is used, if it is cut
\* off the mid-term one is" (_OVERLAP_OFFSET): where both have something for
\* D+3, short-term is taken with hours of the day, not just the extremes.
OverlapIsWhole ==
  Done => \A d \in OverlapDays :
            d - request.today = 3 /\ Has(Item(d), Extremes) /\ MidItem(d) # {} =>
              Has(Item(d), Hourly)
=============================================================================
