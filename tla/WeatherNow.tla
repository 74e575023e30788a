------------------------------ MODULE WeatherNow ------------------------------
(***************************************************************************)
(* The observations behind GET /v1/weather/now: nowcast_polling_loop       *)
(* stores the temperature of one representative grid per province every    *)
(* hour, housekeeping deletes old ones, get_weather_now answers from the   *)
(* table alone: the newest observation of the caller's grid or else of its *)
(* province's, and a comparison with the same time of an earlier day.      *)
(*                                                                         *)
(* Modelled is one province and one caller; an observation is its grid and *)
(* its hour, counted through.  The clock has two marks an hour, before and *)
(* after :15, when the hour's observation can be had and the job runs.     *)
(* Each SQL statement is atomic, the two or more a request makes are not.  *)
(***************************************************************************)
EXTENDS Integers, FiniteSets, FiniteSetsExt

CONSTANTS
  HoursPerDay,
  MaxAge,         \* WEATHER_NOW_MAX_AGE_HOURS
  MaxGap,         \* _SNAPSHOT_MAX_HOUR_GAP
  RetentionDays,  \* WEATHER_SNAPSHOT_RETENTION_DAYS
  LastHour        \* bound of the calendar

ASSUME WeatherAssumption ==
  /\ HoursPerDay \in Nat \ {0}
  /\ {MaxAge, MaxGap, RetentionDays, LastHour} \subseteq Nat

VARIABLES
  clock,   \* marks since the beginning
  rows,    \* rows[g]: hours of grid g in weather_nowcast_snapshots
  poll,    \* the loop: [pc, base: hour asked for, at: mark of its last start]
  caller   \* the request

weatherVars == <<clock, rows, poll, caller>>

\* The province's representative grid, and one that is not.
Grids == {"representative", "elsewhere"}

Hours == 0..LastHour
None == -1

Hour == clock \div 2
PastQuarter == clock % 2 = 1
DayOf(h) == h \div HoursPerDay
TimeOf(h) == h % HoursPerDay
Gap(a, b) == IF a < b THEN b - a ELSE a - b

Caller ==
  [pc : {"own", "province", "compare", "done"},
   grid : Grids, seenOn : Grids,
   asked : Hours,                  \* the hour in which it came
   seen : Hours \cup {None},       \* hour of the observation
   back : 1..RetentionDays + 1,    \* days back to look next
   compared : Hours \cup {None}]   \* hour of the comparison

WeatherTypeOK ==
  /\ clock \in 0..2 * LastHour + 1
  /\ rows \in [Grids -> SUBSET Hours]
  /\ poll \in [pc : {"idle", "asking"}, base : Hours \cup {None},
               at : {None} \cup 0..2 * LastHour + 1]
  /\ caller \in Caller

Called(g) == [pc |-> "own", grid |-> g, seenOn |-> g, asked |-> Hour,
              seen |-> None, back |-> 1, compared |-> None]

WeatherInit ==
  /\ clock = 0
  /\ rows = [g \in Grids |-> {}]
  /\ poll = [pc |-> "idle", base |-> None, at |-> None]
  /\ caller \in {Called(g) : g \in Grids}

-----------------------------------------------------------------------------
\* resolve_nowcast_base: this hour's observation from :15 on, else the last.
NowcastBase == IF PastQuarter THEN Hour ELSE Hour - 1

\* nowcast_polling_loop begins, at startup or by its job, unless it runs; the
\* hour it asks for is fixed here.
PollStart ==
  /\ poll.pc = "idle" /\ poll.at # clock
  /\ NowcastBase \in Hours
  /\ poll' = [pc |-> "asking", base |-> NowcastBase, at |-> clock]
  /\ UNCHANGED <<clock, rows, caller>>

\* The province's grid answers with a temperature.
PollStores ==
  /\ poll.pc = "asking"
  /\ rows' = [rows EXCEPT !["representative"] = @ \cup {poll.base}]
  /\ poll' = [poll EXCEPT !.pc = "idle"]
  /\ UNCHANGED <<clock, caller>>

\* It fails or has none; the next try is in the next hour.
PollFails ==
  /\ poll.pc = "asking"
  /\ poll' = [poll EXCEPT !.pc = "idle"]
  /\ UNCHANGED <<clock, rows, caller>>

\* housekeeping_expire, the observations.
Housekeeping ==
  /\ rows' = [g \in Grids |->
       {h \in rows[g] : DayOf(h) >= DayOf(Hour) - RetentionDays}]
  /\ UNCHANGED <<clock, poll, caller>>

-----------------------------------------------------------------------------
\* fetch_recent_nowcast.  An observation is made on the hour and read after
\* it, so one of MaxAge hours before the hour that runs is already too old.
Recent(g) == {h \in rows[g] : h > Hour - MaxAge}

See(g) == caller' = [caller EXCEPT !.pc = "compare", !.seenOn = g,
                                   !.seen = Max(Recent(g))]

Unseen(pc) == caller' = [caller EXCEPT !.pc = pc]

\* _observation: the caller's grid ...
ReadOwnGrid ==
  /\ caller.pc = "own"
  /\ \/ Recent(caller.grid) # {} /\ See(caller.grid)
     \/ /\ Recent(caller.grid) = {}
        /\ Unseen(IF caller.grid = "representative" THEN "done" ELSE "province")
  /\ UNCHANGED <<clock, rows, poll>>

\* ... or else the province's.
ReadProvince ==
  /\ caller.pc = "province"
  /\ \/ Recent("representative") # {} /\ See("representative")
     \/ Recent("representative") = {} /\ Unseen("done")
  /\ UNCHANGED <<clock, rows, poll>>

\* Mutant of BaseDay: the day of the request instead of the observation's.
BaseDayOfRequest(c) == DayOf(c.asked)

BaseDay(c) == DayOf(c.seen)

\* fetch_nowcast_snapshot on day d: the nearest time, the earlier of two.
Near(d) == {h \in rows[caller.grid] :
              DayOf(h) = d /\ Gap(TimeOf(h), TimeOf(caller.seen)) <= MaxGap}

Nearest(hs) ==
  CHOOSE h \in hs : \A k \in hs :
    LET dh == Gap(TimeOf(h), TimeOf(caller.seen))
        dk == Gap(TimeOf(k), TimeOf(caller.seen)) IN
    dh < dk \/ (dh = dk /\ h <= k)

\* _fetch_recent_snapshot, one day back at a time; always on the grid of the
\* request, wherever the observation came from.
Compare ==
  /\ caller.pc = "compare" /\ caller.back <= RetentionDays
  /\ LET near == Near(BaseDay(caller) - caller.back) IN
     \/ /\ near # {}
        /\ caller' = [caller EXCEPT !.pc = "done", !.compared = Nearest(near)]
     \/ near = {} /\ caller' = [caller EXCEPT !.back = @ + 1]
  /\ UNCHANGED <<clock, rows, poll>>

\* Nothing kept.
NoComparison ==
  /\ caller.pc = "compare" /\ caller.back > RetentionDays
  /\ Unseen("done")
  /\ UNCHANGED <<clock, rows, poll>>

\* The next request, from anywhere in the province.
CallAgain ==
  /\ caller.pc = "done"
  /\ \E g \in Grids : caller' = Called(g)
  /\ UNCHANGED <<clock, rows, poll>>

\* A poll is over before the next mark, and the job has run in every hour; a
\* request may have its reads on both sides of a mark.
PassMark ==
  /\ clock < 2 * LastHour + 1
  /\ poll.pc = "idle"
  /\ PastQuarter => poll.at = clock
  /\ clock' = clock + 1
  /\ UNCHANGED <<rows, poll, caller>>

WeatherNext ==
  \/ PollStart \/ PollStores \/ PollFails \/ Housekeeping
  \/ ReadOwnGrid \/ ReadProvince \/ Compare \/ NoComparison \/ CallAgain
  \/ PassMark

WeatherSpec == WeatherInit /\ [][WeatherNext]_weatherVars

-----------------------------------------------------------------------------
\* A comparison is with an earlier day than the observation's, at most the
\* retention away, at about the observation's time: also when the observation
\* is of the evening and the request comes after midnight.
ComparesWithEarlierDay ==
  caller.compared # None =>
    /\ DayOf(caller.seen) - DayOf(caller.compared) \in 1..RetentionDays
    /\ Gap(TimeOf(caller.compared), TimeOf(caller.seen)) <= MaxGap

\* scheduler/hub_scheduler.py:143-145: with observations fetched every hour a
\* missing comparison "disappears": when every hour of the day before the
\* observation is kept, the request compares.
ComparedWhenKept ==
  LET before == {h \in Hours : DayOf(h) = DayOf(caller.seen) - 1} IN
  caller.pc = "done" /\ caller.seen # None /\ before # {} /\
  before \subseteq rows["representative"]
    => caller.compared # None
=============================================================================
