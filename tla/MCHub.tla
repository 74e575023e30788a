------------------------------- MODULE MCHub -------------------------------
(***************************************************************************)
(* The parts of the hub that share no state with each other, side by side: *)
(* a behaviour is one of the part chosen at the start, the others stand    *)
(* still in one of their initial states.                                   *)
(***************************************************************************)
EXTENDS RouteLegs, CachedLookups, HubProcess, WeatherNow, AirQuality, KmaEdition,
        CourseSync, TransitOptions

VARIABLES
  part,                                         \* the part that moves
  units, active, age, loop, due, gauge, quiet   \* ShortTermPolling

polling == <<units, active, age, loop, due, gauge, quiet>>

hub == <<part, legVars, lookupVars, processVars, weatherVars, airVars, syncVars, kmaVars,
         optionVars, polling>>

\* Two processes that overlap, one grid, a slot of an hour.
Polling ==
  INSTANCE ShortTermPolling
    WITH clock <- units, calm <- quiet, Grids <- {"grid"}, SlotUnits <- 12,
         MarginUnits <- 2, TtlUnits <- 24, DeadlineUnits <- 4,
         FireMarks <- {0, 3}, CalmCap <- 0, RecoveryUnits <- 1, LoadUnits <- 0

Moving == {"legs", "lookups", "weather", "air", "courses", "kma", "process", "options",
           "polling"}

-----------------------------------------------------------------------------
\* Paths with every kind of leg, two of them as much bus as the ratio allows.
Leg(type, metres) == [type |-> type, metres |-> metres]
OnFoot == Leg("walk", 1)

Journeys == {
  <<OnFoot>>,
  <<Leg("subway", 1)>>,
  <<OnFoot, Leg("bus", 4), OnFoot>>,
  <<Leg("express", 4)>>,
  <<Leg("bus", 1), Leg("subway", 1)>>,
  <<Leg("bus", 4), OnFoot, Leg("subway", 1)>>,
  <<Leg("subway", 1), Leg("train", 4)>>,
  <<Leg("subway", 0), Leg("train", 4)>>}

MCPathKinds == {[time |-> t, legs |-> legs] : t \in 1..2, legs \in Journeys}

-----------------------------------------------------------------------------
MCInit ==
  /\ part \in Moving
  /\ LegsInit
  /\ part # "legs" => graph = Unknown /\ config = [h \in Hubs |-> Unknown]
  /\ LookupsInit
  /\ part # "lookups" => kind = "lane" /\ whole = {}
  /\ WeatherInit
  /\ part # "weather" => caller.grid = "representative"
  /\ AirInit
  /\ SyncInit
  /\ part # "courses" => healthy
  /\ KmaInit
  /\ part # "kma" => call = "mid" /\ listed = <<>>
  /\ ProcessInit
  /\ IF part = "options" THEN OptionsInit
     ELSE /\ reply = <<>> /\ button = "all" /\ subway = <<>>
          /\ screen = [pc |-> "asking", options |-> <<>>, lanes |-> <<>>, shapes |-> <<>>]
  /\ Polling!Init
  /\ part # "polling" => units = 0

MCNext ==
  /\ UNCHANGED part
  /\ \/ /\ part = "legs" /\ LegsNext
        /\ UNCHANGED <<lookupVars, weatherVars, airVars, syncVars, kmaVars,
                       processVars, optionVars, polling>>
     \/ /\ part = "lookups" /\ LookupsNext
        /\ UNCHANGED <<legVars, weatherVars, airVars, syncVars, kmaVars,
                       processVars, optionVars, polling>>
     \/ /\ part = "weather" /\ WeatherNext
        /\ UNCHANGED <<legVars, lookupVars, airVars, syncVars, kmaVars,
                       processVars, optionVars, polling>>
     \/ /\ part = "air" /\ AirNext
        /\ UNCHANGED <<legVars, lookupVars, weatherVars, syncVars, kmaVars,
                       processVars, optionVars, polling>>
     \/ /\ part = "courses" /\ SyncNext
        /\ UNCHANGED <<legVars, lookupVars, weatherVars, airVars, kmaVars,
                       processVars, optionVars, polling>>
     \/ /\ part = "kma" /\ KmaNext
        /\ UNCHANGED <<legVars, lookupVars, weatherVars, airVars, syncVars,
                       processVars, optionVars, polling>>
     \/ /\ part = "process" /\ ProcessNext
        /\ UNCHANGED <<legVars, lookupVars, weatherVars, airVars, syncVars,
                       kmaVars, optionVars, polling>>
     \/ /\ part = "options" /\ OptionsNext
        /\ UNCHANGED <<legVars, lookupVars, weatherVars, airVars, syncVars,
                       kmaVars, processVars, polling>>
     \/ /\ part = "polling" /\ Polling!Next
        /\ UNCHANGED <<legVars, lookupVars, weatherVars, airVars, syncVars,
                       kmaVars, processVars, optionVars>>

MCSpec == MCInit /\ [][MCNext]_hub /\ (part = "courses" => SyncFairness)

-----------------------------------------------------------------------------
\* The type invariants of the parts.
HubTypeOK ==
  /\ LegsTypeOK
  /\ LookupsTypeOK
  /\ WeatherTypeOK
  /\ AirTypeOK
  /\ SyncTypeOK
  /\ KmaTypeOK
  /\ ProcessTypeOK
  /\ OptionsTypeOK
  /\ Polling!TypeOK

\* What GET /v1/weather/now tells of an earlier day and of the air's hour is
\* true: see WeatherNow and AirQuality.
WeatherIsHonest == ComparesWithEarlierDay /\ AirTellsItsHour

\* An outage or a restart in the middle of the course synchronisation is made
\* good: see CourseSync.
CoursesMadeGood == part = "courses" => CoursesComplete

\* Two hub processes on one database never take the forecast table back to an
\* earlier edition: see ShortTermPolling.
EditionNeverRegresses == Polling!EditionNeverRegresses

\* The transit list is what its button says and its lines lie on their own
\* legs: see TransitOptions.
TransitIsDrawnTrue == ButtonGetsItsRoutes /\ ShapesOnTheirLegs
=============================================================================
