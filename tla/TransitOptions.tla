--------------------------- MODULE TransitOptions ---------------------------
(***************************************************************************)
(* What a lookup's paths become on the screen: the choice for the button   *)
(* of GET /v1/transit/routes (_to_route_option, _normalize_routes in       *)
(* clients/hub_clients.py, _filter_routes_by_mode in                       *)
(* routers/hub_routers.py), the one fastest path of the subway lookup      *)
(* (_normalize), and the line shapes drawn on the chosen route's legs      *)
(* (merge_lane_geometry, POST /v1/transit/routes/lane).                    *)
(*                                                                         *)
(* A path is its time and its legs, a leg what it rides and how far; fares,*)
(* names and times of legs are left out.  Lines are straight or follow a   *)
(* lane, which is told by the leg it belongs to.                           *)
(***************************************************************************)
EXTENDS Integers, Sequences, FiniteSets, SequencesExt

CONSTANTS
  PathKinds,   \* paths the provider may send: [time, legs]
  MaxPaths,    \* how many it sends
  MaxOptions,  \* ROUTE_OPTIONS_MAX
  Dominance    \* TRANSIT_BUS_DOMINANCE_RATIO in hundredths

Types == {"walk", "subway", "bus", "express", "train"}

ASSUME OptionsAssumption ==
  /\ \A p \in PathKinds : /\ p.time \in Int
                         /\ p.legs \in Seq([type : Types, metres : Nat])
  /\ MaxPaths \in Nat
  /\ MaxOptions \in Nat \ {0}

VARIABLES
  reply,   \* the provider's paths, in its order
  button,  \* the mode asked for
  screen,  \* [pc, options: the answer, lanes: of its first route, shapes]
  subway   \* the fastest all-subway path, or <<>>

optionVars == <<reply, button, screen, subway>>

Buttons == {"all", "subway", "bus"}

OptionsTypeOK ==
  /\ \A i \in DOMAIN reply : reply[i] \in PathKinds
  /\ button \in Buttons
  /\ screen.pc \in {"asking", "listed", "drawn"}
  /\ Len(screen.options) <= MaxOptions
  /\ \A i \in DOMAIN screen.options : screen.options[i] \in PathKinds
  /\ Len(subway) <= 1

OptionsInit ==
  /\ reply \in SeqOf(PathKinds, MaxPaths)
  /\ button \in Buttons
  /\ screen = [pc |-> "asking", options |-> <<>>, lanes |-> <<>>, shapes |-> <<>>]
  /\ subway = <<>>

-----------------------------------------------------------------------------
\* The positions of a set, in order, and what a list holds at them.
InOrder(K) ==
  [n \in 1..Cardinality(K) |->
     CHOOSE i \in K : Cardinality({j \in K : j <= i}) = n]

At(s, K) == [n \in DOMAIN InOrder(K) |-> s[InOrder(K)[n]]]

\* The legs' metres added up, of some types only.
Metres(path, types) ==
  LET sum[n \in 0..Len(path.legs)] ==
        IF n = 0 THEN 0
        ELSE sum[n - 1] + (IF path.legs[n].type \in types THEN path.legs[n].metres ELSE 0)
  IN sum[Len(path.legs)]

\* The modes of an option; walking alone has none that is ridden.
Rides(path) == {path.legs[i].type : i \in DOMAIN path.legs} \ {"walk"}

BusLike == {"bus", "express"}
NonRoad == {"train"}

\* bus_distance_ratio < TRANSIT_BUS_DOMINANCE_RATIO, 0 when nothing is ridden.
LittleBus(path) ==
  LET bus == Metres(path, BusLike)
      ride == bus + Metres(path, {"subway"}) IN
  ride = 0 \/ 100 * bus < Dominance * ride

\* Python's stable sort by time.
ByTime(paths) ==
  LET Rank(i) == Cardinality({j \in DOMAIN paths :
                   \/ paths[j].time < paths[i].time
                   \/ paths[j].time = paths[i].time /\ j <= i}) IN
  [n \in DOMAIN paths |-> paths[CHOOSE i \in DOMAIN paths : Rank(i) = n]]

\* Mutant of Filter: a subway route must always be mostly subway.
FilterStrictly(paths) ==
  At(paths, {i \in DOMAIN paths :
    CASE button = "bus" -> Rides(paths[i]) \subseteq BusLike
      [] button = "subway" -> /\ Metres(paths[i], {"subway"}) > 0
                              /\ Rides(paths[i]) \cap NonRoad = {}
                              /\ LittleBus(paths[i])
      [] OTHER -> TRUE})

\* _filter_routes_by_mode
Filter(paths) ==
  LET withSubway == {i \in DOMAIN paths : /\ Metres(paths[i], {"subway"}) > 0
                                          /\ Rides(paths[i]) \cap NonRoad = {}}
      kept == {i \in withSubway : LittleBus(paths[i])}
      busOnly == {i \in DOMAIN paths : Rides(paths[i]) \subseteq BusLike} IN
  CASE button = "bus" -> At(paths, busOnly)
    [] button = "subway" -> At(paths, IF kept # {} THEN kept ELSE withSubway)
    [] OTHER -> paths

\* Mutant of FirstOf: nothing is cut.
Uncut(s, n) == s

FirstOf(s, n) == SubSeq(s, 1, IF Len(s) < n THEN Len(s) ELSE n)

\* get_transit_routes: all that the cache holds, then the button, then the cut.
List ==
  /\ screen.pc = "asking"
  /\ screen' = [screen EXCEPT !.pc = "listed",
                              !.options = FirstOf(Filter(ByTime(reply)), MaxOptions)]
  /\ UNCHANGED <<reply, button, subway>>

\* PATH_TYPE_SUBWAY: subway and walking only.
OnlySubway(path) == Rides(path) = {"subway"}

\* _normalize: the first of the fastest.
FastestSubway ==
  /\ subway = <<>>
  /\ subway' = FirstOf(ByTime(At(reply, {i \in DOMAIN reply : OnlySubway(reply[i])})), 1)
  /\ UNCHANGED <<reply, button, screen>>

-----------------------------------------------------------------------------
\* Legs that are ridden.
Ridden(path) == {i \in DOMAIN path.legs : path.legs[i].type # "walk"}

\* loadLane: a shape a ridden leg in order, shapes missing and shapes without
\* points (0) included.
Lanes(path) ==
  UNION {{[n \in DOMAIN s |-> IF n \in drop THEN 0 ELSE s[n]] :
            drop \in SUBSET DOMAIN s} :
         s \in {InOrder(came) : came \in SUBSET Ridden(path)}}

\* Mutant of Fits: too few lanes are drawn as far as they go.
FitsAsFarAsTheyGo(path, lanes) == Len(lanes) <= Cardinality(Ridden(path))

Fits(path, lanes) == Len(lanes) = Cardinality(Ridden(path))

\* The lane leg i is drawn along, 0 for the straight line it had.
Merged(path, lanes) ==
  [i \in DOMAIN path.legs |->
     LET at == {n \in DOMAIN lanes : InOrder(Ridden(path))[n] = i} IN
     IF ~Fits(path, lanes) \/ at = {} THEN 0 ELSE lanes[CHOOSE n \in at : TRUE]]

\* The first route is opened and its shapes come.
Draw ==
  /\ screen.pc = "listed" /\ screen.options # <<>>
  /\ \E lanes \in Lanes(screen.options[1]) :
       screen' = [screen EXCEPT !.pc = "drawn", !.lanes = lanes,
                                !.shapes = Merged(screen.options[1], lanes)]
  /\ UNCHANGED <<reply, button, subway>>

OptionsNext == List \/ FastestSubway \/ Draw

OptionsSpec == OptionsInit /\ [][OptionsNext]_optionVars

-----------------------------------------------------------------------------
\* What a path shows the user, said of its legs one by one.
NoRails(p) == \A i \in DOMAIN p.legs : p.legs[i].type \in {"walk"} \cup BusLike
TakesSubway(p) ==
  /\ \E i \in DOMAIN p.legs : p.legs[i].type = "subway" /\ p.legs[i].metres > 0
  /\ \A i \in DOMAIN p.legs : p.legs[i].type \notin NonRoad

\* The button and the list agree (docstring of _filter_routes_by_mode): nothing
\* on a rail under "bus", always a subway and no train under "subway"; a
\* list is empty only when the provider knows no such route, however many
\* faster ones of other kinds there are; no listed route is slower than one
\* of its kind that was left out, unless that one is mostly bus; and the
\* subway lookup is never slower than the fastest listed all-subway route.
ButtonGetsItsRoutes ==
  LET Fit(p) == CASE button = "bus" -> NoRails(p)
                  [] button = "subway" -> TakesSubway(p)
                  [] OTHER -> TRUE
      listed == {screen.options[i] : i \in DOMAIN screen.options}
      fit == {reply[i] : i \in {j \in DOMAIN reply : Fit(reply[j])}} IN
  screen.pc # "asking" =>
    /\ listed \subseteq fit
    /\ fit # {} => listed # {}
    /\ \A p \in listed, q \in fit \ listed :
         p.time <= q.time \/ (button = "subway" /\ ~LittleBus(q))
    /\ subway # <<>> => \A p \in listed : OnlySubway(p) => subway[1].time <= p.time

\* Docstring of merge_lane_geometry: a leg is never drawn along the lane of
\* another leg, nor a walk along any.
ShapesOnTheirLegs ==
  \A i \in DOMAIN screen.shapes : screen.shapes[i] \in {0, i}
=============================================================================
