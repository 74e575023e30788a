------------------------------ MODULE RouteLegs ------------------------------
(***************************************************************************)
(* Legs of POST /v1/directions/batch (_route_one_leg in                    *)
(* routers/hub_routers.py, OsrmClient.route): the road between two places, *)
(* from a Redis entry kept for seven days or from the self-hosted OSRM.    *)
(*                                                                         *)
(* OSRM is rebuilt with newer map data and the hub processes are restarted *)
(* with the matching OSRM_DATA_VERSION, not all at one moment, while all   *)
(* share one Redis.  A process that has a version set takes only roads of  *)
(* that version, one that has none takes any.  Modelled is one pair of     *)
(* places of one profile; bicycle and scooter share their entry.           *)
(***************************************************************************)
EXTENDS Integers

CONSTANTS
  Hubs,      \* hub processes, each with one leg under way at a time
  Versions   \* data versions of the map

\* No OSRM_DATA_VERSION is set; a graph that tells no version.
Unknown == "UNKNOWN"

ASSUME VersionsAssumption == Versions \cap {Unknown, "none", "absent"} = {}

Settings == Versions \cup {Unknown}

VARIABLES
  graph,   \* the data version of the graph OSRM serves
  config,  \* config[h]: OSRM_DATA_VERSION of process h
  road,    \* road[k]: version of the road in the entry of key k, or "absent"
  leg      \* leg[h]: [pc, version of the road found, "none" for null]

legVars == <<graph, config, road, leg>>

Found == Settings \cup {"none"}

LegsTypeOK ==
  /\ graph \in Settings
  /\ config \in [Hubs -> Settings]
  /\ road \in [Settings -> Settings \cup {"absent"}]
  /\ leg \in [Hubs -> [pc : {"looking", "calling", "writing", "done"},
                       version : Found]]

Start == [pc |-> "looking", version |-> "none"]

LegsInit ==
  /\ graph \in Settings
  /\ config \in [Hubs -> Settings]
  /\ road = [k \in Settings |-> "absent"]
  /\ leg = [h \in Hubs |-> Start]

-----------------------------------------------------------------------------
\* _route_cache_key names the configured version.
Key(h) == config[h]

\* Mutant of Acceptable: an answer without a version is let pass.
AcceptableUnlessOther(h, v) == config[h] = Unknown \/ v \in {config[h], Unknown}

Acceptable(h, v) == config[h] = Unknown \/ v = config[h]

Stop(h, version) == leg' = [leg EXCEPT ![h] = [pc |-> "done", version |-> version]]

\* A cached road of the right version is the answer; without one, or when
\* Redis fails, OSRM is asked.
LookUp(h) ==
  /\ leg[h].pc = "looking"
  /\ \/ /\ road[Key(h)] # "absent"
        /\ Acceptable(h, road[Key(h)])
        /\ Stop(h, road[Key(h)])
     \/ leg' = [leg EXCEPT ![h].pc = "calling"]
  /\ UNCHANGED <<graph, config, road>>

\* OsrmClient.route answers with the road of the graph it serves now; a
\* failure or a road of the wrong version is a null in the leg's place.
Route(h) ==
  /\ leg[h].pc = "calling"
  /\ \/ /\ Acceptable(h, graph)
        /\ leg' = [leg EXCEPT ![h] = [pc |-> "writing", version |-> graph]]
     \/ Stop(h, "none")
  /\ UNCHANGED <<graph, config, road>>

\* set_json, whose failure is only logged.
Keep(h) ==
  /\ leg[h].pc = "writing"
  /\ road' \in {road, [road EXCEPT ![Key(h)] = leg[h].version]}
  /\ Stop(h, leg[h].version)
  /\ UNCHANGED <<graph, config>>

NextLeg(h) ==
  /\ leg[h].pc = "done"
  /\ leg' = [leg EXCEPT ![h] = Start]
  /\ UNCHANGED <<graph, config, road>>

\* A process is restarted with other settings; what it was doing is lost.
Redeploy(h) ==
  /\ config' \in {[config EXCEPT ![h] = v] : v \in Settings}
  /\ leg' = [leg EXCEPT ![h] = Start]
  /\ UNCHANGED <<graph, road>>

\* OSRM starts to serve another graph.
Rebuild ==
  /\ graph' \in Settings
  /\ UNCHANGED <<config, road, leg>>

Expire ==
  /\ \E k \in Settings : road' = [road EXCEPT ![k] = "absent"]
  /\ UNCHANGED <<graph, config, leg>>

LegsNext ==
  \/ \E h \in Hubs : LookUp(h) \/ Route(h) \/ Keep(h) \/ NextLeg(h) \/ Redeploy(h)
  \/ Rebuild
  \/ Expire

LegsSpec == LegsInit /\ [][LegsNext]_legVars

-----------------------------------------------------------------------------
\* A process with a data version set answers no road of any other graph, in
\* whatever order OSRM and the processes are moved to new data and whichever
\* of them filled the shared cache, nor does it leave one there for others.
LegsOfConfiguredData ==
  /\ \A h \in Hubs : config[h] # Unknown => leg[h].version \in {config[h], "none"}
  /\ \A v \in Versions : road[v] \in {"absent", v}
=============================================================================
