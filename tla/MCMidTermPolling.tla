-------------------------- MODULE MCMidTermPolling --------------------------
(***************************************************************************)
(* Two grids of one land region with a temperature region each, the shape  *)
(* of subscribed_grids (regions are shared), in units of 10 minutes. Cron  *)
(* fires at mark 0 (:10), the watchdog at :20 of every hour; an edition    *)
(* lasts two hours here and not twelve: the hours in between repeat.       *)
(***************************************************************************)
EXTENDS MidTermPolling, TLC

\* The watchdog's marks serve the edition.
ASSUME MarksAssumption == MarksServe

CONSTANTS g1, g2, land, temp1, temp2

MCLandOf == [g \in {g1, g2} |-> land]
MCTempOf == [g \in {g1, g2} |-> IF g = g1 THEN temp1 ELSE temp2]

\* Renaming both grids together with their temperature regions.
MCSwap == {(g1 :> g2) @@ (g2 :> g1) @@ (temp1 :> temp2) @@ (temp2 :> temp1)}
=============================================================================
