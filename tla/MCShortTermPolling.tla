------------------------- MODULE MCShortTermPolling -------------------------
(***************************************************************************)
(* One hub and two grids on the real clock: slots of 36 units of 5 min,    *)
(* cron at slot + :10 (mark 0), the watch at every :25 (marks 3, 15, 27).  *)
(***************************************************************************)
EXTENDS ShortTermPolling, TLC

\* The real marks serve the real slot.
ASSUME MarksAssumption == MarksServe

GridSymmetry == Permutations(Grids)
=============================================================================
