---------------------------- MODULE MCSinglePoll ----------------------------
(***************************************************************************)
(* SinglePoll with the hub's two forecast loops: each has its slot cron    *)
(* job and an hourly watch, the mid-term one judging freshness first.      *)
(***************************************************************************)
EXTENDS SinglePoll

CONSTANTS short, mid, slotJob, shortWatch, midWatch

MCKinds == {short, mid}
MCJobs == {slotJob, shortWatch, midWatch}
MCJobsOf ==
  [k \in MCKinds |-> {slotJob, IF k = short THEN shortWatch ELSE midWatch}]
=============================================================================
