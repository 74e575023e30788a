----------------------------- MODULE PollLease -----------------------------
(***************************************************************************)
(* What the scheduler's single-process guard promises, in the words of the *)
(* comment above it: startup, cron, watchdog and manual triggers share one *)
(* lease per kind of polling loop.  A lease is free or held by one         *)
(* launcher; only the holder gives it back, and a process exit frees all.  *)
(***************************************************************************)
CONSTANTS
  Kinds,      \* kinds of polling loop (short, mid, nowcast, air)
  Launchers,  \* whatever may run a loop: startup, jobs, manual requests
  Nobody      \* the holder of a free lease

VARIABLE holder  \* holder[k]: the launcher whose loop of kind k is running

Init == holder = [k \in Kinds |-> Nobody]

Acquire(k, l) ==
  /\ holder[k] = Nobody
  /\ holder' = [holder EXCEPT ![k] = l]

Release(k) ==
  /\ holder[k] # Nobody
  /\ holder' = [holder EXCEPT ![k] = Nobody]

ProcessExit == holder' = [k \in Kinds |-> Nobody]

Next ==
  \/ \E k \in Kinds, l \in Launchers : Acquire(k, l)
  \/ \E k \in Kinds : Release(k)
  \/ ProcessExit

Spec == Init /\ [][Next]_holder
=============================================================================
