-------------------------- MODULE SinglePoll_proofs --------------------------
(***************************************************************************)
(* For every set of kinds, jobs and requests: one loop per kind at a time, *)
(* the guard exact, and the task table an implementation of the lease.     *)
(***************************************************************************)
EXTENDS SinglePoll, TLAPS

\* Writing one status changes that entry and no other.
LEMMA SetStatusEffect ==
  ASSUME TypeOK, NEW k \in Kinds, NEW l \in Launchers, NEW s \in Status,
         SetStatus(k, l, s)
  PROVE  /\ task' \in [Kinds -> [Launchers -> Status]]
         /\ task'[k][l] = s
         /\ \A j \in Kinds, m \in Launchers :
              (j # k \/ m # l) => task'[j][m] = task[j][m]
BY DEF TypeOK, SetStatus

\* A step in which l's entry of kind k turns into a status other than looping,
\* l was not looping, and the guard is left alone, preserves the invariant.
LEMMA QuietStep ==
  ASSUME GuardInv, NEW k \in Kinds, NEW l \in Launchers, NEW s \in Status,
         SetStatus(k, l, s), s # "looping", task[k][l] # "looping",
         UNCHANGED pollingActive
  PROVE  /\ GuardInv'
         /\ \A j \in Kinds : Looping(j)' = Looping(j)
<1>1. /\ task' \in [Kinds -> [Launchers -> Status]]
      /\ task'[k][l] = s
      /\ \A j \in Kinds, m \in Launchers :
           (j # k \/ m # l) => task'[j][m] = task[j][m]
  BY SetStatusEffect DEF GuardInv
<1>2. \A j \in Kinds : Looping(j)' = Looping(j)
  BY <1>1 DEF Looping
<1>3. TypeOK'
  BY <1>1 DEF GuardInv, TypeOK
<1>4. AtMostOneLoop' /\ GuardMatchesLoop'
  BY <1>2 DEF GuardInv, AtMostOneLoop, GuardMatchesLoop
<1> QED
  BY <1>2, <1>3, <1>4 DEF GuardInv

\* The wrapper either turns the coroutine away or makes it the only loop.
LEMMA EnterStep ==
  ASSUME GuardInv, NEW k \in Kinds, NEW l \in Launchers,
         task[k][l] = "created", Enter(k, l)
  PROVE  /\ GuardInv'
         /\ \/ \A j \in Kinds : Looping(j)' = Looping(j)
            \/ /\ Looping(k) = {}
               /\ Looping(k)' = {l}
               /\ \A j \in Kinds \ {k} : Looping(j)' = Looping(j)
<1>1. CASE k \in pollingActive /\ SetStatus(k, l, "dropped") /\ UNCHANGED pollingActive
  BY <1>1, QuietStep DEF Status
<1>2. CASE /\ k \notin pollingActive
           /\ pollingActive' = pollingActive \cup {k}
           /\ SetStatus(k, l, "looping")
  <2>1. /\ task' \in [Kinds -> [Launchers -> Status]]
        /\ task'[k][l] = "looping"
        /\ \A j \in Kinds, m \in Launchers :
             (j # k \/ m # l) => task'[j][m] = task[j][m]
    BY <1>2, SetStatusEffect DEF GuardInv, Status
  <2>2. Looping(k) = {}
    BY <1>2 DEF GuardInv, GuardMatchesLoop
  <2>3. Looping(k)' = {l}
    BY <2>1, <2>2 DEF Looping
  <2>4. \A j \in Kinds \ {k} : Looping(j)' = Looping(j)
    BY <2>1 DEF Looping
  <2>5. TypeOK'
    BY <1>2, <2>1 DEF GuardInv, TypeOK
  <2>6. AtMostOneLoop'
    BY <2>3, <2>4 DEF GuardInv, AtMostOneLoop
  <2>7. GuardMatchesLoop'
    BY <1>2, <2>3, <2>4 DEF GuardInv, GuardMatchesLoop
  <2> QED
    BY <2>2, <2>3, <2>4, <2>5, <2>6, <2>7 DEF GuardInv
<1> QED
  BY <1>1, <1>2 DEF Enter

\* The end of the only loop of its kind frees the kind.
LEMMA EndLoopStep ==
  ASSUME GuardInv, NEW k \in Kinds, NEW l \in Launchers, EndLoop(k, l)
  PROVE  /\ GuardInv'
         /\ Looping(k) = {l}
         /\ Looping(k)' = {}
         /\ \A j \in Kinds \ {k} : Looping(j)' = Looping(j)
<1>1. /\ task' \in [Kinds -> [Launchers -> Status]]
      /\ task'[k][l] = "ran"
      /\ \A j \in Kinds, m \in Launchers :
           (j # k \/ m # l) => task'[j][m] = task[j][m]
  BY SetStatusEffect DEF GuardInv, Status, EndLoop
<1>2. Looping(k) = {l}
  BY DEF GuardInv, AtMostOneLoop, Looping, EndLoop
<1>3. Looping(k)' = {}
  BY <1>1, <1>2 DEF Looping
<1>4. \A j \in Kinds \ {k} : Looping(j)' = Looping(j)
  BY <1>1 DEF Looping
<1>5. TypeOK'
  BY <1>1 DEF GuardInv, TypeOK, EndLoop
<1>6. AtMostOneLoop'
  BY <1>3, <1>4 DEF GuardInv, AtMostOneLoop
<1>7. GuardMatchesLoop'
  BY <1>3, <1>4 DEF GuardInv, GuardMatchesLoop, EndLoop
<1> QED
  BY <1>2, <1>3, <1>4, <1>5, <1>6, <1>7 DEF GuardInv

\* A freshly booted process runs no loop and holds no guard.
LEMMA BootedState ==
  ASSUME task = Booted, pollingActive = {}
  PROVE  GuardInv /\ \A k \in Kinds : Looping(k) = {}
<1>1. \A k \in Kinds : Looping(k) = {}
  BY DEF Booted, Looping
<1>2. TypeOK
  BY DEF Booted, TypeOK, Status
<1> QED
  BY <1>1, <1>2 DEF GuardInv, AtMostOneLoop, GuardMatchesLoop

\* The state after Restart is the freshly booted one.
LEMMA RestartStep ==
  ASSUME Restart
  PROVE  GuardInv' /\ \A k \in Kinds : Looping(k)' = {}
<1>1. \A k \in Kinds : Looping(k)' = {}
  BY DEF Restart, Booted, Looping
<1>2. TypeOK'
  BY DEF Restart, Booted, TypeOK, Status
<1>3. pollingActive' = {}
  BY DEF Restart
<1> QED
  BY <1>1, <1>2, <1>3 DEF GuardInv, AtMostOneLoop, GuardMatchesLoop

\* What any step does to the loops: nothing, one starts in a free kind, the
\* only one of a kind ends, or all are gone.
StepEffect ==
  \/ \A j \in Kinds : Looping(j)' = Looping(j)
  \/ \E k \in Kinds, l \in Launchers :
       /\ Looping(k) = {}
       /\ Looping(k)' = {l}
       /\ \A j \in Kinds \ {k} : Looping(j)' = Looping(j)
  \/ \E k \in Kinds :
       /\ Looping(k) # {}
       /\ Looping(k)' = {}
       /\ \A j \in Kinds \ {k} : Looping(j)' = Looping(j)
  \/ \A k \in Kinds : Looping(k)' = {}

\* Every step preserves the invariant and has one of those effects.
LEMMA NextStep ==
  ASSUME GuardInv, [Next]_vars
  PROVE  GuardInv' /\ StepEffect
<1>1. ASSUME NEW k \in Kinds, NEW l \in Launchers, StartLoop(k, l)
      PROVE  GuardInv' /\ StepEffect
  BY <1>1, EnterStep DEF StartLoop, StepEffect
<1>2. ASSUME NEW k \in Kinds, NEW l \in Launchers, EndLoop(k, l)
      PROVE  GuardInv' /\ StepEffect
  BY <1>2, EndLoopStep DEF StepEffect
<1>3. ASSUME NEW k \in Kinds, NEW j \in Jobs, FireJob(k, j)
      PROVE  GuardInv' /\ StepEffect
  BY <1>3, QuietStep DEF FireJob, StepEffect, Launchers, Status, Undone
<1>4. ASSUME NEW k \in Kinds, NEW r \in Requests, RunNow(k, r)
      PROVE  GuardInv' /\ StepEffect
  BY <1>4, QuietStep DEF RunNow, StepEffect, Launchers, Status, Undone
<1>5. ASSUME NEW k \in Kinds, Judge(k)
      PROVE  GuardInv' /\ StepEffect
  <2>1. Watchdog \in Launchers
    BY LaunchersAssumption DEF Launchers
  <2>2. CASE SetStatus(k, Watchdog, "ran") /\ UNCHANGED pollingActive
    BY <1>5, <2>1, <2>2, QuietStep DEF Judge, StepEffect, Status
  <2>3. CASE Enter(k, Watchdog)
    BY <1>5, <2>1, <2>3, EnterStep DEF Judge, StepEffect
  <2> QED
    BY <1>5, <2>2, <2>3 DEF Judge
<1>6. ASSUME NEW k \in Kinds, CancelStartup(k)
      PROVE  GuardInv' /\ StepEffect
  BY <1>6, QuietStep DEF CancelStartup, StepEffect, Launchers, Status
<1>7. CASE Restart
  BY <1>7, RestartStep DEF StepEffect
<1>8. CASE UNCHANGED vars
  BY <1>8 DEF vars, GuardInv, TypeOK, AtMostOneLoop, GuardMatchesLoop, Looping,
              StepEffect
<1> QED
  BY <1>1, <1>2, <1>3, <1>4, <1>5, <1>6, <1>7, <1>8 DEF Next, LoopStep

\* In every process, whatever the launchers: the task table is well typed, at
\* most one loop of a kind runs, and the guard is held exactly while it runs.
THEOREM GuardInvariant == Spec => []GuardInv
<1>1. Init => GuardInv
  BY BootedState DEF Init
<1>2. GuardInv /\ [Next]_vars => GuardInv'
  BY NextStep
<1> QED
  BY <1>1, <1>2, PTL DEF Spec

\* The task table and the guard are well typed, for any kinds, jobs and requests.
THEOREM TypeCorrect == Spec => []TypeOK
<1>1. GuardInv => TypeOK
  BY DEF GuardInv
<1> QED
  BY <1>1, GuardInvariant, PTL

\* No two loops of one kind run together.
THEOREM AtMostOneLoopAlways == Spec => []AtMostOneLoop
<1>1. GuardInv => AtMostOneLoop
  BY DEF GuardInv
<1> QED
  BY <1>1, GuardInvariant, PTL

\* The guard never outlives its loop and never frees before it.
THEOREM GuardMatchesLoopAlways == Spec => []GuardMatchesLoop
<1>1. GuardInv => GuardMatchesLoop
  BY DEF GuardInv
<1> QED
  BY <1>1, GuardInvariant, PTL

\* The holder of a kind is its only loop, or nobody.
LEMMA HolderIs ==
  ASSUME GuardInv, NEW k \in Kinds
  PROVE  /\ Looping(k) = {} => Holder[k] = Nobody
         /\ \A l \in Launchers : Looping(k) = {l} => Holder[k] = l
         /\ Looping(k) # {} => Holder[k] # Nobody
BY LaunchersAssumption DEF Holder, Looping

\* Nobody holds a lease at boot.
LEMMA LeaseInit == Init => Lease!Init
<1> SUFFICES ASSUME Init PROVE Holder = [k \in Kinds |-> Nobody]
  BY DEF Lease!Init
<1>1. GuardInv /\ \A k \in Kinds : Looping(k) = {}
  BY BootedState DEF Init
<1> QED
  BY <1>1 DEF Holder

\* Two leases with the same loops have the same holder.
LEMMA SameHolder ==
  ASSUME NEW k \in Kinds, Looping(k)' = Looping(k)
  PROVE  Holder'[k] = Holder[k]
<1>1. \A l \in Launchers : task'[k][l] = "looping" <=> task[k][l] = "looping"
  BY DEF Looping
<1>2. (CHOOSE l \in Launchers : task'[k][l] = "looping")
        = (CHOOSE l \in Launchers : task[k][l] = "looping")
  BY <1>1
<1>3. Holder[k] = IF Looping(k) = {} THEN Nobody
                  ELSE CHOOSE l \in Launchers : task[k][l] = "looping"
  BY DEF Holder
<1>4. Holder'[k] = IF Looping(k)' = {} THEN Nobody
                   ELSE CHOOSE l \in Launchers : task'[k][l] = "looping"
  BY DEF Holder
<1> QED
  BY <1>2, <1>3, <1>4

\* Every step of the task table is a step of the lease or leaves it as it is.
LEMMA LeaseStep ==
  ASSUME GuardInv, GuardInv', [Next]_vars, StepEffect
  PROVE  [Lease!Next]_Holder
<1> DEFINE Free == [k \in Kinds |-> Nobody]
<1>f. /\ Holder = [k \in Kinds |-> Holder[k]]
      /\ Holder' = [k \in Kinds |-> Holder'[k]]
  BY DEF Holder
<1>h. \A k \in Kinds :
        /\ Looping(k)' = {} => Holder'[k] = Nobody
        /\ \A l \in Launchers : Looping(k)' = {l} => Holder'[k] = l
  BY LaunchersAssumption DEF Holder, Looping
<1>1. CASE \A j \in Kinds : Looping(j)' = Looping(j)
  <2>1. \A j \in Kinds : Holder'[j] = Holder[j]
    BY <1>1, SameHolder
  <2>2. Holder' = Holder
    BY <1>f, <2>1
  <2> QED
    BY <2>2
<1>2. ASSUME NEW k \in Kinds, NEW l \in Launchers,
             Looping(k) = {}, Looping(k)' = {l},
             \A j \in Kinds \ {k} : Looping(j)' = Looping(j)
      PROVE  Lease!Next
  <2>1. Holder[k] = Nobody /\ Holder'[k] = l
    BY <1>2, <1>h, HolderIs
  <2>2. \A j \in Kinds \ {k} : Holder'[j] = Holder[j]
    BY <1>2, SameHolder
  <2>3. Holder' = [Holder EXCEPT ![k] = l]
    BY <1>f, <2>1, <2>2
  <2> QED
    BY <2>1, <2>3 DEF Lease!Next, Lease!Acquire
<1>3. ASSUME NEW k \in Kinds, Looping(k) # {}, Looping(k)' = {},
             \A j \in Kinds \ {k} : Looping(j)' = Looping(j)
      PROVE  Lease!Next
  <2>1. Holder[k] # Nobody /\ Holder'[k] = Nobody
    BY <1>3, <1>h, HolderIs
  <2>2. \A j \in Kinds \ {k} : Holder'[j] = Holder[j]
    BY <1>3, SameHolder
  <2>3. Holder' = [Holder EXCEPT ![k] = Nobody]
    BY <1>f, <2>1, <2>2
  <2> QED
    BY <2>1, <2>3 DEF Lease!Next, Lease!Release
<1>4. CASE \A k \in Kinds : Looping(k)' = {}
  <2>1. Holder' = Free
    BY <1>4, <1>f, <1>h
  <2> QED
    BY <2>1 DEF Lease!Next, Lease!ProcessExit
<1> QED
  BY <1>1, <1>2, <1>3, <1>4 DEF StepEffect

\* The guard, its launchers and its restarts implement one lease per kind of
\* polling loop, for any number of kinds, jobs and requests.
THEOREM ImplementsLease == Spec => LeaseSpec
<1>1. Init => Lease!Init
  BY LeaseInit
<1>2. GuardInv /\ GuardInv' /\ [Next]_vars => [Lease!Next]_Holder
  BY NextStep, LeaseStep
<1> QED
  BY <1>1, <1>2, GuardInvariant, PTL DEF Spec, LeaseSpec, Lease!Spec
=============================================================================
