----------------------------- MODULE DailyBudget -----------------------------
(***************************************************************************)
(* The daily cap on calls that cost money or quota: _odsay_call_allowed    *)
(* (one unit a call) and _google_media_allowed (one unit per picture) in   *)
(* routers/hub_routers.py, over RedisCache.incr_by.                        *)
(*                                                                         *)
(* Redis keeps one counter per day.  A call adds its units first, looks at *)
(* the total the addition returned and takes them back when that exceeds   *)
(* the cap.  Each Redis command is atomic; between two commands anything   *)
(* may happen: other calls, a Redis error, the caller's total time limit   *)
(* cancelling the call, midnight.  The call reads the wall clock once, at  *)
(* its beginning.                                                          *)
(*                                                                         *)
(* Expiry: the time to live is the whole seconds left until midnight, at   *)
(* least one.  Counted from some moment before the last second it runs out *)
(* during or after that second; set in the last second, after midnight.    *)
(***************************************************************************)
EXTENDS Integers, FiniteSets

CONSTANTS
  Calls,   \* requests for units; each is made once
  Amount,  \* Amount[c]: units c asks for
  Cap,     \* ODSAY_DAILY_CALL_CAP, GOOGLE_PHOTOS_DAILY_MEDIA_CAP
  LastDay  \* bound of the calendar

ASSUME BudgetAssumption ==
  /\ IsFiniteSet(Calls)
  /\ Amount \in [Calls -> Nat \ {0}]
  /\ Cap \in Nat
  /\ LastDay \in Nat

VARIABLES
  day,     \* the date in KST
  late,    \* the last second of that date
  count,   \* count[d]: the counter of day d, 0 when the key does not exist
  ttl,     \* ttl[d]: when that key goes
  gone,    \* history: gone[d], the key of day d has expired
  call     \* call[c]

budgetVars == <<day, late, count, ttl, gone, call>>

Days == 0..LastDay

(***************************************************************************)
(* absent: no key; none: a key without expiry; early: it may go from the   *)
(* last second of its day on; after: it goes after midnight.               *)
(***************************************************************************)
Ttl == {"absent", "none", "early", "after"}

(***************************************************************************)
(* asking: clock read, addition not done; created: added to a new key,     *)
(* EXPIRE to come; counted: total known; over: total above the cap, units  *)
(* to be taken back; granted, refused: answered; leaked: answered no, or   *)
(* cancelled, with the units still in the counter.                         *)
(***************************************************************************)
Status == {"idle", "asking", "created", "counted", "over",
           "granted", "refused", "leaked"}

Call == [status : Status, day : Days, late : BOOLEAN, total : Int]

TypeOK ==
  /\ day \in Days
  /\ late \in BOOLEAN
  /\ count \in [Days -> Int]
  /\ ttl \in [Days -> Ttl]
  /\ gone \in [Days -> BOOLEAN]
  /\ call \in [Calls -> Call]
  /\ \A d \in Days : ttl[d] = "absent" => count[d] = 0

Init ==
  /\ day = 0
  /\ late = FALSE
  /\ count = [d \in Days |-> 0]
  /\ ttl = [d \in Days |-> "absent"]
  /\ gone = [d \in Days |-> FALSE]
  /\ call = [c \in Calls |->
       [status |-> "idle", day |-> 0, late |-> FALSE, total |-> 0]]

-----------------------------------------------------------------------------
SetCall(c, s) == call' = [call EXCEPT ![c].status = s]

\* A cap of zero refuses at once; otherwise the clock is read.
Ask(c) ==
  /\ call[c].status = "idle"
  /\ \/ /\ Cap = 0
        /\ SetCall(c, "refused")
     \/ /\ Cap > 0
        /\ call' = [call EXCEPT ![c].status = "asking", ![c].day = day,
                                ![c].late = late]
  /\ UNCHANGED <<day, late, count, ttl, gone>>

\* No counter configured, or the addition fails before Redis applied it.
AskFails(c) ==
  /\ call[c].status = "asking"
  /\ SetCall(c, "refused")
  /\ UNCHANGED <<day, late, count, ttl, gone>>

\* Mutant of IsNewKey: the total is compared with one.
IsNewKeyByOne(total, amount) == total = 1

\* incr_by takes a total equal to the amount for a key just created.
IsNewKey(total, amount) == total = amount

\* INCRBY
Add(c) ==
  /\ call[c].status = "asking"
  /\ LET d == call[c].day
         total == count[d] + Amount[c]
     IN /\ count' = [count EXCEPT ![d] = total]
        /\ ttl' = [ttl EXCEPT ![d] = IF @ = "absent" THEN "none" ELSE @]
        /\ call' = [call EXCEPT
             ![c].status = IF IsNewKey(total, Amount[c]) THEN "created" ELSE "counted",
             ![c].total = total]
  /\ UNCHANGED <<day, late, gone>>

\* Mutant of Lifetime: no floor of one second, EXPIRE 0 deletes the key.
LifetimeUnfloored(c) == IF call[c].late THEN "absent" ELSE "early"

\* EXPIRE with the seconds left when the clock was read; a no-op on no key.
Lifetime(c) == IF call[c].late THEN "after" ELSE "early"

SetExpiry(c) ==
  /\ call[c].status = "created"
  /\ LET d == call[c].day
     IN ttl' = [ttl EXCEPT ![d] = IF @ = "absent" THEN @ ELSE Lifetime(c)]
  /\ SetCall(c, "counted")
  /\ UNCHANGED <<day, late, count, gone>>

\* Mutants of WithinCap: one more than the cap passes; the cap itself does not.
WithinCapByOne(total) == total <= Cap + 1

WithinCapStrict(total) == total < Cap

WithinCap(total) == total <= Cap

\* The verdict on the total the addition returned.
Judge(c) ==
  /\ call[c].status = "counted"
  /\ SetCall(c, IF WithinCap(call[c].total) THEN "granted" ELSE "over")
  /\ UNCHANGED <<day, late, count, ttl, gone>>

\* Mutant of TakeBack: one unit goes back whatever was added.
TakeBackOne(c) ==
  /\ call[c].status = "over"
  /\ count' = [count EXCEPT ![call[c].day] = @ - 1]
  /\ ttl' = [ttl EXCEPT ![call[c].day] = IF @ = "absent" THEN "none" ELSE @]
  /\ SetCall(c, "refused")
  /\ UNCHANGED <<day, late, gone>>

\* INCRBY of the negative amount.  On a counter at zero, or a key that has gone
\* meanwhile, the total equals the amount: EXPIRE is sent again, or fails.
TakeBack(c) ==
  /\ call[c].status = "over"
  /\ LET d == call[c].day
         total == count[d] - Amount[c]
         kept == IF ttl[d] = "absent" THEN "none" ELSE ttl[d]
     IN /\ count' = [count EXCEPT ![d] = total]
        /\ \E t \in {kept} \cup {Lifetime(c)} :
             /\ t # kept => IsNewKey(total, -Amount[c])
             /\ ttl' = [ttl EXCEPT ![d] = t]
  /\ SetCall(c, "refused")
  /\ UNCHANGED <<day, late, gone>>

\* A Redis error or the caller's time limit after the addition: the answer is
\* no, or nobody hears it, and what was added stays.
Lose(c) ==
  /\ call[c].status \in {"created", "counted", "over"}
  /\ SetCall(c, "leaked")
  /\ UNCHANGED <<day, late, count, ttl, gone>>

\* The counter's key expires.
Expire(d) ==
  /\ ttl[d] \in {"early", "after"}
  /\ d < day \/ (d = day /\ late /\ ttl[d] = "early")
  /\ count' = [count EXCEPT ![d] = 0]
  /\ ttl' = [ttl EXCEPT ![d] = "absent"]
  /\ gone' = [gone EXCEPT ![d] = TRUE]
  /\ UNCHANGED <<day, late, call>>

LastSecond ==
  /\ ~late
  /\ late' = TRUE
  /\ UNCHANGED <<day, count, ttl, gone, call>>

Midnight ==
  /\ late
  /\ day < LastDay
  /\ day' = day + 1
  /\ late' = FALSE
  /\ UNCHANGED <<count, ttl, gone, call>>

CallStep(c) ==
  \/ Ask(c)
  \/ AskFails(c)
  \/ Add(c)
  \/ SetExpiry(c)
  \/ Judge(c)
  \/ TakeBack(c)
  \/ Lose(c)

Calendar ==
  \/ \E d \in Days : Expire(d)
  \/ LastSecond
  \/ Midnight

Next == (\E c \in Calls : CallStep(c)) \/ Calendar

Spec == Init /\ [][Next]_budgetVars

-----------------------------------------------------------------------------
OfDay(d, statuses) == {c \in Calls : call[c].day = d /\ call[c].status \in statuses}

\* The units of a set of calls, one by one.
Units(C) == UNION {{c} \X (1..Amount[c]) : c \in C}

InCounter == {"created", "counted", "over", "granted", "leaked"}

\* Never more than the cap is granted on one counter, in whatever order the
\* calls add, learn their totals, take back, fail and are cancelled.
CapHolds ==
  \A d \in Days :
    gone[d] \/ Cardinality(Units(OfDay(d, {"granted"}))) <= Cap

\* Once nobody is in between and nothing was lost, the counter is what was
\* granted: refused calls have left no trace that would close the day early.
CounterSettles ==
  \A d \in Days :
    gone[d] \/ OfDay(d, InCounter \ {"granted"}) # {}
      \/ count[d] = Cardinality(Units(OfDay(d, {"granted"})))

\* A counter without expiry, which no one would ever delete, is left behind
\* only when the EXPIRE of the call that made it is still to come or was lost.
NoEternalCounter ==
  \A d \in Days :
    gone[d] \/ ttl[d] # "none" \/ OfDay(d, {"created", "leaked"}) # {}
=============================================================================
