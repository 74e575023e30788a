------------------------ MODULE ForecastAnswer_proofs ------------------------
(***************************************************************************)
(* For any issue hours, lives of rows, ranges and regions: the lowest and  *)
(* highest temperature of a day are kept until it is over, no answer goes  *)
(* behind what the tables held when the request came, none reports a day   *)
(* missing that could be read, and while polling works none misses a day   *)
(* from today to D+9.                                                      *)
(***************************************************************************)
EXTENDS ForecastAnswer, WellFoundedInduction, TLAPS

TableSet ==
  [short : UNION {[K -> Nat] : K \in SUBSET (Nat \X ShortKinds)},
   land : SUBSET Nat, temp : SUBSET Nat]

RequestSet ==
  [pc : {"idle", "short", "land", "temp", "done"}, today : Nat, days : SUBSET Int,
   region : Regions \cup {NoRegion}, read : TableSet, known : TableSet,
   prompt : BOOLEAN, ticked : BOOLEAN]

Sound(T) == T \in TableSet /\ \A x \in DOMAIN T.short : x \in Carried(T.short[x])

\* TypeOK with the shapes of the records.
TypeInv ==
  /\ now \in 0..Horizon
  /\ Sound(tables)
  /\ request \in RequestSet
  /\ Sound(request.read)
  /\ Sound(request.known)

\* A row known at the beginning is still there, or newer, or long expired.
ShortAhead(x) ==
  IF x \in DOMAIN tables.short THEN request.known.short[x] <= tables.short[x]
  ELSE request.known.short[x] + ShortTtl < now

MidAhead(kind) ==
  \A f \in request.known[kind] : f \in tables[kind] \/ f + MidTtl <= now

\* What has been read is not behind what was known.
MidRead(kind) ==
  \A f \in request.known[kind] :
    f \in request.read[kind] \/ \A e \in request.read[kind] : f < e

ShortInv ==
  IF request.pc \in {"idle", "short"}
  THEN \A x \in DOMAIN request.known.short : ShortAhead(x)
  ELSE \A x \in DOMAIN request.known.short \cap DOMAIN request.read.short :
         request.known.short[x] <= request.read.short[x]

LandInv == IF request.pc \in {"idle", "short", "land"} THEN MidAhead("land") ELSE MidRead("land")
TempInv == IF request.pc = "done" THEN MidRead("temp") ELSE MidAhead("temp")

\* The inductive strengthening of NeverOlder.
AheadInv == TypeInv /\ ShortInv /\ LandInv /\ TempInv

-----------------------------------------------------------------------------
LEMMA KindsAre ==
  ShortKinds = {"tmn", "tmx", "am", "pm"} /\ MidKinds = {"land", "temp"}
BY DEF ShortKinds, LastHour, MidKinds

\* An edition's rows are for days from its own on.
LEMMA CarriedKeys ==
  ASSUME NEW e \in Nat
  PROVE  Carried(e) \in SUBSET (Nat \X ShortKinds)
<1>1. Day(e) \in Nat
  BY DEF Day
<1>2. LastDay(e) \in Nat
  BY <1>1 DEF LastDay
<1>3. Day(e)..LastDay(e) \subseteq Nat
  BY <1>1, <1>2
<1> QED
  BY <1>3 DEF Carried

LEMMA EmptySound == Sound(Empty)
<1>1. Empty.short \in [{} -> Nat]
  BY DEF Empty
<1>2. {} \in SUBSET (Nat \X ShortKinds)
  OBVIOUS
<1>3. Empty \in TableSet
  BY <1>1, <1>2 DEF Empty, TableSet
<1> QED
  BY <1>3 DEF Empty, Sound

\* What is left after an expiry is some of what was there.
LEMMA UnexpiredSound ==
  ASSUME Sound(tables), NEW t \in Int
  PROVE  /\ Sound(Unexpired(t))
         /\ DOMAIN Unexpired(t).short =
              {x \in DOMAIN tables.short : ExpiresAt(x, tables.short[x]) > t}
         /\ \A x \in DOMAIN Unexpired(t).short : Unexpired(t).short[x] = tables.short[x]
         /\ Unexpired(t).land = {e \in tables.land : e + MidTtl > t}
         /\ Unexpired(t).temp = {e \in tables.temp : e + MidTtl > t}
<1> DEFINE keys == {x \in DOMAIN tables.short : ExpiresAt(x, tables.short[x]) > t}
           left == [x \in keys |-> tables.short[x]]
<1>1. /\ tables.land \in SUBSET Nat /\ tables.temp \in SUBSET Nat
      /\ DOMAIN tables.short \in SUBSET (Nat \X ShortKinds)
      /\ \A x \in DOMAIN tables.short : tables.short[x] \in Nat
  BY DEF Sound, TableSet
<1>2. keys \in SUBSET (Nat \X ShortKinds) /\ keys \subseteq DOMAIN tables.short
  BY <1>1
<1>3. left \in [keys -> Nat] /\ \A x \in keys : left[x] = tables.short[x]
  BY <1>1, <1>2
<1>4. /\ Unexpired(t).short = left
      /\ Unexpired(t).land = {e \in tables.land : e + MidTtl > t}
      /\ Unexpired(t).temp = {e \in tables.temp : e + MidTtl > t}
      /\ Unexpired(t) = [short |-> left,
                         land |-> {e \in tables.land : e + MidTtl > t},
                         temp |-> {e \in tables.temp : e + MidTtl > t}]
  BY DEF Unexpired
<1>5. Unexpired(t) \in TableSet
  <2> HIDE DEF keys, left
  <2> QED
    BY <1>1, <1>2, <1>3, <1>4 DEF TableSet
<1>6. DOMAIN left = keys
  OBVIOUS
<1>7. \A x \in keys : x \in Carried(left[x])
  BY <1>2, <1>3 DEF Sound
<1> QED
  BY <1>3, <1>4, <1>5, <1>6, <1>7 DEF Sound

\* Storing a short-term edition: rows are added or replaced, none goes back.
LEMMA StoreShortSound ==
  ASSUME Sound(tables), NEW e \in 0..now, now \in Nat, StoreShort(e)
  PROVE  /\ Sound(tables')
         /\ DOMAIN tables'.short = DOMAIN tables.short \cup Carried(e)
         /\ \A x \in DOMAIN tables.short : tables.short[x] <= tables'.short[x]
         /\ \A x \in Carried(e) \ DOMAIN tables.short : tables'.short[x] = e
         /\ \A x \in Carried(e) : tables'.short[x] >= e
         /\ \A x \in DOMAIN tables'.short :
              \/ tables'.short[x] = e
              \/ x \in DOMAIN tables.short /\ tables'.short[x] = tables.short[x]
         /\ tables'.land = tables.land /\ tables'.temp = tables.temp
<1> DEFINE s == tables.short
           new == [x \in DOMAIN s \cup Carried(e) |->
                     IF x \notin DOMAIN s THEN e
                     ELSE IF x \in Carried(e) THEN Merge(s[x], e) ELSE s[x]]
<1>1. /\ tables \in [short : UNION {[K -> Nat] : K \in SUBSET (Nat \X ShortKinds)},
                     land : SUBSET Nat, temp : SUBSET Nat]
      /\ DOMAIN s \in SUBSET (Nat \X ShortKinds)
      /\ \A x \in DOMAIN s : s[x] \in Nat /\ x \in Carried(s[x])
  BY DEF Sound, TableSet
<1>2. tables' = [tables EXCEPT !.short = new]
  BY DEF StoreShort
<1>3. e \in Nat /\ Carried(e) \in SUBSET (Nat \X ShortKinds)
  BY CarriedKeys
<1>4. ASSUME NEW x \in DOMAIN s \cup Carried(e)
      PROVE  /\ new[x] \in Nat /\ x \in Carried(new[x])
             /\ x \in DOMAIN s => s[x] <= new[x]
             /\ x \notin DOMAIN s => new[x] = e
             /\ x \in Carried(e) => new[x] >= e
             /\ new[x] = e \/ (x \in DOMAIN s /\ new[x] = s[x])
  <2>1. CASE x \notin DOMAIN s
    BY <1>3, <2>1
  <2>2. CASE x \in DOMAIN s /\ x \in Carried(e)
    <3>1. new[x] = Merge(s[x], e)
      BY <2>2
    <3>2. s[x] \in Nat /\ x \in Carried(s[x])
      BY <1>1, <2>2
    <3> HIDE DEF new, s
    <3> QED
      BY <1>3, <2>2, <3>1, <3>2 DEF Merge, Later
  <2>3. CASE x \in DOMAIN s /\ x \notin Carried(e)
    BY <1>1, <2>3
  <2> QED
    BY <2>1, <2>2, <2>3
<1>5. DOMAIN new = DOMAIN s \cup Carried(e)
  OBVIOUS
<1>6. new \in [DOMAIN s \cup Carried(e) -> Nat]
  <2>1. new = [x \in DOMAIN s \cup Carried(e) |-> new[x]]
    OBVIOUS
  <2> HIDE DEF new
  <2> QED
    BY <1>4, <2>1
<1> HIDE DEF new
<1>7. DOMAIN s \cup Carried(e) \in SUBSET (Nat \X ShortKinds)
  BY <1>1, <1>3
<1> HIDE DEF s
<1>8. new \in UNION {[K -> Nat] : K \in SUBSET (Nat \X ShortKinds)}
  BY <1>6, <1>7
<1>9. tables' \in TableSet /\ tables'.short = new
      /\ tables'.land = tables.land /\ tables'.temp = tables.temp
  BY <1>1, <1>2, <1>8 DEF TableSet
<1> QED
  BY <1>4, <1>5, <1>9 DEF Sound, s

LEMMA StoreMidSound ==
  ASSUME Sound(tables), NEW e \in 0..now, now \in Nat, NEW kind \in MidKinds,
         StoreMid(kind, e)
  PROVE  /\ Sound(tables')
         /\ tables'.short = tables.short
         /\ tables.land \subseteq tables'.land /\ tables'.land \subseteq tables.land \cup {e}
         /\ tables.temp \subseteq tables'.temp /\ tables'.temp \subseteq tables.temp \cup {e}
<1>1. /\ tables \in [short : UNION {[K -> Nat] : K \in SUBSET (Nat \X ShortKinds)},
                     land : SUBSET Nat, temp : SUBSET Nat]
  BY DEF Sound, TableSet
<1>2. e \in Nat
  OBVIOUS
<1>3. CASE kind = "land"
  <2>1. tables' = [tables EXCEPT !.land = @ \cup {e}]
    BY <1>3 DEF StoreMid
  <2> QED
    BY <1>1, <1>2, <2>1 DEF Sound, TableSet
<1>4. CASE kind = "temp"
  <2>1. tables' = [tables EXCEPT !.temp = @ \cup {e}]
    BY <1>4 DEF StoreMid
  <2> QED
    BY <1>1, <1>2, <2>1 DEF Sound, TableSet
<1> QED
  BY <1>3, <1>4, KindsAre

\* The clock only goes on.
LEMMA TickAdvances ==
  ASSUME now \in Nat, Tick
  PROVE  now' \in Nat /\ now < now' /\ now' <= Horizon
BY DEF Tick, NextMark

-----------------------------------------------------------------------------
(***************************************************************************)
(* What each step of the request does to its record.                       *)
(***************************************************************************)
LEMMA BeginEffect ==
  ASSUME TypeInv, NEW range \in Ranges, NEW region \in Regions, Begin(range, region)
  PROVE  /\ request' \in RequestSet
         /\ request'.pc = "short"
         /\ request'.known = Live
         /\ request'.read = Empty
         /\ request'.today = Day(now)
         /\ request'.prompt => UpToDate
<1>1. Day(now) \in Nat /\ now \in Nat
  BY DEF TypeInv, Day
<1>2. range[1] \in Int /\ range[2] \in Int
  BY HoursAssumption
<1>3. Sound(Live)
  BY <1>1, UnexpiredSound DEF TypeInv, Live
<1>4. UpToDate \in BOOLEAN
  BY DEF UpToDate
<1>5. request' = [pc |-> "short", today |-> Day(now),
                  days |-> (Day(now) + range[1])..(Day(now) + range[2]),
                  region |-> region, read |-> Empty, known |-> Live,
                  prompt |-> UpToDate, ticked |-> FALSE]
  BY DEF Begin, Idle
<1>6. Live \in TableSet /\ Empty \in TableSet
  BY <1>3, EmptySound DEF Sound
<1>7. (Day(now) + range[1])..(Day(now) + range[2]) \in SUBSET Int
  BY <1>1, <1>2
<1> QED
  BY <1>1, <1>4, <1>5, <1>6, <1>7 DEF RequestSet

LEMMA ReadShortEffect ==
  ASSUME TypeInv, ReadShort
  PROVE  /\ request' \in RequestSet
         /\ request.pc = "short" /\ request'.pc = "land"
         /\ request'.known = request.known
         /\ request'.read.land = request.read.land
         /\ request'.read.temp = request.read.temp
         /\ Sound(request'.read)
         /\ DOMAIN request'.read.short \subseteq DOMAIN tables.short
         /\ \A x \in DOMAIN request'.read.short : request'.read.short[x] = tables.short[x]
         /\ DOMAIN request'.read.short =
              {x \in DOMAIN Live.short :
                 request.region.grid /\ x[1] \in ShortDays \cup OverlapDays}
<1> DEFINE keys == {x \in DOMAIN Live.short :
                      request.region.grid /\ x[1] \in ShortDays \cup OverlapDays}
           found == [x \in keys |-> Live.short[x]]
<1>1. now \in Int /\ Sound(tables) /\ request \in RequestSet /\ Sound(request.read)
  BY DEF TypeInv
<1>2. /\ Sound(Live)
      /\ DOMAIN Live.short \subseteq DOMAIN tables.short
      /\ \A x \in DOMAIN Live.short : Live.short[x] = tables.short[x]
  BY <1>1, UnexpiredSound DEF Live
<1>3. /\ DOMAIN Live.short \in SUBSET (Nat \X ShortKinds)
      /\ \A x \in DOMAIN Live.short : Live.short[x] \in Nat /\ x \in Carried(Live.short[x])
  BY <1>2 DEF Sound, TableSet
<1>4. keys \subseteq DOMAIN Live.short /\ keys \in SUBSET (Nat \X ShortKinds)
  BY <1>3
<1>5. /\ found \in [keys -> Nat] /\ DOMAIN found = keys
      /\ \A x \in keys : found[x] = Live.short[x]
  BY <1>3, <1>4
<1>6. /\ request.pc = "short"
      /\ request' = [request EXCEPT !.pc = "land", !.read.short = found]
  BY DEF ReadShort
<1> HIDE DEF found, keys
<1>7. found \in UNION {[K -> Nat] : K \in SUBSET (Nat \X ShortKinds)}
  BY <1>4, <1>5
<1>8. [request.read EXCEPT !.short = found] \in TableSet
  BY <1>1, <1>7 DEF Sound, TableSet
<1>9. request' = [request EXCEPT !.pc = "land", !.read = [request.read EXCEPT !.short = found]]
  BY <1>6
<1>10. /\ request' \in RequestSet
       /\ request'.pc = "land" /\ request'.known = request.known
       /\ request'.read = [request.read EXCEPT !.short = found]
  <2> DEFINE r == [request.read EXCEPT !.short = found]
  <2> HIDE DEF r
  <2>1. r \in TableSet /\ request' = [request EXCEPT !.pc = "land", !.read = r]
    BY <1>8, <1>9 DEF r
  <2>2. /\ request' \in RequestSet /\ request'.pc = "land"
        /\ request'.known = request.known /\ request'.read = r
    BY <1>1, <2>1 DEF RequestSet
  <2> QED
    BY <2>2 DEF r
<1>11. /\ request'.read.short = found
       /\ request'.read.land = request.read.land
       /\ request'.read.temp = request.read.temp
  BY <1>1, <1>10 DEF Sound, TableSet
<1> QED
  BY <1>2, <1>3, <1>4, <1>5, <1>6, <1>8, <1>10, <1>11 DEF Sound, keys

LEMMA ReadMidEffect ==
  ASSUME TypeInv, NEW kind \in MidKinds, NEW next \in {"temp", "done"},
         ReadMid(kind, next)
  PROVE  /\ request' \in RequestSet
         /\ request.pc = kind /\ request'.pc = next
         /\ request'.known = request.known
         /\ request'.read.short = request.read.short
         /\ Sound(request'.read)
         /\ \A other \in MidKinds \ {kind} : request'.read[other] = request.read[other]
         /\ \A f \in tables[kind] : f \in request'.read[kind]
              \/ f + MidTtl <= now \/ request'.read[kind] = {}
         /\ \A f \in request'.read[kind] : f \in Nat /\ f + MidTtl > now
         /\ request'.read[kind] \subseteq tables[kind]
         /\ OverlapDays \cup MidDays # {} /\ request.region[kind] =>
              \A f \in tables[kind] : f \in request'.read[kind] \/ f + MidTtl <= now
<1> DEFINE found == IF OverlapDays \cup MidDays # {} /\ request.region[kind]
                    THEN Live[kind] ELSE {}
           read == [request.read EXCEPT ![kind] = found]
<1>1. now \in Int /\ Sound(tables) /\ request \in RequestSet /\ Sound(request.read)
  BY DEF TypeInv
<1>2. Live.land = {e \in tables.land : e + MidTtl > now}
      /\ Live.temp = {e \in tables.temp : e + MidTtl > now}
  BY <1>1, UnexpiredSound DEF Live
<1>3. Live[kind] = {e \in tables[kind] : e + MidTtl > now}
  BY <1>2, KindsAre
<1>4. tables.land \in SUBSET Nat /\ tables.temp \in SUBSET Nat
  BY <1>1 DEF Sound, TableSet
<1>5. tables[kind] \in SUBSET Nat
  BY <1>4, KindsAre
<1>6. MidTtl \in Nat
  BY HoursAssumption
<1>7. /\ found \in SUBSET Nat
      /\ \A f \in tables[kind] : f \in found \/ f + MidTtl <= now \/ found = {}
      /\ \A f \in found : f + MidTtl > now
      /\ found \subseteq tables[kind]
      /\ OverlapDays \cup MidDays # {} /\ request.region[kind] =>
           \A f \in tables[kind] : f \in found \/ f + MidTtl <= now
  BY <1>1, <1>3, <1>5, <1>6
<1> HIDE DEF found
<1>8. /\ read \in TableSet /\ read.short = request.read.short /\ read[kind] = found
      /\ \A other \in MidKinds \ {kind} : read[other] = request.read[other]
  <2>1. request.read \in [short : UNION {[K -> Nat] : K \in SUBSET (Nat \X ShortKinds)},
                          land : SUBSET Nat, temp : SUBSET Nat]
    BY <1>1 DEF Sound, TableSet
  <2>2. CASE kind = "land"
    <3>1. read = [request.read EXCEPT !.land = found]
      BY <2>2
    <3> HIDE DEF read
    <3> QED
      BY <1>7, <2>1, <2>2, <3>1, KindsAre DEF TableSet
  <2>3. CASE kind = "temp"
    <3>1. read = [request.read EXCEPT !.temp = found]
      BY <2>3
    <3> HIDE DEF read
    <3> QED
      BY <1>7, <2>1, <2>3, <3>1, KindsAre DEF TableSet
  <2> QED
    BY <2>2, <2>3, KindsAre
<1>9. Sound(read)
  BY <1>1, <1>8 DEF Sound
<1>10. request.pc = kind /\ request' = [request EXCEPT !.pc = next, !.read = read]
  BY DEF ReadMid, found
<1> HIDE DEF read
<1>11. /\ request' \in RequestSet /\ request'.pc = next
       /\ request'.known = request.known /\ request'.read = read
  BY <1>1, <1>8, <1>10 DEF RequestSet
<1> QED
  BY <1>7, <1>8, <1>9, <1>10, <1>11

LEMMA EndEffect ==
  ASSUME End
  PROVE  /\ request' \in RequestSet
         /\ request'.pc = "idle"
         /\ request'.read = Empty /\ request'.known = Empty
<1>1. request' = Idle
  BY DEF End
<1>2. Empty \in TableSet
  BY EmptySound DEF Sound
<1>3. {} \in SUBSET Int
  OBVIOUS
<1> QED
  BY <1>1, <1>2, <1>3 DEF Idle, RequestSet

LEMMA TickEffect ==
  ASSUME TypeInv, Tick
  PROVE  /\ request' \in RequestSet
         /\ request.pc # "idle" => request'.pc = request.pc
         /\ request.pc = "idle" => request' = Idle
         /\ request.pc # "idle" => /\ request'.read = request.read
                                   /\ request'.known = request.known
<1>1. request \in RequestSet
  BY DEF TypeInv
<1>2. Empty \in TableSet
  BY EmptySound DEF Sound
<1>3. CASE request.pc = "idle"
  <2>1. request' = Idle
    BY <1>3 DEF Tick
  <2>2. {} \in SUBSET Int
    OBVIOUS
  <2> QED
    BY <1>2, <1>3, <2>1, <2>2 DEF Idle, RequestSet
<1>4. CASE request.pc # "idle"
  <2>1. request' = [request EXCEPT !.ticked = TRUE, !.prompt = FALSE]
    BY <1>4 DEF Tick
  <2> QED
    BY <1>1, <1>4, <2>1 DEF RequestSet
<1> QED
  BY <1>3, <1>4

-----------------------------------------------------------------------------
LEMMA InitTypeInv == Init => TypeInv
<1> SUFFICES ASSUME Init PROVE TypeInv
  OBVIOUS
<1>1. now \in 0..23 /\ Horizon \in Nat /\ Horizon >= 23
  BY HoursAssumption DEF Init
<1>2. now \in 0..Horizon
  BY <1>1
<1>3. tables = Empty /\ request = Idle
  BY DEF Init
<1>4. Empty \in TableSet
  BY EmptySound DEF Sound
<1>5. {} \in SUBSET Int
  OBVIOUS
<1>6. request \in RequestSet
  BY <1>3, <1>4, <1>5 DEF Idle, RequestSet
<1>7. request.read = Empty /\ request.known = Empty
  BY <1>3 DEF Idle
<1> QED
  BY <1>2, <1>3, <1>6, <1>7, EmptySound DEF TypeInv

LEMMA NextTypeInv ==
  ASSUME TypeInv, [Next]_vars
  PROVE  TypeInv'
<1>1. now \in Nat /\ now \in Int /\ now - 1 \in Int /\ now \in 0..Horizon
  BY HoursAssumption DEF TypeInv
<1>2. ASSUME NEW e \in Issued(ShortHours), StoreShort(e) PROVE TypeInv'
  <2>1. e \in 0..now
    BY DEF Issued
  <2>2. Sound(tables')
    BY <1>1, <1>2, <2>1, StoreShortSound DEF TypeInv
  <2> QED
    BY <1>2, <2>2 DEF StoreShort, TypeInv, Sound
<1>3. ASSUME NEW e \in Issued(MidHours), NEW kind \in MidKinds, StoreMid(kind, e)
      PROVE  TypeInv'
  <2>1. e \in 0..now
    BY DEF Issued
  <2>2. Sound(tables')
    BY <1>1, <1>3, <2>1, StoreMidSound DEF TypeInv
  <2> QED
    BY <1>3, <2>2 DEF StoreMid, TypeInv, Sound
<1>4. ASSUME Housekeep PROVE TypeInv'
  <2>1. Sound(Unexpired(now - 1))
    BY <1>1, UnexpiredSound DEF TypeInv
  <2>2. tables' = Unexpired(now - 1) /\ now' = now /\ request' = request
    BY <1>4 DEF Housekeep
  <2>3. Sound(tables')
    BY <2>1, <2>2 DEF Sound
  <2> QED
    BY <2>2, <2>3 DEF TypeInv, Sound
<1>5. ASSUME NEW range \in Ranges, NEW region \in Regions, Begin(range, region)
      PROVE  TypeInv'
  <2>1. /\ request' \in RequestSet /\ request'.known = Live /\ request'.read = Empty
    BY <1>5, BeginEffect
  <2>2. Sound(Live) /\ Sound(Empty)
    BY <1>1, UnexpiredSound, EmptySound DEF TypeInv, Live
  <2>3. Sound(request'.known) /\ Sound(request'.read)
    BY <2>1, <2>2
  <2> QED
    BY <1>5, <2>1, <2>3 DEF Begin, TypeInv, Sound
<1>6. ASSUME ReadShort PROVE TypeInv'
  <2>1. request' \in RequestSet /\ Sound(request'.read) /\ request'.known = request.known
    BY <1>6, ReadShortEffect
  <2> QED
    BY <1>6, <2>1 DEF ReadShort, TypeInv, Sound
<1>7. ASSUME NEW kind \in MidKinds, NEW next \in {"temp", "done"}, ReadMid(kind, next)
      PROVE  TypeInv'
  <2>1. request' \in RequestSet /\ Sound(request'.read) /\ request'.known = request.known
    BY <1>7, ReadMidEffect
  <2> QED
    BY <1>7, <2>1 DEF ReadMid, TypeInv, Sound
<1>8. ASSUME End PROVE TypeInv'
  <2>1. request' \in RequestSet /\ request'.read = Empty /\ request'.known = Empty
    BY <1>8, EndEffect
  <2>2. Sound(request'.known) /\ Sound(request'.read)
    BY <2>1, EmptySound
  <2> QED
    BY <1>8, <2>1, <2>2 DEF End, TypeInv, Sound
<1>9. ASSUME Tick PROVE TypeInv'
  <2>1. now' \in 0..Horizon
    BY <1>1, <1>9, TickAdvances, HoursAssumption
  <2>2. request' \in RequestSet
    BY <1>9, TickEffect
  <2>3. Sound(request'.read) /\ Sound(request'.known)
    <3>1. CASE request.pc = "idle"
      <4>1. request'.read = Empty /\ request'.known = Empty
        BY <1>9, <3>1, TickEffect DEF Idle
      <4> QED
        BY <4>1, EmptySound
    <3>2. CASE request.pc # "idle"
      <4>1. request'.read = request.read /\ request'.known = request.known
        BY <1>9, <3>2, TickEffect
      <4> QED
        BY <4>1 DEF TypeInv
    <3> QED
      BY <3>1, <3>2
  <2> QED
    BY <1>9, <2>1, <2>2, <2>3 DEF Tick, TypeInv, Sound
<1>10. ASSUME UNCHANGED vars PROVE TypeInv'
  BY <1>10 DEF vars, TypeInv, Sound
<1> QED
  BY <1>2, <1>3, <1>4, <1>5, <1>6, <1>7, <1>8, <1>9, <1>10, KindsAre DEF Next

LEMMA SoundIsTables == ASSUME NEW T, Sound(T) PROVE IsTables(T)
<1>1. T \in [short : UNION {[K -> Nat] : K \in SUBSET (Nat \X ShortKinds)},
             land : SUBSET Nat, temp : SUBSET Nat]
  BY DEF Sound, TableSet
<1>2. DOMAIN T = {"short", "land", "temp"}
  BY <1>1
<1>3. /\ DOMAIN T.short \subseteq Nat \X ShortKinds
      /\ \A x \in DOMAIN T.short : T.short[x] \in Nat
      /\ T.land \cup T.temp \subseteq Nat
  BY <1>1
<1> QED
  BY <1>2, <1>3 DEF Sound, IsTables

\* The state is well typed, and every row in the tables or in a request is one
\* that its edition carries (_upsert_*, fetch_*).
THEOREM TypeCorrect == Spec => []TypeOK
<1>1. TypeInv => TypeOK
  <2> SUFFICES ASSUME TypeInv PROVE TypeOK
    OBVIOUS
  <2>1. IsTables(tables) /\ IsTables(request.read) /\ IsTables(request.known)
    BY SoundIsTables DEF TypeInv
  <2>2. /\ request.pc \in {"idle", "short", "land", "temp", "done"}
        /\ request.today \in Nat /\ request.days \subseteq Int
        /\ request.region \in Regions \cup {NoRegion}
        /\ request.prompt \in BOOLEAN /\ request.ticked \in BOOLEAN
    BY DEF TypeInv, RequestSet
  <2> QED
    BY <2>1, <2>2 DEF TypeInv, TypeOK
<1> QED
  BY <1>1, InitTypeInv, NextTypeInv, PTL DEF Spec

-----------------------------------------------------------------------------
(***************************************************************************)
(* ExtremesKept: no step takes the extremes of a day that is not over.     *)
(***************************************************************************)

\* Their row does not expire before its day is over, whatever its edition.
LEMMA ExtremesOutlive ==
  ASSUME NEW h \in Int, NEW e \in Nat, NEW x \in Nat \X ShortKinds,
         x[2] \in Extremes, Day(h) <= x[1]
  PROVE  ExpiresAt(x, e) > h
<1>1. x[1] \in Nat /\ e + ShortTtl \in Int
  BY HoursAssumption
<1>2. 24 * (x[1] + 1) > h
  BY <1>1 DEF Day
<1>3. ExpiresAt(x, e) = Later(e + ShortTtl, 24 * (x[1] + 1))
  BY DEF ExpiresAt
<1> QED
  BY <1>1, <1>2, <1>3 DEF Later

THEOREM ExtremesStay == Spec => ExtremesKept
<1>1. ASSUME TypeInv, TypeInv', [Next]_vars, NEW x \in DOMAIN Live.short,
             x[2] \in Extremes, Day(now') <= x[1]
      PROVE  x \in DOMAIN Live'.short
  <2>1. /\ now \in Int /\ now - 1 \in Int /\ now' \in Int /\ now \in Nat
        /\ Sound(tables) /\ Sound(tables')
    BY <1>1, HoursAssumption DEF TypeInv, Sound
  <2>2. x \in DOMAIN tables.short
    BY <1>1, <2>1, UnexpiredSound DEF Live
  <2>3. /\ DOMAIN tables.short \in SUBSET (Nat \X ShortKinds)
        /\ \A y \in DOMAIN tables.short : tables.short[y] \in Nat
        /\ \A y \in DOMAIN tables'.short : tables'.short[y] \in Nat
    BY <2>1 DEF Sound, TableSet
  <2>4. x \in Nat \X ShortKinds
    BY <2>2, <2>3
  <2>5. x \in DOMAIN tables'.short
    <3>1. ASSUME NEW e \in Issued(ShortHours), StoreShort(e) PROVE x \in DOMAIN tables'.short
      <4>1. e \in 0..now
        BY DEF Issued
      <4> QED
        BY <2>1, <2>2, <3>1, <4>1, StoreShortSound
    <3>2. ASSUME NEW e \in Issued(MidHours), NEW kind \in MidKinds, StoreMid(kind, e)
          PROVE  x \in DOMAIN tables'.short
      <4>1. e \in 0..now
        BY DEF Issued
      <4> QED
        BY <2>1, <2>2, <3>2, <4>1, StoreMidSound
    <3>3. CASE Housekeep
      <4>1. tables' = Unexpired(now - 1) /\ now' = now
        BY <3>3 DEF Housekeep
      <4>2. ExpiresAt(x, tables.short[x]) > now
        BY <1>1, <2>1, <2>2, <2>3, <2>4, <4>1, ExtremesOutlive
      <4>3. ExpiresAt(x, tables.short[x]) \in Int
        BY <2>2, <2>3, <2>4, HoursAssumption DEF ExpiresAt, Later
      <4>4. ExpiresAt(x, tables.short[x]) > now - 1
        BY <2>1, <4>2, <4>3
      <4>5. x \in DOMAIN Unexpired(now - 1).short
        BY <2>1, <2>2, <4>4, UnexpiredSound
      <4> QED
        BY <4>1, <4>5
    <3>4. CASE UNCHANGED tables
      BY <2>2, <3>4
    <3>5. \/ Tick \/ End \/ ReadShort \/ ReadMid("land", "temp") \/ ReadMid("temp", "done")
          \/ (\E range \in Ranges, region \in Regions : Begin(range, region))
          \/ UNCHANGED vars
          => UNCHANGED tables
      BY DEF Tick, End, ReadShort, ReadMid, Begin, vars
    <3> QED
      BY <1>1, <3>1, <3>2, <3>3, <3>4, <3>5 DEF Next
  <2>6. ExpiresAt(x, tables'.short[x]) > now'
    BY <1>1, <2>1, <2>3, <2>4, <2>5, ExtremesOutlive
  <2>7. Live'.short = [y \in {z \in DOMAIN tables'.short : ExpiresAt(z, tables'.short[z]) > now'}
                         |-> tables'.short[y]]
    BY DEF Live, Unexpired
  <2> QED
    BY <2>5, <2>6, <2>7
<1>2. ASSUME TypeInv, TypeInv', [Next]_vars
      PROVE  [{x \in DOMAIN Live.short : x[2] \in Extremes /\ Day(now') <= x[1]}
                \subseteq DOMAIN Live'.short]_vars
  BY <1>1, <1>2
<1> QED
  BY <1>2, InitTypeInv, NextTypeInv, PTL DEF Spec, ExtremesKept

-----------------------------------------------------------------------------
(***************************************************************************)
(* NeverOlder.  A row known at the beginning may be deleted and come back  *)
(* before it is read; LateAssumption says that what comes back is newer.   *)
(***************************************************************************)
LEMMA TtlFacts ==
  /\ ShortTtl \in Nat /\ MidTtl \in Nat /\ ShortLate \in Nat /\ ShortLate <= ShortTtl
BY HoursAssumption, LateAssumption

LEMMA TypeFacts ==
  ASSUME TypeInv
  PROVE  /\ now \in Nat /\ now - 1 \in Int
         /\ Sound(tables) /\ Sound(request.known) /\ Sound(request.read)
         /\ \A x \in DOMAIN tables.short : tables.short[x] \in Nat /\ x \in Nat \X ShortKinds
         /\ \A x \in DOMAIN request.known.short :
              request.known.short[x] \in Nat /\ x \in Nat \X ShortKinds
         /\ \A x \in DOMAIN request.read.short :
              request.read.short[x] \in Nat /\ x \in Nat \X ShortKinds
         /\ tables.land \in SUBSET Nat /\ tables.temp \in SUBSET Nat
         /\ request.known.land \in SUBSET Nat /\ request.known.temp \in SUBSET Nat
         /\ request.read.land \in SUBSET Nat /\ request.read.temp \in SUBSET Nat
BY HoursAssumption DEF TypeInv, Sound, TableSet

\* As long as a request does not move, storing, deleting and the clock keep it ahead.
LEMMA ShortAheadKept ==
  ASSUME TypeInv, TypeInv', [Next]_vars, request'.known = request.known,
         NEW x \in DOMAIN request.known.short, ShortAhead(x)
  PROVE  ShortAhead(x)'
<1> DEFINE k == request.known.short[x]
<1>1. /\ k \in Nat /\ now \in Nat /\ now' \in Nat /\ x \in Nat \X ShortKinds
      /\ \A y \in DOMAIN tables.short : tables.short[y] \in Nat
      /\ Sound(tables) /\ now - 1 \in Int
  BY TypeFacts DEF TypeInv
<1>2. request'.known.short[x] = k
  OBVIOUS
<1>3. ASSUME NEW e \in Issued(ShortHours), StoreShort(e) PROVE ShortAhead(x)'
  <2>1. e \in 0..now
    BY DEF Issued
  <2>2. now - e <= ShortLate /\ now' = now
    BY <1>3 DEF StoreShort
  <2>3. /\ DOMAIN tables'.short = DOMAIN tables.short \cup Carried(e)
        /\ \A y \in DOMAIN tables.short : tables.short[y] <= tables'.short[y]
        /\ \A y \in Carried(e) \ DOMAIN tables.short : tables'.short[y] = e
    BY <1>1, <1>3, <2>1, StoreShortSound
  <2>4. \A y \in DOMAIN tables'.short : tables'.short[y] \in Nat
    BY DEF TypeInv, Sound, TableSet
  <2>5. CASE x \in DOMAIN tables.short
    <3>1. k <= tables.short[x] /\ tables.short[x] <= tables'.short[x]
      BY <2>3, <2>5 DEF ShortAhead
    <3>2. x \in DOMAIN tables'.short
      BY <2>3, <2>5
    <3>3. k <= tables'.short[x]
      BY <1>1, <2>4, <2>5, <3>1, <3>2
    <3> QED
      BY <1>2, <3>2, <3>3 DEF ShortAhead
  <2>6. CASE x \notin DOMAIN tables.short
    <3>1. k + ShortTtl < now
      BY <2>6 DEF ShortAhead
    <3>2. k <= e
      BY <1>1, <2>1, <2>2, <3>1, TtlFacts
    <3>3. CASE x \in Carried(e)
      BY <1>2, <2>3, <2>6, <3>2, <3>3 DEF ShortAhead
    <3>4. CASE x \notin Carried(e)
      BY <1>2, <2>2, <2>3, <2>6, <3>1, <3>4 DEF ShortAhead
    <3> QED
      BY <3>3, <3>4
  <2> QED
    BY <2>5, <2>6
<1>4. ASSUME Housekeep PROVE ShortAhead(x)'
  <2>1. tables' = Unexpired(now - 1) /\ now' = now
    BY <1>4 DEF Housekeep
  <2>2. /\ DOMAIN tables'.short =
             {y \in DOMAIN tables.short : ExpiresAt(y, tables.short[y]) > now - 1}
        /\ \A y \in DOMAIN tables'.short : tables'.short[y] = tables.short[y]
    BY <1>1, <2>1, UnexpiredSound
  <2>3. CASE x \in DOMAIN tables'.short
    BY <1>2, <2>2, <2>3 DEF ShortAhead
  <2>4. CASE x \in DOMAIN tables.short /\ x \notin DOMAIN tables'.short
    <3>1. k <= tables.short[x] /\ tables.short[x] \in Nat
      BY <1>1, <2>4 DEF ShortAhead
    <3>2. ~(ExpiresAt(x, tables.short[x]) > now - 1)
      BY <2>2, <2>4
    <3>3. /\ ExpiresAt(x, tables.short[x]) \in Int
          /\ ExpiresAt(x, tables.short[x]) >= tables.short[x] + ShortTtl
      BY <1>1, <3>1, TtlFacts DEF ExpiresAt, Later
    <3>4. k + ShortTtl < now
      BY <1>1, <3>1, <3>2, <3>3, TtlFacts
    <3> QED
      BY <1>2, <2>1, <2>4, <3>4 DEF ShortAhead
  <2>5. CASE x \notin DOMAIN tables.short
    BY <1>2, <2>1, <2>2, <2>5 DEF ShortAhead
  <2> QED
    BY <2>3, <2>4, <2>5
<1>5. ASSUME tables'.short = tables.short, now' >= now PROVE ShortAhead(x)'
  BY <1>1, <1>2, <1>5, TtlFacts DEF ShortAhead
<1>6. ASSUME NEW e \in Issued(MidHours), NEW kind \in MidKinds, StoreMid(kind, e)
      PROVE  ShortAhead(x)'
  <2>1. e \in 0..now
    BY DEF Issued
  <2>2. tables'.short = tables.short
    BY <1>1, <1>6, <2>1, StoreMidSound
  <2>3. now' = now
    BY <1>6 DEF StoreMid
  <2>4. now' >= now
    BY <1>1, <2>3
  <2> QED
    BY <1>5, <2>2, <2>4
<1>7. CASE Tick
  BY <1>1, <1>5, <1>7, TickAdvances DEF Tick
<1>8. \/ End \/ ReadShort \/ ReadMid("land", "temp") \/ ReadMid("temp", "done")
      \/ (\E range \in Ranges, region \in Regions : Begin(range, region))
      \/ UNCHANGED vars
      => tables' = tables /\ now' = now
  BY DEF End, ReadShort, ReadMid, Begin, vars
<1>9. CASE tables' = tables /\ now' = now
  <2>1. now' >= now
    BY <1>1, <1>9
  <2> QED
    BY <1>5, <1>9, <2>1
<1> QED
  BY <1>3, <1>4, <1>6, <1>7, <1>8, <1>9 DEF Next

LEMMA MidAheadKept ==
  ASSUME TypeInv, TypeInv', [Next]_vars, NEW kind \in MidKinds,
         request'.known = request.known, MidAhead(kind)
  PROVE  MidAhead(kind)'
<1>1. /\ now \in Nat /\ now' \in Nat /\ now - 1 \in Int /\ Sound(tables)
      /\ tables.land \in SUBSET Nat /\ tables.temp \in SUBSET Nat
      /\ request.known.land \in SUBSET Nat /\ request.known.temp \in SUBSET Nat
  BY TypeFacts DEF TypeInv
<1>2. tables[kind] \in SUBSET Nat /\ request.known[kind] \in SUBSET Nat
  BY <1>1, KindsAre
<1>3. SUFFICES /\ now' >= now
               /\ \A f \in tables[kind] : f \in tables'[kind] \/ f + MidTtl <= now
  BY <1>1, <1>2, TtlFacts DEF MidAhead
<1>4. ASSUME NEW e \in Issued(ShortHours), StoreShort(e)
      PROVE  tables'[kind] = tables[kind] /\ now' = now
  <2>1. e \in 0..now
    BY DEF Issued
  <2>2. tables'.land = tables.land /\ tables'.temp = tables.temp
    BY <1>1, <1>4, <2>1, StoreShortSound
  <2> QED
    BY <1>4, <2>2, KindsAre DEF StoreShort
<1>5. ASSUME NEW e \in Issued(MidHours), NEW other \in MidKinds, StoreMid(other, e)
      PROVE  tables[kind] \subseteq tables'[kind] /\ now' = now
  <2>1. e \in 0..now
    BY DEF Issued
  <2>2. tables.land \subseteq tables'.land /\ tables.temp \subseteq tables'.temp
    BY <1>1, <1>5, <2>1, StoreMidSound
  <2> QED
    BY <1>5, <2>2, KindsAre DEF StoreMid
<1>6. ASSUME Housekeep
      PROVE  /\ \A f \in tables[kind] : f \in tables'[kind] \/ f + MidTtl <= now
             /\ now' = now
  <2>1. tables' = Unexpired(now - 1) /\ now' = now
    BY <1>6 DEF Housekeep
  <2>2. /\ tables'.land = {f \in tables.land : f + MidTtl > now - 1}
        /\ tables'.temp = {f \in tables.temp : f + MidTtl > now - 1}
    BY <1>1, <2>1, UnexpiredSound
  <2>3. tables'[kind] = {f \in tables[kind] : f + MidTtl > now - 1}
    BY <2>2, KindsAre
  <2> QED
    BY <1>1, <1>2, <2>1, <2>3, TtlFacts
<1>7. Tick => tables' = tables /\ now' >= now
  <2> SUFFICES ASSUME Tick PROVE tables' = tables /\ now' >= now
    OBVIOUS
  <2> QED
    BY <1>1, TickAdvances DEF Tick
<1>8. \/ End \/ ReadShort \/ ReadMid("land", "temp") \/ ReadMid("temp", "done")
      \/ (\E range \in Ranges, region \in Regions : Begin(range, region))
      \/ UNCHANGED vars
      => tables' = tables /\ now' = now
  BY DEF End, ReadShort, ReadMid, Begin, vars
<1>9. now' = now => now' >= now
  BY <1>1
<1> QED
  BY <1>4, <1>5, <1>6, <1>7, <1>8, <1>9 DEF Next

\* Steps that move the request neither on nor back: the tables' and the clock's.
LEMMA UnmovedAhead ==
  ASSUME AheadInv, TypeInv', [Next]_vars, request'.pc = request.pc,
         request'.known = request.known, request'.read = request.read
  PROVE  AheadInv'
<1>1. TypeInv
  BY DEF AheadInv
<1>2. ShortInv'
  <2>1. CASE request.pc \in {"idle", "short"}
    <3>1. ASSUME NEW x \in DOMAIN request.known.short PROVE ShortAhead(x)'
      <4>1. ShortAhead(x)
        BY <2>1 DEF AheadInv, ShortInv
      <4> QED
        BY <1>1, <4>1, ShortAheadKept
    <3> QED
      BY <2>1, <3>1 DEF ShortInv
  <2>2. CASE request.pc \notin {"idle", "short"}
    BY <2>2 DEF AheadInv, ShortInv
  <2> QED
    BY <2>1, <2>2
<1>3. ASSUME NEW kind \in MidKinds, MidAhead(kind) PROVE MidAhead(kind)'
  BY <1>1, <1>3, MidAheadKept
<1>4. ASSUME NEW kind \in MidKinds, MidRead(kind) PROVE MidRead(kind)'
  BY <1>4 DEF MidRead
<1>5. LandInv' /\ TempInv'
  BY <1>3, <1>4, KindsAre DEF AheadInv, LandInv, TempInv
<1> QED
  BY <1>2, <1>5 DEF AheadInv

\* Without a request nothing is known.
LEMMA IdleAhead ==
  ASSUME TypeInv, request.pc = "idle", request.known = Empty
  PROVE  AheadInv
<1>1. DOMAIN request.known.short = {} /\ request.known.land = {} /\ request.known.temp = {}
  BY DEF Empty
<1>2. MidAhead("land") /\ MidAhead("temp")
  BY <1>1 DEF MidAhead
<1> QED
  BY <1>1, <1>2 DEF AheadInv, ShortInv, LandInv, TempInv

\* Reading a mid-term table that is not behind what was known.
LEMMA ReadMidAhead ==
  ASSUME TypeInv, NEW kind \in MidKinds, NEW next \in {"temp", "done"},
         ReadMid(kind, next), MidAhead(kind)
  PROVE  MidRead(kind)'
<1>1. /\ now \in Nat /\ request.known.land \in SUBSET Nat /\ request.known.temp \in SUBSET Nat
  BY TypeFacts
<1>2. request.known[kind] \in SUBSET Nat
  BY <1>1, KindsAre
<1>3. /\ request'.known = request.known
      /\ \A f \in tables[kind] : f \in request'.read[kind]
           \/ f + MidTtl <= now \/ request'.read[kind] = {}
      /\ \A f \in request'.read[kind] : f \in Nat /\ f + MidTtl > now
  BY ReadMidEffect
<1>4. ASSUME NEW f \in request.known[kind], f \notin request'.read[kind],
             NEW e \in request'.read[kind]
      PROVE  f < e
  <2>1. f + MidTtl <= now
    BY <1>3, <1>4 DEF MidAhead
  <2>2. f \in Nat /\ e \in Nat /\ e + MidTtl > now
    BY <1>2, <1>3
  <2> QED
    BY <1>1, <2>1, <2>2, TtlFacts
<1> QED
  BY <1>3, <1>4 DEF MidRead

LEMMA NextAheadInv ==
  ASSUME AheadInv, [Next]_vars
  PROVE  AheadInv'
<1>1. TypeInv /\ TypeInv'
  BY NextTypeInv DEF AheadInv
<1>2. CASE \/ \E e \in Issued(ShortHours) : StoreShort(e)
           \/ \E e \in Issued(MidHours), kind \in MidKinds : StoreMid(kind, e)
           \/ Housekeep
           \/ UNCHANGED vars
  <2>1. request' = request
    BY <1>2 DEF StoreShort, StoreMid, Housekeep, vars
  <2> QED
    BY <1>1, <2>1, UnmovedAhead
<1>3. ASSUME NEW range \in Ranges, NEW region \in Regions, Begin(range, region)
      PROVE  AheadInv'
  <2>1. /\ request'.pc = "short" /\ request'.known = Live
        /\ tables' = tables /\ now' = now
    BY <1>1, <1>3, BeginEffect DEF Begin
  <2>2. /\ DOMAIN Live.short \subseteq DOMAIN tables.short
        /\ \A x \in DOMAIN Live.short : Live.short[x] = tables.short[x]
        /\ Live.land \subseteq tables.land /\ Live.temp \subseteq tables.temp
    BY <1>1, TypeFacts, UnexpiredSound DEF Live
  <2>3. \A x \in DOMAIN Live.short : Live.short[x] <= tables.short[x]
    BY <1>1, <2>2, TypeFacts
  <2>4. ShortInv'
    BY <2>1, <2>2, <2>3 DEF ShortInv, ShortAhead
  <2>5. MidAhead("land")' /\ MidAhead("temp")'
    BY <2>1, <2>2 DEF MidAhead
  <2> QED
    BY <1>1, <2>1, <2>4, <2>5 DEF AheadInv, LandInv, TempInv
<1>4. CASE ReadShort
  <2>1. /\ request.pc = "short" /\ request'.pc = "land"
        /\ request'.known = request.known
        /\ DOMAIN request'.read.short \subseteq DOMAIN tables.short
        /\ \A x \in DOMAIN request'.read.short : request'.read.short[x] = tables.short[x]
        /\ tables' = tables /\ now' = now
    BY <1>1, <1>4, ReadShortEffect DEF ReadShort
  <2>2. ShortInv'
    BY <2>1 DEF AheadInv, ShortInv, ShortAhead
  <2>3. MidAhead("land")' /\ MidAhead("temp")'
    BY <2>1 DEF AheadInv, LandInv, TempInv, MidAhead
  <2> QED
    BY <1>1, <2>1, <2>2, <2>3 DEF AheadInv, LandInv, TempInv
<1>5. CASE ReadMid("land", "temp")
  <2>1. /\ request.pc = "land" /\ request'.pc = "temp"
        /\ request'.known = request.known
        /\ request'.read.short = request.read.short
        /\ tables' = tables /\ now' = now
    BY <1>1, <1>5, ReadMidEffect, KindsAre DEF ReadMid
  <2>2. MidAhead("land") /\ MidAhead("temp")
    BY <2>1 DEF AheadInv, LandInv, TempInv
  <2>3. MidRead("land")'
    BY <1>1, <1>5, <2>2, ReadMidAhead, KindsAre
  <2>4. MidAhead("temp")'
    BY <2>1, <2>2 DEF MidAhead
  <2>5. ShortInv'
    BY <2>1 DEF AheadInv, ShortInv
  <2> QED
    BY <1>1, <2>1, <2>3, <2>4, <2>5 DEF AheadInv, LandInv, TempInv
<1>6. CASE ReadMid("temp", "done")
  <2>1. /\ request.pc = "temp" /\ request'.pc = "done"
        /\ request'.known = request.known
        /\ request'.read.short = request.read.short
        /\ request'.read.land = request.read.land
    <3>1. \A other \in MidKinds \ {"temp"} : request'.read[other] = request.read[other]
      BY <1>1, <1>6, ReadMidEffect, KindsAre
    <3>2. "land" \in MidKinds \ {"temp"}
      BY KindsAre
    <3> QED
      BY <1>1, <1>6, <3>1, <3>2, ReadMidEffect, KindsAre
  <2>2. MidRead("land") /\ MidAhead("temp")
    BY <2>1 DEF AheadInv, LandInv, TempInv
  <2>3. MidRead("temp")'
    BY <1>1, <1>6, <2>2, ReadMidAhead, KindsAre
  <2>4. MidRead("land")'
    BY <2>1, <2>2 DEF MidRead
  <2>5. ShortInv'
    BY <2>1 DEF AheadInv, ShortInv
  <2> QED
    BY <1>1, <2>1, <2>3, <2>4, <2>5 DEF AheadInv, LandInv, TempInv
<1>7. CASE End
  <2>1. request'.pc = "idle" /\ request'.known = Empty
    BY <1>7, EndEffect
  <2>2. (TypeInv /\ request.pc = "idle" /\ request.known = Empty)' => AheadInv'
    BY IdleAhead, PTL
  <2> QED
    BY <1>1, <2>1, <2>2, EmptySound
<1>8. CASE Tick
  <2>1. CASE request.pc = "idle"
    <3>1. request'.pc = "idle" /\ request'.known = Empty
      BY <1>1, <1>8, <2>1, TickEffect DEF Idle
    <3>2. (TypeInv /\ request.pc = "idle" /\ request.known = Empty)' => AheadInv'
      BY IdleAhead, PTL
    <3> QED
      BY <1>1, <3>1, <3>2
  <2>2. CASE request.pc # "idle"
    BY <1>1, <1>8, <2>2, TickEffect, UnmovedAhead
  <2> QED
    BY <2>1, <2>2
<1> QED
  BY <1>2, <1>3, <1>4, <1>5, <1>6, <1>7, <1>8 DEF Next

\* A row of tables T for day d.
LEMMA RowIs ==
  ASSUME NEW T, Sound(T), NEW d, NEW q \in RowsFor(T, d)
  PROVE  \/ q[1] \in ShortKinds /\ <<d, q[1]>> \in DOMAIN T.short
            /\ q[2] = T.short[<<d, q[1]>>]
         \/ q[1] \in MidKinds /\ q[2] \in T[q[1]] /\ q[2] \in Nat /\ q = <<q[1], q[2]>>
            /\ d - Day(q[2]) \in Offsets(q[2])
<1>1. /\ DOMAIN T.short \in SUBSET (Nat \X ShortKinds)
      /\ T.land \in SUBSET Nat /\ T.temp \in SUBSET Nat
  BY DEF Sound, TableSet
<1>2. CASE q \in {<<x[2], T.short[x]>> : x \in {y \in DOMAIN T.short : y[1] = d}}
  <2>1. PICK x \in DOMAIN T.short : x[1] = d /\ q = <<x[2], T.short[x]>>
    BY <1>2
  <2>2. x = <<d, x[2]>> /\ x[2] \in ShortKinds
    BY <1>1, <2>1
  <2> QED
    BY <2>1, <2>2
<1>3. CASE q \in {p \in MidKinds \X (T.land \cup T.temp) :
                    p[2] \in T[p[1]] /\ d - Day(p[2]) \in Offsets(p[2])}
  BY <1>1, <1>3
<1> QED
  BY <1>2, <1>3 DEF RowsFor

\* An answer made from tables that are not behind is not behind either: the one
\* row of a short-term kind, and the latest of the mid-term rows.
LEMMA AnswerAhead ==
  ASSUME AheadInv
  PROVE  NeverOlder
<1> SUFFICES ASSUME Done, NEW d \in request.days, NEW r \in Item(d),
                    NEW k \in RowsFor(request.known, d), k[1] = r[1]
             PROVE  k[2] <= r[2]
  BY DEF NeverOlder
<1>1. /\ TypeInv
      /\ \A x \in DOMAIN request.known.short \cap DOMAIN request.read.short :
           request.known.short[x] <= request.read.short[x]
      /\ \A kind \in MidKinds : MidRead(kind)
  BY KindsAre DEF AheadInv, ShortInv, LandInv, TempInv, Done
<1>2. r \in ShortItem(d) \/ r \in MidItem(d)
  BY DEF Item, OverlapItem
<1>3. ASSUME NEW T, NEW q \in RowsFor(T, d), Sound(T)
      PROVE  \/ q[1] \in ShortKinds /\ <<d, q[1]>> \in DOMAIN T.short
                /\ q[2] = T.short[<<d, q[1]>>]
             \/ q[1] \in MidKinds /\ q[2] \in T[q[1]] /\ q[2] \in Nat /\ q = <<q[1], q[2]>>
                /\ d - Day(q[2]) \in Offsets(q[2])
  BY <1>3, RowIs
<1>4. /\ Sound(request.known) /\ Sound(request.read)
      /\ request.known.land \in SUBSET Nat /\ request.known.temp \in SUBSET Nat
      /\ request.read.land \in SUBSET Nat /\ request.read.temp \in SUBSET Nat
  BY <1>1, TypeFacts
<1>5. ShortKinds \cap MidKinds = {}
  BY KindsAre
<1>6. CASE r \in ShortItem(d)
  <2>1. r \in RowsFor(request.read, d) /\ r[1] \in ShortKinds
    BY <1>6 DEF ShortItem
  <2>2. <<d, r[1]>> \in DOMAIN request.read.short /\ r[2] = request.read.short[<<d, r[1]>>]
    BY <1>3, <1>4, <1>5, <2>1
  <2>3. <<d, r[1]>> \in DOMAIN request.known.short /\ k[2] = request.known.short[<<d, r[1]>>]
    BY <1>3, <1>4, <1>5, <2>1
  <2> QED
    BY <1>1, <2>2, <2>3
<1>7. CASE r \in MidItem(d)
  <2>1. /\ r \in RowsFor(request.read, d) /\ r[1] \in MidKinds
        /\ \A q \in RowsFor(request.read, d) :
             q[1] \in MidKinds /\ q[1] = r[1] => q[2] <= r[2]
    BY <1>7 DEF MidItem
  <2>2. r[2] \in request.read[r[1]] /\ r[2] \in Nat
    BY <1>3, <1>4, <1>5, <2>1
  <2>3. /\ k = <<r[1], k[2]>> /\ k[2] \in request.known[r[1]] /\ k[2] \in Nat
        /\ d - Day(k[2]) \in Offsets(k[2])
    BY <1>3, <1>4, <1>5, <2>1
  <2>4. CASE k[2] \in request.read[r[1]]
    <3>1. k[2] \in request.read.land \cup request.read.temp
      BY <2>1, <2>4, KindsAre
    <3>2. k \in {p \in MidKinds \X (request.read.land \cup request.read.temp) :
                   p[2] \in request.read[p[1]] /\ d - Day(p[2]) \in Offsets(p[2])}
      <4>1. k \in MidKinds \X (request.read.land \cup request.read.temp)
        BY <2>1, <2>3, <3>1
      <4> QED
        BY <2>3, <2>4, <4>1
    <3>3. k \in RowsFor(request.read, d)
      BY <3>2 DEF RowsFor
    <3> QED
      BY <2>1, <3>3
  <2>5. CASE \A e \in request.read[r[1]] : k[2] < e
    BY <2>2, <2>3, <2>5
  <2> QED
    BY <1>1, <2>1, <2>3, <2>4, <2>5 DEF MidRead
<1> QED
  BY <1>2, <1>6, <1>7

\* No answer is older than what the tables held when its request came, for any
\* issue hours, lives and delays within the assumptions (fetch_*, ON CONFLICT).
THEOREM NeverBehind == Spec => []NeverOlder
<1>1. Init => AheadInv
  <2> SUFFICES ASSUME Init PROVE AheadInv
    OBVIOUS
  <2>1. request.pc = "idle" /\ request.known = Empty
    BY DEF Init, Idle
  <2> QED
    BY <2>1, InitTypeInv, IdleAhead
<1> QED
  BY <1>1, NextAheadInv, AnswerAhead, PTL DEF Spec

-----------------------------------------------------------------------------
(***************************************************************************)
(* NothingWithheld and CoversTheWeek.  The invariant follows what was      *)
(* known at the beginning: it is read, or gone for good when it is passed  *)
(* over; and an edition of which an hourly row lives is there as a whole.  *)
(***************************************************************************)
\* No row of a later edition than t.
NoneAfter(t, T) ==
  /\ \A x \in DOMAIN T.short : T.short[x] <= t
  /\ \A f \in T.land \cup T.temp : f <= t

\* An edition of which one hourly row lives is there as a whole.
StoredWhole ==
  \A x \in DOMAIN tables.short : tables.short[x] + ShortTtl >= now =>
    \A y \in Carried(tables.short[x]) :
      y \in DOMAIN tables.short /\ tables.short[x] <= tables.short[y]

\* The row known for x has expired, or is replaced or deleted for good.
ShortGone(x) ==
  LET k == request.known.short[x] IN
  \/ ExpiresAt(x, k) <= now
  \/ k + ShortTtl < now /\ (x \in DOMAIN tables.short => tables.short[x] # k)

\* What the request has passed over is gone.
ShortKept ==
  request.pc \notin {"idle", "short"} /\ request.region.grid =>
    \A x \in DOMAIN request.known.short :
      x[1] \in ShortDays \cup OverlapDays => x \in DOMAIN request.read.short \/ ShortGone(x)

MidKept(kind) ==
  request.region[kind] /\ OverlapDays \cup MidDays # {} =>
    \A f \in request.known[kind] : f \in request.read[kind] \/ f + MidTtl <= now

LandKept == request.pc \in {"temp", "done"} => MidKept("land")
TempKept == request.pc = "done" => MidKept("temp")

\* What was known was issued before, in the present or the past.
KnownBefore ==
  request.pc # "idle" =>
    /\ request.today <= Day(now)
    /\ \A x \in DOMAIN request.known.short : Day(request.known.short[x]) <= request.today
    /\ \A f \in request.known.land \cup request.known.temp : Day(f) <= request.today

\* A request that finds polling up to date, in one hour, knows the editions
\* that are to be had: all live mid-term ones, and a short-term one whole.
KnowsEditions ==
  request.pc # "idle" /\ request.prompt =>
    /\ request.today = Day(now) /\ now >= MidTtl
    /\ {e \in Issued(MidHours) : e + MidTtl > now} \subseteq
         request.known.land \cap request.known.temp
    /\ \E e \in 0..now :
         /\ e + ShortTtl > now
         /\ <<Day(now), "pm">> \in Carried(e)
         /\ \A y \in Carried(e) :
              y \in DOMAIN request.known.short /\ e <= request.known.short[y]

TablesInv == NoneAfter(now, tables) /\ StoredWhole

-----------------------------------------------------------------------------
\* The hour of a day, and what it adds to an edition's name.
LEMMA DayAndHour ==
  ASSUME NEW h \in Nat
  PROVE  Day(h) \in Nat /\ Hour(h) \in 0..23 /\ h = 24 * Day(h) + Hour(h)
BY DEF Day, Hour

LEMMA DaysFollow ==
  ASSUME NEW g \in Nat, NEW h \in Nat, g <= h
  PROVE  Day(g) <= Day(h)
<1>1. Day(g) \in Nat /\ Hour(g) \in 0..23 /\ g = 24 * Day(g) + Hour(g)
  BY DayAndHour
<1>2. Day(h) \in Nat /\ Hour(h) \in 0..23 /\ h = 24 * Day(h) + Hour(h)
  BY DayAndHour
<1> QED
  BY <1>1, <1>2

LEMMA ExpiresFacts ==
  ASSUME NEW x \in Nat \X ShortKinds, NEW e \in Nat, NEW f \in Nat, e <= f
  PROVE  /\ ExpiresAt(x, e) \in Nat /\ ExpiresAt(x, e) >= e + ShortTtl
         /\ ExpiresAt(x, e) <= ExpiresAt(x, f)
<1>1. x[1] \in Nat /\ ShortTtl \in Nat
  BY TtlFacts
<1> QED
  BY <1>1 DEF ExpiresAt, Later

\* Who moves: polling or housekeeping, or else the request or the clock.
LEMMA WhoMoves ==
  ASSUME TypeInv, [Next]_vars
  PROVE  \/ \E e \in 0..now : StoreShort(e) /\ now' = now /\ request' = request
         \/ \E e \in 0..now, kind \in MidKinds :
              StoreMid(kind, e) /\ now' = now /\ request' = request
         \/ Housekeep /\ now' = now /\ request' = request
         \/ tables' = tables /\ now' >= now
<1>1. now \in Nat
  BY TypeFacts
<1>2. ASSUME NEW e \in Issued(ShortHours), StoreShort(e)
      PROVE  e \in 0..now /\ now' = now /\ request' = request
  BY <1>2 DEF Issued, StoreShort
<1>3. ASSUME NEW e \in Issued(MidHours), NEW kind \in MidKinds, StoreMid(kind, e)
      PROVE  e \in 0..now /\ now' = now /\ request' = request
  BY <1>3 DEF Issued, StoreMid
<1>4. Housekeep => now' = now /\ request' = request
  BY DEF Housekeep
<1>5. CASE Tick
  BY <1>1, <1>5, TickAdvances DEF Tick
<1>6. CASE \/ End \/ ReadShort \/ ReadMid("land", "temp") \/ ReadMid("temp", "done")
           \/ (\E range \in Ranges, region \in Regions : Begin(range, region))
           \/ UNCHANGED vars
  <2>1. tables' = tables /\ now' = now
    BY <1>6 DEF End, ReadShort, ReadMid, Begin, vars
  <2> QED
    BY <1>1, <2>1
<1> QED
  BY <1>2, <1>3, <1>4, <1>5, <1>6 DEF Next

\* A request that goes on keeps what it fixed; a turn of the hour is noted.
LEMMA Underway ==
  ASSUME TypeInv, [Next]_vars, request.pc # "idle", request'.pc # "idle"
  PROVE  /\ request'.today = request.today /\ request'.days = request.days
         /\ request'.region = request.region /\ request'.known = request.known
         /\ request'.prompt => request.prompt /\ now' = now
<1>1. request \in RequestSet
  BY DEF TypeInv
<1>2. CASE request' = request
  <2>1. now' = now \/ Tick
    BY WhoMoves DEF Next, StoreShort, StoreMid, Housekeep, Begin, ReadShort, ReadMid, End, vars
  <2>2. Tick => request'.prompt = FALSE
    <3>1. Tick => request' = [request EXCEPT !.ticked = TRUE, !.prompt = FALSE]
      BY DEF Tick
    <3> QED
      BY <1>1, <3>1 DEF RequestSet
  <2> QED
    BY <1>2, <2>1, <2>2
<1>3. CASE Tick
  <2>1. request' = [request EXCEPT !.ticked = TRUE, !.prompt = FALSE]
    BY <1>3 DEF Tick
  <2> QED
    BY <1>1, <2>1 DEF RequestSet
<1>4. CASE ReadShort
  <2>1. PICK found : request' = [request EXCEPT !.pc = "land",
                                  !.read = [request.read EXCEPT !.short = found]]
    BY <1>4 DEF ReadShort
  <2> QED
    BY <1>1, <1>4, <2>1 DEF RequestSet, ReadShort
<1>5. ASSUME NEW kind \in MidKinds, NEW next \in {"temp", "done"}, ReadMid(kind, next)
      PROVE  /\ request'.today = request.today /\ request'.days = request.days
             /\ request'.region = request.region /\ request'.known = request.known
             /\ request'.prompt = request.prompt /\ now' = now
  <2>1. PICK found : request' = [request EXCEPT !.pc = next,
                                  !.read = [request.read EXCEPT ![kind] = found]]
    BY <1>5 DEF ReadMid
  <2> QED
    BY <1>1, <1>5, <2>1 DEF RequestSet, ReadMid
<1>6. CASE End \/ \E range \in Ranges, region \in Regions : Begin(range, region)
  <2>1. ~End
    BY EndEffect
  <2> QED
    BY <1>6, <2>1 DEF Begin
<1>7. ASSUME \/ \E e \in Issued(ShortHours) : StoreShort(e)
             \/ \E e \in Issued(MidHours), kind \in MidKinds : StoreMid(kind, e)
             \/ Housekeep \/ UNCHANGED vars
      PROVE  request' = request
  BY <1>7 DEF StoreShort, StoreMid, Housekeep, vars
<1> QED
  BY <1>2, <1>3, <1>4, <1>5, <1>6, <1>7, KindsAre DEF Next

\* Storing and deleting keep the tables' editions past and whole.
LEMMA TablesKept ==
  ASSUME TypeInv, TypeInv', TablesInv, [Next]_vars
  PROVE  TablesInv'
<1>1. /\ now \in Nat /\ now' \in Nat /\ now - 1 \in Int
      /\ Sound(tables) /\ Sound(tables')
      /\ \A x \in DOMAIN tables.short : tables.short[x] \in Nat /\ x \in Nat \X ShortKinds
      /\ \A x \in DOMAIN tables'.short : tables'.short[x] \in Nat /\ x \in Nat \X ShortKinds
      /\ tables.land \in SUBSET Nat /\ tables.temp \in SUBSET Nat
  <2>1. \A x \in DOMAIN tables'.short : tables'.short[x] \in Nat /\ x \in Nat \X ShortKinds
    BY DEF TypeInv, Sound, TableSet
  <2> QED
    BY <2>1, TypeFacts DEF TypeInv
<1>2. ASSUME NEW e \in 0..now, StoreShort(e), now' = now
      PROVE  TablesInv'
  <2>1. /\ DOMAIN tables'.short = DOMAIN tables.short \cup Carried(e)
        /\ \A x \in DOMAIN tables.short : tables.short[x] <= tables'.short[x]
        /\ \A x \in Carried(e) : tables'.short[x] >= e
        /\ \A x \in DOMAIN tables'.short :
             \/ tables'.short[x] = e
             \/ x \in DOMAIN tables.short /\ tables'.short[x] = tables.short[x]
        /\ tables'.land = tables.land /\ tables'.temp = tables.temp
    BY <1>1, <1>2, StoreShortSound
  <2>2. NoneAfter(now, tables)'
    BY <1>2, <2>1 DEF TablesInv, NoneAfter
  <2>3. ASSUME NEW x \in DOMAIN tables'.short, tables'.short[x] + ShortTtl >= now',
               NEW y \in Carried(tables'.short[x])
        PROVE  y \in DOMAIN tables'.short /\ tables'.short[x] <= tables'.short[y]
    <3>1. CASE tables'.short[x] = e
      <4>1. y \in Carried(e)
        BY <2>3, <3>1
      <4>2. y \in DOMAIN tables'.short /\ tables'.short[y] >= e
        BY <2>1, <4>1
      <4> QED
        BY <1>1, <3>1, <4>2
    <3>2. CASE x \in DOMAIN tables.short /\ tables'.short[x] = tables.short[x]
      <4>1. y \in DOMAIN tables.short /\ tables.short[x] <= tables.short[y]
        BY <1>2, <2>3, <3>2 DEF TablesInv, StoredWhole
      <4>2. y \in DOMAIN tables'.short /\ tables.short[y] <= tables'.short[y]
        BY <2>1, <4>1
      <4> QED
        BY <1>1, <3>2, <4>1, <4>2
    <3> QED
      BY <2>1, <3>1, <3>2
  <2> QED
    BY <2>2, <2>3 DEF TablesInv, StoredWhole
<1>3. ASSUME NEW e \in 0..now, NEW kind \in MidKinds, StoreMid(kind, e), now' = now
      PROVE  TablesInv'
  <2>1. /\ tables'.short = tables.short
        /\ tables'.land \subseteq tables.land \cup {e}
        /\ tables'.temp \subseteq tables.temp \cup {e}
    BY <1>1, <1>3, StoreMidSound
  <2>2. NoneAfter(now, tables)'
    BY <1>3, <2>1 DEF TablesInv, NoneAfter
  <2> QED
    BY <1>3, <2>1, <2>2 DEF TablesInv, StoredWhole
<1>4. ASSUME Housekeep, now' = now PROVE TablesInv'
  <2>1. tables' = Unexpired(now - 1)
    BY <1>4 DEF Housekeep
  <2>2. /\ DOMAIN tables'.short =
             {y \in DOMAIN tables.short : ExpiresAt(y, tables.short[y]) > now - 1}
        /\ \A y \in DOMAIN tables'.short : tables'.short[y] = tables.short[y]
        /\ tables'.land \subseteq tables.land /\ tables'.temp \subseteq tables.temp
    BY <1>1, <2>1, UnexpiredSound
  <2>3. NoneAfter(now, tables)'
    BY <1>4, <2>2 DEF TablesInv, NoneAfter
  <2>4. ASSUME NEW x \in DOMAIN tables'.short, tables'.short[x] + ShortTtl >= now',
               NEW y \in Carried(tables'.short[x])
        PROVE  y \in DOMAIN tables'.short /\ tables'.short[x] <= tables'.short[y]
    <3>1. /\ x \in DOMAIN tables.short /\ tables'.short[x] = tables.short[x]
          /\ tables.short[x] + ShortTtl >= now
      BY <1>4, <2>2, <2>4
    <3>2. y \in DOMAIN tables.short /\ tables.short[x] <= tables.short[y]
      BY <2>4, <3>1 DEF TablesInv, StoredWhole
    <3>3. ExpiresAt(y, tables.short[y]) > now - 1
      <4>1. /\ tables.short[y] \in Nat /\ tables.short[x] \in Nat
            /\ ExpiresAt(y, tables.short[y]) \in Nat
            /\ ExpiresAt(y, tables.short[y]) >= tables.short[y] + ShortTtl
        BY <1>1, <3>1, <3>2, ExpiresFacts
      <4> QED
        BY <1>1, <3>1, <3>2, <4>1, TtlFacts
    <3> QED
      BY <2>2, <3>1, <3>2, <3>3
  <2> QED
    BY <2>3, <2>4 DEF TablesInv, StoredWhole
<1>5. ASSUME tables' = tables, now' >= now PROVE TablesInv'
  <2>1. NoneAfter(now, tables)'
    BY <1>1, <1>5 DEF TablesInv, NoneAfter
  <2>2. ASSUME NEW x \in DOMAIN tables.short, tables.short[x] + ShortTtl >= now'
        PROVE  tables.short[x] + ShortTtl >= now
    BY <1>1, <1>5, <2>2, TtlFacts
  <2> QED
    BY <1>5, <2>1, <2>2 DEF TablesInv, StoredWhole
<1> QED
  BY <1>2, <1>3, <1>4, <1>5, WhoMoves

\* What is gone does not come back: what is stored late has not expired.
LEMMA ShortGoneStays ==
  ASSUME TypeInv, TypeInv', [Next]_vars, request'.known = request.known,
         NEW x \in DOMAIN request.known.short, ShortGone(x)
  PROVE  ShortGone(x)'
<1> DEFINE k == request.known.short[x]
<1>1. /\ k \in Nat /\ now \in Nat /\ now' \in Nat /\ x \in Nat \X ShortKinds
      /\ Sound(tables) /\ now - 1 \in Int
  BY TypeFacts DEF TypeInv
<1>2. request'.known.short[x] = k
  OBVIOUS
<1>3. now' >= now
  BY <1>1, WhoMoves
<1>4. CASE ExpiresAt(x, k) <= now
  <2>1. ExpiresAt(x, k) \in Nat
    BY <1>1, ExpiresFacts
  <2> HIDE DEF k
  <2>2. ExpiresAt(x, k) <= now'
    BY <1>1, <1>3, <1>4, <2>1
  <2> QED
    BY <1>2, <2>2 DEF ShortGone
<1>5. CASE k + ShortTtl < now /\ (x \in DOMAIN tables.short => tables.short[x] # k)
  <2>1. k + ShortTtl < now'
    BY <1>1, <1>3, <1>5, TtlFacts
  <2>2. ASSUME x \in DOMAIN tables'.short PROVE tables'.short[x] # k
    <3>1. ASSUME NEW e \in 0..now, StoreShort(e) PROVE tables'.short[x] # k
      <4>1. now - e <= ShortLate
        BY <3>1 DEF StoreShort
      <4>2. e # k
        BY <1>1, <1>5, <4>1, TtlFacts
      <4>3. \A y \in DOMAIN tables'.short :
              \/ tables'.short[y] = e
              \/ y \in DOMAIN tables.short /\ tables'.short[y] = tables.short[y]
        BY <1>1, <3>1, StoreShortSound
      <4> QED
        BY <1>5, <2>2, <4>2, <4>3
    <3>2. ASSUME NEW e \in 0..now, NEW kind \in MidKinds, StoreMid(kind, e)
          PROVE  tables'.short[x] # k
      <4>1. tables'.short = tables.short
        BY <1>1, <3>2, StoreMidSound
      <4> QED
        BY <1>5, <2>2, <4>1
    <3>3. CASE Housekeep
      <4>1. tables' = Unexpired(now - 1)
        BY <3>3 DEF Housekeep
      <4>2. /\ DOMAIN tables'.short =
                 {y \in DOMAIN tables.short : ExpiresAt(y, tables.short[y]) > now - 1}
            /\ \A y \in DOMAIN tables'.short : tables'.short[y] = tables.short[y]
        BY <1>1, <4>1, UnexpiredSound
      <4> QED
        BY <1>5, <2>2, <4>2
    <3>4. CASE tables' = tables
      BY <1>5, <2>2, <3>4
    <3> QED
      BY <3>1, <3>2, <3>3, <3>4, WhoMoves
  <2> QED
    BY <1>2, <2>1, <2>2 DEF ShortGone
<1> QED
  BY <1>4, <1>5 DEF ShortGone
\* The steps of an idle request establish its part; it begins with what lives.
RequestInv ==
  /\ NoneAfter(now, request.read)
  /\ ShortKept /\ LandKept /\ TempKept /\ KnownBefore /\ KnowsEditions

LEMMA IdleKnowsNothing ==
  ASSUME request.pc = "idle", request.read = Empty
  PROVE  RequestInv
<1>1. NoneAfter(now, request.read)
  BY DEF NoneAfter, Empty
<1> QED
  BY <1>1 DEF RequestInv, ShortKept, LandKept, TempKept, KnownBefore, KnowsEditions

LEMMA BeginKnows ==
  ASSUME TypeInv, TypeInv', TablesInv,
         NEW range \in Ranges, NEW region \in Regions, Begin(range, region)
  PROVE  RequestInv'
<1>1. /\ request'.pc = "short" /\ request'.known = Live /\ request'.read = Empty
      /\ request'.today = Day(now)
      /\ request'.prompt => UpToDate
      /\ tables' = tables /\ now' = now
  BY BeginEffect DEF Begin
<1>2. /\ now \in Nat /\ Sound(tables)
      /\ \A x \in DOMAIN tables.short : tables.short[x] \in Nat /\ x \in Nat \X ShortKinds
      /\ tables.land \in SUBSET Nat /\ tables.temp \in SUBSET Nat
  BY TypeFacts
<1>3. /\ DOMAIN Live.short =
           {x \in DOMAIN tables.short : ExpiresAt(x, tables.short[x]) > now}
      /\ \A x \in DOMAIN Live.short : Live.short[x] = tables.short[x]
      /\ Live.land = {e \in tables.land : e + MidTtl > now}
      /\ Live.temp = {e \in tables.temp : e + MidTtl > now}
  BY <1>2, UnexpiredSound DEF Live
<1>4. NoneAfter(now, request.read)'
  BY <1>1 DEF NoneAfter, Empty
<1>5. KnownBefore'
  <2>1. \A x \in DOMAIN Live.short : Day(Live.short[x]) <= Day(now)
    BY <1>2, <1>3, DaysFollow DEF TablesInv, NoneAfter
  <2>2. \A f \in Live.land \cup Live.temp : Day(f) <= Day(now)
    BY <1>2, <1>3, DaysFollow DEF TablesInv, NoneAfter
  <2>3. request'.today <= Day(now')
    BY <1>1, <1>2, DayAndHour
  <2>4. /\ \A x \in DOMAIN request'.known.short :
             Day(request'.known.short[x]) <= request'.today
        /\ \A f \in request'.known.land \cup request'.known.temp : Day(f) <= request'.today
    BY <1>1, <2>1, <2>2
  <2> QED
    BY <2>3, <2>4 DEF KnownBefore
<1>6. KnowsEditions'
  <2>1. SUFFICES ASSUME UpToDate
                 PROVE  /\ now >= MidTtl
                        /\ {e \in Issued(MidHours) : e + MidTtl > now} \subseteq
                             Live.land \cap Live.temp
                        /\ \E e \in 0..now :
                             /\ e + ShortTtl > now
                             /\ <<Day(now), "pm">> \in Carried(e)
                             /\ \A y \in Carried(e) :
                                  y \in DOMAIN Live.short /\ e <= Live.short[y]
    <3>1. request'.today = Day(now') /\ Issued(MidHours)' = Issued(MidHours)
      BY <1>1 DEF Issued
    <3>2. request'.known = Live /\ now' = now /\ Day(now') = Day(now)
      BY <1>1
    <3> QED
      BY <1>1, <3>1, <3>2 DEF KnowsEditions
  <2>2. {e \in Issued(MidHours) : e + MidTtl > now} \subseteq Live.land \cap Live.temp
    BY <1>3, <2>1 DEF UpToDate
  <2>3. PICK x \in DOMAIN tables.short :
             /\ tables.short[x] + ShortTtl > now
             /\ <<Day(now), "pm">> \in Carried(tables.short[x])
    BY <2>1 DEF UpToDate
  <2> DEFINE e == tables.short[x]
  <2>4. e \in Nat /\ e <= now
    BY <1>2 DEF TablesInv, NoneAfter
  <2>5. ASSUME NEW y \in Carried(e)
        PROVE  y \in DOMAIN Live.short /\ e <= Live.short[y]
    <3>1. e + ShortTtl >= now
      BY <1>2, <2>3, <2>4, TtlFacts
    <3>2. y \in DOMAIN tables.short /\ e <= tables.short[y]
      BY <2>5, <3>1 DEF TablesInv, StoredWhole
    <3>3. tables.short[y] \in Nat /\ y \in Nat \X ShortKinds
      BY <1>2, <3>2
    <3>4. /\ ExpiresAt(y, tables.short[y]) \in Nat
          /\ ExpiresAt(y, tables.short[y]) >= tables.short[y] + ShortTtl
      BY <3>3, ExpiresFacts
    <3>5. ExpiresAt(y, tables.short[y]) > now
      BY <1>2, <2>3, <2>4, <3>2, <3>3, <3>4, TtlFacts
    <3> QED
      BY <1>3, <3>2, <3>5
  <2>6. e \in 0..now
    BY <1>2, <2>4
  <2> QED
    BY <2>1, <2>2, <2>3, <2>5, <2>6 DEF UpToDate
<1> QED
  BY <1>1, <1>4, <1>5, <1>6 DEF RequestInv, ShortKept, LandKept, TempKept

\* The parts that a request which goes on keeps whatever moves.
LEMMA KnowledgeStays ==
  ASSUME TypeInv, TypeInv', KnownBefore, KnowsEditions, [Next]_vars,
         request.pc # "idle", request'.pc # "idle"
  PROVE  KnownBefore' /\ KnowsEditions'
<1>1. /\ request'.today = request.today /\ request'.known = request.known
      /\ request'.prompt => request.prompt /\ now' = now
  BY Underway
<1>2. now \in Nat /\ now' \in Nat /\ now' >= now /\ request.today \in Nat
  <2>1. request.today \in Nat
    BY DEF TypeInv, RequestSet
  <2> QED
    BY <2>1, TypeFacts, WhoMoves DEF TypeInv
<1>3. Day(now) <= Day(now') /\ Day(now) \in Nat /\ Day(now') \in Nat
  BY <1>2, DaysFollow, DayAndHour
<1>4. request.today <= Day(now')
  BY <1>2, <1>3 DEF KnownBefore
<1>5. KnownBefore'
  BY <1>1, <1>4 DEF KnownBefore
<1>6. KnowsEditions'
  BY <1>1 DEF KnowsEditions, Issued
<1> QED
  BY <1>5, <1>6

LEMMA DaysStay ==
  ASSUME request'.today = request.today, request'.days = request.days
  PROVE  ShortDays' = ShortDays /\ OverlapDays' = OverlapDays /\ MidDays' = MidDays
BY DEF ShortDays, OverlapDays, MidDays

\* What was read and what is gone stay so while the request does not read.
LEMMA UnmovedKeeps ==
  ASSUME TypeInv, TypeInv', RequestInv, [Next]_vars, request.pc # "idle",
         request'.pc = request.pc, request'.read = request.read
  PROVE  RequestInv'
<1>1. /\ request'.today = request.today /\ request'.days = request.days
      /\ request'.region = request.region /\ request'.known = request.known
  BY Underway
<1>2. /\ now \in Nat /\ now' \in Nat /\ now' >= now
      /\ request.known.land \in SUBSET Nat /\ request.known.temp \in SUBSET Nat
      /\ request.read.land \in SUBSET Nat /\ request.read.temp \in SUBSET Nat
      /\ \A x \in DOMAIN request.read.short : request.read.short[x] \in Nat
  BY TypeFacts, WhoMoves DEF TypeInv
<1>3. ShortDays' = ShortDays /\ OverlapDays' = OverlapDays /\ MidDays' = MidDays
  BY <1>1, DaysStay
<1>4. ShortKept'
  <2>1. SUFFICES ASSUME request.pc \notin {"idle", "short"}, request.region.grid,
                        NEW x \in DOMAIN request.known.short,
                        x[1] \in ShortDays \cup OverlapDays
                 PROVE  x \in DOMAIN request.read.short \/ ShortGone(x)'
    BY <1>1, <1>3 DEF ShortKept
  <2>2. x \in DOMAIN request.read.short \/ ShortGone(x)
    BY <2>1 DEF RequestInv, ShortKept
  <2> QED
    BY <1>1, <2>2, ShortGoneStays
<1>5. ASSUME NEW kind \in MidKinds, MidKept(kind)
      PROVE  MidKept(kind)'
  <2>1. request.known[kind] \in SUBSET Nat
    BY <1>2, KindsAre
  <2> QED
    BY <1>1, <1>2, <1>3, <1>5, <2>1, TtlFacts DEF MidKept
<1>6. LandKept' /\ TempKept'
  BY <1>5, KindsAre DEF RequestInv, LandKept, TempKept
<1>7. NoneAfter(now, request.read)'
  BY <1>2 DEF RequestInv, NoneAfter
<1>8. KnownBefore' /\ KnowsEditions'
  BY KnowledgeStays DEF RequestInv
<1> QED
  BY <1>4, <1>6, <1>7, <1>8 DEF RequestInv

\* The first read passes over what has expired or is not there.
LEMMA ReadShortKeeps ==
  ASSUME AheadInv, TypeInv', TablesInv, RequestInv, ReadShort
  PROVE  RequestInv'
<1>1. /\ TypeInv /\ request.pc = "short" /\ request'.pc = "land"
      /\ request'.known = request.known
      /\ request'.read.land = request.read.land /\ request'.read.temp = request.read.temp
      /\ \A x \in DOMAIN request'.read.short :
           x \in DOMAIN tables.short /\ request'.read.short[x] = tables.short[x]
      /\ DOMAIN request'.read.short =
           {x \in DOMAIN Live.short :
              request.region.grid /\ x[1] \in ShortDays \cup OverlapDays}
      /\ tables' = tables /\ now' = now
  BY ReadShortEffect DEF AheadInv, ReadShort
<1>2. [Next]_vars
  BY DEF Next
<1>3. /\ request'.today = request.today /\ request'.days = request.days
      /\ request'.region = request.region
  BY <1>1, <1>2, Underway
<1>4. ShortDays' = ShortDays /\ OverlapDays' = OverlapDays
  BY <1>3, DaysStay
<1>5. /\ now \in Nat /\ Sound(tables)
      /\ \A x \in DOMAIN tables.short : tables.short[x] \in Nat
      /\ \A x \in DOMAIN request.known.short :
              request.known.short[x] \in Nat /\ x \in Nat \X ShortKinds
  BY <1>1, TypeFacts
<1>6. DOMAIN Live.short =
        {x \in DOMAIN tables.short : ExpiresAt(x, tables.short[x]) > now}
  BY <1>5, UnexpiredSound DEF Live
<1>7. ShortKept'
  <2>1. SUFFICES ASSUME request.region.grid, NEW x \in DOMAIN request.known.short,
                        x[1] \in ShortDays \cup OverlapDays,
                        x \notin DOMAIN request'.read.short
                 PROVE  ShortGone(x)'
    BY <1>1, <1>3, <1>4 DEF ShortKept
  <2> DEFINE k == request.known.short[x]
  <2>2. ShortAhead(x) /\ k \in Nat /\ x \in Nat \X ShortKinds
    BY <1>1, <1>5 DEF AheadInv, ShortInv
  <2>3. CASE x \notin DOMAIN tables.short
    BY <1>1, <2>2, <2>3 DEF ShortAhead, ShortGone
  <2>4. CASE x \in DOMAIN tables.short
    <3>1. k <= tables.short[x] /\ tables.short[x] \in Nat
      BY <1>5, <2>2, <2>4 DEF ShortAhead
    <3>2. ~(ExpiresAt(x, tables.short[x]) > now)
      BY <1>1, <1>6, <2>1, <2>4
    <3>3. /\ ExpiresAt(x, k) \in Nat /\ ExpiresAt(x, tables.short[x]) \in Nat
          /\ ExpiresAt(x, k) <= ExpiresAt(x, tables.short[x])
      BY <2>2, <3>1, ExpiresFacts
    <3> HIDE DEF k
    <3>4. ExpiresAt(x, k) <= now
      BY <1>5, <3>2, <3>3
    <3> QED
      BY <1>1, <3>4 DEF ShortGone, k
  <2> QED
    BY <2>3, <2>4
<1>8. LandKept' /\ TempKept'
  BY <1>1 DEF LandKept, TempKept
<1>9. NoneAfter(now, request.read)'
  BY <1>1 DEF RequestInv, TablesInv, NoneAfter
<1>10. KnownBefore' /\ KnowsEditions'
  BY <1>1, <1>2, KnowledgeStays DEF RequestInv
<1> QED
  BY <1>7, <1>8, <1>9, <1>10 DEF RequestInv

\* So do the reads of the mid-term tables.
LEMMA ReadMidKeeps ==
  ASSUME AheadInv, TypeInv', TablesInv, RequestInv,
         NEW kind \in MidKinds, NEW next \in {"temp", "done"}, ReadMid(kind, next),
         <<kind, next>> \in {<<"land", "temp">>, <<"temp", "done">>}
  PROVE  RequestInv'
<1>1. /\ TypeInv /\ request.pc = kind /\ request'.pc = next
      /\ request'.known = request.known
      /\ request'.read.short = request.read.short
      /\ \A other \in MidKinds \ {kind} : request'.read[other] = request.read[other]
      /\ request'.read[kind] \subseteq tables[kind]
      /\ OverlapDays \cup MidDays # {} /\ request.region[kind] =>
           \A f \in tables[kind] : f \in request'.read[kind] \/ f + MidTtl <= now
      /\ tables' = tables /\ now' = now
  BY ReadMidEffect DEF AheadInv, ReadMid
<1>2. [Next]_vars
  BY DEF Next
<1>3. kind # "idle" /\ next # "idle" /\ kind # "short"
  BY KindsAre
<1>4. /\ request'.today = request.today /\ request'.days = request.days
      /\ request'.region = request.region
  BY <1>1, <1>2, <1>3, Underway
<1>5. ShortDays' = ShortDays /\ OverlapDays' = OverlapDays /\ MidDays' = MidDays
  BY <1>4, DaysStay
<1>6. /\ now \in Nat /\ request.known.land \in SUBSET Nat /\ request.known.temp \in SUBSET Nat
  BY <1>1, TypeFacts
<1>7. ShortKept'
  <2>1. SUFFICES ASSUME request.region.grid, NEW x \in DOMAIN request.known.short,
                        x[1] \in ShortDays \cup OverlapDays
                 PROVE  x \in DOMAIN request.read.short \/ ShortGone(x)'
    BY <1>1, <1>4, <1>5 DEF ShortKept
  <2>2. x \in DOMAIN request.read.short \/ ShortGone(x)
    BY <1>1, <1>3, <2>1 DEF RequestInv, ShortKept
  <2> QED
    BY <1>1, <1>2, <2>2, ShortGoneStays
<1>8. MidKept(kind)'
  <2>1. MidAhead(kind)
    BY <1>1, KindsAre DEF AheadInv, LandInv, TempInv
  <2> QED
    BY <1>1, <1>4, <1>5, <2>1 DEF MidKept, MidAhead
<1>9. LandKept' /\ TempKept'
  <2>1. CASE kind = "land" /\ next = "temp"
    BY <1>1, <1>8, <2>1 DEF LandKept, TempKept
  <2>2. CASE kind = "temp" /\ next = "done"
    <3>1. request'.read["land"] = request.read["land"]
      BY <1>1, <2>2, KindsAre
    <3>2. MidKept("land")
      BY <1>1, <2>2 DEF RequestInv, LandKept
    <3>3. MidKept("land")'
      BY <1>1, <1>4, <1>5, <3>1, <3>2 DEF MidKept
    <3> QED
      BY <1>1, <1>8, <2>2, <3>3 DEF LandKept, TempKept
  <2> QED
    BY <2>1, <2>2
<1>10. NoneAfter(now, request.read)'
  <2>1. \A f \in tables[kind] : f <= now
    BY KindsAre DEF TablesInv, NoneAfter
  <2>2. \A f \in request.read.land \cup request.read.temp : f <= now
    BY DEF RequestInv, NoneAfter
  <2>3. /\ request'.read.land \subseteq tables[kind] \cup request.read.land
        /\ request'.read.temp \subseteq tables[kind] \cup request.read.temp
    BY <1>1, KindsAre
  <2> QED
    BY <1>1, <2>1, <2>2, <2>3 DEF RequestInv, NoneAfter
<1>11. KnownBefore' /\ KnowsEditions'
  BY <1>1, <1>2, <1>3, KnowledgeStays DEF RequestInv
<1> QED
  BY <1>7, <1>9, <1>10, <1>11 DEF RequestInv

LEMMA NextAnswerInv ==
  ASSUME AheadInv, TablesInv, RequestInv, [Next]_vars
  PROVE  AheadInv' /\ TablesInv' /\ RequestInv'
<1>1. AheadInv' /\ TypeInv /\ TypeInv'
  BY NextAheadInv, NextTypeInv DEF AheadInv
<1>2. TablesInv'
  BY <1>1, TablesKept
<1> SUFFICES RequestInv'
  BY <1>1, <1>2
<1>3. CASE request'.pc = "idle" /\ request'.read = Empty
  <2>1. (request.pc = "idle" /\ request.read = Empty)' => RequestInv'
    BY IdleKnowsNothing, PTL
  <2> QED
    BY <1>3, <2>1
<1>4. CASE request.pc # "idle" /\ request'.pc = request.pc /\ request'.read = request.read
  BY <1>1, <1>4, UnmovedKeeps
<1>5. ASSUME NEW range \in Ranges, NEW region \in Regions, Begin(range, region)
      PROVE  RequestInv'
  BY <1>1, <1>5, BeginKnows
<1>6. CASE ReadShort
  BY <1>1, <1>6, ReadShortKeeps
<1>7. CASE ReadMid("land", "temp") \/ ReadMid("temp", "done")
  BY <1>1, <1>7, ReadMidKeeps, KindsAre
<1>8. CASE End
  BY <1>3, <1>8, EndEffect
<1>9. CASE Tick
  <2>1. CASE request.pc = "idle"
    <3>1. request'.pc = "idle" /\ request'.read = Empty
      BY <1>1, <1>9, <2>1, TickEffect DEF Idle
    <3> QED
      BY <1>3, <3>1
  <2>2. CASE request.pc # "idle"
    BY <1>1, <1>4, <1>9, <2>2, TickEffect
  <2> QED
    BY <2>1, <2>2
<1>10. CASE request' = request
  <2>1. CASE request.pc # "idle"
    BY <1>4, <1>10, <2>1
  <2>2. CASE request.pc = "idle"
    <3>1. NoneAfter(now, request.read)'
      <4>1. now \in Nat /\ now' \in Nat /\ now' >= now
        BY <1>1, TypeFacts, WhoMoves DEF TypeInv
      <4>2. /\ request.read.land \in SUBSET Nat /\ request.read.temp \in SUBSET Nat
            /\ \A x \in DOMAIN request.read.short : request.read.short[x] \in Nat
        BY <1>1, TypeFacts
      <4> QED
        BY <1>10, <4>1, <4>2 DEF RequestInv, NoneAfter
    <3> QED
      BY <1>10, <2>2, <3>1
         DEF RequestInv, ShortKept, LandKept, TempKept, KnownBefore, KnowsEditions
  <2> QED
    BY <2>1, <2>2
<1>11. ASSUME \/ \E e \in Issued(ShortHours) : StoreShort(e)
              \/ \E e \in Issued(MidHours), kind \in MidKinds : StoreMid(kind, e)
              \/ Housekeep \/ UNCHANGED vars
       PROVE  request' = request
  BY <1>11 DEF StoreShort, StoreMid, Housekeep, vars
<1> QED
  BY <1>5, <1>6, <1>7, <1>8, <1>9, <1>10, <1>11 DEF Next

-----------------------------------------------------------------------------
\* The least number of a set of naturals, from the library's WFMin.
LEMMA LeastNatural ==
  ASSUME NEW T \in SUBSET Nat, T # {}
  PROVE  \E n \in T : \A m \in T : n <= m
<1> DEFINE R == OpToRel(<, Nat)
<1>1. IsWellFoundedOn(R, Nat)
  BY NatLessThanWellFounded
<1>2. \A m, k \in Nat : <<m, k>> \in R <=> m < k
  BY DEF OpToRel
<1> HIDE DEF R
<1>3. PICK n \in T : \A m \in T : ~(<<m, n>> \in R)
  BY <1>1, WFMin
<1>4. ASSUME NEW m \in T
      PROVE  n <= m
  <2>1. m \in Nat /\ n \in Nat /\ ~(m < n)
    BY <1>2, <1>3
  <2> QED
    BY <2>1
<1> QED
  BY <1>3, <1>4

\* The greatest of a set of hours, whatever they are counted from.
LEMMA GreatestHour ==
  ASSUME NEW n \in Nat, NEW T \in SUBSET (0..n), T # {}
  PROVE  \E x \in T : \A y \in T : x >= y
<1> DEFINE U == {n - y : y \in T}
<1>1. U \in SUBSET Nat /\ U # {}
  <2>1. \A y \in 0..n : n - y \in Nat
    OBVIOUS
  <2>2. \A y \in T : n - y \in Nat
    BY <2>1
  <2> QED
    BY <2>2
<1>2. PICK u \in U : \A m \in U : u <= m
  BY <1>1, LeastNatural
<1>3. PICK x \in T : u = n - x
  BY <1>2
<1>4. \A y \in T : n - x <= n - y
  BY <1>2, <1>3
<1> QED
  BY <1>3, <1>4

\* Rows that are read are rows for their day.
LEMMA ShortRow ==
  ASSUME NEW T, NEW x \in DOMAIN T.short
  PROVE  <<x[2], T.short[x]>> \in RowsFor(T, x[1])
BY DEF RowsFor

LEMMA MidRow ==
  ASSUME NEW T, NEW kind \in MidKinds, NEW e \in T[kind], NEW d, d - Day(e) \in Offsets(e)
  PROVE  <<kind, e>> \in RowsFor(T, d)
<1>1. e \in T.land \cup T.temp
  BY KindsAre
<1>2. <<kind, e>> \in {r \in MidKinds \X (T.land \cup T.temp) :
                         r[2] \in T[r[1]] /\ d - Day(r[2]) \in Offsets(r[2])}
  BY <1>1
<1> QED
  BY <1>2 DEF RowsFor

\* A day of the near range of which an unexpired short-term row was known is
\* answered.
LEMMA ShortAnswered ==
  ASSUME TypeInv, RequestInv, Done, request.region.grid,
         NEW x \in DOMAIN request.known.short, x[1] \in ShortDays \cup OverlapDays,
         ~ShortGone(x)
  PROVE  Item(x[1]) # {}
<1>1. x \in DOMAIN request.read.short
  BY DEF RequestInv, ShortKept, Done
<1>2. x[2] \in ShortKinds
  BY TypeFacts
<1>3. <<x[2], request.read.short[x]>> \in ShortItem(x[1])
  BY <1>1, <1>2, ShortRow DEF ShortItem
<1>4. ShortDays \cap OverlapDays = {} /\ OverlapDays \cap MidDays = {}
      /\ ShortDays \cap MidDays = {}
  BY DEF ShortDays, OverlapDays, MidDays, TypeInv, RequestSet
<1>5. \A d : /\ d \in ShortDays => Item(d) = ShortItem(d)
             /\ d \in OverlapDays => Item(d) = OverlapItem(d)
  BY <1>4 DEF Item
<1>6. \A d : ShortItem(d) # {} => OverlapItem(d) # {}
  BY DEF OverlapItem
<1> QED
  BY <1>3, <1>5, <1>6

\* Of the editions read for a day there is a latest.
LEMMA MidItemThere ==
  ASSUME TypeInv, RequestInv, NEW kind \in MidKinds, NEW e \in request.read[kind],
         NEW d, d - Day(e) \in Offsets(e)
  PROVE  MidItem(d) # {}
<1> DEFINE mid == {r \in RowsFor(request.read, d) : r[1] \in MidKinds}
           T == {q[2] : q \in {r \in mid : r[1] = kind}}
<1>1. /\ now \in Nat /\ Sound(request.read)
      /\ request.read.land \in SUBSET Nat /\ request.read.temp \in SUBSET Nat
  BY TypeFacts
<1>2. \A f \in request.read.land \cup request.read.temp : f \in 0..now
  BY <1>1 DEF RequestInv, NoneAfter
<1>3. ASSUME NEW q \in mid, q[1] = kind PROVE q[2] \in 0..now
  <2>1. q[2] \in request.read[kind]
    BY <1>1, <1>3, RowIs, KindsAre
  <2> QED
    BY <1>2, <2>1, KindsAre
<1>4. <<kind, e>> \in mid
  BY MidRow
<1>5. T \in SUBSET (0..now) /\ T # {}
  <2>1. e \in T
    BY <1>4
  <2> QED
    BY <1>3, <2>1
<1>6. PICK g \in T : \A f \in T : g >= f
  BY <1>1, <1>5, GreatestHour
<1>7. PICK r \in mid : r[1] = kind /\ r[2] = g
  BY <1>6
<1>8. ASSUME NEW q \in mid, q[1] = r[1] PROVE q[2] <= r[2]
  <2>1. q[2] \in T /\ q[2] \in 0..now /\ g \in 0..now
    BY <1>3, <1>5, <1>7, <1>8
  <2> QED
    BY <1>6, <1>7, <2>1
<1>9. r \in MidItem(d)
  BY <1>7, <1>8 DEF MidItem
<1> QED
  BY <1>9

\* So is a day that an unexpired mid-term edition has which was known.
LEMMA MidAnswered ==
  ASSUME TypeInv, RequestInv, Done, NEW kind \in MidKinds, request.region[kind],
         NEW e \in request.known[kind], e + MidTtl > now,
         NEW d \in request.days, d - request.today \in 3..10, d - Day(e) \in Offsets(e)
  PROVE  Item(d) # {}
<1>1. d \in OverlapDays \cup MidDays /\ d \notin ShortDays
  <2>1. d \in Int /\ request.today \in Nat
    BY DEF TypeInv, RequestSet
  <2> QED
    BY <2>1 DEF OverlapDays, MidDays, ShortDays
<1>2. MidKept(kind)
  BY KindsAre DEF RequestInv, LandKept, TempKept, Done
<1>3. e \in request.read[kind]
  <2>1. now \in Nat /\ request.known.land \in SUBSET Nat /\ request.known.temp \in SUBSET Nat
    BY TypeFacts
  <2>2. e \in Nat
    BY <2>1, KindsAre
  <2> QED
    BY <1>1, <1>2, <2>1, <2>2, TtlFacts DEF MidKept
<1>4. MidItem(d) # {}
  BY <1>3, MidItemThere
<1> QED
  BY <1>1, <1>4 DEF Item, OverlapItem

\* A live mid-term edition is of the last two days, and has no day before D+3.
LEMMA LiveMid ==
  ASSUME NEW e \in Nat, now \in Nat, NEW today \in Nat, NEW d \in Int,
         today <= Day(now), Day(e) <= today, e + MidTtl > now, d >= today,
         d - Day(e) \in Offsets(e)
  PROVE  d - today \in 3..10
<1>1. /\ Day(e) \in Nat /\ Hour(e) \in 0..23 /\ e = 24 * Day(e) + Hour(e)
  BY DayAndHour
<1>2. /\ Day(now) \in Nat /\ Hour(now) \in 0..23 /\ now = 24 * Day(now) + Hour(now)
  BY DayAndHour
<1>3. MidTtl \in 24..36
  BY SourcesAssumption
<1>4. CASE Hour(e) < 12
  <2>1. d - Day(e) \in 4..10
    BY <1>4 DEF Offsets
  <2>2. Day(e) >= today - 1
    BY <1>1, <1>2, <1>3, <1>4
  <2> QED
    BY <1>1, <2>1, <2>2
<1>5. CASE ~(Hour(e) < 12)
  <2>1. d - Day(e) \in 5..10
    BY <1>5 DEF Offsets
  <2>2. Day(e) >= today - 2
    BY <1>1, <1>2, <1>3
  <2> QED
    BY <1>1, <2>1, <2>2
<1> QED
  BY <1>4, <1>5

LEMMA AnswerWithholdsNothing ==
  ASSUME TypeInv, RequestInv
  PROVE  NothingWithheld
<1> SUFFICES ASSUME Done, NEW d \in request.days, d >= request.today,
                    NEW r, r \in Served(request.known, d), r \in Served(Live, d)
             PROVE  Item(d) # {}
  BY DEF NothingWithheld
<1>1. /\ now \in Nat /\ Sound(tables) /\ Sound(request.known) /\ Sound(request.read)
      /\ request.today \in Nat /\ d \in Int
      /\ request.today <= Day(now)
      /\ \A x \in DOMAIN request.known.short :
           request.known.short[x] \in Nat /\ x \in Nat \X ShortKinds
      /\ request.known.land \in SUBSET Nat /\ request.known.temp \in SUBSET Nat
  BY TypeFacts DEF TypeInv, RequestSet, RequestInv, KnownBefore, Done
<1>2. /\ Sound(Live)
      /\ DOMAIN Live.short =
           {x \in DOMAIN tables.short : ExpiresAt(x, tables.short[x]) > now}
      /\ \A x \in DOMAIN Live.short : Live.short[x] = tables.short[x]
      /\ Live.land = {e \in tables.land : e + MidTtl > now}
      /\ Live.temp = {e \in tables.temp : e + MidTtl > now}
  BY <1>1, UnexpiredSound DEF Live
<1>3. /\ r \in RowsFor(request.known, d) /\ r \in RowsFor(Live, d)
      /\ IF r[1] \in MidKinds THEN request.region[r[1]] ELSE request.region.grid
  BY DEF Served
<1>4. ShortKinds \cap MidKinds = {}
  BY KindsAre
<1>5. CASE r[1] \in MidKinds
  <2>1. /\ r[2] \in request.known[r[1]] /\ r[2] \in Live[r[1]] /\ r[2] \in Nat
        /\ d - Day(r[2]) \in Offsets(r[2])
    BY <1>1, <1>2, <1>3, <1>4, <1>5, RowIs
  <2>2. r[2] + MidTtl > now
    BY <1>2, <1>5, <2>1, KindsAre
  <2>3. Day(r[2]) <= request.today
    BY <1>5, <2>1, KindsAre DEF RequestInv, KnownBefore, Done
  <2>4. d - request.today \in 3..10
    BY <1>1, <2>1, <2>2, <2>3, LiveMid
  <2> QED
    BY <1>3, <1>5, <2>1, <2>2, <2>4, MidAnswered
<1>6. CASE r[1] \notin MidKinds
  <2> DEFINE x == <<d, r[1]>>
             k == request.known.short[x]
  <2>1. /\ x \in DOMAIN request.known.short /\ r[2] = k
        /\ x \in DOMAIN Live.short /\ r[2] = Live.short[x]
    BY <1>1, <1>2, <1>3, <1>6, RowIs
  <2>2. x \in DOMAIN tables.short /\ tables.short[x] = k /\ ExpiresAt(x, k) > now
    BY <1>2, <2>1
  <2>3. x \in Nat \X ShortKinds /\ k \in Nat /\ x \in Carried(k) /\ Day(k) <= request.today
    BY <1>1, <2>1 DEF Sound, RequestInv, KnownBefore, Done
  <2>4. ~ShortGone(x)
    <3>1. ExpiresAt(x, k) \in Nat
      BY <2>3, ExpiresFacts
    <3> HIDE DEF x, k
    <3>2. ~(ExpiresAt(x, k) <= now)
      BY <1>1, <2>2, <3>1
    <3> QED
      BY <2>2, <3>2 DEF ShortGone, k
  <2>5. x[1] \in ShortDays \cup OverlapDays
    <3>1. d <= LastDay(k) /\ Day(k) \in Nat
      BY <2>3, DayAndHour DEF Carried, LastDay
    <3>2. d - request.today \in 0..4
      BY <1>1, <2>3, <3>1 DEF LastDay
    <3> QED
      BY <1>1, <3>2 DEF ShortDays, OverlapDays
  <2>6. request.region.grid
    BY <1>3, <1>6
  <2> QED
    BY <2>1, <2>4, <2>5, <2>6, ShortAnswered
<1> QED
  BY <1>5, <1>6
\* A day the latest short-term edition has is answered.
LEMMA PromptlyShort ==
  ASSUME TypeInv, RequestInv, Done, request.region.grid,
         NEW e \in 0..now, e + ShortTtl > now,
         \A y \in Carried(e) : y \in DOMAIN request.known.short /\ e <= request.known.short[y],
         NEW x \in Carried(e), x[1] \in request.days, x[1] - request.today \in 0..4
  PROVE  Item(x[1]) # {}
<1>1. /\ now \in Nat /\ e \in Nat
      /\ x \in DOMAIN request.known.short /\ e <= request.known.short[x]
      /\ request.known.short[x] \in Nat /\ x \in Nat \X ShortKinds
  BY TypeFacts
<1> DEFINE k == request.known.short[x]
<1>2. /\ ExpiresAt(x, k) \in Nat /\ ExpiresAt(x, k) >= k + ShortTtl
  BY <1>1, ExpiresFacts
<1>3. ~ShortGone(x)
  <2>1. k \in Nat /\ e <= k
    BY <1>1
  <2> HIDE DEF k
  <2>2. ~(ExpiresAt(x, k) <= now) /\ ~(k + ShortTtl < now)
    BY <1>1, <1>2, <2>1, TtlFacts
  <2> QED
    BY <2>2 DEF ShortGone, k
<1>4. x[1] \in ShortDays \cup OverlapDays
  <2>1. x[1] \in Int /\ request.today \in Nat
    BY <1>1 DEF TypeInv, RequestSet
  <2> QED
    BY <2>1 DEF ShortDays, OverlapDays
<1> QED
  BY <1>1, <1>3, <1>4, ShortAnswered

\* The first days are short-term's; D+3 too while its edition is of today.
LEMMA PromptlySoon ==
  ASSUME TypeInv, RequestInv, Done, request.region.grid, NEW d \in request.days,
         request.today = Day(now),
         NEW e \in 0..now, e + ShortTtl > now, <<Day(now), "pm">> \in Carried(e),
         \A y \in Carried(e) : y \in DOMAIN request.known.short /\ e <= request.known.short[y],
         d - request.today \in 0..3, d - request.today <= 2 \/ Day(e) = Day(now)
  PROVE  Item(d) # {}
<1>1. /\ now \in Nat /\ e \in Nat /\ d \in Int /\ Day(now) \in Nat /\ request.today \in Nat
  BY TypeFacts, DayAndHour DEF TypeInv, RequestSet
<1>2. ShortTtl \in Nat /\ ShortTtl <= 23
  <2>1. PICK h \in MidHours : h < 12 /\ ShortTtl <= h
    BY SourcesAssumption
  <2>2. h \in 0..23
    BY HoursAssumption
  <2> QED
    BY <2>1, <2>2, TtlFacts
<1>3. /\ Day(e) \in Nat /\ Hour(e) \in 0..23 /\ e = 24 * Day(e) + Hour(e)
  BY <1>1, DayAndHour
<1>4. /\ Hour(now) \in 0..23 /\ now = 24 * Day(now) + Hour(now)
  BY <1>1, DayAndHour
<1>5. Day(e) = Day(now) \/ Day(e) = Day(now) - 1
  <2>1. e <= now /\ e + 23 > now
    BY <1>1, <1>2
  <2>2. 24 * Day(e) <= 24 * Day(now) + 23 /\ 24 * Day(e) > 24 * Day(now) - 46
    BY <1>1, <1>3, <1>4, <2>1
  <2>3. ASSUME NEW p \in Nat, NEW q \in Nat, 24 * p <= 24 * q + 23, 24 * p > 24 * q - 46
        PROVE  p = q \/ p = q - 1
    BY <2>3
  <2> QED
    BY <1>1, <1>3, <2>2, <2>3
<1>6. CASE d = Day(now) /\ Day(e) = Day(now)
  <2>1. <<d, "pm">>[1] = d /\ <<d, "pm">> \in Carried(e)
    BY <1>6
  <2>2. <<d, "pm">>[1] - request.today \in 0..4
    BY <1>1, <1>6, <2>1
  <2> QED
    BY <2>1, <2>2, PromptlyShort
<1>7. CASE d > Day(e)
  <2>1. LastDay(e) \in Nat /\ LastDay(e) >= Day(e) + 3
    BY <1>3 DEF LastDay
  <2>2. d \in Day(e)..LastDay(e) /\ d # Day(e)
    BY <1>1, <1>3, <1>5, <1>7, <2>1
  <2>3. <<d, "am">> \in Carried(e)
    BY <2>2, KindsAre DEF Carried
  <2>4. <<d, "am">>[1] = d /\ <<d, "am">>[1] - request.today \in 0..4
    BY <1>1
  <2> QED
    BY <2>3, <2>4, PromptlyShort
<1> QED
  BY <1>1, <1>3, <1>5, <1>6, <1>7

LEMMA AnswerCoversTheWeek ==
  ASSUME TypeInv, RequestInv
  PROVE  CoversTheWeek
<1> SUFFICES ASSUME Done, request.prompt, request.region.grid,
                    request.region.land \/ request.region.temp,
                    NEW d \in request.days, d - request.today \in 0..9
             PROVE  Item(d) # {}
  BY DEF CoversTheWeek
<1>1. /\ request.today = Day(now) /\ now >= MidTtl
      /\ {e \in Issued(MidHours) : e + MidTtl > now} \subseteq
           request.known.land \cap request.known.temp
  BY DEF RequestInv, KnowsEditions, Done
<1>2. PICK e \in 0..now :
        /\ e + ShortTtl > now
        /\ <<Day(now), "pm">> \in Carried(e)
        /\ \A y \in Carried(e) :
             y \in DOMAIN request.known.short /\ e <= request.known.short[y]
  BY DEF RequestInv, KnowsEditions, Done
<1>3. /\ now \in Nat /\ d \in Int /\ request.today \in Nat
      /\ Day(now) \in Nat /\ Hour(now) \in 0..23 /\ now = 24 * Day(now) + Hour(now)
  BY TypeFacts, DayAndHour DEF TypeInv, RequestSet
<1>4. PICK h \in MidHours : h < 12 /\ ShortTtl <= h
  BY SourcesAssumption
<1>5. h \in 0..23 /\ MidTtl \in 24..36 /\ ShortTtl \in Nat
  BY HoursAssumption, SourcesAssumption, TtlFacts
<1>6. Day(now) >= 1
  BY <1>1, <1>3, <1>5
<1>7. PICK kind \in MidKinds : request.region[kind]
  BY KindsAre
\* The morning's edition of today, or yesterday's before it is issued.
<1> DEFINE day == IF h <= Hour(now) THEN Day(now) ELSE Day(now) - 1
           m == 24 * day + h
<1>8. /\ m \in 0..now /\ m + MidTtl > now /\ day \in Nat
  BY <1>3, <1>4, <1>5, <1>6
<1>9. Day(m) = day /\ Hour(m) = h
  <2>1. day \in Nat
    BY <1>8
  <2> HIDE DEF day
  <2> QED
    BY <1>5, <2>1 DEF Day, Hour
<1>10. m \in request.known[kind]
  <2> HIDE DEF m
  <2>1. m \in {f \in Issued(MidHours) : f + MidTtl > now}
    BY <1>4, <1>8, <1>9 DEF Issued
  <2> QED
    BY <1>1, <2>1, KindsAre
<1>11. Offsets(m) = 4..10
  <2> HIDE DEF m
  <2> QED
    BY <1>4, <1>9 DEF Offsets
<1>12. d - day \in 4..10 /\ d - request.today \in 3..10 => Item(d) # {}
  <2> HIDE DEF m, day
  <2> QED
    BY <1>7, <1>8, <1>9, <1>10, <1>11, MidAnswered
<1>13. CASE d - request.today \in 4..9
  BY <1>1, <1>3, <1>12, <1>13
<1>14. CASE d - request.today \in 0..2
  BY <1>1, <1>2, <1>14, PromptlySoon
<1>15. CASE d - request.today = 3
  <2>1. CASE h > Hour(now)
    <3>1. d - day = 4
      BY <1>1, <1>3, <1>5, <1>15, <2>1
    <3> QED
      BY <1>12, <1>15, <3>1
  <2>2. CASE h <= Hour(now)
    <3>1. /\ e \in Nat /\ Day(e) \in Nat /\ Hour(e) \in 0..23 /\ e = 24 * Day(e) + Hour(e)
      BY <1>3, DayAndHour
    <3>2. Day(e) = Day(now)
      BY <1>2, <1>3, <1>4, <1>5, <2>2, <3>1
    <3> QED
      BY <1>1, <1>2, <1>15, <3>2, PromptlySoon
  <2> QED
    BY <1>3, <1>5, <2>1, <2>2
<1> QED
  BY <1>3, <1>13, <1>14, <1>15

-----------------------------------------------------------------------------
LEMMA AnswerInvariant == Spec => [](TypeInv /\ RequestInv)
<1> DEFINE Inv == AheadInv /\ TablesInv /\ RequestInv
<1>1. Init => Inv
  <2> SUFFICES ASSUME Init PROVE Inv
    OBVIOUS
  <2>1. /\ request.pc = "idle" /\ request.known = Empty /\ request.read = Empty
        /\ tables = Empty
    BY DEF Init, Idle
  <2>2. TablesInv
    BY <2>1 DEF TablesInv, NoneAfter, StoredWhole, Empty
  <2> QED
    BY <2>1, <2>2, InitTypeInv, IdleAhead, IdleKnowsNothing
<1>2. Inv /\ [Next]_vars => Inv'
  BY NextAnswerInv
<1>3. Inv => TypeInv /\ RequestInv
  BY DEF AheadInv
<1> QED
  BY <1>1, <1>2, <1>3, PTL DEF Spec

\* A day is reported missing only if no row for it could be read throughout the
\* request, for any issue hours, lives and ranges within the assumptions.
THEOREM NothingEverWithheld == Spec => []NothingWithheld
<1>1. TypeInv /\ RequestInv => NothingWithheld
  BY AnswerWithholdsNothing
<1> QED
  BY <1>1, AnswerInvariant, PTL

\* While polling is up to date the answer has every day from today to D+9, at
\* any hour, for any issue hours that fit as SourcesAssumption says.
THEOREM CoversTheWeekAlways == Spec => []CoversTheWeek
<1>1. TypeInv /\ RequestInv => CoversTheWeek
  BY AnswerCoversTheWeek
<1> QED
  BY <1>1, AnswerInvariant, PTL
=============================================================================
