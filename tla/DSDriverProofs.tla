--------------------------- MODULE DSDriverProofs ---------------------------
(***************************************************************************)
(* Proofs about DSDriver, for any calls, data, boxes and times.            *)
(***************************************************************************)
EXTENDS DSDriver, SyncerProofs, FiniteSetTheorems

-----------------------------------------------------------------------------
(* The inductive invariant.                                                 *)

PollType(C) == [pc : {"test", "dozing", "asleep", "loop", "decide", "notify"},
                call : C \cup {NoCall}, n : Nat]
PlainType(C) == [call : C, pc : {"get", "done"}]
MtxType(C) == [put : C \cup {NoCall}, get : C \cup {NoCall}]
PcType == [Call -> {"new", "pushed", "wait", "ret", "loop", "decide", "put", "sync", "asked",
                    "look", "get", "del"}]
RiType == [Call -> [pc : {"none", "asked", "noted", "done"}, ans : {-1, 0, 1}]]

\* What every variable holds, in three parts: the calls, get_poll, the rest.
CallTypes ==
    /\ calls \in Config
    /\ pc \in PcType
    /\ res \in [Call -> {0, 1}]
    /\ buf \in [Call -> Data \cup {NoData}]
    /\ timer \in [Call -> Nat]
    /\ closed \in BOOLEAN

PollTypes ==
    /\ bq \in Seq(calls)
    /\ poll \in PollType(calls)
    /\ poll.pc \in {"loop", "decide", "notify"} => poll.call \in calls
    /\ plain \subseteq PlainType(calls)
    /\ get_done \in BOOLEAN /\ get_success \in BOOLEAN
    /\ mtx \in MtxType(calls)
    /\ ret \in [Data -> {0, 1}]
    /\ abandoned \subseteq Call /\ misled \subseteq Call

AppTypes ==
    /\ space \subseteq Data
    /\ sync \in SyncerType(Data, Call)
    /\ wsync \in SyncerType(App \X Data, Call)
    /\ ds_id \in [Data -> {-1, 0, 1, NoEntry}]
    /\ ri \in RiType
    /\ mem \in {"sound", "damaged", "ended"}

Types == CallTypes /\ PollTypes /\ AppTypes

Queued == {bq[i] : i \in DOMAIN bq}
Distinct(s) == \A i, j \in DOMAIN s : s[i] = s[j] => i = j

\* Who is in the queue, at get_poll or under dspaces_get_mtx.
Places ==
    /\ Distinct(bq)
    /\ poll.call \notin Queued
    /\ poll.call # NoCall <=> poll.pc \in {"loop", "decide", "notify"}
    /\ \A o \in Queued : Kind[o] = "reg" /\ pc[o] # "new"
    /\ poll.call # NoCall => Kind[poll.call] = "reg" /\ pc[poll.call] # "new"
    /\ \A o \in calls : Kind[o] = "timed" =>
          /\ pc[o] \in {"new", "loop", "decide", "ret"}
          /\ mtx.get = o <=> pc[o] \in {"loop", "decide"}
    /\ mtx.get # NoCall => Kind[mtx.get] = "timed"

\* The call whose flags get_done and get_success are meant to be.
Watched == (IF poll.pc \in {"loop", "decide"} THEN {poll.call} ELSE {})
              \cup (IF mtx.get # NoCall THEN {mtx.get} ELSE {})

HasThread(o) == \E p \in plain : p.call = o

\* A call has at most one thread, and while no get was given up there is one
\* thread at most, that of the call that watches the flags.
Threads ==
    /\ \A p \in plain : p.call \notin Queued /\ pc[p.call] # "new" /\ Kind[p.call] \in {"reg", "timed"}
    /\ \A p, r \in plain : p.call = r.call => p = r
    /\ abandoned = {} =>
          /\ misled = {}
          /\ \/ plain = {}
             \/ ~get_done /\ \E w \in Watched : \A p \in plain : p.call = w

\* As long as no other call's thread has set them, the flags tell the truth.
Flags ==
    \A o \in Watched \ misled :
        /\ get_success => buf[o] = Dat[o]
        /\ get_done => ~HasThread(o)

\* A call that was decided is done with, unless it was given up or misled.
Decided(o) == HasThread(o) => o \in abandoned \cup misled
Honest(o)  == ret[Dat[o]] = 0 => buf[o] = Dat[o] \/ o \in misled

Notifying == poll.pc = "notify" => Decided(poll.call) /\ Honest(poll.call)

Settled(o) == o \notin Queued /\ poll.call # o /\ Decided(o)

GetWaits ==
    /\ \A x \in sync.parked : x[1] = Dat[x[2]] /\ pc[x[2]] = "wait" /\ x[2] \in calls /\ Kind[x[2]] = "reg"
    /\ \A t \in sync.woken : /\ t \in calls /\ pc[t] = "wait" /\ Kind[t] = "reg"
                             /\ Shared(t) \/ (Settled(t) /\ Honest(t))

Returned ==
    \A o \in calls : pc[o] = "ret" /\ Kind[o] \in {"reg", "timed"} =>
        \/ Shared(o)
        \/ Settled(o) /\ (res[o] = 0 => buf[o] = Dat[o] \/ o \in misled)

Closing == closed => \A o \in calls : pc[o] = "ret"

GetInv == Places /\ Threads /\ Flags /\ Notifying /\ GetWaits /\ Returned /\ Closing

\* The RIManager's answers.
Noted(o) == ri[o].ans \in {-1, 1} /\ ds_id[Dat[o]] = ri[o].ans

Answered(o) ==
    /\ ri[o].pc \in {"noted", "done"} /\ pc[o] \in {"asked", "wait", "look"} => Noted(o)
    /\ pc[o] = "look" => ri[o].pc = "done"
    /\ pc[o] = "get" \/ (pc[o] \in {"del", "ret"} /\ res[o] = 0) => ri[o].pc = "done" /\ ri[o].ans = 1

AppPlaces ==
    /\ \A o \in Call : ri[o].pc # "none" => o \in calls /\ Kind[o] \in App
    /\ \A x \in wsync.parked : /\ x[1] = Point(x[2]) /\ x[2] \in calls
                               /\ Kind[x[2]] \in App /\ pc[x[2]] = "wait"
    /\ \A t \in wsync.woken : /\ t \in calls /\ Kind[t] \in App /\ pc[t] = "wait"
                              /\ Shared(t) \/ ri[t].pc = "done"

AppInv ==
    /\ AppPlaces
    /\ mem = "sound" => \A o \in calls : Kind[o] \in App => Shared(o) \/ Answered(o)

\* A call that is alone with its datum finds the answer it will erase.
Kept(o) == pc[o] \in {"get", "del"} => Alike(o) \/ ds_id[Dat[o]] # NoEntry
Memory == MemoryKept /\ \A o \in calls : Kind[o] \in App => Kept(o)

\* The length of a get that went on is not 0.
Lengths ==
    \A o \in calls : Kind[o] = "reg" /\ pc[o] \notin {"new", "ret"} => get_data_length(Box[o]) # 0

\* last_lock_time is the last lock's, however often it was rewritten.
Total(t) == t.s * Usec + t.u
Clock ==
    /\ clock \in [last : [s : Int, u : Int], diff : [s : Int, u : Int],
                  at : [s : Nat, u : 0 .. Usec - 1], locked : [s : Nat, u : 0 .. Usec - 1]]
    /\ clock.last.u \in -Usec .. Usec - 1
    /\ clock.diff.u \in 0 .. Usec
    /\ Total(clock.last) = Total(clock.locked)
    /\ Total(clock.diff) = Total(clock.at) - Total(clock.locked)

IInv == Types /\ GetInv /\ AppInv /\ Memory /\ Lengths /\ Clock

-----------------------------------------------------------------------------
(* The two computations.                                                    *)

\* What the assumptions say of a box and of the dimensions.
LEMMA BoxType ==
    ASSUME NEW o \in Call
    PROVE  /\ DOMAIN Gdim = {1, 2} /\ Gdim[1] \in Nat /\ Gdim[2] \in Nat
           /\ \A i \in {1, 2} : Box[o].l[i] \in Nat /\ Box[o].u[i] \in Nat
<1>1. Gdim \in Nat \X Nat /\ Box[o] \in [l : Nat \X Nat, u : Nat \X Nat]
  BY DriverAssumption
<1>2. \A z \in Nat \X Nat : DOMAIN z = {1, 2} /\ z[1] \in Nat /\ z[2] \in Nat
  OBVIOUS
<1> QED
  BY <1>1, <1>2

\* The pairs of two intervals are as many as the product of their lengths.
LEMMA ProductCount ==
    ASSUME NEW a \in Nat, NEW b \in Nat, NEW c \in Nat, NEW d \in Nat, a <= b, c <= d
    PROVE  Cardinality((a .. b) \X (c .. d)) = (b - a + 1) * (d - c + 1)
<1>1. IsFiniteSet(a .. b) /\ Cardinality(a .. b) = b - a + 1
  BY FS_Interval
<1>2. IsFiniteSet(c .. d) /\ Cardinality(c .. d) = d - c + 1
  BY FS_Interval
<1>3. Cardinality((a .. b) \X (c .. d)) = Cardinality(a .. b) * Cardinality(c .. d)
  BY <1>1, <1>2, FS_Product, Zenon
<1> QED
  BY <1>1, <1>2, <1>3, Zenon

\* A number below the modulus is its own remainder.
LEMMA SmallMod ==
    ASSUME NEW m \in Nat, NEW n \in Nat \ {0}, m < n
    PROVE  m % n = m
OBVIOUS

\* get_data_length counts the cells of a box within the dimensions.
LEMMA LengthCounts ==
    ASSUME NEW o \in Call, Cardinality(Cells(Box[o])) <= IntMax,
           Box[o].u[1] <= Gdim[1], Box[o].u[2] <= Gdim[2]
    PROVE  get_data_length(Box[o]) = Cardinality(Cells(Box[o]))
<1> DEFINE l1 == Box[o].l[1]
           l2 == Box[o].l[2]
           u1 == Box[o].u[1]
           u2 == Box[o].u[2]
<1>1. DOMAIN Gdim = {1, 2} /\ Gdim[1] \in Nat /\ Gdim[2] \in Nat
  BY BoxType
<1>2. l1 \in Nat /\ l2 \in Nat /\ u1 \in Nat /\ u2 \in Nat
  BY BoxType
<1>3. IntMax \in Nat
  BY DriverAssumption
<1>4. CASE l1 <= u1 /\ l2 <= u2
  <2>1. Cells(Box[o]) = (l1 .. u1) \X (l2 .. u2)
    <3>1. ASSUME NEW c \in Cells(Box[o]) PROVE c \in (l1 .. u1) \X (l2 .. u2)
      <4>1. c \in (0 .. Gdim[1]) \X (0 .. Gdim[2])
        BY <3>1 DEF Cells
      <4>2. l1 <= c[1] /\ c[1] <= u1 /\ l2 <= c[2] /\ c[2] <= u2
        BY <1>1, <3>1 DEF Cells
      <4> QED
        BY <1>1, <1>2, <4>1, <4>2
    <3>2. ASSUME NEW c \in (l1 .. u1) \X (l2 .. u2) PROVE c \in Cells(Box[o])
      <4>1. c[1] \in l1 .. u1 /\ c[2] \in l2 .. u2 /\ c = <<c[1], c[2]>>
        OBVIOUS
      <4>2. c \in (0 .. Gdim[1]) \X (0 .. Gdim[2])
        BY <1>1, <1>2, <4>1
      <4> QED
        BY <1>1, <1>2, <4>1, <4>2 DEF Cells
    <3> QED
      BY <3>1, <3>2
  <2>2. Cardinality(Cells(Box[o])) = (u1 - l1 + 1) * (u2 - l2 + 1)
    <3> HIDE DEF l1, l2, u1, u2
    <3>1. Cardinality((l1 .. u1) \X (l2 .. u2)) = (u1 - l1 + 1) * (u2 - l2 + 1)
      BY <1>2, <1>4, ProductCount
    <3> QED
      BY <2>1, <3>1
  <2>3. get_data_length(Box[o]) = ((u1 - l1 + 1) * (u2 - l2 + 1)) % (2 * (IntMax + 1))
    BY <1>1, <1>4 DEF get_data_length
  <2>4. (u1 - l1 + 1) * (u2 - l2 + 1) \in Nat
    <3>1. u1 - l1 + 1 \in Nat /\ u2 - l2 + 1 \in Nat
      BY <1>2, <1>4
    <3> QED
      BY <3>1
  <2>5. (u1 - l1 + 1) * (u2 - l2 + 1) < 2 * (IntMax + 1)
    BY <1>3, <2>2, <2>4
  <2> QED
    BY <1>3, <2>2, <2>3, <2>4, <2>5, SmallMod
<1>5. CASE ~(l1 <= u1 /\ l2 <= u2)
  <2>1. Cells(Box[o]) = {}
    <3>1. SUFFICES ASSUME NEW c \in Cells(Box[o]) PROVE FALSE
      OBVIOUS
    <3>2. c \in (0 .. Gdim[1]) \X (0 .. Gdim[2])
      BY DEF Cells
    <3>3. l1 <= c[1] /\ c[1] <= u1 /\ l2 <= c[2] /\ c[2] <= u2
      BY <1>1 DEF Cells
    <3> QED
      BY <1>1, <1>2, <1>5, <3>2, <3>3
  <2>2. get_data_length(Box[o]) = 0
    BY <1>1, <1>5 DEF get_data_length
  <2> QED
    BY <2>1, <2>2, FS_EmptySet
<1> QED
  BY <1>4, <1>5

\* One second more, or less, in the product.
LEMMA Carry ==
    ASSUME NEW a \in Int, NEW b \in Int, NEW n \in Int
    PROVE  /\ (a + 1) * n = a * n + n
           /\ (a - 1) * n = a * n - n
           /\ (a - b) * n = a * n - b * n
           /\ a * n \in Int
OBVIOUS

\* Quotients that are 0 or 1.
LEMMA SmallDiv ==
    ASSUME NEW m \in Nat, NEW n \in Nat \ {0}
    PROVE  /\ m < n => m \div n = 0
           /\ n <= m /\ m < 2 * n => m \div n = 1
OBVIOUS

\* timeval_subtract gives the difference, and leaves last_lock_time the same
\* instant, with its microseconds not far from where they were.
LEMMA SubtractExact ==
    ASSUME NEW x \in [s : Nat, u : 0 .. Usec - 1],
           NEW y \in [s : Int, u : -Usec .. Usec - 1]
    PROVE  LET d == timeval_subtract(x, y)
           IN  /\ d.y \in [s : Int, u : -Usec .. Usec - 1]
               /\ d.r \in [s : Int, u : 0 .. Usec]
               /\ Total(d.y) = Total(y)
               /\ Total(d.r) = Total(x) - Total(y)
<1>1. Usec \in Nat \ {0} /\ x.s \in Nat /\ y.s \in Int
      /\ x.u \in 0 .. Usec - 1 /\ y.u \in -Usec .. Usec - 1
  BY DriverAssumption
<1> DEFINE Result(s, u) == [r |-> [s |-> x.s - s, u |-> x.u - u], y |-> [s |-> s, u |-> u]]
<1>2. ASSUME NEW s \in Int, NEW u \in -Usec .. Usec - 1, timeval_subtract(x, y) = Result(s, u),
             x.u - u \in 0 .. Usec, s * Usec + u = y.s * Usec + y.u
      PROVE  LET d == timeval_subtract(x, y)
             IN  /\ d.y \in [s : Int, u : -Usec .. Usec - 1]
                 /\ d.r \in [s : Int, u : 0 .. Usec]
                 /\ Total(d.y) = Total(y)
                 /\ Total(d.r) = Total(x) - Total(y)
  <2>1. (x.s - s) * Usec = x.s * Usec - s * Usec /\ x.s * Usec \in Int /\ s * Usec \in Int
        /\ y.s * Usec \in Int
    BY <1>1, Carry
  <2> QED
    BY <1>1, <1>2, <2>1 DEF Total
<1>3. CASE x.u < y.u
  <2>1. (y.u - x.u) \div Usec = 0
    <3>1. y.u - x.u \in Nat /\ y.u - x.u < Usec
      BY <1>1, <1>3
    <3> QED
      BY <1>1, <3>1, SmallDiv
  <2>2. timeval_subtract(x, y) = Result(y.s + 1, y.u - Usec)
    BY <1>1, <1>3, <2>1 DEF timeval_subtract
  <2>3. (y.s + 1) * Usec + (y.u - Usec) = y.s * Usec + y.u
    BY <1>1, Carry
  <2> QED
    BY <1>1, <1>2, <1>3, <2>2, <2>3
<1>4. CASE x.u >= y.u /\ x.u - y.u <= Usec
  <2>1. timeval_subtract(x, y) = Result(y.s, y.u)
    BY <1>1, <1>4 DEF timeval_subtract
  <2> QED
    BY <1>1, <1>2, <1>4, <2>1
<1>5. CASE x.u >= y.u /\ x.u - y.u > Usec
  <2>1. (x.u - y.u) \div Usec = 1
    <3>1. x.u - y.u \in Nat /\ Usec <= x.u - y.u /\ x.u - y.u < 2 * Usec
      BY <1>1, <1>5
    <3> QED
      BY <1>1, <3>1, SmallDiv
  <2>2. timeval_subtract(x, y) = Result(y.s - 1, y.u + Usec)
    BY <1>1, <1>5, <2>1 DEF timeval_subtract
  <2>3. (y.s - 1) * Usec + (y.u + Usec) = y.s * Usec + y.u
    BY <1>1, Carry
  <2> QED
    BY <1>1, <1>2, <1>5, <2>2, <2>3
<1> QED
  BY <1>1, <1>3, <1>4, <1>5

-----------------------------------------------------------------------------
(* Types.                                                                   *)

\* The calls, their data and their points.
LEMMA CallType ==
    ASSUME Types
    PROVE  /\ calls \subseteq Call
           /\ \A o \in Call : Dat[o] \in Data
           /\ \A o \in Call : Kind[o] \in App => Point(o) \in App \X Data
           /\ NoCall \notin Call
BY DriverAssumption DEF Types, CallTypes, Data, Point, NoCall

\* The types are those of the type invariant.
LEMMA TypesImplyTypeOK ==
    ASSUME Types
    PROVE  TypeOK
BY CallType DEF Types, CallTypes, PollTypes, AppTypes, TypeOK, PollType, MtxType

\* Every step keeps every variable in its type.
LEMMA TypeStep ==
    ASSUME Types, [Next]_vars
    PROVE  Types'
<1> USE CallType DEF Types, NoEntry
<1>1. ASSUME NEW o \in Call, RegGet(o) PROVE Types'
  <2>1. CallTypes'
    BY <1>1 DEF CallTypes, RegGet, At, Goes, PcType, Returns, appVars
  <2>2. PollTypes'
    <3>1. bq' \in Seq(calls)
      BY <1>1 DEF PollTypes, RegGet, At
    <3>2. poll' \in PollType(calls)
      BY <1>1 DEF PollTypes, PollType, RegGet
    <3>3. poll'.pc \in {"loop", "decide", "notify"} => poll'.call \in calls
      BY <1>1 DEF PollTypes, PollType, RegGet
    <3> QED
      BY <1>1, <3>1, <3>2, <3>3 DEF PollTypes, RegGet, appVars
  <2>3. AppTypes'
    BY <1>1 DEF AppTypes, RegGet, Returns, appVars, CallTypes
  <2> QED
    BY <2>1, <2>2, <2>3
<1>2. ASSUME NEW o \in Call, RegWait(o) PROVE Types'
  <2>1. CallTypes'
    BY <1>2 DEF CallTypes, RegWait, At, Goes, PcType, appVars, history
  <2>2. PollTypes'
    BY <1>2 DEF PollTypes, RegWait, appVars, history, CallTypes
  <2>3. AppTypes'
    BY <1>2, AddWaitType DEF AppTypes, RegWait, At, Goes, appVars, history, CallTypes
  <2> QED
    BY <2>1, <2>2, <2>3
<1>3. ASSUME NEW o \in Call, RegResume(o) PROVE Types'
  <2>1. CallTypes'
    BY <1>3 DEF CallTypes, PollTypes, RegResume, At, Goes, PcType, Returns, appVars,
       history
  <2>2. PollTypes'
    BY <1>3 DEF PollTypes, RegResume, Returns, appVars, history, CallTypes
  <2>3. AppTypes'
    BY <1>3, DelPointType DEF AppTypes, RegResume, At, Goes, Returns, appVars, history,
       CallTypes
  <2> QED
    BY <2>1, <2>2, <2>3
<1>4. CASE PollTest
  <2>1. CallTypes'
    BY <1>4 DEF CallTypes, PollTest, PollGoes, PollFrame, callVars, appVars, history
  <2>2. PollTypes'
    BY <1>4 DEF PollTypes, PollTest, PollType, PlainType, MtxType, PollGoes, PollFrame,
       callVars, appVars, history, CallTypes
  <2>3. AppTypes'
    BY <1>4 DEF AppTypes, PollTest, PollGoes, PollFrame, callVars, appVars, history,
       CallTypes
  <2> QED
    BY <2>1, <2>2, <2>3
<1>5. CASE PollSleep
  <2>1. CallTypes'
    BY <1>5 DEF CallTypes, PollSleep, PollGoes, PollFrame, callVars, appVars, history
  <2>2. PollTypes'
    BY <1>5 DEF PollTypes, PollSleep, PollType, PlainType, MtxType, PollGoes, PollFrame,
       callVars, appVars, history, CallTypes
  <2>3. AppTypes'
    BY <1>5 DEF AppTypes, PollSleep, PollGoes, PollFrame, callVars, appVars, history,
       CallTypes
  <2> QED
    BY <2>1, <2>2, <2>3
<1>6. CASE PollPop
  <2>1. CallTypes'
    BY <1>6 DEF CallTypes, PollPop, PollFrame, callVars, appVars, history
  <2>2. PollTypes'
    <3>1. Head(bq) \in calls /\ Tail(bq) \in Seq(calls)
      BY <1>6 DEF PollTypes, PollPop
    <3>2. poll' \in PollType(calls) /\ poll'.call \in calls
      BY <1>6, <3>1 DEF PollType, PollPop
    <3>3. plain' \subseteq PlainType(calls)
      BY <1>6, <3>1 DEF PollTypes, PlainType, PollPop
    <3> QED
      BY <1>6, <3>1, <3>2, <3>3 DEF PollTypes, PollPop, PollFrame, history
  <2>3. AppTypes'
    BY <1>6 DEF AppTypes, PollPop, PollFrame, callVars, appVars, history, CallTypes
  <2> QED
    BY <2>1, <2>2, <2>3
<1>7. CASE PollLoop
  <2>1. CallTypes'
    BY <1>7 DEF CallTypes, PollLoop, PollFrame, callVars, appVars, history
  <2>2. PollTypes'
    <3>1. poll' \in PollType(calls)
      BY <1>7 DEF PollTypes, PollType, PollLoop
    <3>2. poll'.pc \in {"loop", "decide", "notify"} => poll'.call \in calls
      BY <1>7 DEF PollTypes, PollType, PollLoop
    <3> QED
      BY <1>7, <3>1, <3>2 DEF PollTypes, PollLoop, PollFrame, history
  <2>3. AppTypes'
    BY <1>7 DEF AppTypes, PollLoop, PollFrame, callVars, appVars, history, CallTypes
  <2> QED
    BY <2>1, <2>2, <2>3
<1>8. CASE PollDecide
  <2>1. CallTypes'
    BY <1>8 DEF CallTypes, PollDecide, PollGoes, PollFrame, callVars, appVars
  <2>2. PollTypes'
    BY <1>8 DEF PollTypes, PollDecide, PollType, PlainType, MtxType, PollGoes,
       PollFrame, callVars, appVars, CallTypes
  <2>3. AppTypes'
    BY <1>8 DEF AppTypes, PollDecide, PollGoes, PollFrame, callVars, appVars, CallTypes
  <2> QED
    BY <2>1, <2>2, <2>3
<1>9. CASE PollNotify
  <2>1. CallTypes'
    BY <1>9 DEF CallTypes, PollNotify, PollFrame, callVars, appVars
  <2>2. PollTypes'
    BY <1>9 DEF PollTypes, PollNotify, PollType, PlainType, MtxType, PollFrame,
       callVars, appVars, CallTypes
  <2>3. AppTypes'
    BY <1>9, NotifyType DEF AppTypes, PollNotify, PollFrame, callVars, appVars,
       CallTypes
  <2> QED
    BY <2>1, <2>2, <2>3
<1>10. ASSUME NEW p \in plain, PlainGet(p) PROVE Types'
  <2>1. CallTypes'
    BY <1>10 DEF CallTypes, PlainGet, PcType, PollTypes, PlainType, Misleads, Watching,
       appVars
  <2>2. PollTypes'
    <3>1. plain' \subseteq PlainType(calls)
      BY <1>10 DEF PollTypes, PlainType, PlainGet
    <3>2. misled' \subseteq Call
      BY <1>10 DEF PollTypes, PlainGet, Misleads, Watching, PollType, MtxType
    <3> QED
      BY <1>10, <3>1, <3>2 DEF PollTypes, PlainGet, appVars
  <2>3. AppTypes'
    BY <1>10 DEF AppTypes, PlainGet, appVars, CallTypes
  <2> QED
    BY <2>1, <2>2, <2>3
<1>11. ASSUME NEW p \in plain, PlainDone(p) PROVE Types'
  <2>1. CallTypes'
    BY <1>11 DEF CallTypes, PlainDone, callVars, appVars
  <2>2. PollTypes'
    BY <1>11 DEF PollTypes, PlainDone, PollType, PlainType, MtxType, Misleads, Watching,
       callVars, appVars, CallTypes
  <2>3. AppTypes'
    BY <1>11 DEF AppTypes, PlainDone, callVars, appVars, CallTypes
  <2> QED
    BY <2>1, <2>2, <2>3
<1>12. ASSUME NEW o \in Call, TimedGet(o) PROVE Types'
  <2>1. CallTypes'
    BY <1>12 DEF CallTypes, TimedGet, At, Goes, PcType, appVars, history
  <2>2. PollTypes'
    <3>1. o \in calls
      BY <1>12 DEF TimedGet, At
    <3>2. plain' \subseteq PlainType(calls)
      BY <1>12, <3>1 DEF PollTypes, PlainType, TimedGet
    <3>3. mtx' \in MtxType(calls)
      BY <1>12, <3>1 DEF PollTypes, MtxType, TimedGet
    <3> QED
      BY <1>12, <3>1, <3>2, <3>3 DEF PollTypes, TimedGet, appVars, history
  <2>3. AppTypes'
    BY <1>12 DEF AppTypes, TimedGet, appVars, history, CallTypes
  <2> QED
    BY <2>1, <2>2, <2>3
<1>13. ASSUME NEW o \in Call, TimedLoop(o) PROVE Types'
  <2>1. CallTypes'
    BY <1>13 DEF CallTypes, TimedLoop, At, Goes, PcType, appVars, history
  <2>2. PollTypes'
    BY <1>13 DEF PollTypes, TimedLoop, appVars, history, CallTypes
  <2>3. AppTypes'
    BY <1>13 DEF AppTypes, TimedLoop, appVars, history, CallTypes
  <2> QED
    BY <2>1, <2>2, <2>3
<1>14. ASSUME NEW o \in Call, TimedDecide(o) PROVE Types'
  <2>1. CallTypes'
    BY <1>14 DEF CallTypes, TimedDecide, At, Goes, PcType, Returns, pollVars, appVars
  <2>2. PollTypes'
    BY <1>14 DEF PollTypes, TimedDecide, At, Goes, PollType, PlainType, MtxType,
       Returns, pollVars, appVars, CallTypes
  <2>3. AppTypes'
    BY <1>14 DEF AppTypes, TimedDecide, Returns, pollVars, appVars, CallTypes
  <2> QED
    BY <2>1, <2>2, <2>3
<1>15. ASSUME NEW o \in Call, BCSend(o) PROVE Types'
  <2>1. CallTypes'
    BY <1>15 DEF CallTypes, BCSend, At, Goes, PcType, Returns, pollVars, appVars,
       history
  <2>2. PollTypes'
    BY <1>15 DEF PollTypes, BCSend, Returns, pollVars, appVars, history, CallTypes
  <2>3. AppTypes'
    BY <1>15 DEF AppTypes, Damaged, MapUsed, BCSend, Returns, pollVars, appVars, history, CallTypes
  <2> QED
    BY <2>1, <2>2, <2>3
<1>16. ASSUME NEW o \in Call, DsPut(o) PROVE Types'
  <2>1. CallTypes'
    BY <1>16 DEF CallTypes, DsPut, At, Goes, PcType, pollVars, appVars, history
  <2>2. PollTypes'
    BY <1>16 DEF PollTypes, DsPut, At, Goes, PollType, PlainType, MtxType, pollVars,
       appVars, history, CallTypes
  <2>3. AppTypes'
    BY <1>16 DEF AppTypes, DsPut, pollVars, appVars, history, CallTypes
  <2> QED
    BY <2>1, <2>2, <2>3
<1>17. ASSUME NEW o \in Call, DsPutSync(o) PROVE Types'
  <2>1. CallTypes'
    BY <1>17 DEF CallTypes, DsPutSync, Returns, At, Goes, PcType, pollVars, history
  <2>2. PollTypes'
    BY <1>17 DEF PollTypes, DsPutSync, At, Goes, PollType, PlainType, MtxType, pollVars,
       history, CallTypes
  <2>3. AppTypes'
    BY <1>17 DEF AppTypes, Damaged, MapUsed, DsPutSync, At, Goes, RiType, pollVars, history, CallTypes
  <2> QED
    BY <2>1, <2>2, <2>3
<1>18. ASSUME NEW o \in Call, WGet(o) PROVE Types'
  <2>1. CallTypes'
    BY <1>18 DEF CallTypes, WGet, Returns, At, Goes, PcType, pollVars, history
  <2>2. PollTypes'
    BY <1>18 DEF PollTypes, WGet, pollVars, history, CallTypes
  <2>3. AppTypes'
    BY <1>18 DEF AppTypes, WGet, At, Goes, RiType, pollVars, history, CallTypes
  <2> QED
    BY <2>1, <2>2, <2>3
<1>19. ASSUME NEW o \in Call, WWait(o) PROVE Types'
  <2>1. CallTypes'
    BY <1>19 DEF CallTypes, WWait, At, Goes, PcType, pollVars, history
  <2>2. PollTypes'
    BY <1>19 DEF PollTypes, WWait, pollVars, history, CallTypes
  <2>3. AppTypes'
    BY <1>19, AddWaitType DEF AppTypes, WWait, At, Goes, pollVars, history, CallTypes
  <2> QED
    BY <2>1, <2>2, <2>3
<1>20. ASSUME NEW o \in Call, RiAnswer(o) PROVE Types'
  <2>1. CallTypes'
    BY <1>20 DEF CallTypes, RiAnswer, callVars, pollVars, history
  <2>2. PollTypes'
    BY <1>20 DEF PollTypes, RiAnswer, callVars, pollVars, history, CallTypes
  <2>3. AppTypes'
    BY <1>20 DEF AppTypes, Damaged, MapUsed, RiAnswer, At, Goes, RiType, callVars, pollVars, history,
       CallTypes
  <2> QED
    BY <2>1, <2>2, <2>3
<1>21. ASSUME NEW o \in Call, RiNotify(o) PROVE Types'
  <2>1. CallTypes'
    BY <1>21 DEF CallTypes, RiNotify, callVars, pollVars
  <2>2. PollTypes'
    BY <1>21 DEF PollTypes, RiNotify, callVars, pollVars, CallTypes
  <2>3. AppTypes'
    <3>1. wsync' \in SyncerType(App \X Data, Call)
      BY <1>21, NotifyType DEF AppTypes, RiNotify
    <3>2. ri' \in RiType
      BY <1>21 DEF AppTypes, RiType, RiNotify
    <3> QED
      BY <1>21, <3>1, <3>2 DEF AppTypes, RiNotify, pollVars
  <2> QED
    BY <2>1, <2>2, <2>3
<1>22. ASSUME NEW o \in Call, WResume(o) PROVE Types'
  <2>1. CallTypes'
    BY <1>22 DEF CallTypes, WResume, At, Goes, PcType, pollVars, history
  <2>2. PollTypes'
    BY <1>22 DEF PollTypes, WResume, pollVars, history, CallTypes
  <2>3. AppTypes'
    BY <1>22, DelPointType DEF AppTypes, WResume, At, Goes, pollVars, history, CallTypes
  <2> QED
    BY <2>1, <2>2, <2>3
<1>23. ASSUME NEW o \in Call, WLook(o) PROVE Types'
  <2>1. CallTypes'
    BY <1>23 DEF CallTypes, WLook, At, Goes, PcType, Returns, pollVars, history
  <2>2. PollTypes'
    BY <1>23 DEF PollTypes, WLook, Returns, pollVars, history, CallTypes
  <2>3. AppTypes'
    BY <1>23 DEF AppTypes, Damaged, MapUsed, WLook, At, Goes, RiType, Returns, pollVars, history,
       CallTypes
  <2> QED
    BY <2>1, <2>2, <2>3
<1>24. ASSUME NEW o \in Call, WTry(o) PROVE Types'
  <2>1. CallTypes'
    BY <1>24 DEF CallTypes, WTry, At, Goes, PcType, Returns, history
  <2>2. PollTypes'
    BY <1>24 DEF PollTypes, WTry, Returns, history, CallTypes
  <2>3. AppTypes'
    BY <1>24 DEF AppTypes, appVars, WTry, At, Goes, RiType, Returns, history, CallTypes
  <2> QED
    BY <2>1, <2>2, <2>3
<1>29. ASSUME NEW o \in Call, WDel(o) PROVE Types'
  <2>1. CallTypes'
    BY <1>29 DEF CallTypes, WDel, At, Goes, PcType, Returns, pollVars, history
  <2>2. PollTypes'
    BY <1>29 DEF PollTypes, WDel, pollVars, history, CallTypes
  <2>3. AppTypes'
    BY <1>29 DEF AppTypes, Damaged, WDel, At, pollVars, history, CallTypes
  <2> QED
    BY <2>1, <2>2, <2>3
<1>25. ASSUME NEW t \in Now, Lock(t) PROVE Types'
  <2>1. CallTypes'
    BY <1>25 DEF CallTypes, Lock, callVars, pollVars, appVars, history
  <2>2. PollTypes'
    BY <1>25 DEF PollTypes, Lock, callVars, pollVars, appVars, history, CallTypes
  <2>3. AppTypes'
    BY <1>25 DEF AppTypes, Lock, callVars, pollVars, appVars, history, CallTypes
  <2> QED
    BY <2>1, <2>2, <2>3
<1>26. ASSUME NEW t \in Now, DoTiming(t) PROVE Types'
  <2>1. CallTypes'
    BY <1>26 DEF CallTypes, DoTiming, callVars, pollVars, appVars, history
  <2>2. PollTypes'
    BY <1>26 DEF PollTypes, DoTiming, callVars, pollVars, appVars, history, CallTypes
  <2>3. AppTypes'
    BY <1>26 DEF AppTypes, DoTiming, callVars, pollVars, appVars, history, CallTypes
  <2> QED
    BY <2>1, <2>2, <2>3
<1>27. CASE Close
  <2>1. CallTypes'
    BY <1>27 DEF CallTypes, Close, PcType, callVars, pollVars, appVars, history
  <2>2. PollTypes'
    BY <1>27 DEF PollTypes, Close, callVars, pollVars, appVars, history, CallTypes
  <2>3. AppTypes'
    BY <1>27 DEF AppTypes, Close, callVars, pollVars, appVars, history, CallTypes
  <2> QED
    BY <2>1, <2>2, <2>3
<1>28. CASE UNCHANGED vars
  BY <1>28 DEF vars, callVars, pollVars, appVars, history, CallTypes, PollTypes,
     AppTypes
<1> QED
  BY <1>1, <1>2, <1>3, <1>4, <1>5, <1>6, <1>7, <1>8, <1>9, <1>10, <1>11, <1>12, <1>13,
     <1>14, <1>15, <1>16, <1>17, <1>18, <1>19, <1>20, <1>21, <1>22, <1>23, <1>24, <1>25,
     <1>26, <1>27, <1>28, <1>29 DEF Next, Poll, CallStep

\* No process uses get_poll and timed_get.
LEMMA NoMix ==
    ASSUME Types, NEW a \in calls, NEW b \in calls, Kind[a] = "reg"
    PROVE  Kind[b] # "timed"
BY DriverAssumption DEF Types, CallTypes

-----------------------------------------------------------------------------
(* The gets.                                                                *)

\* What the steps that are not about gets leave as it is.
Still ==
    /\ UNCHANGED <<calls, bq, poll, plain, get_done, get_success, ret, sync, closed,
                   abandoned, misled>>
    /\ mtx'.get = mtx.get
    /\ \A o \in calls : Kind[o] \in {"reg", "timed"} =>
          pc'[o] = pc[o] /\ res'[o] = res[o] /\ buf'[o] = buf[o]
    /\ closed => pc' = pc

AppStep(o) ==
    \/ BCSend(o) \/ DsPut(o) \/ DsPutSync(o)
    \/ WGet(o) \/ WWait(o) \/ WResume(o) \/ WLook(o) \/ WTry(o) \/ WDel(o)
    \/ RiAnswer(o) \/ RiNotify(o)

\* Those steps are the applications' and the locks'.
LEMMA AppStill ==
    ASSUME Types, NEW o \in Call, AppStep(o)
    PROVE  Still
<1>1. DOMAIN pc = Call /\ res \in [Call -> {0, 1}] /\ DOMAIN buf = Call /\ calls \subseteq Call
  BY CallType DEF Types, CallTypes, PcType
<1>2. mtx \in [put : calls \cup {NoCall}, get : calls \cup {NoCall}]
  BY DEF Types, PollTypes, MtxType
<1>3. CASE BCSend(o)
  BY <1>1, <1>2, <1>3 DEF Still, BCSend, At, Goes, Returns, pollVars, history
<1>4. CASE DsPut(o)
  BY <1>1, <1>2, <1>4 DEF Still, DsPut, At, Goes, pollVars, history
<1>5. CASE DsPutSync(o)
  BY <1>1, <1>2, <1>5 DEF Still, DsPutSync, At, Goes, Returns, pollVars, history
<1>6. CASE WGet(o)
  BY <1>1, <1>2, <1>6 DEF Still, WGet, At, Goes, Returns, pollVars, history
<1>7. CASE WWait(o)
  BY <1>1, <1>2, <1>7 DEF Still, WWait, At, Goes, App, pollVars, history
<1>8. CASE WResume(o)
  BY <1>1, <1>2, <1>8 DEF Still, WResume, At, Goes, App, pollVars, history
<1>9. CASE WLook(o)
  BY <1>1, <1>2, <1>9 DEF Still, WLook, At, Goes, Returns, App, pollVars, history
<1>10. CASE WTry(o)
  BY <1>1, <1>2, <1>10 DEF Still, WTry, At, Goes, Returns, history
<1>11. CASE RiAnswer(o)
  BY <1>1, <1>2, <1>11 DEF Still, RiAnswer, callVars, pollVars, history
<1>12. CASE RiNotify(o)
  BY <1>1, <1>2, <1>12 DEF Still, RiNotify, callVars, pollVars
<1>13. CASE WDel(o)
  BY <1>1, <1>2, <1>13 DEF Still, WDel, At, Goes, Returns, App, pollVars, history
<1> QED
  BY <1>3, <1>4, <1>5, <1>6, <1>7, <1>8, <1>9, <1>10, <1>11, <1>12, <1>13 DEF AppStep

\* Who can be where.
LEMMA GetFacts ==
    ASSUME Types, GetInv
    PROVE  /\ calls \subseteq Call /\ NoCall \notin Call
           /\ DOMAIN pc = Call /\ DOMAIN res = Call /\ DOMAIN buf = Call
           /\ \A w \in Watched : w \in calls /\ Kind[w] \in {"reg", "timed"}
           /\ \A p \in plain : p.call \in calls /\ Kind[p.call] \in {"reg", "timed"}
           /\ \A o \in Queued : o \in calls
           /\ poll.call \in calls \cup {NoCall}
           /\ poll.pc \in {"loop", "decide", "notify"} => poll.call \in calls
           /\ mtx.get \in calls \cup {NoCall}
<1>1. \A w \in Watched : w \in calls /\ Kind[w] \in {"reg", "timed"}
  BY DEF GetInv, Places, Watched, Types, PollTypes, MtxType, PollType
<1>2. \A p \in plain : p.call \in calls /\ Kind[p.call] \in {"reg", "timed"}
  BY DEF GetInv, Threads, Types, PollTypes, PlainType
<1>3. \A o \in Queued : o \in calls
  BY DEF Queued, Types, PollTypes
<1> QED
  BY <1>1, <1>2, <1>3, CallType DEF Types, CallTypes, PollTypes, PcType, PollType,
     MtxType

\* They keep what is known about the gets.
LEMMA StillKeeps ==
    ASSUME Types, GetInv, Still
    PROVE  GetInv'
<1> USE DEF GetInv
<1>1. Watched' = Watched /\ Queued' = Queued
  BY DEF Still, Watched, Queued
<1>2. \A o : /\ HasThread(o)' = HasThread(o) /\ Shared(o)' = Shared(o)
             /\ Decided(o)' = Decided(o) /\ Settled(o)' = Settled(o)
  BY <1>1 DEF Still, HasThread, Shared, Decided, Settled
<1>3. \A o \in calls : Kind[o] \in {"reg", "timed"} => Honest(o)' = Honest(o)
  BY DEF Still, Honest
<1>4. Places'
  BY <1>1, GetFacts DEF Still, Places, Distinct
<1>5. Threads'
  BY <1>1, GetFacts DEF Still, Threads
<1>6. Flags'
  BY <1>1, GetFacts, <1>2 DEF Still, Flags
<1>7. Notifying'
  BY <1>2, <1>3, GetFacts DEF Still, Notifying, Places
<1>8. GetWaits'
  BY <1>2, <1>3 DEF Still, GetWaits
<1>9. Returned'
  BY <1>2 DEF Still, Returned
<1>10. Closing'
  BY DEF Still, Closing
<1> QED
  BY <1>4, <1>5, <1>6, <1>7, <1>8, <1>9, <1>10

\* What a push does to the queue.
LEMMA Pushed ==
    ASSUME NEW S, NEW s \in Seq(S), NEW e
    PROVE  /\ {Append(s, e)[i] : i \in DOMAIN Append(s, e)} = {s[i] : i \in DOMAIN s} \cup {e}
           /\ Distinct(s) /\ e \notin {s[i] : i \in DOMAIN s} => Distinct(Append(s, e))
<1>1. DOMAIN Append(s, e) = DOMAIN s \cup {Len(s) + 1} /\ Len(s) + 1 \notin DOMAIN s
  OBVIOUS
<1>2. Append(s, e)[Len(s) + 1] = e /\ \A i \in DOMAIN s : Append(s, e)[i] = s[i]
  OBVIOUS
<1> QED
  BY <1>1, <1>2 DEF Distinct

\* What a pop does.
LEMMA Popped ==
    ASSUME NEW S, NEW s \in Seq(S), s # <<>>
    PROVE  /\ {s[i] : i \in DOMAIN s} = {Tail(s)[i] : i \in DOMAIN Tail(s)} \cup {Head(s)}
           /\ Distinct(s) => Distinct(Tail(s)) /\ Head(s) \notin {Tail(s)[i] : i \in DOMAIN Tail(s)}
<1>1. Len(s) \in Nat \ {0} /\ DOMAIN s = 1 .. Len(s) /\ DOMAIN Tail(s) = 1 .. Len(s) - 1
  OBVIOUS
<1>2. Head(s) = s[1] /\ \A i \in 1 .. Len(s) - 1 : Tail(s)[i] = s[i + 1]
  OBVIOUS
<1>3. \A j \in 1 .. Len(s) : j = 1 \/ (j - 1 \in 1 .. Len(s) - 1 /\ Tail(s)[j - 1] = s[j])
  BY <1>1, <1>2
<1>4. \A i \in 1 .. Len(s) - 1 : i + 1 \in 1 .. Len(s) /\ i + 1 # 1
  BY <1>1
<1>5. {s[i] : i \in DOMAIN s} = {Tail(s)[i] : i \in DOMAIN Tail(s)} \cup {Head(s)}
  <2>1. ASSUME NEW j \in DOMAIN s PROVE s[j] \in {Tail(s)[i] : i \in DOMAIN Tail(s)} \cup {Head(s)}
    BY <1>1, <1>2, <1>3
  <2>2. ASSUME NEW i \in DOMAIN Tail(s) PROVE Tail(s)[i] \in {s[j] : j \in DOMAIN s}
    BY <1>1, <1>2, <1>4
  <2>3. Head(s) \in {s[j] : j \in DOMAIN s}
    BY <1>1, <1>2
  <2> QED
    BY <2>1, <2>2, <2>3
<1>6. Distinct(s) => Distinct(Tail(s)) /\ Head(s) \notin {Tail(s)[i] : i \in DOMAIN Tail(s)}
  BY <1>1, <1>2, <1>4 DEF Distinct
<1> QED
  BY <1>5, <1>6

\* wa_put's get, refused or pushed: a call that was nowhere yet.
LEMMA RegGetKeeps ==
    ASSUME Types, GetInv, NEW o \in Call, RegGet(o)
    PROVE  GetInv'
<1> USE GetFacts DEF GetInv
<1>1. o \in calls /\ Kind[o] = "reg" /\ pc[o] = "new" /\ ~closed
  BY DEF RegGet, At
<1>2. /\ UNCHANGED <<calls, buf, plain, get_done, get_success, ret, sync, mtx, closed,
                     abandoned, misled>>
      /\ pc'[o] \in {"ret", "pushed"} /\ \A c \in Call : c # o => pc'[c] = pc[c]
      /\ poll'.call = poll.call /\ Watched' = Watched
      /\ poll.pc \in {"loop", "decide", "notify"} \/ poll'.pc \in {"loop", "decide", "notify"}
           => poll' = poll
  BY DEF RegGet, Returns, Goes, Watched, Types, PollTypes, PollType
<1>3. o \notin Queued /\ poll.call # o /\ ~HasThread(o)
  BY <1>1 DEF Places, Threads, HasThread
<1>4. \/ bq' = bq /\ Queued' = Queued /\ pc'[o] = "ret"
      \/ pc'[o] = "pushed" /\ Queued' = Queued \cup {o} /\ Distinct(bq') /\ UNCHANGED res
  <2>1. CASE bq' = bq /\ pc'[o] = "ret"
    BY <2>1 DEF Queued
  <2>2. CASE bq' = Append(bq, o) /\ pc'[o] = "pushed" /\ UNCHANGED res
    <3>1. bq \in Seq(calls) /\ Distinct(bq)
      BY DEF Types, PollTypes, Places
    <3> QED
      BY <1>3, <2>2, <3>1, Pushed DEF Queued
  <2> QED
    BY <2>1, <2>2 DEF RegGet, Returns, Goes
<1>5. \A c : HasThread(c)' = HasThread(c) /\ Shared(c)' = Shared(c) /\ Decided(c)' = Decided(c)
             /\ Honest(c)' = Honest(c)
  BY <1>2 DEF HasThread, Shared, Decided, Honest
<1>6. \A c : c # o => Settled(c)' = Settled(c)
  BY <1>2, <1>4, <1>5 DEF Settled
<1>7. \A c \in Call : c # o => res'[c] = res[c]
  BY DEF RegGet, Returns, Types, CallTypes
<1>8. Places'
  BY <1>1, <1>2, <1>3, <1>4 DEF Places
<1>9. Threads'
  BY <1>1, <1>2, <1>3, <1>4 DEF Threads, HasThread
<1>10. Flags'
  BY <1>2, <1>5 DEF Flags
<1>11. Notifying'
  BY <1>2, <1>5 DEF Notifying
<1>12. GetWaits'
  BY <1>1, <1>2, <1>5, <1>6 DEF GetWaits
<1>13. Returned'
  <2>1. pc'[o] = "ret" => Settled(o)' /\ res'[o] = 1
    <3>1. pc'[o] = "ret" => res'[o] = 1
      BY DEF RegGet, Returns, Goes, Types, CallTypes
    <3> QED
      BY <1>2, <1>3, <1>4, <1>5, <3>1 DEF Settled, Decided
  <2> QED
    BY <1>1, <1>2, <1>5, <1>6, <1>7, <2>1 DEF Returned
<1>14. Closing'
  BY <1>1, <1>2 DEF Closing
<1> QED
  BY <1>8, <1>9, <1>10, <1>11, <1>12, <1>13, <1>14

\* The caller waits on its data's point.
LEMMA RegWaitKeeps ==
    ASSUME Types, GetInv, NEW o \in Call, RegWait(o)
    PROVE  GetInv'
<1> USE GetFacts DEF GetInv
<1>1. o \in calls /\ Kind[o] = "reg" /\ pc[o] = "pushed" /\ ~closed
  BY DEF RegWait, At
<1>2. /\ UNCHANGED <<calls, res, buf, bq, poll, plain, get_done, get_success, ret, mtx, closed,
                     abandoned, misled>>
      /\ pc'[o] = "wait" /\ \A c \in Call : c # o => pc'[c] = pc[c]
      /\ Queued' = Queued /\ Watched' = Watched
  BY DEF RegWait, Goes, Watched, Queued, history
<1>3. sync'.parked = sync.parked \cup {<<Dat[o], o>>} /\ sync'.woken = sync.woken
  BY DEF RegWait, AddWait
<1>4. \A c : HasThread(c)' = HasThread(c) /\ Shared(c)' = Shared(c) /\ Decided(c)' = Decided(c)
             /\ Honest(c)' = Honest(c) /\ Settled(c)' = Settled(c)
  BY <1>2 DEF HasThread, Shared, Decided, Honest, Settled
<1>5. Places'
  BY <1>1, <1>2 DEF Places
<1>6. Threads'
  BY <1>1, <1>2 DEF Threads
<1>7. Flags'
  BY <1>2, <1>4 DEF Flags
<1>8. Notifying'
  BY <1>2, <1>4 DEF Notifying
<1>9. GetWaits'
  BY <1>1, <1>2, <1>3, <1>4 DEF GetWaits
<1>10. Returned'
  BY <1>1, <1>2, <1>4 DEF Returned
<1>11. Closing'
  BY <1>1, <1>2 DEF Closing
<1> QED
  BY <1>5, <1>6, <1>7, <1>8, <1>9, <1>10, <1>11

\* The caller was notified, and takes the answer noted for its data.
LEMMA RegResumeKeeps ==
    ASSUME Types, GetInv, NEW o \in Call, RegResume(o)
    PROVE  GetInv'
<1> USE GetFacts DEF GetInv
<1>1. o \in calls /\ Kind[o] = "reg" /\ pc[o] = "wait" /\ o \in sync.woken /\ ~closed
  BY DEF RegResume, At
<1>2. /\ UNCHANGED <<calls, buf, bq, poll, plain, get_done, get_success, ret, mtx, closed,
                     abandoned, misled>>
      /\ pc'[o] = "ret" /\ res'[o] = ret[Dat[o]]
      /\ \A c \in Call : c # o => pc'[c] = pc[c] /\ res'[c] = res[c]
      /\ Queued' = Queued /\ Watched' = Watched
  BY DEF RegResume, Returns, Goes, Watched, Queued, history
<1>3. /\ \A x \in sync'.parked : x \in sync.parked /\ x[1] # Dat[o]
      /\ sync'.woken = sync.woken \ {o}
  BY DEF RegResume, DelPoint
<1>4. \A c : HasThread(c)' = HasThread(c) /\ Shared(c)' = Shared(c) /\ Decided(c)' = Decided(c)
             /\ Honest(c)' = Honest(c) /\ Settled(c)' = Settled(c)
  BY <1>2 DEF HasThread, Shared, Decided, Honest, Settled
<1>5. Places'
  BY <1>1, <1>2 DEF Places
<1>6. Threads'
  BY <1>1, <1>2 DEF Threads
<1>7. Flags'
  BY <1>2, <1>4 DEF Flags
<1>8. Notifying'
  BY <1>2, <1>4 DEF Notifying
<1>9. GetWaits'
  BY <1>1, <1>2, <1>3, <1>4 DEF GetWaits
<1>10. Returned'
  <2>1. Shared(o) \/ (Settled(o) /\ Honest(o))
    BY <1>1 DEF GetWaits
  <2> QED
    BY <1>1, <1>2, <1>4, <2>1 DEF Returned, Honest
<1>11. Closing'
  BY <1>1, <1>2 DEF Closing
<1> QED
  BY <1>5, <1>6, <1>7, <1>8, <1>9, <1>10, <1>11

\* get_poll finds nothing, falls asleep, or goes on watching.
LEMMA PollMovesKeep ==
    ASSUME Types, GetInv, PollTest \/ PollSleep \/ PollLoop
    PROVE  GetInv'
<1> USE GetFacts DEF GetInv
<1>1. /\ UNCHANGED <<calls, pc, res, buf, bq, plain, get_done, get_success, ret, sync, mtx, closed,
                     abandoned, misled>>
      /\ poll'.call = poll.call
      /\ \/ poll.pc = "loop" /\ poll'.pc \in {"loop", "decide"}
         \/ poll.pc \in {"test", "dozing"} /\ poll'.pc \in {"dozing", "asleep"}
  BY DEF PollTest, PollSleep, PollLoop, PollGoes, PollFrame, callVars, history, Types,
     PollTypes, PollType
<1>2. Queued' = Queued /\ Watched' = Watched
  BY <1>1 DEF Watched, Queued
<1>3. \A c : HasThread(c)' = HasThread(c) /\ Shared(c)' = Shared(c) /\ Decided(c)' = Decided(c)
             /\ Honest(c)' = Honest(c) /\ Settled(c)' = Settled(c)
  BY <1>1, <1>2 DEF HasThread, Shared, Decided, Honest, Settled
<1>4. Places'
  BY <1>1, <1>2 DEF Places
<1>5. Threads'
  BY <1>1, <1>2 DEF Threads
<1>6. Flags'
  BY <1>1, <1>2, <1>3 DEF Flags
<1>7. Notifying'
  BY <1>1 DEF Notifying
<1>8. GetWaits'
  BY <1>1, <1>3 DEF GetWaits
<1>9. Returned'
  BY <1>1, <1>3 DEF Returned
<1>10. Closing'
  BY <1>1 DEF Closing
<1> QED
  BY <1>4, <1>5, <1>6, <1>7, <1>8, <1>9, <1>10

\* A get is taken: its thread is the first it has.
LEMMA PollPopKeeps ==
    ASSUME Types, GetInv, PollPop
    PROVE  GetInv'
<1> DEFINE h == Head(bq)
           new == [call |-> h, pc |-> "get"]
<1> USE GetFacts DEF GetInv
<1>1. Queued = Queued' \cup {h} /\ h \notin Queued' /\ Distinct(bq')
  <2>1. bq \in Seq(calls) /\ bq # <<>> /\ Distinct(bq) /\ bq' = Tail(bq)
    BY DEF PollPop, Types, PollTypes, Places
  <2>2. Queued' = {Tail(bq)[i] : i \in DOMAIN Tail(bq)}
    BY <2>1 DEF Queued
  <2>3. Queued = {Tail(bq)[i] : i \in DOMAIN Tail(bq)} \cup {h}
    BY <2>1, Popped DEF Queued
  <2>4. Distinct(Tail(bq)) /\ h \notin {Tail(bq)[i] : i \in DOMAIN Tail(bq)}
    BY <2>1, Popped
  <2> QED
    BY <2>1, <2>2, <2>3, <2>4, Zenon
<1>2. /\ UNCHANGED <<calls, pc, res, buf, ret, sync, mtx, closed, abandoned, misled>>
      /\ poll.pc = "test" /\ poll'.pc = "loop" /\ poll'.call = h
      /\ get_done' = FALSE /\ get_success' = FALSE /\ plain' = plain \cup {new}
  BY DEF PollPop, PollFrame, callVars, history
<1> HIDE DEF h
<1>3. h \in calls /\ Kind[h] = "reg" /\ pc[h] # "new" /\ ~HasThread(h)
  BY <1>1 DEF Places, Threads, HasThread
<1>4. Watched' = {h} \cup (IF mtx.get # NoCall THEN {mtx.get} ELSE {})
  BY <1>2 DEF Watched
<1>5. \A c : /\ Shared(c)' = Shared(c) /\ Honest(c)' = Honest(c)
             /\ c # h => /\ HasThread(c)' = HasThread(c) /\ Decided(c)' = Decided(c)
                         /\ Settled(c) => Settled(c)'
  BY <1>1, <1>2 DEF HasThread, Shared, Decided, Honest, Settled
<1>6. \A c : Settled(c) => c # h
  BY <1>1 DEF Settled
<1>7. Places'
  BY <1>1, <1>2, <1>3 DEF Places
<1>8. Threads'
  <2>1. \A p \in plain' : p.call \notin Queued' /\ pc[p.call] # "new" /\ Kind[p.call] \in {"reg", "timed"}
    BY <1>1, <1>2, <1>3 DEF Threads
  <2>2. \A p, r \in plain' : p.call = r.call => p = r
    BY <1>2, <1>3 DEF Threads, HasThread
  <2>3. ASSUME abandoned = {} PROVE misled = {} /\ plain = {}
    <3>1. Watched = {}
      BY <1>2, <1>3, NoMix DEF Watched, Places
    <3> QED
      BY <2>3, <3>1 DEF Threads
  <2> QED
    BY <1>2, <1>4, <2>1, <2>2, <2>3 DEF Threads
<1>9. Flags'
  BY <1>2 DEF Flags
<1>10. Notifying'
  BY <1>2 DEF Notifying
<1>11. GetWaits'
  BY <1>2, <1>5, <1>6 DEF GetWaits
<1>12. Returned'
  BY <1>2, <1>5, <1>6 DEF Returned
<1>13. Closing'
  BY <1>2 DEF Closing
<1> QED
  BY <1>7, <1>8, <1>9, <1>10, <1>11, <1>12, <1>13

\* get_poll decides: the flag was seen, and then the thread is over, or the get is
\* given up.
LEMMA PollDecideKeeps ==
    ASSUME Types, GetInv, PollDecide
    PROVE  GetInv'
<1> DEFINE c == poll.call
<1> USE GetFacts DEF GetInv
<1>1. /\ UNCHANGED <<calls, pc, res, buf, bq, plain, get_done, get_success, sync, mtx, closed,
                     misled>>
      /\ poll.pc = "decide" /\ poll'.pc = "notify" /\ poll'.call = c /\ Queued' = Queued
      /\ abandoned' = IF get_done THEN abandoned ELSE abandoned \cup {c}
      /\ \A d \in Data \ {Dat[c]} : ret'[d] = ret[d]
  BY DEF PollDecide, PollGoes, PollFrame, callVars, Queued, Types, PollTypes, PollType
<1>2. ret'[Dat[c]] = IF get_done /\ get_success THEN 0 ELSE 1
  BY <1>1, CallType DEF PollDecide, Types, PollTypes
<1>3. c \in calls /\ c \in Watched /\ Watched' \subseteq Watched
  BY <1>1 DEF Watched
<1> HIDE DEF c
<1>4. HasThread(c) => c \in abandoned' \cup misled
  BY <1>1, <1>3 DEF Flags
<1>5. \A o : /\ Shared(o)' = Shared(o) /\ HasThread(o)' = HasThread(o)
             /\ Decided(o) => Decided(o)'
  BY <1>1 DEF HasThread, Shared, Decided
<1>6. \A o : Settled(o) => Settled(o)' /\ o # c
  BY <1>1, <1>5 DEF Settled, c
<1>7. Places'
  BY <1>1 DEF Places, c
<1>8. Threads'
  <2>1. abandoned' = {} => abandoned = {} /\ get_done
    BY <1>1
  <2> QED
    BY <1>1, <2>1 DEF Threads
<1>9. Flags'
  BY <1>1, <1>3, <1>5 DEF Flags
<1>10. Notifying'
  <2>1. ret'[Dat[c]] = 0 => buf[c] = Dat[c] \/ c \in misled
    BY <1>2, <1>3 DEF Flags
  <2> QED
    BY <1>1, <1>4, <1>5, <2>1 DEF Notifying, Decided, Honest
<1>11. GetWaits'
  <2>1. ASSUME NEW t \in calls, t # c, Honest(t), ~Shared(t) PROVE Honest(t)'
    BY <1>1, <1>3, <2>1, CallType DEF Honest, Shared
  <2> QED
    BY <1>1, <1>5, <1>6, <2>1 DEF GetWaits
<1>12. Returned'
  BY <1>1, <1>5, <1>6 DEF Returned
<1>13. Closing'
  BY <1>1 DEF Closing
<1> QED
  BY <1>7, <1>8, <1>9, <1>10, <1>11, <1>12, <1>13

\* get_poll notifies: whoever of its data's waiters is released, it is the caller
\* itself or a call of the same data.
LEMMA PollNotifyKeeps ==
    ASSUME Types, GetInv, PollNotify
    PROVE  GetInv'
<1> DEFINE c == poll.call
<1> USE GetFacts DEF GetInv
<1>1. /\ UNCHANGED <<calls, pc, res, buf, bq, plain, get_done, get_success, ret, mtx, closed,
                     abandoned, misled>>
      /\ poll.pc = "notify" /\ poll'.pc = "test" /\ poll'.call = NoCall /\ Queued' = Queued
  BY DEF PollNotify, PollFrame, callVars, Queued
<1>2. Watched' = Watched /\ c \in calls /\ c \notin Queued /\ Decided(c) /\ Honest(c)
  BY <1>1 DEF Watched, Places, Notifying
<1>3. /\ \A x \in sync'.parked : x \in sync.parked
      /\ \A t \in sync'.woken : \/ t \in sync.woken
                                \/ \E x \in sync.parked : x[1] = Dat[c] /\ x[2] = t
  <2>1. sync' \in Notify(sync, Dat[c])
    BY DEF PollNotify
  <2> QED
    BY <2>1, NotifyEffect
<1> HIDE DEF c
<1>4. \A o : /\ Shared(o)' = Shared(o) /\ HasThread(o)' = HasThread(o) /\ Decided(o)' = Decided(o)
             /\ Honest(o)' = Honest(o)
  BY <1>1 DEF HasThread, Shared, Decided, Honest
<1>5. \A o \in calls : Settled(o) \/ (o \notin Queued /\ Decided(o)) => Settled(o)'
  BY <1>1, <1>4 DEF Settled
<1>6. Places'
  BY <1>1 DEF Places
<1>7. Threads'
  BY <1>1, <1>2 DEF Threads
<1>8. Flags'
  BY <1>1, <1>2, <1>4 DEF Flags
<1>9. Notifying'
  BY <1>1 DEF Notifying
<1>10. GetWaits'
  <2>1. ASSUME NEW x \in sync.parked, x[1] = Dat[c]
        PROVE  /\ x[2] \in calls /\ pc[x[2]] = "wait" /\ Kind[x[2]] = "reg"
               /\ Shared(x[2]) \/ (Settled(x[2])' /\ Honest(x[2]))
    <3>1. x[2] \in calls /\ pc[x[2]] = "wait" /\ Kind[x[2]] = "reg" /\ Dat[x[2]] = Dat[c]
      BY <2>1 DEF GetWaits
    <3>2. CASE x[2] = c
      BY <1>2, <1>5, <3>1, <3>2
    <3>3. CASE x[2] # c
      BY <1>2, <3>1, <3>3 DEF Shared
    <3> QED
      BY <3>1, <3>2, <3>3
  <2> QED
    BY <1>1, <1>3, <1>4, <1>5, <2>1 DEF GetWaits
<1>11. Returned'
  BY <1>1, <1>4, <1>5 DEF Returned
<1>12. Closing'
  BY <1>1 DEF Closing
<1> QED
  BY <1>6, <1>7, <1>8, <1>9, <1>10, <1>11, <1>12

\* While no get was given up, the only thread is that of the only call that
\* watches the flags.
LEMMA OnlyThread ==
    ASSUME Types, GetInv, abandoned = {}, NEW p \in plain
    PROVE  misled = {} /\ plain = {p} /\ ~get_done /\ Watching \ {p.call} = {} /\ p.call \in Watched
<1> USE GetFacts DEF GetInv
<1>1. PICK w \in Watched : ~get_done /\ \A r \in plain : r.call = w
  BY DEF Threads
<1>2. misled = {} /\ plain = {p} /\ p.call = w
  BY <1>1 DEF Threads
<1>3. Watching \ {w} = {}
  BY <1>1, NoMix DEF Watching, Watched, Places
<1> QED
  BY <1>1, <1>2, <1>3

\* dspaces_get returns in the thread of one get.
LEMMA PlainGetKeeps ==
    ASSUME Types, GetInv, NEW p \in plain, PlainGet(p)
    PROVE  GetInv'
<1> DEFINE o == p.call
           done == [p EXCEPT !.pc = "done"]
<1> USE GetFacts DEF GetInv
<1>1. /\ UNCHANGED <<calls, pc, res, bq, poll, get_done, ret, sync, mtx, closed, abandoned>>
      /\ Queued' = Queued /\ Watched' = Watched
      /\ plain' = (plain \ {p}) \cup {done}
      /\ misled' = misled \cup (Watching \ {o})
  BY DEF PlainGet, Misleads, Queued, Watched
<1>2. o \in calls /\ done.call = o
  BY DEF Types, PollTypes, PlainType
<1>3. /\ \A c \in Call : buf'[c] = buf[c] \/ buf'[c] = Dat[c]
      /\ get_success' => buf'[o] = Dat[o]
  BY <1>2 DEF PlainGet
<1> HIDE DEF o, done
<1>4. \A c : HasThread(c)' = HasThread(c)
  BY <1>1, <1>2 DEF HasThread, o
<1>5. \A c : /\ Shared(c)' = Shared(c)
             /\ Decided(c) => Decided(c)'
             /\ Settled(c) => Settled(c)'
  BY <1>1, <1>4 DEF Shared, Decided, Settled
<1>6. \A c \in calls : Honest(c) => Honest(c)'
  BY <1>1, <1>3 DEF Honest
<1>7. Places'
  BY <1>1 DEF Places
<1>8. Threads'
  <2>1. \A r \in plain' : r.call \notin Queued' /\ pc[r.call] # "new" /\ Kind[r.call] \in {"reg", "timed"}
    BY <1>1, <1>2 DEF Threads, o
  <2>2. \A q, r \in plain' : q.call = r.call => q = r
    BY <1>1, <1>2 DEF Threads, o
  <2>3. abandoned = {} => misled' = {} /\ plain' = {done} /\ ~get_done /\ o \in Watched
    BY <1>1, OnlyThread DEF o
  <2> QED
    BY <1>1, <1>2, <2>1, <2>2, <2>3 DEF Threads
<1>9. Flags'
  <2>1. ASSUME NEW w \in Watched', w \notin misled' PROVE w = o /\ w \in Watched \ misled
    BY <1>1, <2>1 DEF Watched, Watching
  <2>2. HasThread(o)
    BY DEF HasThread, o
  <2> QED
    BY <1>1, <1>3, <1>4, <2>1, <2>2 DEF Flags
<1>10. Notifying'
  BY <1>1, <1>5, <1>6 DEF Notifying
<1>11. GetWaits'
  BY <1>1, <1>5, <1>6 DEF GetWaits
<1>12. Returned'
  BY <1>1, <1>3, <1>5 DEF Returned
<1>13. Closing'
  BY <1>1 DEF Closing
<1> QED
  BY <1>7, <1>8, <1>9, <1>10, <1>11, <1>12, <1>13

\* The thread of one get is over.
LEMMA PlainDoneKeeps ==
    ASSUME Types, GetInv, NEW p \in plain, PlainDone(p)
    PROVE  GetInv'
<1> DEFINE o == p.call
<1> USE GetFacts DEF GetInv
<1>1. /\ UNCHANGED <<calls, pc, res, buf, bq, poll, get_success, ret, sync, mtx, closed, abandoned>>
      /\ Queued' = Queued /\ Watched' = Watched
      /\ plain' = plain \ {p}
      /\ misled' = misled \cup (Watching \ {o})
  BY DEF PlainDone, Misleads, Queued, Watched, callVars
<1>2. o \in calls
  OBVIOUS
<1> HIDE DEF o
<1>3. ~HasThread(o)' /\ \A c : HasThread(c)' => HasThread(c)
  BY <1>1 DEF HasThread, o, Threads
<1>4. \A c : /\ Shared(c)' = Shared(c)
             /\ Decided(c) => Decided(c)'
             /\ Settled(c) => Settled(c)'
             /\ Honest(c) => Honest(c)'
  BY <1>1, <1>3 DEF Shared, Decided, Settled, Honest
<1>5. Places'
  BY <1>1 DEF Places
<1>6. Threads'
  <2>1. \A r \in plain' : r.call \notin Queued' /\ pc[r.call] # "new" /\ Kind[r.call] \in {"reg", "timed"}
    BY <1>1 DEF Threads
  <2>2. \A q, r \in plain' : q.call = r.call => q = r
    BY <1>1 DEF Threads
  <2>3. abandoned = {} => misled' = {} /\ plain' = {}
    BY <1>1, OnlyThread DEF o
  <2> QED
    BY <1>1, <2>1, <2>2, <2>3 DEF Threads
<1>7. Flags'
  <2>1. ASSUME NEW w \in Watched', w \notin misled' PROVE w = o /\ w \in Watched \ misled
    BY <1>1, <2>1 DEF Watched, Watching
  <2> QED
    BY <1>1, <1>3, <2>1 DEF Flags
<1>8. Notifying'
  BY <1>1, <1>4 DEF Notifying
<1>9. GetWaits'
  BY <1>1, <1>4 DEF GetWaits
<1>10. Returned'
  BY <1>1, <1>4 DEF Returned
<1>11. Closing'
  BY <1>1 DEF Closing
<1> QED
  BY <1>5, <1>6, <1>7, <1>8, <1>9, <1>10, <1>11

\* timed_get starts: nobody else watches the flags.
LEMMA TimedGetKeeps ==
    ASSUME Types, GetInv, NEW o \in Call, TimedGet(o)
    PROVE  GetInv'
<1> DEFINE new == [call |-> o, pc |-> "get"]
<1> USE GetFacts DEF GetInv
<1>1. /\ UNCHANGED <<calls, res, buf, bq, poll, ret, sync, closed, abandoned, misled>>
      /\ Queued' = Queued /\ plain' = plain \cup {new} /\ ~get_done' /\ ~get_success'
      /\ pc'[o] = "loop" /\ \A c \in Call : c # o => pc'[c] = pc[c]
      /\ o \in calls /\ pc[o] = "new" /\ Kind[o] = "timed" /\ ~closed
  BY DEF TimedGet, At, Goes, Queued, history
<1>2. mtx.get = NoCall /\ mtx'.get = o
  BY DEF TimedGet, Types, PollTypes, MtxType
<1>3. poll.call # o /\ ~HasThread(o)
  BY <1>1 DEF Threads, HasThread, Places
<1>4. Watched = {} /\ Watched' = {o} /\ poll.call = NoCall
  BY <1>1, <1>2, NoMix DEF Watched, Places
<1>5. \A c : c # o => /\ HasThread(c)' = HasThread(c) /\ Decided(c)' = Decided(c)
                      /\ Settled(c)' = Settled(c)
  BY <1>1 DEF HasThread, Decided, Settled
<1>6. \A c : Shared(c)' = Shared(c) /\ Honest(c)' = Honest(c)
  BY <1>1 DEF Shared, Honest
<1>7. Places'
  BY <1>1, <1>2, <1>3 DEF Places
<1>8. Threads'
  <2>1. \A r \in plain' : r.call \notin Queued' /\ pc'[r.call] # "new" /\ Kind[r.call] \in {"reg", "timed"}
    BY <1>1 DEF Threads, Places
  <2>2. \A q, r \in plain' : q.call = r.call => q = r
    BY <1>1, <1>3 DEF Threads, HasThread
  <2>3. abandoned = {} => misled = {} /\ plain' = {new} /\ o \in Watched'
    BY <1>1, <1>4 DEF Threads
  <2> QED
    BY <1>1, <2>1, <2>2, <2>3 DEF Threads
<1>9. Flags'
  BY <1>1 DEF Flags
<1>10. Notifying'
  BY <1>1, <1>4 DEF Notifying, Places
<1>11. GetWaits'
  BY <1>1, <1>5, <1>6 DEF GetWaits
<1>12. Returned'
  BY <1>1, <1>5, <1>6 DEF Returned
<1>13. Closing'
  BY <1>1 DEF Closing
<1> QED
  BY <1>7, <1>8, <1>9, <1>10, <1>11, <1>12, <1>13

\* timed_get watches the flag.
LEMMA TimedLoopKeeps ==
    ASSUME Types, GetInv, NEW o \in Call, TimedLoop(o)
    PROVE  GetInv'
<1> USE GetFacts DEF GetInv
<1>1. /\ UNCHANGED <<calls, res, buf, bq, poll, plain, get_done, get_success, ret, sync, mtx, closed,
                     abandoned, misled>>
      /\ Queued' = Queued /\ Watched' = Watched
      /\ pc'[o] \in {"loop", "decide"} /\ \A c \in Call : c # o => pc'[c] = pc[c]
      /\ o \in calls /\ pc[o] = "loop" /\ Kind[o] = "timed" /\ ~closed
  BY DEF TimedLoop, At, Goes, Queued, Watched, history
<1>2. \A c : HasThread(c)' = HasThread(c) /\ Shared(c)' = Shared(c) /\ Decided(c)' = Decided(c)
             /\ Honest(c)' = Honest(c) /\ Settled(c)' = Settled(c)
  BY <1>1 DEF HasThread, Shared, Decided, Honest, Settled
<1>3. Places'
  BY <1>1 DEF Places
<1>4. Threads'
  BY <1>1 DEF Threads
<1>5. Flags'
  BY <1>1, <1>2 DEF Flags
<1>6. Notifying'
  BY <1>1, <1>2 DEF Notifying
<1>7. GetWaits'
  BY <1>1, <1>2 DEF GetWaits
<1>8. Returned'
  BY <1>1, <1>2 DEF Returned
<1>9. Closing'
  BY <1>1 DEF Closing
<1> QED
  BY <1>3, <1>4, <1>5, <1>6, <1>7, <1>8, <1>9

\* timed_get decides, as get_poll does.
LEMMA TimedDecideKeeps ==
    ASSUME Types, GetInv, NEW o \in Call, TimedDecide(o)
    PROVE  GetInv'
<1> USE GetFacts DEF GetInv
<1>1. /\ UNCHANGED <<calls, buf, bq, poll, plain, get_done, get_success, ret, sync, closed, misled>>
      /\ Queued' = Queued
      /\ pc'[o] = "ret" /\ res'[o] = IF get_done /\ get_success THEN 0 ELSE 1
      /\ \A c \in Call : c # o => pc'[c] = pc[c] /\ res'[c] = res[c]
      /\ abandoned' = IF get_done THEN abandoned ELSE abandoned \cup {o}
      /\ o \in calls /\ pc[o] = "decide" /\ Kind[o] = "timed" /\ ~closed
  BY DEF TimedDecide, At, Returns, Goes, Queued, pollVars
<1>2. mtx.get = o /\ mtx'.get = NoCall
  BY <1>1 DEF TimedDecide, Types, PollTypes, MtxType, Places
<1>3. o \in Watched /\ Watched' \subseteq Watched /\ o \notin Queued /\ poll.call # o
  BY <1>1, <1>2 DEF Watched, Places
<1>4. HasThread(o) => o \in abandoned' \cup misled
  BY <1>1, <1>3 DEF Flags
<1>5. \A c : /\ Shared(c)' = Shared(c) /\ HasThread(c)' = HasThread(c)
             /\ Decided(c) => Decided(c)'
             /\ Settled(c) => Settled(c)'
             /\ Honest(c)' = Honest(c)
  BY <1>1 DEF HasThread, Shared, Decided, Settled, Honest
<1>6. Places'
  BY <1>1, <1>2 DEF Places
<1>7. Threads'
  <2>1. abandoned' = {} => abandoned = {} /\ get_done
    BY <1>1
  <2> QED
    BY <1>1, <2>1 DEF Threads
<1>8. Flags'
  BY <1>1, <1>3, <1>5 DEF Flags
<1>9. Notifying'
  BY <1>1, <1>5 DEF Notifying
<1>10. GetWaits'
  BY <1>1, <1>5 DEF GetWaits
<1>11. Returned'
  <2>1. Settled(o)'
    BY <1>1, <1>3, <1>4, <1>5 DEF Settled, Decided
  <2>2. res'[o] = 0 => buf[o] = Dat[o] \/ o \in misled
    BY <1>1, <1>3 DEF Flags
  <2> QED
    BY <1>1, <1>5, <2>1, <2>2 DEF Returned
<1>12. Closing'
  BY <1>1 DEF Closing
<1> QED
  BY <1>6, <1>7, <1>8, <1>9, <1>10, <1>11, <1>12

\* Every step keeps what is known about the gets.
LEMMA GetStep ==
    ASSUME Types, GetInv, [Next]_vars
    PROVE  GetInv'
<1>1. ASSUME NEW o \in Call, CallStep(o) PROVE GetInv'
  BY <1>1, RegGetKeeps, RegWaitKeeps, RegResumeKeeps, TimedGetKeeps, TimedLoopKeeps,
     TimedDecideKeeps, AppStill, StillKeeps DEF CallStep, AppStep
<1>2. CASE Poll
  BY <1>2, PollMovesKeep, PollPopKeeps, PollDecideKeeps, PollNotifyKeeps DEF Poll
<1>3. ASSUME NEW p \in plain, PlainGet(p) \/ PlainDone(p) PROVE GetInv'
  BY <1>3, PlainGetKeeps, PlainDoneKeeps
<1>4. ASSUME NEW t \in Now, Lock(t) \/ DoTiming(t) PROVE GetInv'
  <2>1. Still
    BY <1>4 DEF Still, Lock, DoTiming, callVars, pollVars, history
  <2> QED
    BY <2>1, StillKeeps
<1>5. CASE Close
  <2>1. /\ UNCHANGED <<calls, pc, res, buf, bq, poll, plain, get_done, get_success, ret, sync, mtx,
                       abandoned, misled>>
        /\ \A o \in calls : pc[o] = "ret"
    BY <1>5 DEF Close, callVars, pollVars, history
  <2>2. Closing'
    BY <2>1 DEF Closing
  <2>3. (Places /\ Threads /\ Flags /\ Notifying)'
    BY <2>1 DEF GetInv, Places, Threads, Flags, Notifying, Queued, Watched, HasThread,
       Decided, Honest
  <2>4. (GetWaits /\ Returned)'
    BY <2>1 DEF GetInv, GetWaits, Returned, Shared, Settled, Queued, HasThread, Decided,
       Honest
  <2> QED
    BY <2>2, <2>3, <2>4 DEF GetInv
<1>6. CASE UNCHANGED vars
  <2>1. Still
    BY <1>6 DEF Still, vars, callVars, pollVars, history
  <2> QED
    BY <2>1, StillKeeps
<1> QED
  BY <1>1, <1>2, <1>3, <1>4, <1>5, <1>6 DEF Next

\* They are what the properties say of the gets.
LEMMA GetInvImplies ==
    ASSUME Types, GetInv
    PROVE  RequestOutlived /\ SuccessMeansData /\ LateOnlyIfAbandoned
<1> USE GetFacts DEF GetInv
<1>1. abandoned = {} => misled = {}
  BY DEF Threads
<1>2. RequestOutlived
  BY DEF RequestOutlived, Returned, Settled, Queued
<1>3. SuccessMeansData
  BY <1>1 DEF SuccessMeansData, Returned
<1>4. LateOnlyIfAbandoned
  <2>1. SUFFICES ASSUME NEW p \in plain, pc[p.call] = "ret" PROVE
          p.call \in abandoned \/ (p.call \in misled /\ abandoned # {}) \/ Shared(p.call)
    BY DEF LateOnlyIfAbandoned, Closing
  <2>2. HasThread(p.call)
    BY DEF HasThread
  <2> QED
    BY <1>1, <2>1, <2>2 DEF Returned, Settled, Decided
<1> QED
  BY <1>2, <1>3, <1>4

-----------------------------------------------------------------------------
(* The answers.                                                             *)

\* One call's step: the others, their requests and the answers to other data are
\* as they were.
Only(o) ==
    /\ calls' = calls
    /\ \A c \in Call \ {o} : pc'[c] = pc[c] /\ res'[c] = res[c] /\ ri'[c] = ri[c]
    /\ \A d \in Data \ {Dat[o]} : ds_id'[d] = ds_id[d]
    /\ mem' = "sound" => mem = "sound"

\* A call that shares no data keeps its answer in another call's step.
LEMMA OthersAnswered ==
    ASSUME Types, AppInv, NEW o \in calls, Only(o), AppPlaces',
           Kind[o] \in App /\ ~Shared(o) /\ mem' = "sound" => Answered(o)'
    PROVE  AppInv'
<1>1. ASSUME NEW c \in calls, Kind[c] \in App, ~Shared(c), mem' = "sound" PROVE Answered(c)'
  <2>1. CASE c = o
    BY <1>1, <2>1
  <2>2. CASE c # o
    <3>1. Dat[c] \in Data \ {Dat[o]} /\ c \in Call
      BY <1>1, <2>2, CallType DEF Shared
    <3>2. Answered(c)
      BY <1>1 DEF AppInv, Only
    <3> QED
      BY <2>2, <3>1, <3>2 DEF Only, Answered, Noted
  <2> QED
    BY <2>1, <2>2
<1>2. calls' = calls /\ \A c : Shared(c)' = Shared(c)
  BY DEF Only, Shared
<1> QED
  BY <1>1, <1>2 DEF AppInv

\* Every step of an application's call, and of the RIManager for it, keeps what is
\* known about its answer.
LEMMA AnswerStep ==
    ASSUME Types, AppInv, NEW o \in Call, AppStep(o)
    PROVE  AppInv'
<1> USE CallType DEF NoEntry, Damaged, MapUsed
<1>1. /\ pc \in PcType /\ res \in [Call -> {0, 1}] /\ ri \in RiType
      /\ ds_id \in [Data -> {-1, 0, 1, NoEntry}] /\ AppPlaces
      /\ Kind[o] \in App /\ ~Shared(o) /\ o \in calls /\ mem = "sound" => Answered(o)
  BY DEF Types, CallTypes, AppTypes, AppInv
<1>2. CASE BCSend(o)
  <2>1. o \in calls /\ Only(o)
    BY <1>1, <1>2 DEF Only, BCSend, At, Goes, Returns, appVars, PcType, RiType,
       AppPlaces
  <2>2. \A c : Shared(c)' = Shared(c)
    BY <2>1 DEF Only, Shared
  <2>3. AppPlaces'
    BY <1>1, <1>2, <2>1, <2>2 DEF Only, AppPlaces, BCSend, At, Goes, Returns, appVars,
       PcType, RiType
  <2>4. Kind[o] \in App /\ ~Shared(o) /\ mem' = "sound" => Answered(o)'
    BY <1>1, <1>2, <2>1 DEF BCSend, At, Goes, Returns, appVars, Answered, Noted, App,
       PcType, RiType, AppPlaces
  <2> QED
    BY <2>1, <2>3, <2>4, OthersAnswered
<1>3. CASE DsPut(o)
  <2>1. o \in calls /\ Only(o)
    BY <1>1, <1>3 DEF Only, DsPut, At, Goes, appVars, PcType, RiType, AppPlaces
  <2>2. \A c : Shared(c)' = Shared(c)
    BY <2>1 DEF Only, Shared
  <2>3. AppPlaces'
    BY <1>1, <1>3, <2>1, <2>2 DEF Only, AppPlaces, DsPut, At, Goes, appVars, PcType,
       RiType
  <2>4. Kind[o] \in App /\ ~Shared(o) /\ mem' = "sound" => Answered(o)'
    BY <1>1, <1>3, <2>1 DEF DsPut, At, Goes, appVars, Answered, Noted, App, PcType,
       RiType, AppPlaces
  <2> QED
    BY <2>1, <2>3, <2>4, OthersAnswered
<1>4. CASE DsPutSync(o)
  <2>1. o \in calls /\ Only(o)
    BY <1>1, <1>4 DEF Only, DsPutSync, Returns, At, Goes, PcType, RiType, AppPlaces
  <2>2. \A c : Shared(c)' = Shared(c)
    BY <2>1 DEF Only, Shared
  <2>3. AppPlaces'
    <3>1. wsync' = wsync /\ pc[o] = "sync"
      BY <1>4 DEF DsPutSync, At
    <3>2. ri'[o].pc # "none" => ri[o].pc # "none" \/ Kind[o] = "wput"
      BY <1>4 DEF DsPutSync
    <3> QED
      BY <1>1, <2>1, <2>2, <3>1, <3>2 DEF AppPlaces, Only, App
  <2>4. Kind[o] \in App /\ ~Shared(o) /\ mem' = "sound" => Answered(o)'
    BY <1>1, <1>4, <2>1 DEF DsPutSync, At, Goes, Returns, Answered, Noted, App, PcType, RiType,
       AppPlaces
  <2> QED
    BY <2>1, <2>3, <2>4, OthersAnswered
<1>5. CASE WGet(o)
  <2>1. o \in calls /\ Only(o)
    BY <1>1, <1>5 DEF Only, WGet, Returns, At, Goes, PcType, RiType, AppPlaces
  <2>2. \A c : Shared(c)' = Shared(c)
    BY <2>1 DEF Only, Shared
  <2>3. AppPlaces'
    <3>1. wsync' = wsync /\ pc[o] = "new" /\ Kind[o] = "wget"
      BY <1>5 DEF WGet, At
    <3> QED
      BY <1>1, <2>1, <2>2, <3>1 DEF AppPlaces, Only, App
  <2>4. Kind[o] \in App /\ ~Shared(o) /\ mem' = "sound" => Answered(o)'
    BY <1>1, <1>5, <2>1 DEF WGet, At, Goes, Returns, Answered, Noted, App, PcType, RiType,
       AppPlaces
  <2> QED
    BY <2>1, <2>3, <2>4, OthersAnswered
<1>6. CASE WWait(o)
  <2>1. o \in calls /\ Only(o)
    BY <1>1, <1>6 DEF Only, WWait, At, Goes, PcType, RiType, AppPlaces
  <2>2. \A c : Shared(c)' = Shared(c)
    BY <2>1 DEF Only, Shared
  <2>3. AppPlaces'
    <3>1. /\ wsync'.parked = wsync.parked \cup {<<Point(o), o>>} /\ wsync'.woken = wsync.woken
          /\ Kind[o] \in App /\ pc[o] = "asked" /\ ri' = ri
      BY <1>6 DEF WWait, At, AddWait
    <3>2. pc'[o] = "wait"
      BY <1>1, <1>6 DEF WWait, Goes, PcType
    <3> QED
      BY <1>1, <2>1, <2>2, <3>1, <3>2 DEF AppPlaces, Only
  <2>4. Kind[o] \in App /\ ~Shared(o) /\ mem' = "sound" => Answered(o)'
    BY <1>1, <1>6, <2>1 DEF WWait, At, Goes, Answered, Noted, App, PcType, RiType,
       AppPlaces
  <2> QED
    BY <2>1, <2>3, <2>4, OthersAnswered
<1>7. CASE WResume(o)
  <2>1. o \in calls /\ Only(o)
    BY <1>1, <1>7 DEF Only, WResume, At, Goes, PcType, RiType, AppPlaces
  <2>2. \A c : Shared(c)' = Shared(c)
    BY <2>1 DEF Only, Shared
  <2>3. AppPlaces'
    <3>1. /\ \A x \in wsync'.parked : x \in wsync.parked /\ x[1] # Point(o)
          /\ wsync'.woken = wsync.woken \ {o} /\ ri' = ri
      BY <1>7 DEF WResume, DelPoint
    <3> QED
      BY <1>1, <2>1, <2>2, <3>1 DEF AppPlaces, Only
  <2>4. Kind[o] \in App /\ ~Shared(o) /\ mem' = "sound" => Answered(o)'
    BY <1>1, <1>7, <2>1 DEF WResume, At, Goes, Answered, Noted, App, PcType, RiType,
       AppPlaces
  <2> QED
    BY <2>1, <2>3, <2>4, OthersAnswered
<1>8. CASE WLook(o)
  <2>1. o \in calls /\ Only(o)
    BY <1>1, <1>8 DEF Only, WLook, At, Goes, Returns, PcType, RiType, AppPlaces
  <2>2. \A c : Shared(c)' = Shared(c)
    BY <2>1 DEF Only, Shared
  <2>3. AppPlaces'
    BY <1>1, <1>8, <2>1, <2>2 DEF Only, AppPlaces, WLook, At, Goes, Returns, PcType,
       RiType
  <2>4. Kind[o] \in App /\ ~Shared(o) /\ mem' = "sound" => Answered(o)'
    BY <1>1, <1>8, <2>1 DEF WLook, At, Goes, Returns, Answered, Noted, App, PcType,
       RiType, AppPlaces
  <2> QED
    BY <2>1, <2>3, <2>4, OthersAnswered
<1>9. CASE WTry(o)
  <2>1. o \in calls /\ Only(o)
    BY <1>1, <1>9 DEF Only, WTry, At, Goes, Returns, appVars, PcType, RiType, AppPlaces
  <2>2. \A c : Shared(c)' = Shared(c)
    BY <2>1 DEF Only, Shared
  <2>3. AppPlaces'
    BY <1>1, <1>9, <2>1, <2>2 DEF Only, AppPlaces, WTry, At, Goes, Returns, appVars, PcType,
       RiType
  <2>4. Kind[o] \in App /\ ~Shared(o) /\ mem' = "sound" => Answered(o)'
    BY <1>1, <1>9, <2>1 DEF WTry, At, Goes, Returns, appVars, Answered, Noted, App, PcType,
       RiType, AppPlaces
  <2> QED
    BY <2>1, <2>3, <2>4, OthersAnswered
<1>12. CASE WDel(o)
  <2>1. o \in calls /\ Only(o)
    BY <1>1, <1>12 DEF Only, WDel, At, Goes, Returns, PcType, RiType, AppPlaces
  <2>2. \A c : Shared(c)' = Shared(c)
    BY <2>1 DEF Only, Shared
  <2>3. AppPlaces'
    BY <1>1, <1>12, <2>1, <2>2 DEF Only, AppPlaces, WDel, At, Goes, Returns, PcType,
       RiType
  <2>4. Kind[o] \in App /\ ~Shared(o) /\ mem' = "sound" => Answered(o)'
    BY <1>1, <1>12, <2>1 DEF Only, WDel, At, Goes, Returns, Answered, Noted, App, PcType,
       RiType, AppPlaces
  <2> QED
    BY <2>1, <2>3, <2>4, OthersAnswered
<1>10. CASE RiAnswer(o)
  <2>1. o \in calls /\ Only(o)
    BY <1>1, <1>10 DEF Only, RiAnswer, callVars, PcType, RiType, AppPlaces
  <2>2. \A c : Shared(c)' = Shared(c)
    BY <2>1 DEF Only, Shared
  <2>3. AppPlaces'
    BY <1>1, <1>10, <2>1, <2>2 DEF Only, AppPlaces, RiAnswer, callVars, PcType, RiType
  <2>4. Kind[o] \in App /\ ~Shared(o) /\ mem' = "sound" => Answered(o)'
    BY <1>1, <1>10, <2>1 DEF RiAnswer, callVars, Answered, Noted, App, PcType, RiType,
       AppPlaces
  <2> QED
    BY <2>1, <2>3, <2>4, OthersAnswered
<1>11. CASE RiNotify(o)
  <2>1. o \in calls /\ Only(o)
    BY <1>1, <1>11 DEF Only, RiNotify, callVars, PcType, RiType, AppPlaces
  <2>2. \A c : Shared(c)' = Shared(c)
    BY <2>1 DEF Only, Shared
  <2>3. AppPlaces'
    <3>1. /\ \A x \in wsync'.parked : x \in wsync.parked
          /\ \A t \in wsync'.woken : \/ t \in wsync.woken
                                     \/ \E x \in wsync.parked : x[1] = Point(o) /\ x[2] = t
      <4>1. wsync' \in Notify(wsync, Point(o))
        BY <1>11 DEF RiNotify
      <4> QED
        BY <4>1, NotifyEffect
    <3>2. ri[o].pc = "noted" /\ ri'[o].pc = "done" /\ pc' = pc
      BY <1>1, <1>11 DEF RiNotify, RiType, callVars
    <3>3. \A x \in wsync.parked : x[1] = Point(o) => Shared(x[2]) \/ x[2] = o
      BY <1>1, <2>1 DEF AppPlaces, Point, Shared
    <3> QED
      BY <1>1, <2>1, <2>2, <3>1, <3>2, <3>3 DEF AppPlaces, Only
  <2>4. Kind[o] \in App /\ ~Shared(o) /\ mem' = "sound" => Answered(o)'
    BY <1>1, <1>11, <2>1 DEF RiNotify, callVars, Answered, Noted, App, PcType, RiType,
       AppPlaces
  <2> QED
    BY <2>1, <2>3, <2>4, OthersAnswered
<1> QED
  BY <1>2, <1>3, <1>4, <1>5, <1>6, <1>7, <1>8, <1>9, <1>10, <1>11, <1>12 DEF AppStep

\* Every other step leaves the answers alone.
LEMMA OtherStep ==
    ASSUME Types, AppInv, UNCHANGED <<calls, wsync, ds_id, ri, mem>>,
           \A o \in calls : Kind[o] \in App => pc'[o] = pc[o] /\ res'[o] = res[o]
    PROVE  AppInv'
<1>1. \A c : Shared(c)' = Shared(c)
  BY DEF Shared
<1>2. AppPlaces'
  BY <1>1 DEF AppInv, AppPlaces
<1>3. \A o \in calls : Kind[o] \in App /\ Answered(o) => Answered(o)'
  BY DEF Answered, Noted
<1> QED
  BY <1>1, <1>2, <1>3 DEF AppInv

\* So every step keeps what is known about the answers.
LEMMA AppInvStep ==
    ASSUME Types, AppInv, [Next]_vars
    PROVE  AppInv'
<1>1. DOMAIN pc = Call /\ DOMAIN res = Call /\ calls \subseteq Call
  BY CallType DEF Types, CallTypes, PcType
<1>2. ASSUME NEW o \in Call, CallStep(o) PROVE AppInv'
  <2>1. CASE AppStep(o)
    BY <2>1, AnswerStep
  <2>2. CASE RegGet(o) \/ RegWait(o) \/ RegResume(o)
    BY <1>1, <2>2, OtherStep DEF RegGet, RegWait, RegResume, At, Goes, Returns, App,
       appVars
  <2>3. CASE TimedGet(o) \/ TimedLoop(o) \/ TimedDecide(o)
    BY <1>1, <2>3, OtherStep DEF TimedGet, TimedLoop, TimedDecide, At, Goes, Returns,
       App, appVars
  <2> QED
    BY <1>2, <2>1, <2>2, <2>3 DEF CallStep, AppStep
<1>3. CASE Poll
  <2>1. UNCHANGED <<calls, callVars, appVars, mem>>
    BY <1>3 DEF Poll, PollTest, PollSleep, PollPop, PollLoop, PollDecide, PollNotify,
       PollFrame
  <2> QED
    BY <2>1, OtherStep DEF callVars, appVars
<1>4. ASSUME NEW p \in plain, PlainGet(p) \/ PlainDone(p) PROVE AppInv'
  BY <1>4, OtherStep DEF PlainGet, PlainDone, callVars, appVars
<1>5. ASSUME NEW t \in Now, Lock(t) \/ DoTiming(t) PROVE AppInv'
  BY <1>5, OtherStep DEF Lock, DoTiming, callVars, appVars
<1>6. CASE Close
  BY <1>6, OtherStep DEF Close, callVars, appVars
<1>7. CASE UNCHANGED vars
  BY <1>7, OtherStep DEF vars, callVars, appVars
<1> QED
  BY <1>2, <1>3, <1>4, <1>5, <1>6, <1>7 DEF Next

\* Steps that leave the answers and the places of the applications' calls alone
\* keep what is known about the memory.
LEMMA MemoryStays ==
    ASSUME Memory, UNCHANGED <<calls, ds_id, mem>>,
           \A o \in calls : Kind[o] \in App => pc'[o] = pc[o] \/ pc'[o] \notin {"get", "del"}
    PROVE  Memory'
<1>1. \A o : Alike(o)' = Alike(o)
  BY DEF Alike
<1> QED
  BY <1>1 DEF Memory, MemoryKept, Kept

\* A step of an application's call: it leaves an answer to its own datum, or erases
\* the answer and is done with it; memory is damaged only as MemoryKept says.
LEMMA MemoryMoves ==
    ASSUME Types, Memory, NEW o \in calls, Kind[o] \in App, calls' = calls,
           \A c \in Call \ {o} : pc'[c] = pc[c],
           \A d \in Data \ {Dat[o]} : ds_id'[d] = ds_id[d],
           ds_id'[Dat[o]] # NoEntry \/ pc'[o] \notin {"get", "del"},
           mem' # "sound" => mem # "sound" \/ ~Kept(o) \/ Alike(o)
    PROVE  Memory'
<1>1. \A c : Alike(c)' = Alike(c)
  BY DEF Alike
<1>2. MemoryKept'
  BY <1>1 DEF Memory, MemoryKept
<1>3. ASSUME NEW c \in calls, Kind[c] \in App PROVE Kept(c)'
  <2>1. CASE c = o
    BY <2>1 DEF Kept
  <2>2. CASE c # o /\ Dat[c] = Dat[o]
    BY <1>1, <2>2 DEF Kept, Alike
  <2>3. CASE c # o /\ Dat[c] # Dat[o]
    BY <1>1, <1>3, <2>3, CallType DEF Memory, Kept
  <2> QED
    BY <2>1, <2>2, <2>3
<1> QED
  BY <1>2, <1>3 DEF Memory

\* So every step keeps what is known about the memory.
LEMMA MemoryStep ==
    ASSUME Types, AppInv, Memory, [Next]_vars
    PROVE  Memory'
<1> USE DEF NoEntry
<1>1. /\ DOMAIN pc = Call /\ calls \subseteq Call /\ AppPlaces
      /\ ds_id \in [Data -> {-1, 0, 1, NoEntry}] /\ \A o \in Call : Dat[o] \in Data
  BY CallType DEF Types, CallTypes, PcType, AppTypes, AppInv
<1>2. ASSUME NEW o \in Call, CallStep(o) PROVE Memory'
  <2>1. CASE RegGet(o) \/ RegWait(o) \/ RegResume(o)
    BY <1>1, <2>1, MemoryStays DEF RegGet, RegWait, RegResume, At, Goes, Returns, App, appVars
  <2>2. CASE TimedGet(o) \/ TimedLoop(o) \/ TimedDecide(o)
    BY <1>1, <2>2, MemoryStays DEF TimedGet, TimedLoop, TimedDecide, At, Goes, Returns,
       App, appVars
  <2>3. CASE DsPut(o) \/ WGet(o) \/ WWait(o) \/ WResume(o) \/ RiNotify(o)
    BY <1>1, <2>3, MemoryStays DEF DsPut, WGet, WWait, WResume, RiNotify, At, Goes, Returns,
       App, appVars, callVars
  <2>4. CASE BCSend(o) \/ DsPutSync(o)
    <3>1. CASE Overruns(o)
      <4>1. o \in calls /\ Kind[o] \notin App /\ UNCHANGED <<calls, ds_id>>
        BY <2>4, <3>1 DEF BCSend, DsPutSync, At, Overruns, App, appVars
      <4>2. \A c \in calls : Kind[c] \in App => pc'[c] = pc[c]
        BY <1>1, <2>4, <4>1 DEF BCSend, DsPutSync, Goes, Returns
      <4>3. \A c : Alike(c)' = Alike(c)
        BY <4>1 DEF Alike
      <4> QED
        BY <3>1, <4>1, <4>2, <4>3 DEF Memory, MemoryKept, Kept
    <3>2. CASE ~Overruns(o)
      BY <1>1, <2>4, <3>2, MemoryStays DEF BCSend, DsPutSync, At, Goes, Returns, App, appVars
    <3> QED
      BY <3>1, <3>2
  <2>5. CASE WTry(o)
    <3>1. o \in calls /\ Kind[o] \in App /\ pc[o] = "get" /\ UNCHANGED <<calls, ds_id, mem>>
      BY <2>5 DEF WTry, At, App, appVars
    <3>2. \A c \in Call \ {o} : pc'[c] = pc[c]
      BY <1>1, <2>5 DEF WTry, Goes, Returns
    <3>3. \A c : Alike(c)' = Alike(c)
      BY <3>1 DEF Alike
    <3>4. \A c \in calls : Kind[c] \in App => Kept(c)'
      BY <1>1, <3>1, <3>2, <3>3 DEF Memory, Kept
    <3> QED
      BY <3>1, <3>3, <3>4 DEF Memory, MemoryKept
  <2>6. CASE WLook(o)
    <3>1. o \in calls /\ Kind[o] \in App /\ calls' = calls
      BY <2>6 DEF WLook, At
    <3>2. PICK a \in IF mem = "sound" THEN {IF ds_id[Dat[o]] = NoEntry THEN 0 ELSE ds_id[Dat[o]]}
                                      ELSE {-1, 0, 1} :
             ds_id' = [ds_id EXCEPT ![Dat[o]] = a]
      BY <2>6 DEF WLook
    <3>3. a \in {-1, 0, 1}
      BY <1>1, <3>2
    <3>4. \A c \in Call \ {o} : pc'[c] = pc[c]
      BY <1>1, <2>6 DEF WLook, Goes
    <3>5. mem' # "sound" => mem # "sound"
      BY <2>6 DEF WLook, MapUsed
    <3> QED
      BY <1>1, <3>1, <3>2, <3>3, <3>4, <3>5, MemoryMoves
  <2>7. CASE WDel(o)
    <3>1. o \in calls /\ Kind[o] \in App /\ calls' = calls /\ pc[o] = "del"
      BY <2>7 DEF WDel, At
    <3>2. \A c \in Call \ {o} : pc'[c] = pc[c]
      BY <1>1, <2>7 DEF WDel, Goes, Returns
    <3>3. pc'[o] = "ret"
      BY <1>1, <2>7 DEF WDel, Goes, Returns
    <3>4. \A d \in Data \ {Dat[o]} : ds_id'[d] = ds_id[d]
      BY <1>1, <2>7 DEF WDel
    <3>5. mem' # "sound" => mem # "sound" \/ ~Kept(o) \/ Alike(o)
      BY <2>7, <3>1 DEF WDel, Kept
    <3> QED
      BY <3>1, <3>2, <3>3, <3>4, <3>5, MemoryMoves
  <2>8. CASE RiAnswer(o)
    <3>1. o \in calls /\ Kind[o] \in App /\ calls' = calls /\ pc' = pc
      BY <1>1, <2>8 DEF RiAnswer, AppPlaces, callVars
    <3>2. PICK a \in {-1, 1} : ds_id' = [ds_id EXCEPT ![Dat[o]] = a]
      BY <2>8 DEF RiAnswer
    <3>3. mem' # "sound" => mem # "sound"
      BY <2>8 DEF RiAnswer, MapUsed
    <3> QED
      BY <1>1, <3>1, <3>2, <3>3, MemoryMoves
  <2> QED
    BY <1>2, <2>1, <2>2, <2>3, <2>4, <2>5, <2>6, <2>7, <2>8 DEF CallStep
<1>3. CASE Poll
  <2>1. UNCHANGED <<calls, callVars, appVars, mem>>
    BY <1>3 DEF Poll, PollTest, PollSleep, PollPop, PollLoop, PollDecide, PollNotify,
       PollFrame
  <2> QED
    BY <2>1, MemoryStays DEF callVars, appVars
<1>4. ASSUME NEW p \in plain, PlainGet(p) \/ PlainDone(p) PROVE Memory'
  BY <1>4, MemoryStays DEF PlainGet, PlainDone, callVars, appVars
<1>5. ASSUME NEW t \in Now, Lock(t) \/ DoTiming(t) PROVE Memory'
  BY <1>5, MemoryStays DEF Lock, DoTiming, callVars, appVars
<1>6. CASE Close \/ UNCHANGED vars
  BY <1>6, MemoryStays DEF Close, vars, callVars, appVars
<1> QED
  BY <1>2, <1>3, <1>4, <1>5, <1>6 DEF Next

-----------------------------------------------------------------------------
(* Lengths and times.                                                       *)

\* Only its own steps move a registered get.
LEMMA LengthStep ==
    ASSUME Types, Lengths, [Next]_vars
    PROVE  Lengths'
<1>1. DOMAIN pc = Call /\ calls \subseteq Call
  BY CallType DEF Types, CallTypes, PcType
<1>2. ASSUME calls' = calls,
             \A c \in calls : Kind[c] = "reg" => pc'[c] = pc[c]
      PROVE  Lengths'
  BY <1>2 DEF Lengths
<1>3. ASSUME NEW o \in Call, CallStep(o) PROVE Lengths'
  <2>1. CASE RegGet(o)
    BY <1>1, <2>1 DEF Lengths, RegGet, At, Goes, Returns
  <2>2. CASE RegWait(o) \/ RegResume(o)
    BY <1>1, <2>2 DEF Lengths, RegWait, RegResume, At, Goes, Returns
  <2>3. CASE TimedGet(o) \/ TimedLoop(o) \/ TimedDecide(o)
    BY <1>1, <1>2, <2>3 DEF TimedGet, TimedLoop, TimedDecide, At, Goes, Returns
  <2>4. CASE AppStep(o)
    BY <1>2, <2>4, AppStill DEF Still
  <2> QED
    BY <1>3, <2>1, <2>2, <2>3, <2>4 DEF CallStep, AppStep
<1>4. CASE Poll
  <2>1. UNCHANGED <<calls, callVars>>
    BY <1>4 DEF Poll, PollTest, PollSleep, PollPop, PollLoop, PollDecide, PollNotify,
       PollFrame
  <2> QED
    BY <1>2, <2>1 DEF callVars
<1>5. ASSUME NEW p \in plain, PlainGet(p) \/ PlainDone(p) PROVE Lengths'
  BY <1>2, <1>5 DEF PlainGet, PlainDone, callVars
<1>6. ASSUME NEW t \in Now, Lock(t) \/ DoTiming(t) PROVE Lengths'
  BY <1>2, <1>6 DEF Lock, DoTiming, callVars
<1>7. CASE Close \/ UNCHANGED vars
  BY <1>2, <1>7 DEF Close, vars, callVars
<1> QED
  BY <1>3, <1>4, <1>5, <1>6, <1>7 DEF Next

\* A lock sets the clock and a measurement rewrites it; nothing else does.
LEMMA ClockStep ==
    ASSUME Clock, [Next]_vars
    PROVE  Clock'
<1>1. ASSUME NEW t \in Now, Lock(t) PROVE Clock'
  <2>1. t \in [s : Nat, u : 0 .. Usec - 1] /\ Usec \in Nat \ {0}
    BY DriverAssumption
  <2>2. clock' = [last |-> t, diff |-> Zero, at |-> t, locked |-> t]
    BY <1>1 DEF Lock, Clock
  <2>3. Total(t) \in Int /\ Total(Zero) = 0
    BY <2>1, Carry DEF Total, Zero
  <2> QED
    BY <2>1, <2>2, <2>3 DEF Clock, Zero
<1>2. ASSUME NEW t \in Now, DoTiming(t) PROVE Clock'
  <2> DEFINE d == timeval_subtract(t, clock.last)
  <2>1. t \in [s : Nat, u : 0 .. Usec - 1] /\ clock.last \in [s : Int, u : -Usec .. Usec - 1]
    BY DriverAssumption DEF Clock
  <2>2. /\ d.y \in [s : Int, u : -Usec .. Usec - 1]
        /\ d.r \in [s : Int, u : 0 .. Usec]
        /\ Total(d.y) = Total(clock.last)
        /\ Total(d.r) = Total(t) - Total(clock.last)
    BY <2>1, SubtractExact
  <2>3. clock' = [last |-> d.y, diff |-> d.r, at |-> t, locked |-> clock.locked]
    BY <1>2 DEF DoTiming, Clock
  <2>4. Usec \in Nat
    BY DriverAssumption
  <2> HIDE DEF d
  <2> QED
    BY <2>1, <2>2, <2>3, <2>4 DEF Clock
<1>3. CASE clock' = clock
  BY <1>3 DEF Clock
<1>4. ASSUME NEW o \in Call, CallStep(o) PROVE clock' = clock
  BY <1>4 DEF CallStep, RegGet, RegWait, RegResume, TimedGet, TimedLoop, TimedDecide,
     BCSend, DsPut, DsPutSync, WGet, WWait, WResume, WLook, WTry, WDel, RiAnswer, RiNotify
<1>5. Poll => clock' = clock
  BY DEF Poll, PollTest, PollSleep, PollPop, PollLoop, PollDecide, PollNotify, PollFrame
<1>6. ASSUME NEW p \in plain, PlainGet(p) \/ PlainDone(p) PROVE clock' = clock
  BY <1>6 DEF PlainGet, PlainDone
<1>7. Close \/ UNCHANGED vars => clock' = clock
  BY DEF Close, vars
<1> QED
  BY <1>1, <1>2, <1>3, <1>4, <1>5, <1>6, <1>7 DEF Next

-----------------------------------------------------------------------------
(* The theorems.                                                            *)

\* The invariant holds at the start.
LEMMA InitInv ==
    ASSUME Init
    PROVE  IInv
<1>1. Types
  <2>1. calls \in Config /\ calls \subseteq Call
    BY DriverAssumption DEF Init
  <2>2. CallTypes
    BY <2>1 DEF Init, CallTypes, PcType
  <2>3. bq \in Seq(calls) /\ poll \in PollType(calls) /\ mtx \in MtxType(calls)
    BY DEF Init, PollType, MtxType
  <2>4. PollTypes
    BY <2>3 DEF Init, PollTypes
  <2>5. AppTypes
    <3>1. space \subseteq Data
      BY <2>1 DEF Init, Data
    <3>2. ri \in RiType
      BY DEF Init, RiType
    <3> QED
      BY <3>1, <3>2, EmptyType DEF Init, AppTypes
  <2> QED
    BY <2>2, <2>4, <2>5 DEF Types
<1>2. GetInv
  <2>1. /\ bq = <<>> /\ poll.pc = "test" /\ poll.call = NoCall /\ plain = {} /\ mtx.get = NoCall
        /\ sync.parked = {} /\ sync.woken = {} /\ misled = {} /\ ~closed
        /\ \A o \in calls : pc[o] = "new"
    BY DriverAssumption DEF Init, EmptySyncer
  <2>2. Queued = {} /\ Watched = {} /\ Distinct(bq)
    BY <2>1 DEF Queued, Watched, Distinct
  <2>3. NoCall \notin calls
    BY <1>1, CallType
  <2> QED
    BY <2>1, <2>2, <2>3 DEF GetInv, Places, Threads, Flags, Notifying, GetWaits,
       Returned, Closing
<1>3. AppInv
  BY DriverAssumption DEF Init, AppInv, AppPlaces, Answered, EmptySyncer
<1>4. Memory
  BY DriverAssumption DEF Init, Memory, MemoryKept, Kept
<1>5. Lengths
  BY DriverAssumption DEF Init, Lengths
<1>6. Clock
  <2>1. Usec \in Nat \ {0} /\ Total(Zero) = 0
    BY DriverAssumption DEF Total, Zero
  <2> QED
    BY <2>1 DEF Init, Clock, Zero
<1> QED
  BY <1>1, <1>2, <1>3, <1>4, <1>5, <1>6 DEF IInv

\* Every step keeps it.
LEMMA StepInv ==
    ASSUME IInv, [Next]_vars
    PROVE  IInv'
BY TypeStep, GetStep, AppInvStep, MemoryStep, LengthStep, ClockStep DEF IInv

\* However gets, puts, messages, answers, time-outs and abandoned threads interleave,
\* a call that reports success has its data and its own answer, a request in
\* get_poll's hands has a caller that still waits, and only a thread that was given
\* up writes late, with the exceptions that the parts of GetsSound name.
THEOREM GetsHold == Spec => []GetsSound
<1>1. IInv => GetsSound
  <2>1. SUFFICES ASSUME IInv PROVE GetsSound
    OBVIOUS
  <2>2. TypeOK
    BY <2>1, TypesImplyTypeOK DEF IInv
  <2>3. RequestOutlived /\ SuccessMeansData /\ LateOnlyIfAbandoned
    BY <2>1, GetInvImplies DEF IInv
  <2>4. mem = "sound" => AcceptedMeansAnswered
    BY <2>1 DEF IInv, AppInv, Answered, AcceptedMeansAnswered
  <2>5. MemoryKept
    BY <2>1 DEF IInv, Memory
  <2> QED
    BY <2>2, <2>3, <2>4, <2>5 DEF GetsSound
<1> QED
  BY <1>1, InitInv, StepInv, PTL DEF Spec

\* get_data_length counts the cells of any box that an int can count, and
\* get_inter_lock_time is the time since the last lock, however often the
\* subtraction has rewritten last_lock_time.
THEOREM SizesHold == Spec => []SizesAndTimes
<1>1. IInv => SizesAndTimes
  <2>1. SUFFICES ASSUME IInv PROVE SizesAndTimes
    OBVIOUS
  <2>2. LengthExact
    BY <2>1, LengthCounts, CallType DEF IInv, Lengths, LengthExact
  <2>3. InterLockExact
    BY <2>1 DEF IInv, Clock, InterLockExact, Total
  <2> QED
    BY <2>2, <2>3 DEF SizesAndTimes
<1> QED
  BY <1>1, InitInv, StepInv, PTL DEF Spec
=============================================================================
