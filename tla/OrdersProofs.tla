---------------------------- MODULE OrdersProofs ----------------------------
(***************************************************************************)
(* Proofs about the two parts MCOrders runs: the master's orders when it   *)
(* prefetches (Orders), and how the sites come up and are asked (Startup). *)
(*                                                                         *)
(* OrdersInv is inductive.  That an order is given once is a matter of the *)
(* orders that stand, those that have passed the check of moving_data_id_v *)
(* or have an entry in it: two of one datum to one site passed the check   *)
(* together.  That it is given to a site that has the datum rests on the   *)
(* first site a query finds, which either holds the put or has a buffer    *)
(* that lists what the prefetch of an earlier order listed there.          *)
(*                                                                         *)
(* SitesInv and PutsInv are inductive.  A site that is past join has been  *)
(* answered by the join host first, so it has acked the master; a request  *)
(* finds the stages that come before the local server; and a put reaches   *)
(* the WASpace only after its registration or behind another request of    *)
(* its application.                                                        *)
(***************************************************************************)
EXTENDS Orders, Startup, SyncerProofs, WellFoundedInduction

-----------------------------------------------------------------------------
(* The orders.                                                              *)

OrderMsg == [type : {"SQUERY", "SQUERY_REPLY", "MOVE", "MOVE_REPLY", "DEL", "DEL_REPLY"},
             dst : Node, op : Order]
Xfer     == [from : Node, o : Order]
MSyncer  == SyncerType({"MOVE", "DEL"} \X Data, {"wm", "del"} \X Order)

\* The types of the variables the orders depend on.
SpaceTypes ==
    /\ sites \in Seq(Node) /\ IsInjective(sites) /\ placed \subseteq Data
    /\ cache \in [Node -> SUBSET Data] /\ have \in [Node -> SUBSET Data]
OrderTypes ==
    /\ ord \in [Order -> {"none", "checked", "entered", "given"}]
    /\ moving \subseteq Order /\ msync \in MSyncer
    /\ msgs \subseteq OrderMsg /\ xfer \subseteq Xfer

\* What was put is at its holder, which has joined; nothing else is anywhere.
PutsThere ==
    /\ \A d \in placed : Holder[d] \in ToSet(sites) /\ d \in have[Holder[d]]
    /\ \A n \in Node : have[n] \subseteq placed

\* Only what was put is moved.
MovesPlaced ==
    /\ \A m \in msgs : m.type = "MOVE" => Dat(m.op) \in placed
    /\ \A x \in xfer : Dat(x.o) \in placed

\* Only what was put is prefetched, and the buffer lists what an order was given for.
ListedPicked ==
    /\ \A x \in Prefetched : ord[x] # "none" => x[2] \in placed
    /\ \A n \in Node : \A d \in cache[n] : <<n, d>> \in Prefetched /\ ord[<<n, d>>] = "given"

\* A query is for a get.
QueryOfGet == \A m \in msgs : m.type = "SQUERY" => m.op \in Get

\* An order that has passed the check stands until its entry is taken out.
Stands(o) == ord[o] = "checked" \/ o \in moving

\* Two that stand for one datum and one site passed the check together.
RacedOnly ==
    \A o, p \in Order :
        Stands(o) /\ Stands(p) /\ o # p /\ To(o) = To(p) /\ Dat(o) = Dat(p) => Dat(o) \in raced

OrdersInv ==
    /\ SpaceTypes /\ OrderTypes /\ PutsThere /\ MovesPlaced /\ ListedPicked /\ QueryOfGet
    /\ OrderedFromHolder /\ RacedOnly

\* The site and the datum of an order.
LEMMA OrderParts ==
    /\ \A o \in Order : To(o) \in Node /\ Dat(o) \in Data
    /\ \A x \in Prefetched : /\ x \notin Get /\ x \in Order /\ x = <<x[1], x[2]>>
                             /\ x[1] \in Node /\ x[2] \in Data /\ To(x) = x[1] /\ Dat(x) = x[2]
    /\ \A g \in Get : g \in Order /\ g \notin Prefetched /\ At[g] \in Slave /\ Of[g] \in Data
    /\ Slave \subseteq Node /\ Master \in Node
<1>1. \A x \in Prefetched : x \in Node \X Data /\ x \notin Get
  BY OrdersAssumption
<1>2. \A x \in Prefetched : x = <<x[1], x[2]>> /\ x[1] \in Node /\ x[2] \in Data
  BY <1>1
<1> QED
  BY <1>1, <1>2, OrdersAssumption DEF Order, To, Dat, Node

\* A set of naturals that is not empty has a least member.
LEMMA LeastNatural ==
    ASSUME NEW I \in SUBSET Nat, I # {}
    PROVE  Min(I) \in I
<1>1. \E x \in I : \A y \in I : <<y, x>> \notin OpToRel(<, Nat)
  BY NatLessThanWellFounded, WFMin
<1>2. PICK x \in I : \A y \in I : <<y, x>> \notin {ss \in Nat \X Nat : ss[1] < ss[2]}
  BY <1>1, Zenon DEF OpToRel
<1>3. ASSUME NEW y \in I PROVE x <= y
  <2>1. y \in Nat /\ x \in Nat /\ <<y, x>> \in Nat \X Nat /\ <<y, x>>[1] = y /\ <<y, x>>[2] = x
    OBVIOUS
  <2>2. ~(y < x)
    BY <1>2, <2>1
  <2> QED
    BY <2>1, <2>2
<1> QED
  BY <1>2, <1>3 DEF Min

\* The site a query finds has joined and counts as having the datum.
LEMMA FromContains ==
    ASSUME SpaceTypes, PutsThere, NEW d \in placed
    PROVE  From(d) \in Node /\ contains(From(d), d)
<1> DEFINE I == {i \in 1 .. Len(sites) : contains(sites[i], d)}
<1>1. PICK i \in 1 .. Len(sites) : sites[i] = Holder[d]
  BY DEF PutsThere, ToSet, SpaceTypes
<1>2. i \in I
  BY <1>1 DEF contains
<1>3. Min(I) \in I
  <2>1. I \in SUBSET Nat /\ I # {}
    BY <1>2 DEF SpaceTypes
  <2> HIDE DEF I
  <2> QED
    BY <2>1, LeastNatural
<1>4. SelectInSeq(sites, LAMBDA n : contains(n, d)) = Min(I)
  BY <1>2 DEF SelectInSeq
<1>5. From(d) = sites[Min(I)]
  BY <1>4 DEF From
<1> QED
  BY <1>3, <1>5 DEF SpaceTypes

\* A list that names each member once still does when another one is appended.
LEMMA AppendNew ==
    ASSUME NEW T, NEW s \in Seq(T), NEW e \in T, IsInjective(s), e \notin ToSet(s)
    PROVE  Append(s, e) \in Seq(T) /\ IsInjective(Append(s, e)) /\ ToSet(s) \subseteq ToSet(Append(s, e))
<1>z. PICK z : z = Append(s, e)
  OBVIOUS
<1>1. /\ z \in Seq(T) /\ DOMAIN z = 1 .. Len(s) + 1 /\ z[Len(s) + 1] = e
      /\ \A i \in 1 .. Len(s) : z[i] = s[i]
  BY <1>z
<1>2. \A k \in 1 .. Len(s) : s[k] # e
  BY DEF ToSet
<1>3. \A i, j \in 1 .. Len(s) : s[i] = s[j] => i = j
  BY DEF IsInjective
<1>4. \A i, j \in 1 .. Len(s) + 1 : z[i] = z[j] => i = j
  BY <1>1, <1>2, <1>3
<1>5. IsInjective(z)
  BY <1>1, <1>4 DEF IsInjective
<1>6. ToSet(s) \subseteq ToSet(z)
  BY <1>1 DEF ToSet
<1> QED
  BY <1>1, <1>5, <1>6, <1>z

\* A message between the sites has the type, the site and the order it was made of.
LEMMA OrderMsgs ==
    ASSUME NEW n \in Node, NEW o \in Order
    PROVE  \A t \in {"SQUERY", "SQUERY_REPLY", "MOVE", "MOVE_REPLY", "DEL", "DEL_REPLY"} :
              M(t, n, o) \in OrderMsg /\ M(t, n, o).type = t /\ M(t, n, o).dst = n /\ M(t, n, o).op = o
BY DEF M, OrderMsg

\* What leaves the space and the orders alone keeps the invariant: threads that wait,
\* replies, entries that are taken out, moves that are handed on.
LEMMA OrdersStill ==
    ASSUME OrdersInv, UNCHANGED <<sites, placed, cache, have, ord, raced>>,
           moving' \subseteq moving, msync' \in MSyncer,
           \A m \in msgs' \ msgs : m \in OrderMsg /\ m.type # "MOVE" /\ (m.type = "SQUERY" => m.op \in Get),
           \A x \in xfer' \ xfer : x \in Xfer /\ Dat(x.o) \in placed
    PROVE  OrdersInv'
<1> USE DEF OrdersInv
<1>1. SpaceTypes' /\ PutsThere' /\ ListedPicked'
  BY DEF SpaceTypes, PutsThere, ListedPicked
<1>2. OrderTypes'
  BY DEF OrderTypes
<1>3. MovesPlaced' /\ QueryOfGet'
  BY DEF MovesPlaced, QueryOfGet
<1>4. OrderedFromHolder'
  BY DEF OrderedFromHolder
<1>5. RacedOnly'
  BY DEF RacedOnly, Stands
<1> QED
  BY <1>1, <1>2, <1>3, <1>4, <1>5

\* A site that joins is appended to ds_id_v: what the others have stays where it is.
LEMMA JoinOrder ==
    ASSUME OrdersInv, NEW n \in Slave, Join(n)
    PROVE  OrdersInv'
<1> USE DEF OrdersInv
<1>1. sites' = Append(sites, n) /\ n \in Node /\ n \notin ToSet(sites)
  BY OrderParts DEF Join
<1>2. UNCHANGED <<placed, cache, have, ord, moving, msync, msgs, xfer, raced>>
  BY DEF Join
<1>3. sites' \in Seq(Node) /\ IsInjective(sites') /\ ToSet(sites) \subseteq ToSet(sites')
  BY <1>1, AppendNew DEF SpaceTypes
<1>4. SpaceTypes' /\ PutsThere'
  BY <1>2, <1>3 DEF SpaceTypes, PutsThere
<1>5. OrderTypes' /\ MovesPlaced' /\ ListedPicked'
  BY <1>2 DEF OrderTypes, MovesPlaced, ListedPicked
<1>6. QueryOfGet' /\ OrderedFromHolder' /\ RacedOnly'
  BY <1>2 DEF QueryOfGet, OrderedFromHolder, RacedOnly, Stands
<1> QED
  BY <1>4, <1>5, <1>6

\* A put is at its holder, which has joined, when the WASpace lists it.
LEMMA PutOrder ==
    ASSUME OrdersInv, NEW d \in Data, Put(d)
    PROVE  OrdersInv'
<1> USE DEF OrdersInv
<1>1. /\ placed' = placed \cup {d} /\ have' = [have EXCEPT ![Holder[d]] = @ \cup {d}]
      /\ Holder[d] \in ToSet(sites) /\ Holder[d] \in Node
  BY OrdersAssumption DEF Put
<1>2. UNCHANGED <<sites, cache, ord, moving, msync, msgs, xfer, raced>>
  BY DEF Put
<1>3. \A n \in Node : have[n] \subseteq have'[n]
  BY <1>1 DEF SpaceTypes
<1>4. SpaceTypes'
  BY <1>1, <1>2 DEF SpaceTypes
<1>5. PutsThere'
  BY <1>1, <1>2, OrdersAssumption DEF SpaceTypes, PutsThere
<1>6. OrderTypes' /\ MovesPlaced' /\ ListedPicked'
  BY <1>1, <1>2 DEF OrderTypes, MovesPlaced, ListedPicked
<1>7. OrderedFromHolder'
  <2>1. \A m \in msgs : m.dst \in Node
    BY DEF OrderTypes, OrderMsg
  <2> QED
    BY <1>2, <1>3, <2>1 DEF OrderedFromHolder
<1>8. QueryOfGet' /\ RacedOnly'
  BY <1>2 DEF QueryOfGet, RacedOnly, Stands
<1> QED
  BY <1>4, <1>5, <1>6, <1>7, <1>8

\* The check of moving_data_id_v: what passes it stands alone, or passed it with
\* another.
LEMMA CheckOrder ==
    ASSUME OrdersInv, NEW o \in Order, Check(o),
           UNCHANGED <<sites, placed, cache, have, moving, msync, xfer>>,
           msgs' \subseteq msgs, o \in Get \/ (ord[o] = "none" /\ Dat(o) \in placed)
    PROVE  OrdersInv'
<1> USE DEF OrdersInv
<1>1. /\ ord' = [ord EXCEPT ![o] = IF IsMoving(To(o), Dat(o)) THEN "given" ELSE "checked"]
      /\ raced' = IF Checked(To(o), Dat(o)) THEN raced \cup {Dat(o)} ELSE raced
  BY DEF Check
<1>2. /\ \A p \in Order : p # o => ord'[p] = ord[p]
      /\ ord'[o] \in {"given", "checked"} /\ (ord'[o] = "checked" => ~IsMoving(To(o), Dat(o)))
  BY <1>1 DEF OrderTypes
<1>3. SpaceTypes' /\ PutsThere' /\ MovesPlaced' /\ QueryOfGet'
  BY DEF SpaceTypes, PutsThere, MovesPlaced, QueryOfGet
<1>4. OrderTypes'
  BY <1>1 DEF OrderTypes
<1>5. \A x \in Prefetched : ord[x] = "given" => ord'[x] = "given"
  BY <1>2, OrderParts
<1>6. ListedPicked'
  BY <1>2, <1>5, OrderParts DEF ListedPicked
<1>7. OrderedFromHolder'
  BY <1>5 DEF OrderedFromHolder
<1>8. RacedOnly'
  <2> SUFFICES ASSUME NEW a \in Order, NEW b \in Order, Stands(a)', Stands(b)', a # b,
                      To(a) = To(b), Dat(a) = Dat(b)
               PROVE  Dat(a) \in raced'
    BY DEF RacedOnly, To, Dat
  <2>1. \A p \in Order : p # o /\ Stands(p)' => Stands(p)
    BY <1>2 DEF Stands
  <2>2. raced \subseteq raced'
    BY <1>1
  <2>3. ASSUME NEW p \in Order, p # o, Stands(p), To(p) = To(o), Dat(p) = Dat(o), Stands(o)'
        PROVE  Dat(o) \in raced'
    <3>1. CASE Stands(o)
      BY <2>2, <2>3, <3>1 DEF RacedOnly
    <3>2. CASE ~Stands(o)
      <4>1. ord'[o] = "checked"
        BY <2>3, <3>2 DEF Stands
      <4>2. p \notin moving
        BY <1>2, <2>3, <4>1 DEF IsMoving
      <4>3. Checked(To(o), Dat(o))
        BY <2>3, <4>2 DEF Stands, Checked
      <4> QED
        BY <1>1, <4>3
    <3> QED
      BY <3>1, <3>2
  <2> QED
    BY <2>1, <2>2, <2>3 DEF RacedOnly
<1> QED
  BY <1>3, <1>4, <1>6, <1>7, <1>8

\* handle_sdm_squery makes the check for a get.
LEMMA SqueryOrder ==
    ASSUME OrdersInv, NEW m \in msgs, Squery(m)
    PROVE  OrdersInv'
<1> USE DEF OrdersInv
<1>1. m.op \in Get /\ m.op \in Order
  BY OrderParts DEF Squery, QueryOfGet
<1> QED
  BY <1>1, CheckOrder DEF Squery

\* handle_wa_space_data_act, PREFETCH, passes the same check, for a datum that was put.
LEMMA PrefetchOrder ==
    ASSUME OrdersInv, NEW x \in Prefetched, Prefetch(x)
    PROVE  OrdersInv'
<1> USE DEF OrdersInv
<1>1. x \in Order /\ ord[x] = "none" /\ Dat(x) \in placed
  BY OrderParts DEF Prefetch
<1> QED
  BY <1>1, CheckOrder DEF Prefetch

\* A step of an order's thread: the checked and the entered go on.
LEMMA OrdMoves ==
    ASSUME OrdersInv, NEW o \in Order, ord[o] \notin {"none", "given"}, NEW l \in {"entered", "given"},
           ord' = [ord EXCEPT ![o] = l], UNCHANGED <<sites, placed, cache, have, raced>>,
           \A p \in Order : Stands(p)' => Stands(p)
    PROVE  SpaceTypes' /\ PutsThere' /\ ListedPicked' /\ RacedOnly'
<1> USE DEF OrdersInv
<1>1. /\ \A p \in Order : p # o => ord'[p] = ord[p]
      /\ ord'[o] = l
  BY DEF OrderTypes
<1>2. SpaceTypes' /\ PutsThere'
  BY DEF SpaceTypes, PutsThere
<1>3. ListedPicked'
  BY <1>1, OrderParts DEF ListedPicked
<1>4. RacedOnly'
  BY DEF RacedOnly, To, Dat
<1> QED
  BY <1>2, <1>3, <1>4

\* Making the entry in moving_data_id_v leaves the order standing.
LEMMA EnterOrder ==
    ASSUME OrdersInv, NEW o \in Order, Enter(o)
    PROVE  OrdersInv'
<1> USE DEF OrdersInv
<1>1. /\ ord[o] = "checked" /\ moving' = moving \cup {o} /\ ord' = [ord EXCEPT ![o] = "entered"]
      /\ UNCHANGED <<sites, placed, cache, have, raced, msync, msgs, xfer>>
  BY DEF Enter
<1>2. \A p \in Order : Stands(p)' => Stands(p)
  BY <1>1 DEF Stands, OrderTypes
<1>3. SpaceTypes' /\ PutsThere' /\ ListedPicked' /\ RacedOnly'
  BY <1>1, <1>2, OrdMoves
<1>4. OrderTypes' /\ MovesPlaced' /\ QueryOfGet'
  BY <1>1 DEF OrderTypes, MovesPlaced, QueryOfGet
<1>5. OrderedFromHolder'
  BY <1>1, OrderParts DEF OrderedFromHolder, OrderTypes
<1> QED
  BY <1>3, <1>4, <1>5

\* The order is given to a site that has the datum or is to have it.
LEMMA GiveOrderOrder ==
    ASSUME OrdersInv, NEW o \in Order, GiveOrder(o)
    PROVE  OrdersInv'
<1> USE DEF OrdersInv
<1>1. /\ ord[o] = "entered" /\ ord' = [ord EXCEPT ![o] = "given"]
      /\ UNCHANGED <<sites, placed, cache, have, raced, msync, moving>>
  BY DEF GiveOrder
<1>2. \A p \in Order : Stands(p)' => Stands(p)
  BY <1>1 DEF Stands, OrderTypes
<1>3. SpaceTypes' /\ PutsThere' /\ ListedPicked' /\ RacedOnly'
  BY <1>1, <1>2, OrdMoves
<1>4. Dat(o) \in placed => From(Dat(o)) \in Node /\ contains(From(Dat(o)), Dat(o))
  BY FromContains
<1>5. /\ msgs \subseteq msgs'
      /\ \A m \in msgs' \ msgs : Dat(o) \in placed /\ m = M("MOVE", From(Dat(o)), o)
      /\ \A x \in xfer' \ xfer : Dat(o) \in placed /\ x = [from |-> Master, o |-> o]
  BY DEF GiveOrder
<1>6. \A m \in msgs' \ msgs : /\ m \in OrderMsg /\ m.type = "MOVE" /\ m.op = o
                               /\ contains(m.dst, Dat(m.op)) /\ m.dst \in Node /\ Dat(m.op) \in placed
  BY <1>4, <1>5, OrderMsgs
<1>7. \A x \in xfer' \ xfer : x \in Xfer /\ Dat(x.o) \in placed
  BY <1>5, OrderParts DEF Xfer
<1>8. OrderTypes'
  BY <1>1, <1>6, <1>7 DEF OrderTypes
<1>9. MovesPlaced' /\ QueryOfGet'
  BY <1>1, <1>6, <1>7 DEF MovesPlaced, QueryOfGet
<1>10. OrderedFromHolder'
  <2>1. \A x \in Prefetched : ord[x] = "given" => ord'[x] = "given"
    BY <1>1, OrderParts DEF OrderTypes
  <2>2. ASSUME NEW m \in msgs' \ msgs
        PROVE  \/ Dat(m.op) \in have[m.dst]
               \/ <<m.dst, Dat(m.op)>> \in Prefetched /\ ord[<<m.dst, Dat(m.op)>>] = "given"
    BY <1>6 DEF contains, PutsThere, ListedPicked
  <2> QED
    BY <1>1, <2>1, <2>2 DEF OrderedFromHolder
<1> QED
  BY <1>3, <1>8, <1>9, <1>10

\* The buffer lists a datum only when the order for it was given.
LEMMA CachePushOrder ==
    ASSUME OrdersInv, NEW x \in Prefetched, CachePush(x)
    PROVE  OrdersInv'
<1> USE DEF OrdersInv
<1>1. /\ ord[x] = "given" /\ UNCHANGED <<sites, placed, have, ord, moving, msync, msgs, xfer, raced>>
      /\ cache' = cache \/ cache' = [cache EXCEPT ![x[1]] = @ \cup {x[2]}]
  BY DEF CachePush
<1>2. SpaceTypes'
  BY <1>1, OrderParts DEF SpaceTypes
<1>3. ListedPicked'
  <2>1. ASSUME NEW n \in Node, NEW d \in cache'[n]
        PROVE  d \in cache[n] \/ x = <<n, d>>
    BY <1>1, OrderParts DEF SpaceTypes
  <2> QED
    BY <1>1, <2>1 DEF ListedPicked
<1>4. OrderTypes' /\ PutsThere' /\ MovesPlaced' /\ QueryOfGet'
  BY <1>1 DEF OrderTypes, PutsThere, MovesPlaced, QueryOfGet
<1>5. OrderedFromHolder' /\ RacedOnly'
  BY <1>1 DEF OrderedFromHolder, RacedOnly, Stands
<1> QED
  BY <1>2, <1>3, <1>4, <1>5

\* A move that ends stores a datum that was put, so have grows by no other.
LEMMA ArrivesOrder ==
    ASSUME OrdersInv, NEW x \in xfer, Arrives(x)
    PROVE  OrdersInv'
<1> USE DEF OrdersInv
<1>1. /\ UNCHANGED <<sites, placed, cache, ord, moving, msync, raced>> /\ xfer' \subseteq xfer
      /\ have' = [have EXCEPT ![To(x.o)] = @ \cup {Dat(x.o)}]
      /\ msgs' \subseteq msgs \cup {M("MOVE_REPLY", Master, x.o)}
  BY DEF Arrives
<1>2. x.o \in Order /\ To(x.o) \in Node /\ Dat(x.o) \in placed /\ Dat(x.o) \in Data
  BY OrderParts DEF OrderTypes, Xfer, MovesPlaced
<1>3. /\ M("MOVE_REPLY", Master, x.o) \in OrderMsg /\ M("MOVE_REPLY", Master, x.o).type = "MOVE_REPLY"
  BY <1>2, OrderMsgs, OrderParts
<1>4. SpaceTypes'
  BY <1>1, <1>2 DEF SpaceTypes
<1>5. PutsThere'
  BY <1>1, <1>2, OrdersAssumption DEF PutsThere, SpaceTypes
<1>6. OrderTypes' /\ MovesPlaced' /\ QueryOfGet'
  BY <1>1, <1>3 DEF OrderTypes, MovesPlaced, QueryOfGet
<1>7. ListedPicked' /\ RacedOnly'
  BY <1>1 DEF ListedPicked, RacedOnly, Stands
<1>8. OrderedFromHolder'
  <2>1. \A n \in Node : have[n] \subseteq have'[n]
    BY <1>1, <1>2 DEF SpaceTypes
  <2>2. \A m \in msgs : m.dst \in Node
    BY DEF OrderTypes, OrderMsg
  <2> QED
    BY <1>1, <1>3, <2>1, <2>2 DEF OrderedFromHolder
<1> QED
  BY <1>4, <1>5, <1>6, <1>7, <1>8

\* What the buffer drops is listed no more.
LEMMA Dropped ==
    ASSUME OrdersInv, NEW x \in Prefetched, UNCHANGED <<sites, placed, have, ord, moving, xfer, raced>>,
           cache' = cache \/ cache' = [cache EXCEPT ![x[1]] = @ \ {x[2]}], msync' \in MSyncer,
           \A m \in msgs' \ msgs : m \in OrderMsg /\ m.type = "DEL"
    PROVE  OrdersInv'
<1> USE DEF OrdersInv
<1>1. SpaceTypes' /\ \A n \in Node : cache'[n] \subseteq cache[n]
  BY OrderParts DEF SpaceTypes
<1>2. ListedPicked'
  BY <1>1 DEF ListedPicked
<1>3. OrderTypes' /\ PutsThere' /\ MovesPlaced' /\ QueryOfGet'
  BY DEF OrderTypes, PutsThere, MovesPlaced, QueryOfGet
<1>4. OrderedFromHolder' /\ RacedOnly'
  BY DEF OrderedFromHolder, RacedOnly, Stands
<1> QED
  BY <1>1, <1>2, <1>3, <1>4

\* Ordering a drop lists no more than before; at the master it is done at once.
LEMMA DelOrderOrder ==
    ASSUME OrdersInv, NEW x \in Prefetched, DelOrder(x)
    PROVE  OrdersInv'
<1> USE DEF OrdersInv
<1>1. M("DEL", x[1], x) \in OrderMsg /\ M("DEL", x[1], x).type = "DEL"
  BY OrderParts, OrderMsgs
<1>2. UNCHANGED <<sites, placed, have, ord, moving, xfer, raced, msync>>
  BY DEF DelOrder
<1>3. cache' = cache \/ cache' = [cache EXCEPT ![x[1]] = @ \ {x[2]}]
  BY DEF DelOrder
<1>4. \A m \in msgs' \ msgs : m = M("DEL", x[1], x)
  BY DEF DelOrder
<1> QED
  BY <1>1, <1>2, <1>3, <1>4, Dropped DEF OrderTypes

\* When a drop is done the buffer lists one datum less.
LEMMA DelDoneOrder ==
    ASSUME OrdersInv, NEW x \in Prefetched, DelDone(x)
    PROVE  OrdersInv'
<1> USE DEF OrdersInv
<1>1. msync' \in MSyncer
  BY DelPointType DEF DelDone, OrderTypes, MSyncer
<1> QED
  BY <1>1, Dropped DEF DelDone

\* The steps that order nothing and list nothing keep the invariant.
LEMMA OrdersOther ==
    ASSUME OrdersInv
    PROVE  /\ \A g \in Get : GetStart(g) \/ GetWait(g) \/ GetResume(g) => OrdersInv'
           /\ \A m \in msgs :
                 SqueryReply(m) \/ SlaveMove(m) \/ MoveReply(m) \/ SlaveDel(m) \/ DelReply(m) => OrdersInv'
           /\ \A o \in Order : WaitForMove(o) \/ MoveDone(o) => OrdersInv'
           /\ \A x \in Prefetched : DelWait(x) => OrdersInv'
           /\ \A x \in xfer : Fails(x) => OrdersInv'
<1>0. msync \in MSyncer /\ msgs \subseteq OrderMsg /\ xfer \subseteq Xfer
  BY DEF OrdersInv, OrderTypes
<1>1. ASSUME NEW g \in Get, GetStart(g) PROVE OrdersInv'
  <2>1. /\ M("SQUERY", Master, g) \in OrderMsg
        /\ M("SQUERY", Master, g).type = "SQUERY" /\ M("SQUERY", Master, g).op = g
    BY OrderMsgs, OrderParts
  <2>2. /\ UNCHANGED <<sites, placed, cache, have, ord, raced, moving, msync, xfer>>
        /\ msgs' \subseteq msgs \cup {M("SQUERY", Master, g)}
    BY <1>1 DEF GetStart
  <2> QED
    BY <1>0, <2>1, <2>2, OrdersStill
<1>2. ASSUME NEW g \in Get, GetWait(g) PROVE OrdersInv'
  BY <1>0, <1>2, OrdersStill DEF GetWait
<1>3. ASSUME NEW g \in Get, GetResume(g) PROVE OrdersInv'
  BY <1>0, <1>3, OrdersStill DEF GetResume
<1>4. ASSUME NEW m \in msgs, SqueryReply(m) PROVE OrdersInv'
  BY <1>0, <1>4, OrdersStill DEF SqueryReply
<1>5. ASSUME NEW m \in msgs, SlaveMove(m) PROVE OrdersInv'
  <2>1. /\ UNCHANGED <<sites, placed, cache, have, ord, raced, moving, msync>> /\ msgs' \subseteq msgs
        /\ xfer' = xfer \cup {[from |-> m.dst, o |-> m.op]} /\ m.type = "MOVE"
    BY <1>5 DEF SlaveMove
  <2>2. [from |-> m.dst, o |-> m.op] \in Xfer /\ Dat(m.op) \in placed
    BY <1>0, <2>1 DEF OrdersInv, MovesPlaced, OrderMsg, Xfer
  <2> QED
    BY <1>0, <2>1, <2>2, OrdersStill
<1>6. ASSUME NEW m \in msgs, MoveReply(m) PROVE OrdersInv'
  <2>1. msync' \in MSyncer
    BY <1>0, <1>6, NotifyType DEF MoveReply, MSyncer
  <2> QED
    BY <1>0, <1>6, <2>1, OrdersStill DEF MoveReply
<1>7. ASSUME NEW m \in msgs, SlaveDel(m) PROVE OrdersInv'
  <2>1. M("DEL_REPLY", Master, m.op) \in OrderMsg /\ M("DEL_REPLY", Master, m.op).type = "DEL_REPLY"
    BY <1>0, OrderMsgs, OrderParts DEF OrderMsg
  <2>2. /\ UNCHANGED <<sites, placed, cache, have, ord, raced, moving, msync, xfer>>
        /\ msgs' \subseteq msgs \cup {M("DEL_REPLY", Master, m.op)}
    BY <1>7 DEF SlaveDel
  <2> QED
    BY <1>0, <2>1, <2>2, OrdersStill
<1>8. ASSUME NEW m \in msgs, DelReply(m) PROVE OrdersInv'
  <2>1. msync' \in MSyncer
    BY <1>0, <1>8, NotifyType DEF DelReply, MSyncer
  <2> QED
    BY <1>0, <1>8, <2>1, OrdersStill DEF DelReply
<1>9. ASSUME NEW o \in Order, WaitForMove(o) PROVE OrdersInv'
  <2>1. <<"MOVE", Dat(o)>> \in {"MOVE", "DEL"} \X Data /\ <<"wm", o>> \in {"wm", "del"} \X Order
    BY OrderParts
  <2>2. msync' \in MSyncer
    BY <1>0, <1>9, <2>1, AddWaitType DEF WaitForMove, MSyncer
  <2> QED
    BY <1>0, <1>9, <2>2, OrdersStill DEF WaitForMove
<1>10. ASSUME NEW o \in Order, MoveDone(o) PROVE OrdersInv'
  <2>1. msync' \in MSyncer
    BY <1>0, <1>10, DelPointType DEF MoveDone, MSyncer
  <2>2. M("SQUERY_REPLY", To(o), o) \in OrderMsg /\ M("SQUERY_REPLY", To(o), o).type = "SQUERY_REPLY"
    BY OrderMsgs, OrderParts
  <2>3. /\ UNCHANGED <<sites, placed, cache, have, ord, raced, xfer>> /\ moving' \subseteq moving
        /\ msgs' \subseteq msgs \cup {M("SQUERY_REPLY", To(o), o)}
    BY <1>10 DEF MoveDone
  <2> QED
    BY <1>0, <2>1, <2>2, <2>3, OrdersStill
<1>11. ASSUME NEW x \in Prefetched, DelWait(x) PROVE OrdersInv'
  <2>1. <<"DEL", x[2]>> \in {"MOVE", "DEL"} \X Data /\ <<"del", x>> \in {"wm", "del"} \X Order
    BY OrderParts
  <2>2. msync' \in MSyncer
    BY <1>0, <1>11, <2>1, AddWaitType DEF DelWait, MSyncer
  <2> QED
    BY <1>0, <1>11, <2>2, OrdersStill DEF DelWait
<1>12. ASSUME NEW x \in xfer, Fails(x) PROVE OrdersInv'
  BY <1>0, <1>12, OrdersStill DEF Fails
<1> QED
  BY <1>1, <1>2, <1>3, <1>4, <1>5, <1>6, <1>7, <1>8, <1>9, <1>10, <1>11, <1>12

\* Nothing is put, listed or ordered at the start.
LEMMA OrdersInit == ASSUME Init PROVE OrdersInv
<1> USE DEF Init
<1>1. SpaceTypes
  <2>1. Master \in Node /\ <<Master>> \in Seq(Node) /\ IsInjective(<<Master>>)
    BY OrderParts DEF IsInjective
  <2> QED
    BY <2>1 DEF SpaceTypes
<1>2. OrderTypes
  BY EmptyType DEF OrderTypes, MSyncer
<1>3. PutsThere /\ MovesPlaced /\ ListedPicked
  BY OrderParts DEF PutsThere, MovesPlaced, ListedPicked
<1>4. QueryOfGet /\ OrderedFromHolder /\ RacedOnly
  BY DEF QueryOfGet, OrderedFromHolder, RacedOnly, Stands
<1> QED
  BY <1>1, <1>2, <1>3, <1>4 DEF OrdersInv

\* The invariant of the orders is inductive: one case per action.
LEMMA OrdersStep == ASSUME OrdersInv, [Next]_vars PROVE OrdersInv'
<1>1. ASSUME Work PROVE OrdersInv'
  <2>1. ASSUME NEW m \in msgs, Handle(m) PROVE OrdersInv'
    BY <2>1, OrdersOther, SqueryOrder DEF Handle
  <2>2. ASSUME NEW o \in Order, OrderStep(o) PROVE OrdersInv'
    BY <2>2, OrdersOther, EnterOrder, GiveOrderOrder DEF OrderStep
  <2>3. ASSUME NEW g \in Get, GetStep(g) PROVE OrdersInv'
    BY <2>3, OrdersOther DEF GetStep
  <2>4. ASSUME NEW x \in Prefetched, DelStep(x) PROVE OrdersInv'
    BY <2>4, OrdersOther, DelDoneOrder DEF DelStep
  <2>5. ASSUME NEW x \in xfer, Arrives(x) \/ Fails(x) PROVE OrdersInv'
    BY <2>5, OrdersOther, ArrivesOrder
  <2> QED
    BY <1>1, <2>1, <2>2, <2>3, <2>4, <2>5 DEF Work
<1>2. ASSUME NEW n \in Slave, Join(n) PROVE OrdersInv'
  BY <1>2, JoinOrder
<1>3. ASSUME NEW d \in Data, Put(d) PROVE OrdersInv'
  BY <1>3, PutOrder
<1>4. ASSUME NEW g \in Get, GetStart(g) PROVE OrdersInv'
  BY <1>4, OrdersOther
<1>5. ASSUME NEW x \in Prefetched, Prefetch(x) \/ CachePush(x) \/ DelOrder(x) PROVE OrdersInv'
  BY <1>5, PrefetchOrder, CachePushOrder, DelOrderOrder
<1>6. CASE UNCHANGED vars
  BY <1>6, OrdersStill DEF vars, OrdersInv, OrderTypes
<1> QED
  BY <1>1, <1>2, <1>3, <1>4, <1>5, <1>6 DEF Next

\* The invariant implies what is promised of the orders, OneOrder from RacedOnly.
LEMMA OrdersInvSound == ASSUME OrdersInv PROVE OrdersSound
<1> USE DEF OrdersInv
<1>1. ToSet(sites) \subseteq Node
  BY DEF SpaceTypes, ToSet
<1>2. \A n \in Node : cache[n] \subseteq placed
  <2>1. ASSUME NEW n \in Node, NEW d \in cache[n] PROVE d \in placed
    <3>1. <<n, d>> \in Prefetched /\ ord[<<n, d>>] # "none"
      BY DEF ListedPicked
    <3>2. <<n, d>>[2] \in placed
      BY <3>1 DEF ListedPicked
    <3> QED
      BY <3>2
  <2> QED
    BY <2>1
<1>3. \A x \in xfer : x.from \in Node /\ x.o \in Order
  BY DEF OrderTypes, Xfer
<1>4. TypeOK
  BY <1>1, <1>2, <1>3 DEF TypeOK, SpaceTypes, PutsThere, OrderTypes, MSyncer
<1>5. OneOrder
  BY DEF OneOrder, RacedOnly, Stands, OrderTypes
<1> QED
  BY <1>4, <1>5 DEF OrdersSound

\* However queries, prefetches, moves and drops interleave at the master, it orders a
\* move of a datum to a site once, unless two orders pass the check of
\* moving_data_id_v together, and orders it from a site that has the datum or is to have
\* it prefetched (SDMMaster::handle_sdm_squery, handle_wa_space_data_act, WASpace::query).
THEOREM OrdersHold == Spec => []OrdersSound
<1>1. Init => OrdersInv
  BY OrdersInit
<1>2. OrdersInv /\ [Next]_vars => OrdersInv'
  BY OrdersStep
<1>3. OrdersInv => OrdersSound
  BY OrdersInvSound
<1> QED
  BY <1>1, <1>2, <1>3, PTL DEF Spec

-----------------------------------------------------------------------------
(* Coming up: the sites.                                                    *)

\* The applications, and the messages of the overlay and of the space.
Apps == {r.app : r \in Request}
StartType == {"REQUEST", "REPLY", "ACK", "REG_APP", "REG_APP_REPLY", "PUT"}
StartMsg == [type : StartType, from : SSite, to : SSite, list : SUBSET SSite, req : SUBSET Request]

\* How a process can have ended, and where a request can be.
ProcStatus == {"up", "closed", "no maps", "pure virtual", "no sdm_slave_", "unknown ds", "no lsdm_node_",
               "no client"}
ReqPc == {"new", "sent", "reg", "wait", "put", "answered", "fail"}

\* The types of the variables, in three bundles.
CtorTypes ==
    /\ scenario \in Scenario
    /\ stage \in [SSite -> Nat]
    /\ \A n \in SSite : stage[n] <= Len(Stages(n))
    /\ status \in [SSite -> ProcStatus]
    /\ joined \subseteq SSite
MeshTypes ==
    /\ speers \in [SSite -> SUBSET SSite]
    /\ smsgs \subseteq StartMsg
ReqTypes ==
    /\ regs \in [SSite -> SUBSET Apps]
    /\ appsync \in [SSite -> SyncerType(Apps, Request)]
    /\ reqpc \in [Request -> ReqPc]
StartupTypeOK == CtorTypes /\ MeshTypes /\ ReqTypes

\* A slave's constructor goes on only after join has returned.
JoinedBeforeSlave == \A n \in SSite \ {MasterSite} : Passed(n, "slave") => n \in joined

\* A node that has not joined has asked the join host only.
HostFirst ==
    \A m \in smsgs :
        /\ m.type = "REQUEST" /\ m.from \notin joined => m.to = MasterSite
        /\ m.type = "REPLY" /\ m.to \notin joined => m.from = MasterSite

\* A node that has joined has acked the master: the ack is on its way or was handled.
JoinedKnown ==
    \A n \in joined \ {MasterSite} : n \in reg \cup early \/ SMsg("ACK", n, MasterSite) \in smsgs

\* Requests are made of processes whose local node is there.
LocalBeforeApps ==
    \A r \in Request : reqpc[r] # "new" => r \in scenario.requests /\ Passed(r.site, "local")

SitesInv ==
    /\ StartupTypeOK /\ JoinedBeforeSlave /\ HostFirst /\ JoinedKnown
    /\ LocalBeforeApps /\ SlaveBeforeApps

\* Another request of the same application at the same site.
Other(r) == \E q \in scenario.requests : q # r /\ q.app = r.app /\ q.site = r.site

\* What a message carries: requests of its sender, or of the one it answers.
Carried ==
    \A m \in smsgs : \A r \in m.req :
        /\ r \in scenario.requests /\ m.req = {r}
        /\ m.type \in {"REG_APP", "PUT"} => r.site = m.from
        /\ m.type = "REG_APP_REPLY" => Known(r.app)
        /\ m.type = "PUT" => Known(r.app) \/ Other(r)

\* An application is registered for a site at which it has a request.
RegisteredByRequest ==
    \A p \in appds : \E q \in scenario.requests : p[1] = q.app /\ p[2] = q.site

\* An application is in app_id_v of a site only if a request of it was handled there.
RegsByRequest ==
    \A n \in SSite : \A a \in regs[n] :
        \E q \in scenario.requests : q.app = a /\ q.site = n /\ reqpc[q] \notin {"new", "sent"}

\* Who waits in reg_app waits on the point of its application; who was released belongs
\* to one the master knows.
Waiting ==
    \A n \in SSite :
        /\ \A x \in appsync[n].parked : x[1] = x[2].app
        /\ \A r \in appsync[n].woken : Known(r.app)

\* A request that is past reg_app is of a known application, or not the only one.
PutOfKnown == \A r \in Request : reqpc[r] = "put" => Known(r.app) \/ Other(r)

PutsInv ==
    /\ Carried /\ RegisteredByRequest /\ RegsByRequest /\ Waiting /\ PutOfKnown
    /\ PutLocated /\ PutLostOnlyIf

-----------------------------------------------------------------------------
\* The stages of a site's constructors, in order.
LEMMA StagesOf ==
    ASSUME NEW n
    PROVE  /\ Len(Stages(n)) = IF n = MasterSite THEN 8 ELSE 7
           /\ Stages(n)[1] = "base" /\ Stages(n)[2] = "server"
           /\ Stages(n)[3] = "join" /\ Stages(n)[4] = "slave"
           /\ n = MasterSite => /\ Stages(n)[5] = "master" /\ Stages(n)[6] = "set"
                                /\ Stages(n)[7] = "local" /\ Stages(n)[8] = "ready"
           /\ n # MasterSite => /\ Stages(n)[5] = "set" /\ Stages(n)[6] = "local" /\ Stages(n)[7] = "ready"
BY DEF Stages, SlaveStages, MasterStages

\* sdm_slave_ is set before the local server listens, by a constructor that is past
\* join.
LEMMA StageOrder ==
    ASSUME CtorTypes, NEW n \in SSite
    PROVE  /\ Passed(n, "local") => Passed(n, "set")
           /\ Passed(n, "set") => Passed(n, "slave")
<1>1. CASE n = MasterSite
  BY <1>1, StagesOf DEF Passed, CtorTypes
<1>2. CASE n # MasterSite
  BY <1>2, StagesOf DEF Passed, CtorTypes
<1> QED
  BY <1>1, <1>2

\* The messages the handlers send are typed.
LEMMA MsgTyped ==
    ASSUME NEW a \in SSite, NEW b \in SSite
    PROVE  /\ SMsg("REQUEST", a, b) \in StartMsg
           /\ SMsg("ACK", a, b) \in StartMsg
           /\ \A S \in SUBSET SSite : [SMsg("REPLY", a, b) EXCEPT !.list = S] \in StartMsg
           /\ \A r \in Request : [SMsg("REG_APP", a, b) EXCEPT !.req = {r}] \in StartMsg
           /\ \A R \in SUBSET Request : [SMsg("REG_APP_REPLY", a, b) EXCEPT !.req = R] \in StartMsg
           /\ \A r \in Request : [SMsg("PUT", a, b) EXCEPT !.req = {r}] \in StartMsg
BY DEF SMsg, StartMsg, StartType

\* The parts of a message.
LEMMA MsgParts ==
    ASSUME NEW m \in StartMsg
    PROVE  m.from \in SSite /\ m.to \in SSite /\ m.list \subseteq SSite /\ m.req \subseteq Request
BY DEF StartMsg

\* The initial states are typed.
LEMMA StartTyped == ASSUME StartupInit PROVE StartupTypeOK
<1>1. CtorTypes
  BY StagesOf DEF StartupInit, StartupStart, CtorTypes, ProcStatus
<1>2. MeshTypes
  BY DEF StartupInit, StartupStart, MeshTypes
<1>3. ReqTypes
  BY EmptyType DEF StartupInit, StartupStart, ReqTypes, ReqPc
<1> QED
  BY <1>1, <1>2, <1>3 DEF StartupTypeOK


\* Every step keeps the types.
LEMMA TypesKept == ASSUME StartupTypeOK, [StartupNext]_svars PROVE StartupTypeOK'
<1> USE StartAssumption DEF StartupTypeOK
<1>1. ASSUME NEW n \in SSite, Launch(n) PROVE StartupTypeOK'
  <2>1. CtorTypes'
    <3>1. \A k \in SSite : Len(Stages(k)) \in Nat /\ Len(Stages(k)) >= 7
      BY StagesOf
    <3>2. stage' = [stage EXCEPT ![n] = 1] /\ UNCHANGED <<scenario, status, joined>>
      BY <1>1 DEF Launch
    <3> QED
      BY <3>1, <3>2 DEF CtorTypes
  <2>2. MeshTypes'
    BY <1>1, MsgTyped DEF MeshTypes, Launch, meshVars
  <2>3. ReqTypes'
    BY <1>1 DEF ReqTypes, ReqPc, Launch, reqVars
  <2> QED
    BY <2>1, <2>2, <2>3
<1>2. ASSUME NEW n \in SSite, Construct(n) PROVE StartupTypeOK'
  <2>1. CtorTypes'
    <3>1. \A k \in SSite : Len(Stages(k)) \in Nat /\ Len(Stages(k)) >= 7
      BY StagesOf
    <3>2. /\ stage' = [stage EXCEPT ![n] = @ + 1] /\ UNCHANGED <<scenario, status, joined>>
          /\ stage[n] \in 1 .. Len(Stages(n)) - 1
      BY <1>2 DEF Construct
    <3> QED
      BY <3>1, <3>2 DEF CtorTypes
  <2>2. MeshTypes'
    BY <1>2, MsgTyped DEF MeshTypes, Construct, meshVars
  <2>3. ReqTypes'
    BY <1>2 DEF ReqTypes, ReqPc, Construct, reqVars
  <2> QED
    BY <2>1, <2>2, <2>3
<1>3. ASSUME NEW n \in SSite, RIClose(n) PROVE StartupTypeOK'
  <2>1. CtorTypes'
    BY <1>3 DEF CtorTypes, ProcStatus, RIClose
  <2>2. MeshTypes'
    BY <1>3, MsgTyped DEF MeshTypes, RIClose, meshVars
  <2>3. ReqTypes'
    BY <1>3 DEF ReqTypes, ReqPc, RIClose, reqVars
  <2> QED
    BY <2>1, <2>2, <2>3
<1>4. ASSUME NEW n \in SSite, JoinRequest(n) PROVE StartupTypeOK'
  <2>1. CtorTypes'
    BY <1>4 DEF CtorTypes, ProcStatus, JoinRequest
  <2>2. MeshTypes'
    BY <1>4, MsgTyped DEF MeshTypes, JoinRequest
  <2>3. ReqTypes'
    BY <1>4 DEF ReqTypes, ReqPc, JoinRequest, reqVars
  <2> QED
    BY <2>1, <2>2, <2>3
<1>5. ASSUME NEW r \in Request, AppRequest(r) PROVE StartupTypeOK'
  <2>1. CtorTypes'
    BY <1>5 DEF CtorTypes, ProcStatus, AppRequest, ctorVars
  <2>2. MeshTypes'
    BY <1>5, MsgTyped DEF MeshTypes, AppRequest, meshVars
  <2>3. ReqTypes'
    BY <1>5 DEF ReqTypes, ReqPc, Req, AppRequest
  <2> QED
    BY <2>1, <2>2, <2>3
<1>6. ASSUME NEW r \in Request, HandleAppMsg(r) PROVE StartupTypeOK'
  <2>1. CtorTypes'
    BY <1>6 DEF CtorTypes, ProcStatus, Ends, HandleAppMsg
  <2>2. MeshTypes'
    <3>1. [SMsg("REG_APP", r.site, MasterSite) EXCEPT !.req = {r}] \in StartMsg
      BY MsgTyped
    <3>2. /\ speers' = speers
          /\ smsgs' \subseteq smsgs \cup {[SMsg("REG_APP", r.site, MasterSite) EXCEPT !.req = {r}]}
      BY <1>6 DEF HandleAppMsg, MasterRegApp, SlaveRegApp
    <3> QED
      BY <3>1, <3>2 DEF MeshTypes
  <2>3. ReqTypes'
    <3>1. appsync' = appsync /\ (regs' = regs \/ regs' = [regs EXCEPT ![r.site] = @ \cup {r.app}])
      BY <1>6 DEF HandleAppMsg, MasterRegApp, SlaveRegApp
    <3>2. \E l \in ReqPc : reqpc' = [reqpc EXCEPT ![r] = l]
      BY <1>6 DEF HandleAppMsg, MasterRegApp, SlaveRegApp, Req, ReqPc
    <3>3. r.app \in Apps /\ r.site \in SSite
      BY DEF Apps
    <3> QED
      BY <3>1, <3>2, <3>3 DEF ReqTypes
  <2> QED
    BY <2>1, <2>2, <2>3
<1>7. ASSUME NEW r \in Request, RegAppWait(r) PROVE StartupTypeOK'
  <2>1. CtorTypes'
    BY <1>7 DEF CtorTypes, ProcStatus, RegAppWait, ctorVars
  <2>2. MeshTypes'
    BY <1>7, MsgTyped DEF MeshTypes, RegAppWait, meshVars
  <2>3. ReqTypes'
    BY <1>7, AddWaitType DEF ReqTypes, Apps, ReqPc, Req, RegAppWait
  <2> QED
    BY <2>1, <2>2, <2>3
<1>8. ASSUME NEW r \in Request, RegAppResume(r) PROVE StartupTypeOK'
  <2>1. CtorTypes'
    BY <1>8 DEF CtorTypes, ProcStatus, RegAppResume, ctorVars
  <2>2. MeshTypes'
    BY <1>8, MsgTyped DEF MeshTypes, RegAppResume, meshVars
  <2>3. ReqTypes'
    BY <1>8, DelPointType DEF ReqTypes, ReqPc, Req, RegAppResume
  <2> QED
    BY <2>1, <2>2, <2>3
<1>9. ASSUME NEW r \in Request, HandlePut(r) PROVE StartupTypeOK'
  <2>1. CtorTypes'
    BY <1>9 DEF CtorTypes, ProcStatus, HandlePut
  <2>2. MeshTypes'
    <3>1. [SMsg("PUT", r.site, MasterSite) EXCEPT !.req = {r}] \in StartMsg
      BY MsgTyped
    <3>2. /\ speers' = speers
          /\ smsgs' \subseteq smsgs \cup {[SMsg("PUT", r.site, MasterSite) EXCEPT !.req = {r}]}
      BY <1>9 DEF HandlePut
    <3> QED
      BY <3>1, <3>2 DEF MeshTypes
  <2>3. ReqTypes'
    BY <1>9 DEF ReqTypes, ReqPc, Req, HandlePut
  <2> QED
    BY <2>1, <2>2, <2>3
<1>10. ASSUME NEW m \in smsgs, HandleJoinReq(m) PROVE StartupTypeOK'
  <2>1. CtorTypes'
    BY <1>10 DEF CtorTypes, ProcStatus, Ends, HandleJoinReq
  <2>2. MeshTypes'
    <3>1. m \in StartMsg /\ m.from \in SSite /\ m.to \in SSite
      BY MsgParts DEF MeshTypes
    <3>2. [SMsg("REPLY", m.to, m.from) EXCEPT !.list = speers[m.to]] \in StartMsg
      BY <3>1, MsgTyped DEF MeshTypes
    <3>3. /\ speers' = speers \/ speers' = [speers EXCEPT ![m.to] = @ \cup {m.from}]
          /\ smsgs' \subseteq smsgs \cup {[SMsg("REPLY", m.to, m.from) EXCEPT !.list = speers[m.to]]}
      BY <1>10 DEF HandleJoinReq
    <3> QED
      BY <3>1, <3>2, <3>3 DEF MeshTypes
  <2>3. ReqTypes'
    BY <1>10 DEF ReqTypes, ReqPc, HandleJoinReq, reqVars
  <2> QED
    BY <2>1, <2>2, <2>3
<1>11. ASSUME NEW m \in smsgs, HandleJoinReply(m) PROVE StartupTypeOK'
  <2>1. CtorTypes'
    BY <1>11, MsgParts DEF CtorTypes, MeshTypes, ProcStatus, HandleJoinReply
  <2>2. MeshTypes'
    BY <1>11, MsgTyped, MsgParts DEF MeshTypes, HandleJoinReply
  <2>3. ReqTypes'
    BY <1>11 DEF ReqTypes, ReqPc, HandleJoinReply, reqVars
  <2> QED
    BY <2>1, <2>2, <2>3
<1>12. ASSUME NEW m \in smsgs, HandleConnUp(m) PROVE StartupTypeOK'
  <2>1. CtorTypes'
    BY <1>12 DEF CtorTypes, ProcStatus, Ends, HandleConnUp
  <2>2. MeshTypes'
    BY <1>12, MsgTyped DEF MeshTypes, HandleConnUp
  <2>3. ReqTypes'
    BY <1>12 DEF ReqTypes, ReqPc, HandleConnUp, reqVars
  <2> QED
    BY <2>1, <2>2, <2>3
<1>13. ASSUME NEW m \in smsgs, HandleTooEarly(m) PROVE StartupTypeOK'
  <2>1. CtorTypes'
    BY <1>13 DEF CtorTypes, ProcStatus, Ends, HandleTooEarly
  <2>2. MeshTypes'
    BY <1>13, MsgTyped DEF MeshTypes, HandleTooEarly
  <2>3. ReqTypes'
    BY <1>13 DEF ReqTypes, ReqPc, HandleTooEarly, reqVars
  <2> QED
    BY <2>1, <2>2, <2>3
<1>14. ASSUME NEW m \in smsgs, HandleRegApp(m) PROVE StartupTypeOK'
  <2>1. CtorTypes'
    BY <1>14 DEF CtorTypes, ProcStatus, Ends, HandleRegApp
  <2>2. MeshTypes'
    <3>1. m \in StartMsg /\ m.from \in SSite /\ m.to \in SSite /\ m.req \in SUBSET Request
      BY MsgParts DEF MeshTypes
    <3>2. [SMsg("REG_APP_REPLY", m.to, m.from) EXCEPT !.req = m.req] \in StartMsg
      BY <3>1, MsgTyped
    <3>3. /\ speers' = speers
          /\ smsgs' \subseteq smsgs \cup {[SMsg("REG_APP_REPLY", m.to, m.from) EXCEPT !.req = m.req]}
      BY <1>14 DEF HandleRegApp
    <3> QED
      BY <3>1, <3>2, <3>3 DEF MeshTypes
  <2>3. ReqTypes'
    BY <1>14 DEF ReqTypes, ReqPc, HandleRegApp, reqVars
  <2> QED
    BY <2>1, <2>2, <2>3
<1>15. ASSUME NEW m \in smsgs, HandleRegAppReply(m) PROVE StartupTypeOK'
  <2>1. CtorTypes'
    BY <1>15 DEF CtorTypes, ProcStatus, HandleRegAppReply, ctorVars
  <2>2. MeshTypes'
    BY <1>15, MsgTyped, MsgParts DEF MeshTypes, HandleRegAppReply
  <2>3. ReqTypes'
    BY <1>15, NotifyType, MsgParts DEF MeshTypes, ReqTypes, ReqPc, HandleRegAppReply
  <2> QED
    BY <2>1, <2>2, <2>3
<1>16. ASSUME NEW m \in smsgs, HandlePutNotification(m) PROVE StartupTypeOK'
  <2>1. CtorTypes'
    BY <1>16 DEF CtorTypes, ProcStatus, Ends, HandlePutNotification
  <2>2. MeshTypes'
    BY <1>16, MsgTyped DEF MeshTypes, HandlePutNotification
  <2>3. ReqTypes'
    BY <1>16 DEF ReqTypes, ReqPc, HandlePutNotification, reqVars
  <2> QED
    BY <2>1, <2>2, <2>3
<1>17. CASE UNCHANGED svars
  BY <1>17 DEF StartupTypeOK, CtorTypes, MeshTypes, ReqTypes, svars, ctorVars, meshVars,
     wasVars, reqVars
<1> QED
  BY <1>1, <1>2, <1>3, <1>4, <1>5, <1>6, <1>7, <1>8, <1>9, <1>10, <1>11, <1>12, <1>13,
     <1>14, <1>15, <1>16, <1>17 DEF StartupNext, StartupStep

\* A step advances one constructor, or none.
LEMMA StageStep ==
    ASSUME StartupTypeOK, StartupNext
    PROVE  \/ stage' = stage
           \/ \E n \in SSite : /\ stage' = [stage EXCEPT ![n] = @ + 1]
                               /\ Stages(n)[stage[n] + 1] = "slave" => JoinReturns(n)
<1>1. ASSUME NEW n \in SSite, Launch(n)
      PROVE  stage' = [stage EXCEPT ![n] = @ + 1] /\ Stages(n)[stage[n] + 1] # "slave"
  BY <1>1, StagesOf DEF Launch, StartupTypeOK, CtorTypes
<1>2. ASSUME NEW n \in SSite, Construct(n)
      PROVE  stage' = [stage EXCEPT ![n] = @ + 1] /\ (Stages(n)[stage[n] + 1] = "slave" => JoinReturns(n))
  BY <1>2 DEF Construct
<1>3. ASSUME NEW n \in SSite, RIClose(n) PROVE stage' = stage
  BY <1>3 DEF RIClose
<1>4. ASSUME NEW n \in SSite, JoinRequest(n) PROVE stage' = stage
  BY <1>4 DEF JoinRequest
<1>5. ASSUME NEW r \in Request, AppRequest(r) PROVE stage' = stage
  BY <1>5 DEF AppRequest, ctorVars
<1>6. ASSUME NEW r \in Request, HandleAppMsg(r) PROVE stage' = stage
  BY <1>6 DEF HandleAppMsg
<1>7. ASSUME NEW r \in Request, RegAppWait(r) PROVE stage' = stage
  BY <1>7 DEF RegAppWait, ctorVars
<1>8. ASSUME NEW r \in Request, RegAppResume(r) PROVE stage' = stage
  BY <1>8 DEF RegAppResume, ctorVars
<1>9. ASSUME NEW r \in Request, HandlePut(r) PROVE stage' = stage
  BY <1>9 DEF HandlePut
<1>10. ASSUME NEW m \in smsgs, HandleJoinReq(m) PROVE stage' = stage
  BY <1>10 DEF HandleJoinReq
<1>11. ASSUME NEW m \in smsgs, HandleJoinReply(m) PROVE stage' = stage
  BY <1>11 DEF HandleJoinReply
<1>12. ASSUME NEW m \in smsgs, HandleConnUp(m) PROVE stage' = stage
  BY <1>12 DEF HandleConnUp
<1>13. ASSUME NEW m \in smsgs, HandleTooEarly(m) PROVE stage' = stage
  BY <1>13 DEF HandleTooEarly
<1>14. ASSUME NEW m \in smsgs, HandleRegApp(m) PROVE stage' = stage
  BY <1>14 DEF HandleRegApp
<1>15. ASSUME NEW m \in smsgs, HandleRegAppReply(m) PROVE stage' = stage
  BY <1>15 DEF HandleRegAppReply, ctorVars
<1>16. ASSUME NEW m \in smsgs, HandlePutNotification(m) PROVE stage' = stage
  BY <1>16 DEF HandlePutNotification
<1> QED
  BY <1>1, <1>2, <1>3, <1>4, <1>5, <1>6, <1>7, <1>8, <1>9, <1>10, <1>11, <1>12, <1>13,
     <1>14, <1>15, <1>16 DEF StartupNext, StartupStep

\* What a constructor has passed it has passed for good.
LEMMA PassedStays ==
    ASSUME StartupTypeOK, StartupNext, NEW n \in SSite, NEW s, Passed(n, s)
    PROVE  Passed(n, s)'
<1>1. stage[n] \in Nat /\ stage'[n] \in Nat /\ stage[n] <= stage'[n]
  <2>1. CASE stage' = stage
    BY <2>1 DEF StartupTypeOK, CtorTypes
  <2>2. CASE \E k \in SSite : stage' = [stage EXCEPT ![k] = @ + 1]
    BY <2>2 DEF StartupTypeOK, CtorTypes
  <2> QED
    BY <2>1, <2>2, StageStep, Zenon
<1>2. PICK i \in 1 .. stage[n] : Stages(n)[i] = s
  BY DEF Passed
<1>3. i \in 1 .. stage'[n]
  BY <1>1
<1> QED
  BY <1>2, <1>3 DEF Passed

\* A constructor enters SDMSlave's body only when join has returned.
LEMMA JoinedBeforeSlaveKept ==
    ASSUME StartupTypeOK, JoinedBeforeSlave, StartupNext, joined \subseteq joined'
    PROVE  JoinedBeforeSlave'
<1> SUFFICES ASSUME NEW n \in SSite \ {MasterSite}, Passed(n, "slave")', ~Passed(n, "slave")
             PROVE  n \in joined
  BY DEF JoinedBeforeSlave
<1>1. PICK i \in 1 .. stage'[n] : Stages(n)[i] = "slave"
  BY DEF Passed
<1>2. i \notin 1 .. stage[n]
  BY <1>1 DEF Passed
<1>3. PICK k \in SSite : /\ stage' = [stage EXCEPT ![k] = @ + 1]
                         /\ Stages(k)[stage[k] + 1] = "slave" => JoinReturns(k)
  <2>1. stage' # stage
    BY <1>1, <1>2
  <2> QED
    BY <2>1, StageStep, Zenon
<1>4. k = n /\ i = stage[n] + 1
  BY <1>1, <1>2, <1>3 DEF StartupTypeOK, CtorTypes
<1> QED
  BY <1>1, <1>3, <1>4 DEF JoinReturns

\* The parts of an ack.
LEMMA AckParts ==
    ASSUME NEW a, NEW b
    PROVE  SMsg("ACK", a, b).type = "ACK" /\ SMsg("ACK", a, b).from = a /\ SMsg("ACK", a, b).to = b
BY DEF SMsg

\* What takes no ack and forgets no registration keeps the nodes that have joined
\* known.
LEMMA AcksStay ==
    ASSUME JoinedKnown, joined' = joined, reg \subseteq reg', early \subseteq early',
           \A m \in smsgs : m.type = "ACK" => m \in smsgs'
    PROVE  JoinedKnown'
BY AckParts DEF JoinedKnown

\* The first reply a joiner handles is the join host's, which it acks.
LEMMA MeshKept ==
    ASSUME StartupTypeOK, HostFirst, JoinedKnown, StartupNext
    PROVE  HostFirst' /\ JoinedKnown' /\ joined \subseteq joined'
<1> USE StartAssumption DEF StartupTypeOK
<1>1. ASSUME NEW n \in SSite, Launch(n)
      PROVE  HostFirst' /\ JoinedKnown' /\ joined \subseteq joined'
  BY <1>1 DEF HostFirst, JoinedKnown, Launch, meshVars, wasVars
<1>2. ASSUME NEW n \in SSite, Construct(n)
      PROVE  HostFirst' /\ JoinedKnown' /\ joined \subseteq joined'
  BY <1>2 DEF HostFirst, JoinedKnown, Construct, RegDs, meshVars
<1>3. ASSUME NEW n \in SSite, RIClose(n)
      PROVE  HostFirst' /\ JoinedKnown' /\ joined \subseteq joined'
  BY <1>3 DEF HostFirst, JoinedKnown, RIClose, meshVars, wasVars
<1>4. ASSUME NEW n \in SSite, JoinRequest(n)
      PROVE  HostFirst' /\ JoinedKnown' /\ joined \subseteq joined'
  <2>1. joined \subseteq joined'
    BY <1>4 DEF JoinRequest
  <2>2. HostFirst'
    BY <1>4 DEF HostFirst, JoinRequest, SMsg
  <2>3. JoinedKnown'
    BY <1>4 DEF JoinedKnown, JoinRequest, SMsg, wasVars
  <2> QED
    BY <2>1, <2>2, <2>3
<1>5. ASSUME NEW r \in Request, AppRequest(r)
      PROVE  HostFirst' /\ JoinedKnown' /\ joined \subseteq joined'
  BY <1>5 DEF HostFirst, JoinedKnown, AppRequest, ctorVars, meshVars, wasVars
<1>6. ASSUME NEW r \in Request, HandleAppMsg(r)
      PROVE  HostFirst' /\ JoinedKnown' /\ joined \subseteq joined'
  <2>1. joined \subseteq joined'
    BY <1>6 DEF HandleAppMsg
  <2>2. /\ UNCHANGED <<joined, reg, early>> /\ smsgs \subseteq smsgs'
        /\ smsgs' \subseteq smsgs \cup {[SMsg("REG_APP", r.site, MasterSite) EXCEPT !.req = {r}]}
    BY <1>6 DEF HandleAppMsg, MasterRegApp, SlaveRegApp
  <2>3. HostFirst'
    BY <2>2 DEF HostFirst, SMsg
  <2>4. JoinedKnown'
    BY <2>2, AcksStay
  <2> QED
    BY <2>1, <2>3, <2>4
<1>7. ASSUME NEW r \in Request, RegAppWait(r)
      PROVE  HostFirst' /\ JoinedKnown' /\ joined \subseteq joined'
  BY <1>7 DEF HostFirst, JoinedKnown, RegAppWait, ctorVars, meshVars, wasVars
<1>8. ASSUME NEW r \in Request, RegAppResume(r)
      PROVE  HostFirst' /\ JoinedKnown' /\ joined \subseteq joined'
  BY <1>8 DEF HostFirst, JoinedKnown, RegAppResume, ctorVars, meshVars, wasVars
<1>9. ASSUME NEW r \in Request, HandlePut(r)
      PROVE  HostFirst' /\ JoinedKnown' /\ joined \subseteq joined'
  <2>1. joined \subseteq joined'
    BY <1>9 DEF HandlePut
  <2>2. HostFirst'
    BY <1>9 DEF HostFirst, HandlePut, SMsg
  <2>3. JoinedKnown'
    BY <1>9 DEF JoinedKnown, HandlePut, SMsg
  <2> QED
    BY <2>1, <2>2, <2>3
<1>10. ASSUME NEW m \in smsgs, HandleJoinReq(m)
      PROVE  HostFirst' /\ JoinedKnown' /\ joined \subseteq joined'
  <2>1. joined \subseteq joined'
    BY <1>10 DEF HandleJoinReq
  <2>2. HostFirst'
    BY <1>10 DEF HostFirst, HandleJoinReq, SMsg, Handles
  <2>3. JoinedKnown'
    <3>1. /\ UNCHANGED <<joined, reg>> /\ early \subseteq early'
          /\ m.type # "ACK" /\ smsgs \ {m} \subseteq smsgs'
      BY <1>10 DEF HandleJoinReq, Handles, wasVars
    <3> QED
      BY <3>1, AcksStay
  <2> QED
    BY <2>1, <2>2, <2>3
<1>11. ASSUME NEW m \in smsgs, HandleJoinReply(m)
      PROVE  HostFirst' /\ JoinedKnown' /\ joined \subseteq joined'
  <2>1. joined \subseteq joined'
    BY <1>11 DEF HandleJoinReply
  <2>2. HostFirst'
    BY <1>11 DEF HostFirst, HandleJoinReply, SMsg, Handles
  <2>3. JoinedKnown'
    <3>1. /\ joined' = joined \cup {m.to} /\ UNCHANGED <<reg, early>> /\ m.type = "REPLY"
          /\ smsgs \ {m} \subseteq smsgs' /\ SMsg("ACK", m.to, m.from) \in smsgs'
      BY <1>11 DEF HandleJoinReply, Handles, wasVars
    <3>2. ASSUME NEW k \in joined \ {MasterSite}
          PROVE  k \in reg' \cup early' \/ SMsg("ACK", k, MasterSite) \in smsgs'
      BY <3>1, AckParts DEF JoinedKnown
    <3>3. m.to \notin joined => m.from = MasterSite
      BY <3>1 DEF HostFirst
    <3> QED
      BY <3>1, <3>2, <3>3 DEF JoinedKnown
  <2> QED
    BY <2>1, <2>2, <2>3
<1>12. ASSUME NEW m \in smsgs, HandleConnUp(m)
      PROVE  HostFirst' /\ JoinedKnown' /\ joined \subseteq joined'
  <2>1. joined \subseteq joined'
    BY <1>12 DEF HandleConnUp
  <2>2. HostFirst'
    BY <1>12 DEF HostFirst, HandleConnUp, Handles
  <2>3. JoinedKnown'
    <3>1. /\ joined' = joined /\ smsgs' = smsgs \ {m} /\ reg \subseteq reg' /\ early \subseteq early'
          /\ m.to = MasterSite => m.from \in reg' \cup early'
      BY <1>12 DEF HandleConnUp, RegDs, Handles
    <3> QED
      BY <3>1, AckParts DEF JoinedKnown
  <2> QED
    BY <2>1, <2>2, <2>3
<1>13. ASSUME NEW m \in smsgs, HandleTooEarly(m)
      PROVE  HostFirst' /\ JoinedKnown' /\ joined \subseteq joined'
  <2>1. joined \subseteq joined'
    BY <1>13 DEF HandleTooEarly
  <2>2. HostFirst'
    BY <1>13 DEF HostFirst, HandleTooEarly
  <2>3. JoinedKnown'
    <3>1. /\ UNCHANGED <<joined, reg>> /\ early \subseteq early'
          /\ m.type # "ACK" /\ smsgs \ {m} \subseteq smsgs'
      BY <1>13 DEF HandleTooEarly
    <3> QED
      BY <3>1, AcksStay
  <2> QED
    BY <2>1, <2>2, <2>3
<1>14. ASSUME NEW m \in smsgs, HandleRegApp(m)
      PROVE  HostFirst' /\ JoinedKnown' /\ joined \subseteq joined'
  <2>1. joined \subseteq joined'
    BY <1>14 DEF HandleRegApp
  <2>2. HostFirst'
    BY <1>14 DEF HostFirst, HandleRegApp, SMsg, Handles
  <2>3. JoinedKnown'
    <3>1. /\ UNCHANGED <<joined, reg>> /\ early \subseteq early'
          /\ m.type # "ACK" /\ smsgs \ {m} \subseteq smsgs'
      BY <1>14 DEF HandleRegApp, Handles
    <3> QED
      BY <3>1, AcksStay
  <2> QED
    BY <2>1, <2>2, <2>3
<1>15. ASSUME NEW m \in smsgs, HandleRegAppReply(m)
      PROVE  HostFirst' /\ JoinedKnown' /\ joined \subseteq joined'
  <2>1. joined \subseteq joined'
    BY <1>15 DEF HandleRegAppReply, ctorVars
  <2>2. HostFirst'
    BY <1>15 DEF HostFirst, HandleRegAppReply, Handles, ctorVars
  <2>3. JoinedKnown'
    <3>1. /\ UNCHANGED <<joined, reg>> /\ early \subseteq early'
          /\ m.type # "ACK" /\ smsgs \ {m} \subseteq smsgs'
      BY <1>15 DEF HandleRegAppReply, Handles, ctorVars, wasVars
    <3> QED
      BY <3>1, AcksStay
  <2> QED
    BY <2>1, <2>2, <2>3
<1>16. ASSUME NEW m \in smsgs, HandlePutNotification(m)
      PROVE  HostFirst' /\ JoinedKnown' /\ joined \subseteq joined'
  <2>1. joined \subseteq joined'
    BY <1>16 DEF HandlePutNotification
  <2>2. HostFirst'
    BY <1>16 DEF HostFirst, HandlePutNotification, Handles
  <2>3. JoinedKnown'
    <3>1. /\ UNCHANGED <<joined, reg>> /\ early \subseteq early'
          /\ m.type # "ACK" /\ smsgs \ {m} \subseteq smsgs'
      BY <1>16 DEF HandlePutNotification, Handles
    <3> QED
      BY <3>1, AcksStay
  <2> QED
    BY <2>1, <2>2, <2>3
<1> QED
  BY <1>1, <1>2, <1>3, <1>4, <1>5, <1>6, <1>7, <1>8, <1>9, <1>10, <1>11, <1>12, <1>13,
     <1>14, <1>15, <1>16 DEF StartupNext, StartupStep

\* Requests come to processes whose local node is there, and find sdm_slave_.
LEMMA AppsKept ==
    ASSUME StartupTypeOK, LocalBeforeApps, SlaveBeforeApps, StartupNext
    PROVE  LocalBeforeApps' /\ SlaveBeforeApps'
<1> USE StartAssumption DEF StartupTypeOK
<1>p. \A n \in SSite : Passed(n, "local") => Passed(n, "local")' /\ Passed(n, "set")
  BY PassedStays, StageOrder
<1>1. ASSUME NEW n \in SSite, Launch(n) PROVE LocalBeforeApps' /\ SlaveBeforeApps'
  <2>1. LocalBeforeApps'
    BY <1>1, <1>p DEF LocalBeforeApps, Launch, reqVars
  <2>2. SlaveBeforeApps'
    BY <1>1, <1>p DEF SlaveBeforeApps, Launch, CtorTypes
  <2> QED
    BY <2>1, <2>2
<1>2. ASSUME NEW n \in SSite, Construct(n) PROVE LocalBeforeApps' /\ SlaveBeforeApps'
  <2>1. LocalBeforeApps'
    BY <1>2, <1>p DEF LocalBeforeApps, Construct, reqVars
  <2>2. SlaveBeforeApps'
    BY <1>2, <1>p DEF SlaveBeforeApps, Construct, CtorTypes
  <2> QED
    BY <2>1, <2>2
<1>3. ASSUME NEW n \in SSite, RIClose(n) PROVE LocalBeforeApps' /\ SlaveBeforeApps'
  <2>1. LocalBeforeApps'
    BY <1>3, <1>p DEF LocalBeforeApps, RIClose, reqVars
  <2>2. SlaveBeforeApps'
    BY <1>3, <1>p DEF SlaveBeforeApps, RIClose, CtorTypes
  <2> QED
    BY <2>1, <2>2
<1>4. ASSUME NEW n \in SSite, JoinRequest(n) PROVE LocalBeforeApps' /\ SlaveBeforeApps'
  <2>1. LocalBeforeApps'
    BY <1>4, <1>p DEF LocalBeforeApps, JoinRequest, reqVars
  <2>2. SlaveBeforeApps'
    BY <1>4, <1>p DEF SlaveBeforeApps, JoinRequest, CtorTypes
  <2> QED
    BY <2>1, <2>2
<1>5. ASSUME NEW r \in Request, AppRequest(r) PROVE LocalBeforeApps' /\ SlaveBeforeApps'
  <2>1. LocalBeforeApps'
    BY <1>5, <1>p DEF LocalBeforeApps, AppRequest, Req, ReqAt
  <2>2. SlaveBeforeApps'
    BY <1>5, <1>p DEF SlaveBeforeApps, AppRequest, CtorTypes, ctorVars
  <2> QED
    BY <2>1, <2>2
<1>6. ASSUME NEW r \in Request, HandleAppMsg(r) PROVE LocalBeforeApps' /\ SlaveBeforeApps'
  <2>1. LocalBeforeApps'
    <3>1. reqpc[r] = "sent" /\ scenario' = scenario /\ \E l \in ReqPc : reqpc' = [reqpc EXCEPT ![r] = l]
      BY <1>6 DEF HandleAppMsg, MasterRegApp, SlaveRegApp, Req, ReqAt, ReqPc
    <3> QED
      BY <3>1, <1>p DEF LocalBeforeApps
  <2>2. SlaveBeforeApps'
    BY <1>6, <1>p DEF LocalBeforeApps, SlaveBeforeApps, HandleAppMsg, Ends, ReqAt,
       CtorTypes
  <2> QED
    BY <2>1, <2>2
<1>7. ASSUME NEW r \in Request, RegAppWait(r) PROVE LocalBeforeApps' /\ SlaveBeforeApps'
  <2>1. LocalBeforeApps'
    BY <1>7, <1>p DEF LocalBeforeApps, RegAppWait, Req, ReqAt
  <2>2. SlaveBeforeApps'
    BY <1>7, <1>p DEF SlaveBeforeApps, RegAppWait, CtorTypes, ctorVars
  <2> QED
    BY <2>1, <2>2
<1>8. ASSUME NEW r \in Request, RegAppResume(r) PROVE LocalBeforeApps' /\ SlaveBeforeApps'
  <2>1. LocalBeforeApps'
    BY <1>8, <1>p DEF LocalBeforeApps, RegAppResume, Req, ReqAt
  <2>2. SlaveBeforeApps'
    BY <1>8, <1>p DEF SlaveBeforeApps, RegAppResume, CtorTypes, ctorVars
  <2> QED
    BY <2>1, <2>2
<1>9. ASSUME NEW r \in Request, HandlePut(r) PROVE LocalBeforeApps' /\ SlaveBeforeApps'
  <2>1. LocalBeforeApps'
    BY <1>9, <1>p DEF LocalBeforeApps, HandlePut, Req, ReqAt, ReqTypes
  <2>2. SlaveBeforeApps'
    BY <1>9, <1>p DEF SlaveBeforeApps, HandlePut, CtorTypes
  <2> QED
    BY <2>1, <2>2
<1>10. ASSUME NEW m \in smsgs, HandleJoinReq(m) PROVE LocalBeforeApps' /\ SlaveBeforeApps'
  <2>1. LocalBeforeApps'
    BY <1>10, <1>p DEF LocalBeforeApps, HandleJoinReq, reqVars
  <2>2. SlaveBeforeApps'
    BY <1>10, <1>p DEF SlaveBeforeApps, HandleJoinReq, Ends, CtorTypes
  <2> QED
    BY <2>1, <2>2
<1>11. ASSUME NEW m \in smsgs, HandleJoinReply(m) PROVE LocalBeforeApps' /\ SlaveBeforeApps'
  <2>1. LocalBeforeApps'
    BY <1>11, <1>p DEF LocalBeforeApps, HandleJoinReply, reqVars
  <2>2. SlaveBeforeApps'
    BY <1>11, <1>p DEF SlaveBeforeApps, HandleJoinReply, CtorTypes
  <2> QED
    BY <2>1, <2>2
<1>12. ASSUME NEW m \in smsgs, HandleConnUp(m) PROVE LocalBeforeApps' /\ SlaveBeforeApps'
  <2>1. LocalBeforeApps'
    BY <1>12, <1>p DEF LocalBeforeApps, HandleConnUp, reqVars
  <2>2. SlaveBeforeApps'
    BY <1>12, <1>p DEF SlaveBeforeApps, HandleConnUp, Ends, CtorTypes
  <2> QED
    BY <2>1, <2>2
<1>13. ASSUME NEW m \in smsgs, HandleTooEarly(m) PROVE LocalBeforeApps' /\ SlaveBeforeApps'
  <2>1. LocalBeforeApps'
    BY <1>13, <1>p DEF LocalBeforeApps, HandleTooEarly, reqVars
  <2>2. SlaveBeforeApps'
    BY <1>13, <1>p DEF SlaveBeforeApps, HandleTooEarly, Ends, CtorTypes
  <2> QED
    BY <2>1, <2>2
<1>14. ASSUME NEW m \in smsgs, HandleRegApp(m) PROVE LocalBeforeApps' /\ SlaveBeforeApps'
  <2>1. LocalBeforeApps'
    BY <1>14, <1>p DEF LocalBeforeApps, HandleRegApp, reqVars
  <2>2. SlaveBeforeApps'
    BY <1>14, <1>p DEF SlaveBeforeApps, HandleRegApp, Ends, CtorTypes
  <2> QED
    BY <2>1, <2>2
<1>15. ASSUME NEW m \in smsgs, HandleRegAppReply(m) PROVE LocalBeforeApps' /\ SlaveBeforeApps'
  <2>1. LocalBeforeApps'
    BY <1>15, <1>p DEF LocalBeforeApps, HandleRegAppReply
  <2>2. SlaveBeforeApps'
    BY <1>15, <1>p DEF SlaveBeforeApps, HandleRegAppReply, CtorTypes, ctorVars
  <2> QED
    BY <2>1, <2>2
<1>16. ASSUME NEW m \in smsgs, HandlePutNotification(m) PROVE LocalBeforeApps' /\ SlaveBeforeApps'
  <2>1. LocalBeforeApps'
    BY <1>16, <1>p DEF LocalBeforeApps, HandlePutNotification, reqVars
  <2>2. SlaveBeforeApps'
    BY <1>16, <1>p DEF SlaveBeforeApps, HandlePutNotification, Ends, CtorTypes
  <2> QED
    BY <2>1, <2>2
<1> QED
  BY <1>1, <1>2, <1>3, <1>4, <1>5, <1>6, <1>7, <1>8, <1>9, <1>10, <1>11, <1>12, <1>13,
     <1>14, <1>15, <1>16 DEF StartupNext, StartupStep

\* No constructor has begun at the start, and nobody has asked anything.
LEMMA SitesInit == ASSUME StartupInit PROVE SitesInv
<1>1. StartupTypeOK
  BY StartTyped
<1>2. \A n \in SSite : \A s : ~Passed(n, s)
  BY DEF StartupInit, StartupStart, Passed
<1>3. JoinedBeforeSlave
  BY <1>2 DEF JoinedBeforeSlave
<1>4. HostFirst /\ JoinedKnown
  BY DEF HostFirst, JoinedKnown, StartupInit, StartupStart
<1>5. LocalBeforeApps /\ SlaveBeforeApps
  BY DEF LocalBeforeApps, SlaveBeforeApps, StartupInit, StartupStart
<1> QED
  BY <1>1, <1>3, <1>4, <1>5 DEF SitesInv

\* The invariant of the constructors is inductive.
LEMMA SitesStep == ASSUME SitesInv, [StartupNext]_svars PROVE SitesInv'
<1>1. StartupTypeOK'
  BY TypesKept DEF SitesInv
<1>2. CASE StartupNext
  BY <1>1, <1>2, MeshKept, AppsKept, JoinedBeforeSlaveKept DEF SitesInv
<1>3. CASE UNCHANGED svars
  <2>1. /\ UNCHANGED <<scenario, stage, status, joined, smsgs, reg, early, reqpc>>
        /\ \A n, s : Passed(n, s)' = Passed(n, s)
    BY <1>3 DEF svars, ctorVars, meshVars, wasVars, reqVars, Passed
  <2> QED
    BY <1>1, <2>1 DEF SitesInv, JoinedBeforeSlave, HostFirst, JoinedKnown,
       LocalBeforeApps, SlaveBeforeApps
<1> QED
  BY <1>2, <1>3

\* It implies what is promised of the sites.
LEMMA SitesInvReady == ASSUME SitesInv PROVE SitesReady
BY StageOrder DEF SitesInv, StartupTypeOK, SitesReady, RegisteredOrEarly,
   JoinedBeforeSlave, JoinedKnown

\* In whatever order sites come up and their servers call back into objects under
\* construction, a request of an application finds sdm_slave_ set, and a site that is up
\* is registered in the WASpace unless it came during the master's construction (the
\* constructors of RIManager, SDMSlave and SDMMaster; handle_conn_up).
THEOREM SitesComeUp == StartupSpec => []SitesReady
<1>1. StartupInit => SitesInv
  BY SitesInit
<1>2. SitesInv /\ [StartupNext]_svars => SitesInv'
  BY SitesStep
<1>3. SitesInv => SitesReady
  BY SitesInvReady
<1> QED
  BY <1>1, <1>2, <1>3, PTL DEF StartupSpec

-----------------------------------------------------------------------------
\* What leaves the requests and the space alone, and sends nothing that carries a
\* request, keeps what is known of the puts.
LEMMA PutsFrame ==
    ASSUME PutsInv, UNCHANGED <<scenario, appds, regs, appsync, reqpc, located, dropped>>,
           \A m \in smsgs' : m \in smsgs \/ m.req = {}
    PROVE  PutsInv'
<1>1. /\ \A a : Known(a)' = Known(a)
      /\ \A r : Other(r)' = Other(r) /\ Duplicate(r)' = Duplicate(r)
  BY DEF Known, Other, Duplicate
<1>2. Carried'
  BY <1>1 DEF PutsInv, Carried
<1>3. RegisteredByRequest' /\ RegsByRequest'
  BY <1>1 DEF PutsInv, RegisteredByRequest, RegsByRequest
<1>4. Waiting' /\ PutOfKnown'
  BY <1>1 DEF PutsInv, Waiting, PutOfKnown
<1>5. PutLocated' /\ PutLostOnlyIf'
  BY <1>1 DEF PutsInv, PutLocated, PutLostOnlyIf
<1> QED
  BY <1>2, <1>3, <1>4, <1>5 DEF PutsInv

\* What is registered stays registered; the requests of a behaviour do not change.
LEMMA KnownStays ==
    ASSUME scenario' = scenario, appds \subseteq appds'
    PROVE  /\ \A a : Known(a) => Known(a)'
           /\ \A r : Other(r)' = Other(r) /\ Duplicate(r)' = Duplicate(r)
BY DEF Known, Other, Duplicate

\* reg_app of the WASpace: the application is known, by a request of the site.
LEMMA RegAppEffect ==
    ASSUME NEW r \in scenario.requests, scenario' = scenario, WasRegApp(r.app, r.site), RegisteredByRequest
    PROVE  RegisteredByRequest' /\ Known(r.app)' /\ appds \subseteq appds'
<1>1. CASE Known(r.app)
  BY <1>1 DEF WasRegApp, RegisteredByRequest, Known
<1>2. CASE ~Known(r.app)
  <2>1. appds' = appds \cup {<<r.app, r.site>>}
    BY <1>2 DEF WasRegApp
  <2>2. <<r.app, r.site>>[1] = r.app /\ <<r.app, r.site>>[2] = r.site
    OBVIOUS
  <2> QED
    BY <2>1, <2>2 DEF RegisteredByRequest, Known
<1> QED
  BY <1>1, <1>2

\* The site of an application that is known is that of some request.
LEMMA SiteOfRequest ==
    ASSUME RegisteredByRequest, NEW a, Known(a)
    PROVE  \E q \in scenario.requests : q.app = a /\ q.site = SiteOf(a)
<1>1. \E p \in appds : p[1] = a
  BY DEF Known
<1>2. PICK p : p = CHOOSE q \in appds : q[1] = a
  OBVIOUS
<1>3. p \in appds /\ p[1] = a
  BY <1>1, <1>2
<1>4. SiteOf(a) = p[2]
  BY <1>2 DEF SiteOf
<1> QED
  BY <1>3, <1>4 DEF RegisteredByRequest

\* MWASpace::put of a request whose application is known, or that is not alone.
LEMMA PutEffect ==
    ASSUME NEW r, WasPut(r), Known(r.app) \/ Other(r), scenario' = scenario,
           RegisteredByRequest, PutLocated, PutLostOnlyIf
    PROVE  PutLocated' /\ PutLostOnlyIf'
<1>1. PutLocated'
  <2>1. ASSUME NEW x \in located', x \notin located
        PROVE  x[2] = x[1].site \/ Duplicate(x[1])
    <3>1. Known(r.app) /\ x = <<r, SiteOf(r.app)>>
      BY <2>1 DEF WasPut
    <3>2. PICK q \in scenario.requests : q.app = r.app /\ q.site = SiteOf(r.app)
      BY <3>1, SiteOfRequest
    <3>3. x[1] = r /\ x[2] = SiteOf(r.app)
      BY <3>1
    <3> QED
      BY <3>2, <3>3 DEF Duplicate
  <2> QED
    BY <2>1 DEF PutLocated, Duplicate
<1>2. PutLostOnlyIf'
  <2>1. \A x \in dropped' : x \in dropped \/ (x = r /\ Other(r))
    BY DEF WasPut
  <2> QED
    BY <2>1 DEF PutLostOnlyIf, Other
<1> QED
  BY <1>1, <1>2

\* A request that has passed reg_app's check does not come before it again.
LEMMA RegsFrame ==
    ASSUME RegsByRequest, UNCHANGED <<scenario, regs>>,
           \A q \in scenario.requests : reqpc[q] \notin {"new", "sent"} => reqpc'[q] \notin {"new", "sent"}
    PROVE  RegsByRequest'
BY DEF RegsByRequest

\* A request that is made has not been registered or put.
LEMMA AppRequestPuts ==
    ASSUME SitesInv, PutsInv, NEW r \in Request, AppRequest(r)
    PROVE  PutsInv'
<1> USE StartAssumption DEF PutsInv, SitesInv, StartupTypeOK
<1>0. scenario' = scenario /\ appds \subseteq appds'
  BY DEF AppRequest, wasVars
<1>k. /\ \A x : Known(x) => Known(x)'
      /\ \A x : Other(x)' = Other(x) /\ Duplicate(x)' = Duplicate(x)
  BY <1>0, KnownStays
<1>1. Carried'
  BY <1>0, <1>k DEF Carried, AppRequest, Req, meshVars, wasVars
<1>2. RegisteredByRequest'
  BY <1>0, <1>k DEF RegisteredByRequest, AppRequest, Req, meshVars, wasVars
<1>3. RegsByRequest'
  BY <1>0, <1>k DEF RegsByRequest, AppRequest, Req, ReqAt, LocalBeforeApps, meshVars,
     wasVars
<1>4. Waiting'
  BY <1>0, <1>k DEF Waiting, AppRequest, Req, meshVars, wasVars
<1>5. PutOfKnown'
  BY <1>0, <1>k DEF PutOfKnown, AppRequest, Req, meshVars, wasVars
<1>6. PutLocated'
  BY <1>0, <1>k DEF PutLocated, AppRequest, Req, meshVars, wasVars
<1>7. PutLostOnlyIf'
  BY <1>0, <1>k DEF PutLostOnlyIf, AppRequest, Req, meshVars, wasVars
<1> QED
  BY <1>1, <1>2, <1>3, <1>4, <1>5, <1>6, <1>7

\* A request goes on to put at once only if its application is known, or another
\* request of it has begun the registration.
LEMMA HandleAppMsgPuts ==
    ASSUME SitesInv, PutsInv, NEW r \in Request, HandleAppMsg(r)
    PROVE  PutsInv'
<1> USE StartAssumption DEF PutsInv, SitesInv, StartupTypeOK
<1>1. r \in scenario.requests /\ r.site \in SSite /\ Passed(r.site, "set") /\ reqpc[r] = "sent"
  BY StageOrder DEF HandleAppMsg, ReqAt, LocalBeforeApps
<1>2. scenario' = scenario /\ appds \subseteq appds' /\ UNCHANGED <<appsync, located, dropped>>
  BY DEF HandleAppMsg, MasterRegApp, SlaveRegApp, WasRegApp
<1>3. /\ \A x : Known(x) => Known(x)'
      /\ \A x : Other(x)' = Other(x) /\ Duplicate(x)' = Duplicate(x)
  BY <1>2, KnownStays
<1>4. regs' = regs \/ regs' = [regs EXCEPT ![r.site] = @ \cup {r.app}]
  BY <1>1 DEF HandleAppMsg, MasterRegApp, SlaveRegApp
<1>5. reqpc' = [reqpc EXCEPT ![r] = "put"] \/ reqpc' = [reqpc EXCEPT ![r] = "reg"]
  BY <1>1 DEF HandleAppMsg, MasterRegApp, SlaveRegApp, Req
<1>6. RegsByRequest'
  <2>1. reqpc'[r] \notin {"new", "sent"} /\ \A q \in Request \ {r} : reqpc'[q] = reqpc[q]
    BY <1>5 DEF ReqTypes
  <2>2. scenario.requests \subseteq Request
    BY DEF CtorTypes
  <2>3. ASSUME NEW n \in SSite, NEW a \in regs'[n]
        PROVE  a \in regs[n] \/ (n = r.site /\ a = r.app)
    BY <1>4 DEF ReqTypes
  <2> QED
    BY <2>1, <2>2, <2>3, <1>1, <1>2 DEF RegsByRequest
<1>7. RegisteredByRequest' /\ (r.site = MasterSite => Known(r.app)')
  <2>1. CASE r.site = MasterSite
    <3>1. WasRegApp(r.app, r.site)
      BY <1>1, <2>1 DEF HandleAppMsg, MasterRegApp
    <3> QED
      BY <3>1, <1>1, <1>2, RegAppEffect
  <2>2. CASE r.site # MasterSite
    BY <1>1, <1>2, <2>2 DEF HandleAppMsg, SlaveRegApp, RegisteredByRequest
  <2> QED
    BY <2>1, <2>2
<1>8. Carried'
  <2>1. ASSUME NEW x \in smsgs', x \notin smsgs
        PROVE  x.type = "REG_APP" /\ x.req = {r} /\ x.from = r.site
    BY <1>1, <2>1 DEF HandleAppMsg, MasterRegApp, SlaveRegApp, SMsg
  <2> QED
    BY <2>1, <1>1, <1>2, <1>3 DEF Carried
<1>9. PutOfKnown'
  <2>1. ASSUME reqpc'[r] = "put", r.site # MasterSite PROVE Other(r)
    <3>1. r.app \in regs[r.site]
      BY <2>1, <1>1 DEF HandleAppMsg, SlaveRegApp, Req, ReqTypes
    <3>2. PICK q \in scenario.requests : q.app = r.app /\ q.site = r.site /\ reqpc[q] \notin {"new", "sent"}
      BY <3>1, <1>1 DEF RegsByRequest
    <3> QED
      BY <3>2, <1>1 DEF Other
  <2> QED
    BY <2>1, <1>3, <1>5, <1>7 DEF PutOfKnown, ReqTypes
<1>10. Waiting' /\ PutLocated' /\ PutLostOnlyIf'
  BY <1>2, <1>3 DEF Waiting, PutLocated, PutLostOnlyIf
<1> QED
  BY <1>6, <1>7, <1>8, <1>9, <1>10

\* A thread that waits for its registration is parked on its application's point.
LEMMA RegAppWaitPuts ==
    ASSUME SitesInv, PutsInv, NEW r \in Request, RegAppWait(r)
    PROVE  PutsInv'
<1> USE StartAssumption DEF PutsInv, SitesInv, StartupTypeOK
<1>0. scenario' = scenario /\ appds \subseteq appds'
  BY DEF RegAppWait, wasVars
<1>k. /\ \A x : Known(x) => Known(x)'
      /\ \A x : Other(x)' = Other(x) /\ Duplicate(x)' = Duplicate(x)
  BY <1>0, KnownStays
<1>1. Carried'
  BY <1>0, <1>k DEF Carried, RegAppWait, Req, meshVars, wasVars
<1>2. RegisteredByRequest'
  BY <1>0, <1>k DEF RegisteredByRequest, RegAppWait, Req, meshVars, wasVars
<1>3. RegsByRequest'
  BY <1>0, <1>k DEF RegsByRequest, RegAppWait, Req, meshVars, wasVars
<1>4. Waiting'
  <2>1. appsync' = [appsync EXCEPT ![r.site] = AddWait(@, r.app, r)]
    BY DEF RegAppWait
  <2>2. /\ AddWait(appsync[r.site], r.app, r).parked = appsync[r.site].parked \cup {<<r.app, r>>}
        /\ AddWait(appsync[r.site], r.app, r).woken = appsync[r.site].woken
    BY DEF AddWait
  <2> QED
    BY <2>1, <2>2, <1>k DEF Waiting
<1>5. PutOfKnown'
  BY <1>0, <1>k DEF PutOfKnown, RegAppWait, Req, meshVars, wasVars
<1>6. PutLocated'
  BY <1>0, <1>k DEF PutLocated, RegAppWait, Req, meshVars, wasVars
<1>7. PutLostOnlyIf'
  BY <1>0, <1>k DEF PutLostOnlyIf, RegAppWait, Req, meshVars, wasVars
<1> QED
  BY <1>1, <1>2, <1>3, <1>4, <1>5, <1>6, <1>7

\* A thread that returns from reg_app's wait puts for an application the master knows.
LEMMA RegAppResumePuts ==
    ASSUME SitesInv, PutsInv, NEW r \in Request, RegAppResume(r)
    PROVE  PutsInv'
<1> USE StartAssumption DEF PutsInv, SitesInv, StartupTypeOK
<1>0. scenario' = scenario /\ appds \subseteq appds'
  BY DEF RegAppResume, wasVars
<1>k. /\ \A x : Known(x) => Known(x)'
      /\ \A x : Other(x)' = Other(x) /\ Duplicate(x)' = Duplicate(x)
  BY <1>0, KnownStays
<1>1. Carried'
  BY <1>0, <1>k DEF Carried, RegAppResume, Req, meshVars, wasVars
<1>2. RegisteredByRequest'
  BY <1>0, <1>k DEF RegisteredByRequest, RegAppResume, Req, meshVars, wasVars
<1>3. RegsByRequest'
  BY <1>0, <1>k DEF RegsByRequest, RegAppResume, Req, meshVars, wasVars
<1>4. Waiting'
  <2>1. appsync' = [appsync EXCEPT ![r.site] = DelPoint(@, r.app, r)]
    BY DEF RegAppResume
  <2>2. /\ DelPoint(appsync[r.site], r.app, r).parked \subseteq appsync[r.site].parked
        /\ DelPoint(appsync[r.site], r.app, r).woken \subseteq appsync[r.site].woken
    BY DEF DelPoint
  <2> QED
    BY <2>1, <2>2, <1>k DEF Waiting
<1>5. PutOfKnown'
  <2>1. Known(r.app) /\ reqpc' = [reqpc EXCEPT ![r] = "put"]
    BY DEF RegAppResume, Waiting, Req
  <2> QED
    BY <2>1, <1>k DEF PutOfKnown
<1>6. PutLocated'
  BY <1>0, <1>k DEF PutLocated, RegAppResume, Req, meshVars, wasVars
<1>7. PutLostOnlyIf'
  BY <1>0, <1>k DEF PutLostOnlyIf, RegAppResume, Req, meshVars, wasVars
<1> QED
  BY <1>1, <1>2, <1>3, <1>4, <1>5, <1>6, <1>7

\* put writes down, or announces, only for a known application or behind another
\* request of it.
LEMMA HandlePutPuts ==
    ASSUME SitesInv, PutsInv, NEW r \in Request, HandlePut(r)
    PROVE  PutsInv'
<1> USE StartAssumption DEF PutsInv, SitesInv, StartupTypeOK
<1>0. scenario' = scenario /\ appds \subseteq appds'
  BY DEF HandlePut, WasPut, wasVars
<1>k. /\ \A x : Known(x) => Known(x)'
      /\ \A x : Other(x)' = Other(x) /\ Duplicate(x)' = Duplicate(x)
  BY <1>0, KnownStays
<1>1. Carried'
  <2>1. r \in scenario.requests /\ (Known(r.app) \/ Other(r))
    BY DEF HandlePut, ReqAt, LocalBeforeApps, PutOfKnown
  <2>2. ASSUME NEW x \in smsgs', x \notin smsgs
        PROVE  x.type = "PUT" /\ x.req = {r} /\ x.from = r.site
    BY <2>2 DEF HandlePut, SMsg
  <2> QED
    BY <2>1, <2>2, <1>0, <1>k DEF Carried
<1>2. RegisteredByRequest'
  BY <1>0, <1>k DEF RegisteredByRequest, HandlePut, WasPut, Req
<1>3. RegsByRequest'
  <2>1. regs' = regs /\ (reqpc' = [reqpc EXCEPT ![r] = "answered"] \/ reqpc' = [reqpc EXCEPT ![r] = "fail"])
    BY DEF HandlePut, Req
  <2>2. scenario.requests \subseteq Request
    BY DEF CtorTypes
  <2> QED
    BY <1>0, <2>1, <2>2, RegsFrame DEF ReqTypes
<1>4. Waiting'
  BY <1>0, <1>k DEF Waiting, HandlePut, WasPut, Req
<1>5. PutOfKnown'
  BY <1>0, <1>k DEF PutOfKnown, HandlePut, WasPut, Req, ReqTypes
<1>6. PutLocated'
  <2>1. Known(r.app) \/ Other(r)
    BY DEF HandlePut, ReqAt, PutOfKnown
  <2>2. WasPut(r) \/ UNCHANGED <<located, dropped>>
    BY DEF HandlePut
  <2> QED
    BY <2>1, <2>2, <1>0, <1>k, PutEffect DEF PutLocated
<1>7. PutLostOnlyIf'
  <2>1. Known(r.app) \/ Other(r)
    BY DEF HandlePut, ReqAt, PutOfKnown
  <2>2. WasPut(r) \/ UNCHANGED <<located, dropped>>
    BY DEF HandlePut
  <2> QED
    BY <2>1, <2>2, <1>0, <1>k, PutEffect DEF PutLostOnlyIf
<1> QED
  BY <1>1, <1>2, <1>3, <1>4, <1>5, <1>6, <1>7

\* The master registers an application for the site of a request, before it answers.
LEMMA HandleRegAppPuts ==
    ASSUME SitesInv, PutsInv, NEW m \in smsgs, HandleRegApp(m)
    PROVE  PutsInv'
<1> USE StartAssumption DEF PutsInv, SitesInv, StartupTypeOK
<1>0. scenario' = scenario /\ appds \subseteq appds'
  BY DEF HandleRegApp, WasRegApp, Handles, wasVars
<1>k. /\ \A x : Known(x) => Known(x)'
      /\ \A x : Other(x)' = Other(x) /\ Duplicate(x)' = Duplicate(x)
  BY <1>0, KnownStays
<1>1. Carried'
  <2>1. PICK r \in m.req : WasRegApp(r.app, m.from)
    BY DEF HandleRegApp
  <2>2. \A x \in m.req : x \in scenario.requests /\ x.site = m.from
    BY DEF HandleRegApp, Handles, Carried
  <2>5. m.req = {r}
    BY DEF Carried
  <2>3. Known(r.app)'
    BY <2>1, <2>2, <1>0, RegAppEffect
  <2>4. ASSUME NEW x \in smsgs', x \notin smsgs
        PROVE  x.type = "REG_APP_REPLY" /\ x.req = m.req
    BY <2>4 DEF HandleRegApp, SMsg
  <2> QED
    BY <2>2, <2>3, <2>4, <2>5, <1>0, <1>k DEF Carried
<1>2. RegisteredByRequest'
  <2>1. PICK r \in m.req : WasRegApp(r.app, m.from)
    BY DEF HandleRegApp
  <2>2. r \in scenario.requests /\ r.site = m.from
    BY DEF HandleRegApp, Handles, Carried
  <2> QED
    BY <2>1, <2>2, <1>0, RegAppEffect
<1>3. RegsByRequest'
  BY <1>0, RegsFrame DEF HandleRegApp, reqVars
<1>4. Waiting'
  BY <1>0, <1>k DEF Waiting, HandleRegApp, WasRegApp, Handles, reqVars
<1>5. PutOfKnown'
  BY <1>0, <1>k DEF PutOfKnown, HandleRegApp, WasRegApp, Handles, reqVars
<1>6. PutLocated'
  BY <1>0, <1>k DEF PutLocated, HandleRegApp, WasRegApp, Handles, reqVars
<1>7. PutLostOnlyIf'
  BY <1>0, <1>k DEF PutLostOnlyIf, HandleRegApp, WasRegApp, Handles, reqVars
<1> QED
  BY <1>1, <1>2, <1>3, <1>4, <1>5, <1>6, <1>7

\* A reply to a registration releases a thread of the application the master has
\* registered.
LEMMA HandleRegAppReplyPuts ==
    ASSUME SitesInv, PutsInv, NEW m \in smsgs, HandleRegAppReply(m)
    PROVE  PutsInv'
<1> USE StartAssumption DEF PutsInv, SitesInv, StartupTypeOK
<1>0. scenario' = scenario /\ appds \subseteq appds'
  BY DEF HandleRegAppReply, Handles, wasVars
<1>k. /\ \A x : Known(x) => Known(x)'
      /\ \A x : Other(x)' = Other(x) /\ Duplicate(x)' = Duplicate(x)
  BY <1>0, KnownStays
<1>1. Carried'
  BY <1>0, <1>k DEF Carried, HandleRegAppReply, Handles, wasVars
<1>2. RegisteredByRequest'
  BY <1>0, <1>k DEF RegisteredByRequest, HandleRegAppReply, Handles, wasVars
<1>3. RegsByRequest'
  BY <1>0, <1>k DEF RegsByRequest, HandleRegAppReply, Handles, wasVars
<1>4. Waiting'
  <2>1. PICK r \in m.req : \E s \in Notify(appsync[m.to], r.app) : appsync' = [appsync EXCEPT ![m.to] = s]
    BY DEF HandleRegAppReply
  <2>2. PICK s \in Notify(appsync[m.to], r.app) : appsync' = [appsync EXCEPT ![m.to] = s]
    BY <2>1
  <2>3. Known(r.app)
    BY DEF HandleRegAppReply, Handles, Carried
  <2>4. m.to \in SSite
    BY MsgParts DEF MeshTypes
  <2>5. /\ s.parked \subseteq appsync[m.to].parked
        /\ \A q \in s.woken : q \in appsync[m.to].woken \/ q.app = r.app
    BY <2>4, NotifyEffect DEF Waiting
  <2> QED
    BY <2>2, <2>3, <2>4, <2>5, <1>k DEF Waiting
<1>5. PutOfKnown'
  BY <1>0, <1>k DEF PutOfKnown, HandleRegAppReply, Handles, wasVars
<1>6. PutLocated'
  BY <1>0, <1>k DEF PutLocated, HandleRegAppReply, Handles, wasVars
<1>7. PutLostOnlyIf'
  BY <1>0, <1>k DEF PutLostOnlyIf, HandleRegAppReply, Handles, wasVars
<1> QED
  BY <1>1, <1>2, <1>3, <1>4, <1>5, <1>6, <1>7

\* A put notification is recorded at the site its application is registered for.
LEMMA HandlePutNotificationPuts ==
    ASSUME SitesInv, PutsInv, NEW m \in smsgs, HandlePutNotification(m)
    PROVE  PutsInv'
<1> USE StartAssumption DEF PutsInv, SitesInv, StartupTypeOK
<1>0. scenario' = scenario /\ appds \subseteq appds'
  BY DEF HandlePutNotification, WasPut, Handles, wasVars
<1>k. /\ \A x : Known(x) => Known(x)'
      /\ \A x : Other(x)' = Other(x) /\ Duplicate(x)' = Duplicate(x)
  BY <1>0, KnownStays
<1>1. Carried'
  BY <1>0, <1>k DEF Carried, HandlePutNotification, WasPut, Handles, reqVars
<1>2. RegisteredByRequest'
  BY <1>0, <1>k DEF RegisteredByRequest, HandlePutNotification, WasPut, Handles, reqVars
<1>3. RegsByRequest'
  BY <1>0, RegsFrame DEF HandlePutNotification, reqVars
<1>4. Waiting'
  BY <1>0, <1>k DEF Waiting, HandlePutNotification, WasPut, Handles, reqVars
<1>5. PutOfKnown'
  BY <1>0, <1>k DEF PutOfKnown, HandlePutNotification, WasPut, Handles, reqVars
<1>6. PutLocated'
  <2>1. PICK r \in m.req : WasPut(r)
    BY DEF HandlePutNotification
  <2>2. Known(r.app) \/ Other(r)
    BY DEF HandlePutNotification, Handles, Carried
  <2> QED
    BY <2>1, <2>2, <1>0, PutEffect
<1>7. PutLostOnlyIf'
  <2>1. PICK r \in m.req : WasPut(r)
    BY DEF HandlePutNotification
  <2>2. Known(r.app) \/ Other(r)
    BY DEF HandlePutNotification, Handles, Carried
  <2> QED
    BY <2>1, <2>2, <1>0, PutEffect
<1> QED
  BY <1>1, <1>2, <1>3, <1>4, <1>5, <1>6, <1>7

\* Nothing is requested, registered or put at the start.
LEMMA PutsInit == ASSUME StartupInit PROVE PutsInv
<1> USE DEF StartupInit, StartupStart
<1>1. Carried /\ RegisteredByRequest /\ RegsByRequest
  BY DEF Carried, RegisteredByRequest, RegsByRequest
<1>2. Waiting /\ PutOfKnown
  BY DEF Waiting, EmptySyncer, PutOfKnown
<1>3. PutLocated /\ PutLostOnlyIf
  BY DEF PutLocated, PutLostOnlyIf
<1> QED
  BY <1>1, <1>2, <1>3 DEF PutsInv

\* The invariant of the puts is inductive, given the one of the sites.
LEMMA PutsStep == ASSUME SitesInv, PutsInv, [StartupNext]_svars PROVE PutsInv'
<1>1. ASSUME NEW n \in SSite, Launch(n) PROVE PutsInv'
  BY <1>1, PutsFrame DEF Launch, meshVars, wasVars, reqVars
<1>2. ASSUME NEW n \in SSite, Construct(n) PROVE PutsInv'
  BY <1>2, PutsFrame DEF Construct, meshVars, reqVars
<1>3. ASSUME NEW n \in SSite, RIClose(n) PROVE PutsInv'
  BY <1>3, PutsFrame DEF RIClose, meshVars, wasVars, reqVars
<1>4. ASSUME NEW n \in SSite, JoinRequest(n) PROVE PutsInv'
  BY <1>4, PutsFrame DEF JoinRequest, SMsg, wasVars, reqVars
<1>5. ASSUME NEW m \in smsgs, HandleJoinReq(m) PROVE PutsInv'
  BY <1>5, PutsFrame DEF HandleJoinReq, SMsg, wasVars, reqVars
<1>6. ASSUME NEW m \in smsgs, HandleJoinReply(m) PROVE PutsInv'
  BY <1>6, PutsFrame DEF HandleJoinReply, SMsg, wasVars, reqVars
<1>7. ASSUME NEW m \in smsgs, HandleConnUp(m) PROVE PutsInv'
  BY <1>7, PutsFrame DEF HandleConnUp, reqVars
<1>8. ASSUME NEW m \in smsgs, HandleTooEarly(m) PROVE PutsInv'
  BY <1>8, PutsFrame DEF HandleTooEarly, reqVars
<1>9. CASE UNCHANGED svars
  BY <1>9, PutsFrame DEF svars, meshVars, wasVars, reqVars
<1> QED
  BY <1>1, <1>2, <1>3, <1>4, <1>5, <1>6, <1>7, <1>8, <1>9, AppRequestPuts,
     HandleAppMsgPuts, RegAppWaitPuts, RegAppResumePuts, HandlePutPuts,
     HandleRegAppPuts, HandleRegAppReplyPuts, HandlePutNotificationPuts DEF StartupNext,
     StartupStep

\* The WASpace writes a put down for the site it was made at, unless the application's id
\* is in use at another site too, and refuses the put of no application that has one
\* request at its site (SDMSlave::reg_app and put, SDMMaster::handle_sdm_reg_app and
\* handle_sdm_put_notification, MWASpace::put).
THEOREM PutsFound == StartupSpec => []PutsKnown
<1>1. StartupInit => SitesInv /\ PutsInv
  BY SitesInit, PutsInit
<1>2. SitesInv /\ PutsInv /\ [StartupNext]_svars => SitesInv' /\ PutsInv'
  BY SitesStep, PutsStep
<1>3. PutsInv => PutsKnown
  BY DEF PutsInv, PutsKnown
<1> QED
  BY <1>1, <1>2, <1>3, PTL DEF StartupSpec

=============================================================================
