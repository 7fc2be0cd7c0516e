-------------------------- MODULE RIManagerProofs --------------------------
(***************************************************************************)
(* Proofs about RIManager, for any sites, data, orders, gets and ports,    *)
(* any number of chunks and either protocol.                               *)
(***************************************************************************)
EXTENDS RIManager, SyncerProofs, FiniteSetTheorems

-----------------------------------------------------------------------------
(* The inductive invariant.                                                 *)

Given == config.orders

\* The chunks in a handler's hands are chunks of the data.
JobsFit == \A j \in jobs : j.first + j.size <= N + 1

Ib == Protocol = "INFINIBAND"

\* Only given orders are under way, each protocol has its own places, and a
\* destination that is asked has not begun yet.
IbPlace  == {"test", "empty", "parked", "take", "listen", "serve", "notify"}
TcpPlace == {"point", "wait", "cut"}

Started ==
    /\ \A x \in Order : /\ put[x] # "new" => x \in Given
                        /\ rget[x] # "none" => put[x] # "new"
                        /\ rget[x] \in IbPlace => Ib
                        /\ rget[x] \in TcpPlace => ~Ib
                        /\ <<"TINFO_QUERY", x>> \in msgs => rget[x] = "none"
    /\ \A t \in {"TINFO_QUERY", "TINFO_QUERY_REPLY", "FAIL_REMOTE_GET"}, x \in Order :
          <<t, x>> \in msgs => put[x] # "new"
    /\ \A j \in jobs : put[j.order] # "new"

\* The gets in rfp_syncer wait for their own data, at their site, and those
\* that were released find it listed or marked.
Ended(g) == g.dat \in qtable[g.site] \cup failed[g.site]

GetWaits ==
    /\ \A n \in Site : \A w \in rfpsync[n].parked : w[1] = w[2].dat /\ n = w[2].site
    /\ \A n \in Site : \A g \in rfpsync[n].woken : n = g.site /\ Ended(g)
    /\ \A g \in Get : get[g] = "woken" => Ended(g)
    /\ \A x \in Order : rget[x] = "listed" => x.dat \in qtable[x.dst]

\* Over InfiniBand a client and its server are in step, and a client has one
\* handler at most, with all of its data.
Serves == {"serve", "notify", "got", "stored", "freed", "listed", "end"}

Ends ==
    \A x \in Order :
        /\ put[x] \in {"send", "sent", "broken"} <=> server[x] # NoOrder
        /\ server[x] # NoOrder => rget[server[x]] \in Serves
        /\ rget[x] \in Serves => \E y \in Order : server[y] = x
        /\ <<"FAIL_REMOTE_GET", x>> \in msgs => put[x] = "fail"

Handled ==
    /\ \A j \in jobs : /\ put[j.order] = "send"
                       /\ rget[server[j.order]] = "serve"
                       /\ j.at = server[j.order].dst
                       /\ j.first = 1 /\ j.size = N
    /\ \A i, j \in jobs : i.order = j.order => i = j

InStep == Ib => Ends /\ Handled

\* A port is in the queue of its site or with one remote_get, unless the queue
\* was popped empty.  That takes more orders to the site than it has ports.
On(x)    == rget[x] \in {"start", "init", "listen", "serve"}
Users(n) == {x \in Order : x.dst = n /\ On(x)}
To(n)    == {x \in Given : x.dst = n}

Exclusive(n) ==
    /\ ports[n] \subseteq config.ports
    /\ \A x \in Users(n) : port[x] \in config.ports \ ports[n]
    /\ \A x, y \in Users(n) : port[x] = port[y] => x = y
    /\ \A p \in config.ports \ ports[n] : \E x \in Users(n) : port[x] = p

Crowded(n) == Cardinality(To(n)) > Cardinality(config.ports)

PortsOk == Ib => \A n \in Site : IF n \in wild THEN Crowded(n) ELSE Exclusive(n)

\* Over InfiniBand a holder keeps what it is to send.
Keeps == Ib => \A x \in Given : x.dat \in WholeAt(x.src)

\* Over InfiniBand, what the destination's maps and its DataSpaces hold of a
\* transfer that no other has met, by how far it has come.
Mine(x) == {j \in jobs : server[j.order] = x}

Buffer(x) ==
    LET size   == recved[x.dst][x.dat]
        buffer == data[x.dst][x.dat]
        held   == stored[x.dst][x.dat]
    IN  /\ rget[x] \in {"init", "listen"} /\ put[x] # "fail" => size = 0 /\ buffer = Garbage
        /\ rget[x] = "serve" =>
              /\ \A j \in Mine(x) : /\ j.pc # "read" => j.off = 0
                                    /\ j.pc # "add" => size = 0 /\ buffer = Garbage
              /\ (\A j \in Mine(x) : j.pc = "add") => buffer = Whole
        /\ rget[x] \in {"notify", "got"} => buffer = Whole
        /\ rget[x] \in {"stored", "freed"} => held = Whole
        /\ rget[x] \in {"freed", "listed", "end"} => size = Absent

Buffered == Ib => \A x \in Given : Apart(x) => Buffer(x)

\* Over InfiniBand, nothing was received yet of data that is ordered once and
\* not sent, or still in its handler's hands.
New(x) ==
    /\ \A j \in jobs : j.order = x => j.off = 0
    /\ server[x] = NoOrder \/ (\E j \in jobs : j.order = x) =>
          \A n \in Site : recved[n][x.dat] \in {0, Absent}

Unread == Ib => \A x \in Given : OrderedOnce(x.dat) => New(x)

\* Over TCP, the chunks counted and those with a handler are no more than the
\* chunks read, if the data is ordered once.
JobsOf(x) == {j \in jobs : j.order = x}

Count(x) ==
    LET read == wire[x].read
        left == Cardinality(JobsOf(x))
    IN  /\ left <= read
        /\ \A n \in Site : recved[n][x.dat] + left <= read
        /\ \A j \in JobsOf(x) : j.size = 1 /\ (j.pc # "read" => j.off + left <= read)

Counted ==
    /\ IsFiniteSet(jobs)
    /\ ~Ib => \A x \in Given : OrderedOnce(x.dat) => Count(x)

IInv ==
    /\ TypeOK /\ JobsFit /\ Started /\ GetWaits
    /\ InStep /\ PortsOk /\ Keeps /\ Buffered /\ Unread /\ Counted
-----------------------------------------------------------------------------
(* Types.                                                                   *)

\* An order is about two sites and a datum, a get about one site.
LEMMA ConstType ==
    /\ \A x \in Order : x.src \in Site /\ x.dst \in Site /\ x.dat \in Data
    /\ \A g \in Get : g.site \in Site /\ g.dat \in Data
    /\ Master \in Site /\ NoPort \notin Port /\ NoOrder \notin Order
BY OrderAssumption

\* So is the instance.
LEMMA ConfigType ==
    ASSUME TypeOK
    PROVE  /\ Given \subseteq Order /\ config.gets \subseteq Get
           /\ N \in Nat /\ N >= 1
           /\ Ib \/ Protocol = "TCP"
           /\ IsFiniteSet(Given) /\ IsFiniteSet(config.ports) /\ config.ports \subseteq Port
           /\ Ib => \A x, y \in Given : x.dat = y.dat => x.dst # y.src
BY OrderAssumption DEF TypeOK, Given, N, Ib, Protocol

\* The contents: all of the data, what malloc left, and none are different.
LEMMA ContentType ==
    ASSUME TypeOK
    PROVE  /\ Whole \in [1 .. N -> 0 .. N] /\ Garbage \in [1 .. N -> 0 .. N]
           /\ Whole \in Content /\ Garbage \in Content /\ Null \in Content
           /\ Whole # Null /\ Garbage # Null /\ Whole # Garbage
           /\ \A c \in Content : c # Null => c \in [1 .. N -> 0 .. N]
<1>1. N \in Nat /\ N >= 1
  BY ConfigType
<1>2. Whole \in [1 .. N -> 0 .. N] /\ Garbage \in [1 .. N -> 0 .. N]
  BY <1>1 DEF Whole, Garbage
<1>3. DOMAIN Null = 1 .. 0 /\ 1 \in 1 .. N /\ 1 \notin 1 .. 0
  BY <1>1 DEF Null
<1>4. Whole # Null /\ Garbage # Null
  BY <1>2, <1>3
<1>5. Whole # Garbage
  <2>1. Whole[1] = 1 /\ Garbage[1] = 0
    BY <1>3 DEF Whole, Garbage
  <2> QED
    BY <2>1
<1> QED
  BY <1>2, <1>4, <1>5 DEF Content

\* A map of maps, changed at one place.
LEMMA Changed ==
    ASSUME NEW S, NEW T, NEW V, NEW f \in [S -> [T -> V]], NEW a \in S, NEW b \in T, NEW v \in V
    PROVE  /\ [f EXCEPT ![a][b] = v] \in [S -> [T -> V]]
           /\ \A n \in S, d \in T :
                [f EXCEPT ![a][b] = v][n][d] = IF n = a /\ d = b THEN v ELSE f[n][d]
OBVIOUS

\* The maps of a site's data, changed at one place.
LEMMA DataMap ==
    ASSUME TypeOK, NEW n \in Site, NEW d \in Data, NEW v \in Content,
           data' = [data EXCEPT ![n][d] = v]
    PROVE  /\ data' \in [Site -> [Data -> Content]]
           /\ \A m \in Site, e \in Data : data'[m][e] = IF m = n /\ e = d THEN v ELSE data[m][e]
<1>1. data \in [Site -> [Data -> Content]]
  BY DEF TypeOK
<1> QED
  BY <1>1, Changed

\* The same of what DataSpaces holds.
LEMMA StoredMap ==
    ASSUME TypeOK, NEW n \in Site, NEW d \in Data, NEW v \in Content,
           stored' = [stored EXCEPT ![n][d] = v]
    PROVE  /\ stored' \in [Site -> [Data -> Content]]
           /\ \A m \in Site, e \in Data : stored'[m][e] = IF m = n /\ e = d THEN v ELSE stored[m][e]
<1>1. stored \in [Site -> [Data -> Content]]
  BY DEF TypeOK
<1> QED
  BY <1>1, Changed

\* The same of the sizes.
LEMMA RecvedMap ==
    ASSUME TypeOK, NEW n \in Site, NEW d \in Data, NEW v \in Nat \cup {Absent},
           recved' = [recved EXCEPT ![n][d] = v]
    PROVE  /\ recved' \in [Site -> [Data -> Nat \cup {Absent}]]
           /\ \A m \in Site, e \in Data : recved'[m][e] = IF m = n /\ e = d THEN v ELSE recved[m][e]
<1>1. recved \in [Site -> [Data -> Nat \cup {Absent}]]
  BY DEF TypeOK
<1> QED
  BY <1>1, Changed

\* A site's syncer, changed.
LEMMA SyncerMap ==
    ASSUME NEW T, NEW f \in [Site -> SyncerType(Data, T)], NEW n \in Site, NEW d \in Data,
           NEW g, \E s \in Notify(f[n], d) : g = [f EXCEPT ![n] = s]
    PROVE  g \in [Site -> SyncerType(Data, T)]
BY NotifyType

\* The sets of values do not change.
LEMMA Sets ==
    ASSUME config' = config
    PROVE  /\ Content' = Content /\ Job' = Job /\ N' = N /\ Given' = Given
           /\ (Ib' <=> Ib) /\ Protocol' = Protocol /\ Whole' = Whole /\ Garbage' = Garbage
BY DEF Content, Job, N, Given, Ib, Protocol, Whole, Garbage

\* A step of a holder keeps the types.
LEMMA HolderType ==
    ASSUME TypeOK, NEW x \in Order, HolderStep(x), config' = config
    PROVE  TypeOK'
<1> USE Sets DEF PutAt, GoPut, PutPlace, moveVars, syncVars, infoVars, recvVars, siteVars
<1>0. x.src \in Site /\ x.dst \in Site /\ x.dat \in Data
  BY ConstType
<1>1. CASE HandleDmMove(x)
  BY <1>0, <1>1 DEF TypeOK, HandleDmMove, Msg
<1>2. CASE TransInfoWait(x)
  BY <1>0, <1>2, AddWaitType DEF TypeOK, TransInfoWait
<1>3. CASE TransInfoResume(x)
  BY <1>0, <1>3, DelPointType DEF TypeOK, TransInfoResume
<1>4. CASE HandleTinfoReply(x)
  <2>1. PICK s \in Notify(risync[x.src], x.dat) : risync' = [risync EXCEPT ![x.src] = s]
    BY <1>0, <1>4 DEF HandleTinfoReply
  <2>2. risync' \in [Site -> SyncerType(Data, Order)]
    BY <2>1, NotifyType DEF TypeOK
  <2>3. [site |-> x.dst, port |-> port[x]] \in Addr
    BY <1>0 DEF TypeOK, Addr
  <2>4. trans_info' \in [Site -> [Data -> Addr]]
    <3>1. trans_info \in [Site -> [Data -> Addr]]
      BY DEF TypeOK
    <3>2. trans_info' = [trans_info EXCEPT ![x.src][x.dat] = [site |-> x.dst, port |-> port[x]]]
      BY <1>4 DEF HandleTinfoReply
    <3> QED
      BY <1>0, <2>3, <3>1, <3>2, Changed
  <2>5. msgs' \subseteq Msg
    BY <1>0, <1>4 DEF TypeOK, HandleTinfoReply
  <2> QED
    BY <1>0, <1>4, <2>2, <2>4, <2>5 DEF TypeOK, HandleTinfoReply
<1>5. CASE RemotePutFails(x)
  BY <1>0, <1>5 DEF TypeOK, RemotePutFails, Msg
<1>6. CASE RemotePutLookUp(x)
  BY <1>0, <1>6 DEF TypeOK, RemotePutLookUp
<1>7. CASE RemotePut(x)
  <2> DEFINE a == addr[x]
  <2>1. a \in Addr /\ a.site \in Site
    BY DEF TypeOK, Addr
  <2>2. CASE TcpSend(x, a.site)
    <3>1. wire \in [Order -> [site : Site, read : 0 .. N]]
      BY DEF TypeOK
    <3>2. wire' \in [Order -> [site : Site, read : 0 .. N]]
      BY <2>1, <2>2, <3>1 DEF TcpSend
    <3> QED
      BY <1>0, <1>7, <2>2, <3>2 DEF TypeOK, RemotePut, TcpSend
  <2>3. CASE IbSend(x, a)
    <3>1. PICK z \in Order :
             /\ server' = [server EXCEPT ![x] = z] /\ put' = [put EXCEPT ![x] = "send"]
             /\ rget' = [rget EXCEPT ![z] = "serve"] /\ UNCHANGED <<wire, down>>
             /\ jobs' = jobs \cup {[order |-> x, at |-> z.dst, first |-> 1, size |-> N,
                                    off |-> 0, pc |-> "read"]}
      BY <2>3 DEF IbSend, Listening, Serving, GoRget
    <3>2. [order |-> x, at |-> z.dst, first |-> 1, size |-> N, off |-> 0, pc |-> "read"] \in Job
      BY ConstType, ConfigType DEF Job
    <3>3. jobs' \subseteq Job
      BY <3>1, <3>2 DEF TypeOK
    <3>4. /\ server' \in [Order -> Order \cup {NoOrder}] /\ put' \in [Order -> PutPlace]
          /\ rget' \in [Order -> GetPlace]
      BY <3>1 DEF TypeOK, GetPlace
    <3> QED
      BY <1>0, <1>7, <3>1, <3>3, <3>4 DEF TypeOK, RemotePut
  <2>4. CASE TcpRefused(x, a.site) \/ IbRefused(x, a)
    BY <1>0, <1>7, <2>4 DEF TypeOK, RemotePut, TcpRefused, IbRefused
  <2> QED
    BY <1>7, <2>2, <2>3, <2>4 DEF RemotePut
<1> QED
  BY <1>1, <1>2, <1>3, <1>4, <1>5, <1>6, <1>7 DEF HolderStep

\* So does a step of a destination.
LEMMA DestinationType ==
    ASSUME TypeOK, NEW x \in Order, DestinationStep(x), config' = config
    PROVE  TypeOK'
<1> USE Sets DEF GoPut, GoRget, RgetAt, GetPlace, moveVars, syncVars, infoVars, recvVars, siteVars
<1>0. x.src \in Site /\ x.dst \in Site /\ x.dat \in Data
  BY ConstType
<1>1. ASSUME NEW p \in Port \cup {NoPort}, HandOut(x, p),
             ports' \in [Site -> SUBSET (Port \cup {NoPort})],
             wild' \subseteq Site, down' \subseteq Site
      PROVE  TypeOK'
  <2>1. thread' \in [Site -> [Data -> Order \cup {NoOrder}]]
    BY <1>0, <1>1 DEF TypeOK, HandOut
  <2>2. msgs' \subseteq Msg
    BY <1>0, <1>1 DEF TypeOK, HandOut, Msg
  <2>3. port' \in [Order -> Port \cup {NoPort}] /\ rget' \in [Order -> GetPlace]
    BY <1>1 DEF TypeOK, HandOut
  <2> QED
    BY <1>1, <2>1, <2>2, <2>3 DEF TypeOK, HandOut
<1>2. CASE HandleTinfoQuery(x)
  <2>1. CASE HandOut(x, NoPort) /\ UNCHANGED <<ports, wild, down>>
    BY <1>1, <2>1 DEF TypeOK
  <2>2. CASE ~HandOut(x, NoPort)
    BY <1>0, <1>2, <2>2 DEF TypeOK, HandleTinfoQuery
  <2> QED
    BY <1>2, <2>1, <2>2 DEF HandleTinfoQuery
<1>3. CASE PopTest(x) \/ PopWait(x)
  <2>1. /\ rget' \in [Order -> GetPlace]
        /\ UNCHANGED <<put, cut, msgs, syncVars, infoVars, recvVars, siteVars, get, down>>
    BY <1>3 DEF TypeOK, PopTest, PopWait
  <2> QED
    BY <2>1 DEF TypeOK
<1>4. CASE PopTake(x)
  <2>0. /\ ports \in [Site -> SUBSET (Port \cup {NoPort})] /\ wild \subseteq Site
        /\ down \subseteq Site
    BY DEF TypeOK
  <2>1. /\ ports' \in [Site -> SUBSET (Port \cup {NoPort})] /\ wild' \subseteq Site
        /\ down' \subseteq Site
    <3>1. /\ ports' = ports \/ \E p : ports' = [ports EXCEPT ![x.dst] = @ \ {p}]
          /\ wild' = wild \/ wild' = wild \cup {x.dst}
          /\ down' = down \/ down' = down \cup {x.dst}
      BY <1>4 DEF PopTake
    <3> QED
      BY <1>0, <2>0, <3>1
  <2>2. CASE \E p \in Port \cup {NoPort} : HandOut(x, p)
    BY <1>1, <2>1, <2>2
  <2>3. CASE ~\E p \in Port \cup {NoPort} : HandOut(x, p)
    <3>1. ports[x.dst] \subseteq Port \cup {NoPort}
      BY <1>0 DEF TypeOK
    <3>2. UNCHANGED <<moveVars, syncVars, trans_info, thread, port, addr, server, recvVars,
                      siteVars, get>>
      BY <1>4, <2>3, <3>1 DEF PopTake
    <3> QED
      BY <2>1, <3>2 DEF TypeOK
  <2> QED
    BY <2>2, <2>3
<1>5. CASE WaGet(x)
  <2>1. data' \in [Site -> [Data -> Content]]
    BY <1>0, <1>5, ContentType, DataMap DEF WaGet
  <2>2. recved' \in [Site -> [Data -> Nat \cup {Absent}]]
    BY <1>0, <1>5, RecvedMap DEF WaGet
  <2> QED
    BY <1>0, <1>5, <2>1, <2>2 DEF TypeOK, WaGet, Absent
<1>6. CASE InitGet(x)
  BY <1>0, <1>6 DEF TypeOK, InitGet
<1>7. CASE TcpWait(x)
  <2>1. tcpsync[x.dst] \in SyncerType(Data, Order)
    BY <1>0 DEF TypeOK
  <2>2. AddPoint(tcpsync[x.dst], x.dat) \in SyncerType(Data, Order)
    BY <1>0, <2>1 DEF AddPoint, SyncerType
  <2>3. AddWait(tcpsync[x.dst], x.dat, x) \in SyncerType(Data, Order)
    BY <1>0, <2>1, AddWaitType
  <2>4. tcpsync' \in [Site -> SyncerType(Data, Order)]
    <3>1. tcpsync \in [Site -> SyncerType(Data, Order)]
      BY DEF TypeOK
    <3>2. PICK r \in SyncerType(Data, Order) : tcpsync' = [tcpsync EXCEPT ![x.dst] = r]
      <4>1. CASE x \in cut
        <5>1. tcpsync' = [tcpsync EXCEPT ![x.dst] = AddPoint(tcpsync[x.dst], x.dat)]
          BY <1>7, <4>1 DEF TcpWait
        <5> QED
          BY <2>2, <5>1
      <4>2. CASE x \notin cut
        BY <1>7, <2>3, <4>2 DEF TcpWait
      <4> QED
        BY <4>1, <4>2
    <3> QED
      BY <1>0, <3>1, <3>2
  <2> QED
    BY <1>0, <1>7, <2>4 DEF TypeOK, TcpWait
<1>8. CASE TcpResume(x)
  BY <1>0, <1>8, DelPointType DEF TypeOK, TcpResume
<1>9. CASE IbServed(x)
  <2>1. ports' \in [Site -> SUBSET (Port \cup {NoPort})]
    BY <1>0, <1>9 DEF TypeOK, IbServed
  <2>2. put' \in [Order -> PutPlace]
    <3>1. put \in [Order -> PutPlace] /\ "sent" \in PutPlace
      BY DEF TypeOK, PutPlace
    <3>2. put' = [y \in Order |-> IF server[y] = x /\ put[y] = "send" THEN "sent" ELSE put[y]]
      BY <1>9 DEF IbServed
    <3> QED
      BY <3>1, <3>2
  <2> QED
    BY <1>9, <2>1, <2>2 DEF TypeOK, IbServed
<1>10. CASE PortNotify(x)
  <2>1. rget' \in [Order -> GetPlace]
    <3>1. \/ rget' = [rget EXCEPT ![x] = "got"]
          \/ \E y \in Order : rget' = [rget EXCEPT ![y] = "test", ![x] = "got"]
      BY <1>10 DEF PortNotify
    <3>2. rget \in [Order -> GetPlace] /\ "got" \in GetPlace /\ "test" \in GetPlace
      BY DEF TypeOK
    <3> HIDE DEF GetPlace
    <3> QED
      BY <3>1, <3>2
  <2> QED
    BY <1>10, <2>1 DEF TypeOK, PortNotify
<1>11. CASE RecvChunk(x)
  <2>1. /\ wire[x].site \in Site /\ wire[x].read \in 0 .. N
        /\ wire[x].read + 1 \in 1 .. N /\ 1 \in 1 .. N
    BY <1>0, <1>11, ConfigType DEF TypeOK, RecvChunk
  <2>2. [order |-> x, at |-> wire[x].site, first |-> wire[x].read + 1, size |-> 1, off |-> 0,
         pc |-> "read"] \in Job
    BY <2>1 DEF Job
  <2>3. jobs' \subseteq Job
    BY <1>0, <1>11, <2>2 DEF TypeOK, RecvChunk
  <2>4. tcpsync' \in [Site -> SyncerType(Data, Order)]
    <3>1. \/ tcpsync' = tcpsync
          \/ \E s \in Notify(tcpsync[wire[x].site], x.dat) :
                tcpsync' = [tcpsync EXCEPT ![wire[x].site] = s]
      BY <1>11 DEF RecvChunk
    <3>2. tcpsync \in [Site -> SyncerType(Data, Order)]
      BY DEF TypeOK
    <3> QED
      BY <1>0, <2>1, <3>1, <3>2, SyncerMap
  <2>5. wire' \in [Order -> [site : Site, read : 0 .. N]]
    <3>1. wire \in [Order -> [site : Site, read : 0 .. N]]
      BY DEF TypeOK
    <3>2. wire' = [wire EXCEPT ![x].read = wire[x].read + 1] /\ wire[x].read + 1 \in 0 .. N
      BY <1>11, <2>1, ConfigType DEF RecvChunk
    <3> QED
      BY <3>1, <3>2
  <2> QED
    BY <1>0, <1>11, <2>3, <2>4, <2>5 DEF TypeOK, RecvChunk
<1>12. CASE SyncPut(x)
  <2>1. CASE data[x.dst][x.dat] = Null
    BY <1>0, <1>12, <2>1 DEF TypeOK, SyncPut
  <2>2. CASE data[x.dst][x.dat] # Null
    <3>1. data[x.dst][x.dat] \in Content
      BY <1>0 DEF TypeOK
    <3>2. stored' \in [Site -> [Data -> Content]]
      BY <1>0, <1>12, <2>2, <3>1, StoredMap DEF SyncPut
    <3> QED
      BY <1>0, <1>12, <2>2, <3>2 DEF TypeOK, SyncPut
  <2> QED
    BY <2>1, <2>2
<1>13. CASE WaGetDone(x)
  <2>1. data' \in [Site -> [Data -> Content]]
    BY <1>0, <1>13, ContentType, DataMap DEF WaGetDone
  <2>2. recved' \in [Site -> [Data -> Nat \cup {Absent}]]
    BY <1>0, <1>13, RecvedMap DEF WaGetDone
  <2> QED
    BY <1>0, <1>13, <2>1, <2>2 DEF TypeOK, WaGetDone, Absent
<1>14. CASE ListRemote(x)
  BY <1>0, <1>14 DEF TypeOK, ListRemote
<1>15. CASE NotifyRemoteGetDone(x)
  <2>1. rfpsync' \in [Site -> SyncerType(Data, Get)]
    BY <1>0, <1>15, NotifyType DEF TypeOK, NotifyRemoteGetDone
  <2> QED
    BY <1>0, <1>15, <2>1 DEF TypeOK, NotifyRemoteGetDone
<1>16. CASE HandleFailRemoteGet(x)
  <2> DEFINE y == thread[x.dst][x.dat]
  <2>1. msgs' \subseteq Msg /\ failed' \in [Site -> SUBSET Data]
    BY <1>0, <1>16 DEF TypeOK, HandleFailRemoteGet
  <2>2. CASE y = NoOrder
    BY <1>0, <1>16, <2>1, <2>2 DEF TypeOK, HandleFailRemoteGet
  <2>3. CASE y # NoOrder
    <3>1. y \in Order
      BY <1>0, <2>3 DEF TypeOK
    <3>2. cut' \subseteq Order /\ thread' \in [Site -> [Data -> Order \cup {NoOrder}]]
      <4>1. thread \in [Site -> [Data -> Order \cup {NoOrder}]] /\ cut \subseteq Order
        BY DEF TypeOK
      <4>2. cut' = cut \cup {y} /\ thread' = [thread EXCEPT ![x.dst][x.dat] = NoOrder]
        BY <1>16, <2>3 DEF HandleFailRemoteGet
      <4> QED
        BY <1>0, <3>1, <4>1, <4>2
    <3>3. /\ data' = [data EXCEPT ![x.dst][x.dat] = Null]
          /\ recved' = recved \/ recved' = [recved EXCEPT ![x.dst][x.dat] = Absent]
      BY <1>0, <1>16, <2>3 DEF HandleFailRemoteGet
    <3>4. data' \in [Site -> [Data -> Content]]
      BY <1>0, <3>3, ContentType, DataMap
    <3>5. recved' \in [Site -> [Data -> Nat \cup {Absent}]]
      BY <1>0, <3>3, RecvedMap DEF TypeOK
    <3>6. rfpsync' \in [Site -> SyncerType(Data, Get)]
      <4>1. \E s \in Notify(rfpsync[x.dst], x.dat) : rfpsync' = [rfpsync EXCEPT ![x.dst] = s]
        BY <1>16, <2>3 DEF HandleFailRemoteGet
      <4>2. rfpsync \in [Site -> SyncerType(Data, Get)]
        BY DEF TypeOK
      <4> QED
        BY <1>0, <4>1, <4>2, SyncerMap
    <3>7. [tcpsync[x.dst] EXCEPT !.parked = @ \ {<<x.dat, y>>}] \in SyncerType(Data, Order)
      <4>1. tcpsync[x.dst] \in SyncerType(Data, Order)
        BY <1>0 DEF TypeOK
      <4> QED
        BY <4>1 DEF SyncerType
    <3>8. /\ tcpsync' = tcpsync \/ tcpsync' = [tcpsync EXCEPT ![x.dst].parked = @ \ {<<x.dat, y>>}]
          /\ rget' = rget \/ rget' = [rget EXCEPT ![y] = "cut"]
      BY <1>0, <1>16, <2>3 DEF HandleFailRemoteGet
    <3>9. tcpsync' \in [Site -> SyncerType(Data, Order)]
      <4>1. tcpsync \in [Site -> SyncerType(Data, Order)]
        BY DEF TypeOK
      <4>2. \/ tcpsync' = tcpsync
            \/ tcpsync' = [tcpsync EXCEPT ![x.dst] =
                             [tcpsync[x.dst] EXCEPT !.parked = @ \ {<<x.dat, y>>}]]
        BY <3>8
      <4> QED
        BY <1>0, <3>7, <4>1, <4>2
    <3>10. rget' \in [Order -> GetPlace]
      BY <3>1, <3>8 DEF TypeOK
    <3>11. UNCHANGED <<put, risync, trans_info, ports, port, wild, addr, server, listen, wire,
                       jobs, stored, qtable, get, down>>
      BY <1>0, <1>16, <2>3 DEF HandleFailRemoteGet
    <3> QED
      BY <2>1, <3>2, <3>4, <3>5, <3>6, <3>9, <3>10, <3>11 DEF TypeOK, Absent
  <2> QED
    BY <2>2, <2>3
<1> QED
  BY <1>2, <1>5, <1>6, <1>7, <1>8, <1>9, <1>11, <1>12, <1>13, <1>14, <1>15, <1>16,
     <1>3, <1>4, <1>10 DEF DestinationStep

\* And a step of a handler.
LEMMA JobType ==
    ASSUME TypeOK, JobsFit, NEW j \in jobs, HandlerStep(j), config' = config
    PROVE  TypeOK'
<1> USE Sets DEF moveVars, syncVars, infoVars, siteVars
<1>0. /\ j \in Job /\ j.at \in Site /\ j.order.dat \in Data
      /\ j.size \in 1 .. N /\ j.first \in 1 .. N /\ j.off \in Nat
      /\ recved[j.at][j.order.dat] \in Nat \cup {Absent} /\ data[j.at][j.order.dat] \in Content
  BY ConstType DEF TypeOK, Job
<1>1. CASE HandlerRead(j)
  <2>1. recved[j.at][j.order.dat] # Absent =>
           [j EXCEPT !.off = recved[j.at][j.order.dat], !.pc = "copy"] \in Job
    BY <1>0 DEF Job
  <2>2. jobs' \subseteq Job
    BY <1>1, <2>1 DEF TypeOK, HandlerRead
  <2> QED
    BY <1>1, <2>2 DEF TypeOK, HandlerRead
<1>2. CASE HandlerCopy(j)
  <2> DEFINE old == data[j.at][j.order.dat]
             new == [i \in 1 .. N |-> IF i \in j.off + 1 .. j.off + j.size
                                      THEN j.first + (i - j.off - 1) ELSE old[i]]
  <2>1. CASE old = Null
    BY <1>2, <1>0, <2>1 DEF TypeOK, HandlerCopy
  <2>2. CASE old # Null
    <3>1. old \in [1 .. N -> 0 .. N]
      BY <1>0, <2>2, ContentType
    <3>2. N \in Nat /\ j.first + j.size <= N + 1
      BY ConfigType DEF JobsFit
    <3>3. new \in Content
      <4>1. \A i \in 1 .. N : new[i] \in 0 .. N
        <5> SUFFICES ASSUME NEW i \in 1 .. N PROVE new[i] \in 0 .. N
          OBVIOUS
        <5>1. CASE i \in j.off + 1 .. j.off + j.size
          <6>1. new[i] = j.first + (i - j.off - 1)
            BY <5>1
          <6> QED
            BY <1>0, <3>2, <5>1, <6>1
        <5>2. CASE i \notin j.off + 1 .. j.off + j.size
          <6>1. new[i] = old[i]
            BY <5>2
          <6> QED
            BY <3>1, <6>1
        <5> QED
          BY <5>1, <5>2
      <4> QED
        BY <4>1 DEF Content
    <3>4. data' = [data EXCEPT ![j.at][j.order.dat] = new]
      BY <1>2, <2>2 DEF HandlerCopy
    <3>5. data' \in [Site -> [Data -> Content]]
      BY <1>0, <3>3, <3>4, DataMap
    <3>6. [j EXCEPT !.pc = "add"] \in Job
      BY <1>0 DEF Job
    <3>7. jobs' \subseteq Job /\ UNCHANGED down
      BY <1>2, <2>2, <3>6 DEF TypeOK, HandlerCopy
    <3> QED
      BY <1>2, <3>5, <3>7 DEF TypeOK, HandlerCopy
  <2> QED
    BY <2>1, <2>2
<1>3. CASE HandlerAdd(j)
  <2>1. PICK v \in Nat \cup {Absent} : recved' = [recved EXCEPT ![j.at][j.order.dat] = v]
    <3>1. recved' = [recved EXCEPT ![j.at][j.order.dat] =
                        (IF recved[j.at][j.order.dat] = Absent THEN 0
                         ELSE recved[j.at][j.order.dat]) + j.size]
      BY <1>3, <1>0 DEF HandlerAdd
    <3>2. (IF recved[j.at][j.order.dat] = Absent THEN 0
           ELSE recved[j.at][j.order.dat]) + j.size \in Nat
      BY <1>0
    <3> QED
      BY <3>1, <3>2
  <2>2. recved' \in [Site -> [Data -> Nat \cup {Absent}]]
    BY <1>0, <2>1, RecvedMap
  <2> QED
    BY <1>3, <2>2 DEF TypeOK, HandlerAdd, Absent
<1>4. CASE IbBroken(j)
  <2>1. j.order \in Order
    BY <1>0 DEF Job
  <2>2. put' \in [Order -> PutPlace] /\ jobs' \subseteq Job
    BY <1>4, <2>1 DEF TypeOK, IbBroken, GoPut, PutPlace
  <2> QED
    BY <1>4, <2>2 DEF TypeOK, IbBroken
<1>5. CASE IbTangled(j)
  <2>1. down' \subseteq Site
    BY <1>0, <1>5 DEF TypeOK, IbTangled
  <2>2. jobs' \subseteq Job
    <3>1. [j EXCEPT !.pc = "add"] \in Job
      BY <1>0 DEF Job
    <3> QED
      BY <1>5, <3>1 DEF TypeOK, IbTangled
  <2>3. data' \in [Site -> [Data -> Content]]
    <3>1. CASE data' = data
      BY <3>1 DEF TypeOK
    <3>2. CASE data' # data
      <4>1. PICK c \in Content : data' = [data EXCEPT ![j.at][j.order.dat] = c]
        BY <1>5, <3>2 DEF IbTangled
      <4> QED
        BY <1>0, <4>1, DataMap
    <3> QED
      BY <3>1, <3>2
  <2> QED
    BY <1>5, <2>1, <2>2, <2>3 DEF TypeOK, IbTangled
<1> QED
  BY <1>1, <1>2, <1>3, <1>4, <1>5 DEF HandlerStep

\* And a step of a get, or of TCPServer's listening thread.
LEMMA GetType ==
    ASSUME TypeOK, config' = config,
           \/ \E g \in Get : GetCheck(g) \/ GetWait(g) \/ GetResume(g)
           \/ \E n \in Site : InitListen(n)
    PROVE  TypeOK'
<1> USE Sets DEF moveVars, syncVars, infoVars, recvVars, siteVars
<1>1. ASSUME NEW g \in Get, GetCheck(g) PROVE TypeOK'
  BY <1>1 DEF TypeOK, GetCheck
<1>2. ASSUME NEW g \in Get, GetWait(g) PROVE TypeOK'
  <2>1. rfpsync' \in [Site -> SyncerType(Data, Get)]
    BY <1>2, AddWaitType, ConstType DEF TypeOK, GetWait
  <2> QED
    BY <1>2, <2>1 DEF TypeOK, GetWait
<1>3. ASSUME NEW g \in Get, GetResume(g) PROVE TypeOK'
  <2>1. rfpsync' \in [Site -> SyncerType(Data, Get)]
    BY <1>3, DelPointType, ConstType DEF TypeOK, GetResume
  <2> QED
    BY <1>3, <2>1 DEF TypeOK, GetResume
<1>4. ASSUME NEW n \in Site, InitListen(n) PROVE TypeOK'
  BY <1>4 DEF TypeOK, InitListen
<1> QED
  BY <1>1, <1>2, <1>3, <1>4

-----------------------------------------------------------------------------
(* The invariant is inductive, part by part.                                *)

\* A handler changes its own job, and keeps what the job is about.
LEMMA HandlerJobs ==
    ASSUME TypeOK, NEW j \in jobs, HandlerStep(j)
    PROVE  \E k \in [order : {j.order}, at : {j.at}, first : {j.first}, size : {j.size},
                     off : Nat, pc : {"read", "copy", "add"}] :
              jobs' \subseteq (jobs \ {j}) \cup {k}
<1> DEFINE K == [order : {j.order}, at : {j.at}, first : {j.first}, size : {j.size},
                 off : Nat, pc : {"read", "copy", "add"}]
<1>0. j \in Job /\ j \in K /\ j.off \in Nat
  BY DEF TypeOK, Job
<1>1. CASE HandlerRead(j)
  <2>1. CASE recved[j.at][j.order.dat] = Absent
    BY <1>0, <1>1, <2>1 DEF HandlerRead
  <2>2. CASE recved[j.at][j.order.dat] # Absent
    <3>1. recved[j.at][j.order.dat] \in Nat
      BY <1>0, <2>2, ConstType DEF TypeOK, Job
    <3>2. [j EXCEPT !.off = recved[j.at][j.order.dat], !.pc = "copy"] \in K
      BY <1>0, <3>1 DEF Job
    <3>3. jobs' = (jobs \ {j}) \cup {[j EXCEPT !.off = recved[j.at][j.order.dat], !.pc = "copy"]}
      BY <1>1, <2>2 DEF HandlerRead
    <3> QED
      BY <3>2, <3>3
  <2> QED
    BY <2>1, <2>2
<1>2. CASE HandlerCopy(j)
  <2>1. [j EXCEPT !.pc = "add"] \in K
    BY <1>0 DEF Job
  <2>2. jobs' = jobs \/ jobs' = (jobs \ {j}) \cup {[j EXCEPT !.pc = "add"]}
    BY <1>2 DEF HandlerCopy
  <2> QED
    BY <1>0, <2>1, <2>2
<1>3. CASE HandlerAdd(j)
  BY <1>0, <1>3 DEF HandlerAdd
<1>4. CASE IbBroken(j)
  BY <1>0, <1>4 DEF IbBroken
<1>5. CASE IbTangled(j)
  <2>1. [j EXCEPT !.pc = "add"] \in K
    BY <1>0 DEF Job
  <2>2. jobs' \subseteq (jobs \ {j}) \cup {j} \/ jobs' = (jobs \ {j}) \cup {[j EXCEPT !.pc = "add"]}
    BY <1>5 DEF IbTangled
  <2> QED
    BY <1>0, <2>1, <2>2
<1> QED
  BY <1>1, <1>2, <1>3, <1>4, <1>5 DEF HandlerStep

\* Where orders are does not matter to what was given, if nothing new is begun.
LEMMA StartedStays ==
    ASSUME TypeOK, JobsFit, Started, config' = config, jobs' \subseteq jobs, msgs' \subseteq msgs,
           \A x \in Order : put'[x] = "new" <=> put[x] = "new",
           \A x \in Order : \/ rget'[x] = rget[x]
                            \/ /\ rget[x] # "none"
                               /\ rget'[x] \in IbPlace => Ib
                               /\ rget'[x] \in TcpPlace => ~Ib
    PROVE  (JobsFit /\ Started)'
<1>1. JobsFit'
  BY Sets DEF JobsFit
<1>2. \A x \in Order : /\ rget'[x] \in IbPlace => Ib
                       /\ rget'[x] \in TcpPlace => ~Ib
                       /\ rget'[x] # "none" => rget[x] # "none"
                       /\ <<"TINFO_QUERY", x>> \in msgs' => rget'[x] = "none"
  BY DEF Started
<1>3. \A x \in Order : /\ put'[x] # "new" => x \in Given
                       /\ rget'[x] # "none" => put'[x] # "new"
  BY <1>2 DEF Started
<1>4. \A j \in jobs' : put'[j.order] # "new"
  BY DEF Started, TypeOK, Job
<1> QED
  BY <1>1, <1>2, <1>3, <1>4, Sets DEF Started, IbPlace, TcpPlace

\* Only given orders are under way, and handlers hold chunks of the data.
LEMMA StartedStep ==
    ASSUME IInv, TypeOK', Next
    PROVE  (JobsFit /\ Started)'
<1> USE DEF PutAt, RgetAt, GoPut, GoRget, Arrived, JobAt, IbPlace, TcpPlace,
           moveVars, syncVars, infoVars, recvVars, siteVars
<1>a. config' = config /\ Given \subseteq Order /\ config.gets \subseteq Get /\ (Ib \/ Protocol = "TCP")
  BY ConfigType DEF Next, IInv
<1>b. /\ JobsFit /\ Started /\ jobs \subseteq Job /\ msgs \subseteq Msg
      /\ put \in [Order -> PutPlace] /\ rget \in [Order -> GetPlace]
  BY DEF IInv, TypeOK
<1>1. ASSUME NEW x \in Given, HandleDmMove(x) PROVE (JobsFit /\ Started)'
  BY <1>a, <1>b, <1>1, Sets DEF HandleDmMove, JobsFit, Started, Job, Ib
<1>2. ASSUME NEW x \in Given, TransInfoWait(x) PROVE (JobsFit /\ Started)'
  <2>1. /\ jobs' \subseteq jobs /\ msgs' \subseteq msgs
        /\ \A y \in Order : put'[y] = "new" <=> put[y] = "new"
        /\ \A y \in Order : \/ rget'[y] = rget[y]
                            \/ /\ rget[y] # "none"
                               /\ rget'[y] \in IbPlace => Ib
                               /\ rget'[y] \in TcpPlace => ~Ib
    BY <1>a, <1>b, <1>2 DEF TransInfoWait, Ib, Started
  <2> QED
    BY <1>a, <1>b, <2>1, StartedStays DEF IInv
<1>3. ASSUME NEW x \in Given, TransInfoResume(x) PROVE (JobsFit /\ Started)'
  <2>1. /\ jobs' \subseteq jobs /\ msgs' \subseteq msgs
        /\ \A y \in Order : put'[y] = "new" <=> put[y] = "new"
        /\ \A y \in Order : \/ rget'[y] = rget[y]
                            \/ /\ rget[y] # "none"
                               /\ rget'[y] \in IbPlace => Ib
                               /\ rget'[y] \in TcpPlace => ~Ib
    BY <1>a, <1>b, <1>3 DEF TransInfoResume, Ib, Started
  <2> QED
    BY <1>a, <1>b, <2>1, StartedStays DEF IInv
<1>4. ASSUME NEW x \in Given, HandleTinfoReply(x) PROVE (JobsFit /\ Started)'
  <2>1. /\ jobs' \subseteq jobs /\ msgs' \subseteq msgs
        /\ \A y \in Order : put'[y] = "new" <=> put[y] = "new"
        /\ \A y \in Order : \/ rget'[y] = rget[y]
                            \/ /\ rget[y] # "none"
                               /\ rget'[y] \in IbPlace => Ib
                               /\ rget'[y] \in TcpPlace => ~Ib
    BY <1>a, <1>b, <1>4 DEF HandleTinfoReply, Ib, Started
  <2> QED
    BY <1>a, <1>b, <2>1, StartedStays DEF IInv
<1>5. ASSUME NEW x \in Given, RemotePutLookUp(x) PROVE (JobsFit /\ Started)'
  <2>1. /\ jobs' \subseteq jobs /\ msgs' \subseteq msgs
        /\ \A y \in Order : put'[y] = "new" <=> put[y] = "new"
        /\ \A y \in Order : \/ rget'[y] = rget[y]
                            \/ /\ rget[y] # "none"
                               /\ rget'[y] \in IbPlace => Ib
                               /\ rget'[y] \in TcpPlace => ~Ib
    BY <1>a, <1>b, <1>5 DEF RemotePutLookUp, Ib, Started
  <2> QED
    BY <1>a, <1>b, <2>1, StartedStays DEF IInv
<1>6. ASSUME NEW x \in Given, RemotePutFails(x) PROVE (JobsFit /\ Started)'
  BY <1>a, <1>b, <1>6, Sets DEF RemotePutFails, JobsFit, Started, Job, Ib
<1>7. ASSUME NEW x \in Given, RemotePut(x) PROVE (JobsFit /\ Started)'
  <2>1. CASE TcpSend(x, addr[x].site) \/ TcpRefused(x, addr[x].site) \/ IbRefused(x, addr[x])
    <3>1. /\ jobs' = jobs /\ msgs' = msgs /\ rget' = rget
          /\ \A y \in Order : put'[y] = "new" <=> put[y] = "new"
      BY <1>a, <1>b, <1>7, <2>1 DEF RemotePut, TcpSend, TcpRefused, IbRefused
    <3> QED
      BY <1>a, <1>b, <3>1, StartedStays DEF IInv
  <2>2. CASE IbSend(x, addr[x]) /\ Ib
    <3> DEFINE K(z) == [order |-> x, at |-> z.dst, first |-> 1, size |-> N, off |-> 0, pc |-> "read"]
    <3>0. PICK z \in Order :
             /\ put' = [put EXCEPT ![x] = "send"] /\ rget' = [rget EXCEPT ![z] = "serve"]
             /\ rget[z] \in {"listen", "serve"} /\ msgs' = msgs /\ put[x] = "fetch"
             /\ jobs' = jobs \cup {K(z)}
      BY <1>7, <2>2 DEF RemotePut, IbSend, Listening, Serving
    <3> DEFINE k == K(z)
    <3>1. jobs' = jobs \cup {k} /\ k.order = x /\ k.first = 1 /\ k.size = N
      BY <3>0
    <3> HIDE DEF k
    <3>2. N \in Nat /\ x \in Order
      BY <1>a, ConfigType DEF IInv
    <3>3. JobsFit'
      BY <1>a, <1>b, <3>1, <3>2, Sets DEF JobsFit
    <3> QED
      BY <1>a, <1>b, <2>2, <3>0, <3>1, <3>2, <3>3, Sets DEF Started, Job
  <2> QED
    BY <1>7, <2>1, <2>2 DEF RemotePut, Ib
<1>8. ASSUME NEW x \in Given, HandleTinfoQuery(x) PROVE (JobsFit /\ Started)'
  BY <1>a, <1>b, <1>8, Sets DEF HandleTinfoQuery, HandOut, JobsFit, Started, Job, Ib
<1>9. ASSUME NEW x \in Given, PopTest(x) PROVE (JobsFit /\ Started)'
  <2>1. /\ jobs' \subseteq jobs /\ msgs' \subseteq msgs
        /\ \A y \in Order : put'[y] = "new" <=> put[y] = "new"
        /\ \A y \in Order : \/ rget'[y] = rget[y]
                            \/ /\ rget[y] # "none"
                               /\ rget'[y] \in IbPlace => Ib
                               /\ rget'[y] \in TcpPlace => ~Ib
    BY <1>a, <1>b, <1>9 DEF PopTest, Ib, Started
  <2> QED
    BY <1>a, <1>b, <2>1, StartedStays DEF IInv
<1>10. ASSUME NEW x \in Given, PopWait(x) PROVE (JobsFit /\ Started)'
  <2>1. /\ jobs' \subseteq jobs /\ msgs' \subseteq msgs
        /\ \A y \in Order : put'[y] = "new" <=> put[y] = "new"
        /\ \A y \in Order : \/ rget'[y] = rget[y]
                            \/ /\ rget[y] # "none"
                               /\ rget'[y] \in IbPlace => Ib
                               /\ rget'[y] \in TcpPlace => ~Ib
    BY <1>a, <1>b, <1>10 DEF PopWait, Ib, Started
  <2> QED
    BY <1>a, <1>b, <2>1, StartedStays DEF IInv
<1>11. ASSUME NEW x \in Given, PopTake(x) PROVE (JobsFit /\ Started)'
  BY <1>a, <1>b, <1>11, Sets DEF PopTake, HandOut, JobsFit, Started, Job, Ib
<1>12. ASSUME NEW x \in Given, WaGet(x) PROVE (JobsFit /\ Started)'
  <2>1. /\ jobs' \subseteq jobs /\ msgs' \subseteq msgs
        /\ \A y \in Order : put'[y] = "new" <=> put[y] = "new"
        /\ \A y \in Order : \/ rget'[y] = rget[y]
                            \/ /\ rget[y] # "none"
                               /\ rget'[y] \in IbPlace => Ib
                               /\ rget'[y] \in TcpPlace => ~Ib
    BY <1>a, <1>b, <1>12 DEF WaGet, Ib, Started
  <2> QED
    BY <1>a, <1>b, <2>1, StartedStays DEF IInv
<1>13. ASSUME NEW x \in Given, InitGet(x) PROVE (JobsFit /\ Started)'
  <2>1. /\ jobs' \subseteq jobs /\ msgs' \subseteq msgs
        /\ \A y \in Order : put'[y] = "new" <=> put[y] = "new"
        /\ \A y \in Order : \/ rget'[y] = rget[y]
                            \/ /\ rget[y] # "none"
                               /\ rget'[y] \in IbPlace => Ib
                               /\ rget'[y] \in TcpPlace => ~Ib
    BY <1>a, <1>b, <1>13 DEF InitGet, Ib
  <2> QED
    BY <1>a, <1>b, <2>1, StartedStays DEF IInv
<1>14. ASSUME NEW x \in Given, TcpWait(x) PROVE (JobsFit /\ Started)'
  <2>1. /\ jobs' \subseteq jobs /\ msgs' \subseteq msgs
        /\ \A y \in Order : put'[y] = "new" <=> put[y] = "new"
        /\ \A y \in Order : \/ rget'[y] = rget[y]
                            \/ /\ rget[y] # "none"
                               /\ rget'[y] \in IbPlace => Ib
                               /\ rget'[y] \in TcpPlace => ~Ib
    BY <1>a, <1>b, <1>14 DEF TcpWait, Ib, Started
  <2> QED
    BY <1>a, <1>b, <2>1, StartedStays DEF IInv
<1>15. ASSUME NEW x \in Given, TcpResume(x) PROVE (JobsFit /\ Started)'
  <2>1. /\ jobs' \subseteq jobs /\ msgs' \subseteq msgs
        /\ \A y \in Order : put'[y] = "new" <=> put[y] = "new"
        /\ \A y \in Order : \/ rget'[y] = rget[y]
                            \/ /\ rget[y] # "none"
                               /\ rget'[y] \in IbPlace => Ib
                               /\ rget'[y] \in TcpPlace => ~Ib
    BY <1>a, <1>b, <1>15 DEF TcpResume, Ib, Started
  <2> QED
    BY <1>a, <1>b, <2>1, StartedStays DEF IInv
<1>16. ASSUME NEW x \in Given, IbServed(x) PROVE (JobsFit /\ Started)'
  <2>1. /\ jobs' \subseteq jobs /\ msgs' \subseteq msgs
        /\ \A y \in Order : put'[y] = "new" <=> put[y] = "new"
        /\ \A y \in Order : \/ rget'[y] = rget[y]
                            \/ /\ rget[y] # "none"
                               /\ rget'[y] \in IbPlace => Ib
                               /\ rget'[y] \in TcpPlace => ~Ib
    BY <1>a, <1>b, <1>16 DEF IbServed, Ib, Started
  <2> QED
    BY <1>a, <1>b, <2>1, StartedStays DEF IInv
<1>17. ASSUME NEW x \in Given, PortNotify(x) PROVE (JobsFit /\ Started)'
  <2>1. /\ jobs' \subseteq jobs /\ msgs' \subseteq msgs
        /\ \A y \in Order : put'[y] = "new" <=> put[y] = "new"
        /\ \A y \in Order : \/ rget'[y] = rget[y]
                            \/ /\ rget[y] # "none"
                               /\ rget'[y] \in IbPlace => Ib
                               /\ rget'[y] \in TcpPlace => ~Ib
    BY <1>a, <1>b, <1>17 DEF PortNotify, Ib, Started
  <2> QED
    BY <1>a, <1>b, <2>1, StartedStays DEF IInv
<1>18. ASSUME NEW x \in Given, RecvChunk(x) PROVE (JobsFit /\ Started)'
  <2> DEFINE k == [order |-> x, at |-> wire[x].site, first |-> wire[x].read + 1, size |-> 1,
                   off |-> 0, pc |-> "read"]
  <2>1. /\ put[x] = "sent" /\ UNCHANGED <<put, rget, msgs>>
        /\ jobs' = jobs \cup {k} /\ wire[x].read + 1 <= N
    BY <1>18 DEF RecvChunk
  <2>2. k.order = x /\ k.first + k.size <= N + 1
    <3>1. wire[x].read \in Nat /\ N \in Nat
      BY <1>a, ConfigType DEF IInv, TypeOK
    <3> QED
      BY <2>1, <3>1
  <2> HIDE DEF k
  <2>3. JobsFit'
    BY <1>a, <1>b, <2>1, <2>2, Sets DEF JobsFit
  <2> QED
    BY <1>a, <1>b, <2>1, <2>2, <2>3, Sets DEF Started, Job
<1>19. ASSUME NEW x \in Given, SyncPut(x) PROVE (JobsFit /\ Started)'
  <2>1. /\ jobs' \subseteq jobs /\ msgs' \subseteq msgs
        /\ \A y \in Order : put'[y] = "new" <=> put[y] = "new"
        /\ \A y \in Order : \/ rget'[y] = rget[y]
                            \/ /\ rget[y] # "none"
                               /\ rget'[y] \in IbPlace => Ib
                               /\ rget'[y] \in TcpPlace => ~Ib
    BY <1>a, <1>b, <1>19 DEF SyncPut, Ib, Started
  <2> QED
    BY <1>a, <1>b, <2>1, StartedStays DEF IInv
<1>20. ASSUME NEW x \in Given, WaGetDone(x) PROVE (JobsFit /\ Started)'
  <2>1. /\ jobs' \subseteq jobs /\ msgs' \subseteq msgs
        /\ \A y \in Order : put'[y] = "new" <=> put[y] = "new"
        /\ \A y \in Order : \/ rget'[y] = rget[y]
                            \/ /\ rget[y] # "none"
                               /\ rget'[y] \in IbPlace => Ib
                               /\ rget'[y] \in TcpPlace => ~Ib
    BY <1>a, <1>b, <1>20 DEF WaGetDone, Ib, Started
  <2> QED
    BY <1>a, <1>b, <2>1, StartedStays DEF IInv
<1>21. ASSUME NEW x \in Given, ListRemote(x) PROVE (JobsFit /\ Started)'
  <2>1. /\ jobs' \subseteq jobs /\ msgs' \subseteq msgs
        /\ \A y \in Order : put'[y] = "new" <=> put[y] = "new"
        /\ \A y \in Order : \/ rget'[y] = rget[y]
                            \/ /\ rget[y] # "none"
                               /\ rget'[y] \in IbPlace => Ib
                               /\ rget'[y] \in TcpPlace => ~Ib
    BY <1>a, <1>b, <1>21 DEF ListRemote, Ib, Started
  <2> QED
    BY <1>a, <1>b, <2>1, StartedStays DEF IInv
<1>22. ASSUME NEW x \in Given, NotifyRemoteGetDone(x) PROVE (JobsFit /\ Started)'
  <2>1. /\ jobs' \subseteq jobs /\ msgs' \subseteq msgs
        /\ \A y \in Order : put'[y] = "new" <=> put[y] = "new"
        /\ \A y \in Order : \/ rget'[y] = rget[y]
                            \/ /\ rget[y] # "none"
                               /\ rget'[y] \in IbPlace => Ib
                               /\ rget'[y] \in TcpPlace => ~Ib
    BY <1>a, <1>b, <1>22 DEF NotifyRemoteGetDone, Ib, Started
  <2> QED
    BY <1>a, <1>b, <2>1, StartedStays DEF IInv
<1>23. ASSUME NEW x \in Given, HandleFailRemoteGet(x) PROVE (JobsFit /\ Started)'
  <2>1. /\ jobs' \subseteq jobs /\ msgs' \subseteq msgs
        /\ \A y \in Order : put'[y] = "new" <=> put[y] = "new"
        /\ \A y \in Order : \/ rget'[y] = rget[y]
                            \/ /\ rget[y] # "none"
                               /\ rget'[y] \in IbPlace => Ib
                               /\ rget'[y] \in TcpPlace => ~Ib
    BY <1>a, <1>b, <1>23 DEF HandleFailRemoteGet, Ib, Started
  <2> QED
    BY <1>a, <1>b, <2>1, StartedStays DEF IInv
<1>24. ASSUME NEW j \in jobs, HandlerRead(j) PROVE (JobsFit /\ Started)'
  <2>1. UNCHANGED <<rget, msgs>> /\ \A y \in Order : put'[y] = "new" <=> put[y] = "new"
    BY <1>a, <1>b, <1>24 DEF HandlerRead
  <2>2. PICK k : /\ k.order = j.order /\ k.first = j.first /\ k.size = j.size
                 /\ jobs' \subseteq (jobs \ {j}) \cup {k}
    BY <1>24, HandlerJobs DEF IInv, HandlerStep
  <2> QED
    BY <1>a, <1>b, <2>1, <2>2, Sets DEF JobsFit, Started, Job
<1>25. ASSUME NEW j \in jobs, HandlerCopy(j) PROVE (JobsFit /\ Started)'
  <2>1. UNCHANGED <<rget, msgs>> /\ \A y \in Order : put'[y] = "new" <=> put[y] = "new"
    BY <1>a, <1>b, <1>25 DEF HandlerCopy
  <2>2. PICK k : /\ k.order = j.order /\ k.first = j.first /\ k.size = j.size
                 /\ jobs' \subseteq (jobs \ {j}) \cup {k}
    BY <1>25, HandlerJobs DEF IInv, HandlerStep
  <2> QED
    BY <1>a, <1>b, <2>1, <2>2, Sets DEF JobsFit, Started, Job
<1>26. ASSUME NEW j \in jobs, HandlerAdd(j) PROVE (JobsFit /\ Started)'
  <2>1. UNCHANGED <<rget, msgs>> /\ \A y \in Order : put'[y] = "new" <=> put[y] = "new"
    BY <1>a, <1>b, <1>26 DEF HandlerAdd
  <2>2. PICK k : /\ k.order = j.order /\ k.first = j.first /\ k.size = j.size
                 /\ jobs' \subseteq (jobs \ {j}) \cup {k}
    BY <1>26, HandlerJobs DEF IInv, HandlerStep
  <2> QED
    BY <1>a, <1>b, <2>1, <2>2, Sets DEF JobsFit, Started, Job
<1>27. ASSUME NEW j \in jobs, IbBroken(j) PROVE (JobsFit /\ Started)'
  <2>1. UNCHANGED <<rget, msgs>> /\ \A y \in Order : put'[y] = "new" <=> put[y] = "new"
    BY <1>a, <1>b, <1>27 DEF IbBroken, Started, Job
  <2>2. PICK k : /\ k.order = j.order /\ k.first = j.first /\ k.size = j.size
                 /\ jobs' \subseteq (jobs \ {j}) \cup {k}
    BY <1>27, HandlerJobs DEF IInv, HandlerStep
  <2> QED
    BY <1>a, <1>b, <2>1, <2>2, Sets DEF JobsFit, Started, Job
<1>28. ASSUME NEW j \in jobs, IbTangled(j) PROVE (JobsFit /\ Started)'
  <2>1. UNCHANGED <<rget, msgs>> /\ \A y \in Order : put'[y] = "new" <=> put[y] = "new"
    BY <1>a, <1>b, <1>28 DEF IbTangled
  <2>2. PICK k : /\ k.order = j.order /\ k.first = j.first /\ k.size = j.size
                 /\ jobs' \subseteq (jobs \ {j}) \cup {k}
    BY <1>28, HandlerJobs DEF IInv, HandlerStep
  <2> QED
    BY <1>a, <1>b, <2>1, <2>2, Sets DEF JobsFit, Started, Job
<1>29. CASE \/ \E g \in config.gets : GetCheck(g) \/ GetWait(g) \/ GetResume(g)
            \/ \E n \in Site : InitListen(n)
  <2>1. UNCHANGED <<put, rget, msgs, jobs>>
    BY <1>29 DEF GetCheck, GetWait, GetResume, InitListen
  <2> QED
    BY <1>a, <1>b, <2>1, StartedStays DEF IInv
<1> QED
  BY <1>1, <1>2, <1>3, <1>4, <1>5, <1>6, <1>7, <1>8, <1>9, <1>10, <1>11, <1>12, <1>13, <1>14, <1>15,
     <1>16, <1>17, <1>18, <1>19, <1>20, <1>21, <1>22, <1>23, <1>24, <1>25, <1>26, <1>27, <1>28,
     <1>29 DEF Next, HolderStep, DestinationStep, HandlerStep, Given

\* A notify of rfp_syncer for data that is listed or marked releases a get that
\* waits for this data.
LEMMA Released ==
    ASSUME TypeOK, GetWaits, NEW n \in Site, NEW d \in Data,
           \E s \in Notify(rfpsync[n], d) : rfpsync' = [rfpsync EXCEPT ![n] = s],
           d \in qtable'[n] \cup failed'[n], get' = get,
           \A m \in Site : qtable[m] \subseteq qtable'[m] /\ failed[m] \subseteq failed'[m],
           \A x \in Order : rget'[x] = "listed" => rget[x] = "listed"
    PROVE  GetWaits'
<1>1. PICK s \in Notify(rfpsync[n], d) : rfpsync' = [rfpsync EXCEPT ![n] = s]
  OBVIOUS
<1>2. /\ rfpsync \in [Site -> SyncerType(Data, Get)]
      /\ \A m \in Site : rfpsync'[m] = IF m = n THEN s ELSE rfpsync[m]
  BY <1>1 DEF TypeOK
<1>3. /\ s.parked \subseteq rfpsync[n].parked
      /\ \A g \in s.woken : g \in rfpsync[n].woken \/ <<d, g>> \in rfpsync[n].parked
  <2>1. rfpsync[n].parked \subseteq Data \X Get
    BY <1>2 DEF SyncerType
  <2> QED
    BY <1>1, <2>1, NotifyEffect
<1>4. \A m \in Site : rfpsync[m].woken \subseteq Get /\ rfpsync[m].parked \subseteq Data \X Get
  BY <1>2 DEF SyncerType
<1>5. \A g \in Get : Ended(g) => Ended(g)'
  BY ConstType DEF Ended
<1>6. \A m \in Site : \A w \in rfpsync'[m].parked : w[1] = w[2].dat /\ m = w[2].site
  BY <1>2, <1>3 DEF GetWaits
<1>7. \A m \in Site : \A g \in rfpsync'[m].woken : m = g.site /\ Ended(g)'
  <2> SUFFICES ASSUME NEW m \in Site, NEW g \in rfpsync'[m].woken PROVE m = g.site /\ Ended(g)'
    OBVIOUS
  <2>1. CASE g \in rfpsync[m].woken
    BY <1>4, <1>5, <2>1 DEF GetWaits
  <2>2. CASE g \notin rfpsync[m].woken
    <3>1. m = n /\ <<d, g>> \in rfpsync[n].parked
      BY <1>2, <1>3, <2>2
    <3>2. g \in Get /\ d = g.dat /\ n = g.site
      BY <1>4, <3>1 DEF GetWaits
    <3> QED
      BY <3>1, <3>2 DEF Ended
  <2> QED
    BY <2>1, <2>2
<1>8. \A x \in Order : rget'[x] = "listed" => x.dat \in qtable'[x.dst]
  BY ConstType DEF GetWaits
<1> QED
  BY <1>5, <1>6, <1>7, <1>8 DEF GetWaits

\* What wait_for_get goes by stays as it is when nobody is released, and no
\* listed data is taken off the list.
LEMMA GetWaitsStay ==
    ASSUME TypeOK, GetWaits, UNCHANGED <<rfpsync, get>>,
           \A n \in Site : qtable[n] \subseteq qtable'[n] /\ failed[n] \subseteq failed'[n],
           \A x \in Order : rget'[x] = "listed" => rget[x] = "listed" \/ x.dat \in qtable'[x.dst]
    PROVE  GetWaits'
<1>1. \A g \in Get : Ended(g) => Ended(g)'
  BY ConstType DEF Ended
<1>2. \A n \in Site : rfpsync[n].woken \subseteq Get
  BY DEF TypeOK, SyncerType
<1> QED
  BY <1>1, <1>2, ConstType DEF GetWaits

\* A get that is released finds its data listed or marked.
LEMMA GetWaitsStep ==
    ASSUME IInv, TypeOK', Next
    PROVE  GetWaits'
<1> USE DEF PutAt, RgetAt, GoPut, GoRget, Arrived, JobAt,
           moveVars, syncVars, infoVars, recvVars, siteVars
<1>a. config' = config /\ Given \subseteq Order /\ config.gets \subseteq Get
  BY ConfigType DEF Next, IInv
<1>b. /\ TypeOK /\ GetWaits /\ rfpsync \in [Site -> SyncerType(Data, Get)]
      /\ qtable \in [Site -> SUBSET Data] /\ failed \in [Site -> SUBSET Data]
      /\ get \in [Get -> {"new", "seen", "wait", "woken", "passed"}]
      /\ rget \in [Order -> GetPlace]
  BY DEF IInv, TypeOK
<1>1. ASSUME NEW x \in Given, HandleDmMove(x) PROVE GetWaits'
  <2>1. UNCHANGED <<rfpsync, qtable, failed, get>>
    BY <1>1 DEF HandleDmMove
  <2>2. \A y \in Order : rget'[y] = "listed" => rget[y] = "listed"
    BY <1>a, <1>b, <1>1 DEF HandleDmMove
  <2> QED
    BY <1>b, <2>1, <2>2, GetWaitsStay
<1>2. ASSUME NEW x \in Given, TransInfoWait(x) PROVE GetWaits'
  <2>1. UNCHANGED <<rfpsync, qtable, failed, get>>
    BY <1>2 DEF TransInfoWait
  <2>2. \A y \in Order : rget'[y] = "listed" => rget[y] = "listed"
    BY <1>a, <1>b, <1>2 DEF TransInfoWait
  <2> QED
    BY <1>b, <2>1, <2>2, GetWaitsStay
<1>3. ASSUME NEW x \in Given, TransInfoResume(x) PROVE GetWaits'
  <2>1. UNCHANGED <<rfpsync, qtable, failed, get>>
    BY <1>3 DEF TransInfoResume
  <2>2. \A y \in Order : rget'[y] = "listed" => rget[y] = "listed"
    BY <1>a, <1>b, <1>3 DEF TransInfoResume
  <2> QED
    BY <1>b, <2>1, <2>2, GetWaitsStay
<1>4. ASSUME NEW x \in Given, HandleTinfoReply(x) PROVE GetWaits'
  <2>1. UNCHANGED <<rfpsync, qtable, failed, get>>
    BY <1>4 DEF HandleTinfoReply
  <2>2. \A y \in Order : rget'[y] = "listed" => rget[y] = "listed"
    BY <1>a, <1>b, <1>4 DEF HandleTinfoReply
  <2> QED
    BY <1>b, <2>1, <2>2, GetWaitsStay
<1>5. ASSUME NEW x \in Given, RemotePutLookUp(x) PROVE GetWaits'
  <2>1. UNCHANGED <<rfpsync, qtable, failed, get>>
    BY <1>5 DEF RemotePutLookUp
  <2>2. \A y \in Order : rget'[y] = "listed" => rget[y] = "listed"
    BY <1>a, <1>b, <1>5 DEF RemotePutLookUp
  <2> QED
    BY <1>b, <2>1, <2>2, GetWaitsStay
<1>6. ASSUME NEW x \in Given, RemotePutFails(x) PROVE GetWaits'
  <2>1. UNCHANGED <<rfpsync, qtable, failed, get>>
    BY <1>6 DEF RemotePutFails
  <2>2. \A y \in Order : rget'[y] = "listed" => rget[y] = "listed"
    BY <1>a, <1>b, <1>6 DEF RemotePutFails
  <2> QED
    BY <1>b, <2>1, <2>2, GetWaitsStay
<1>7. ASSUME NEW x \in Given, RemotePut(x) PROVE GetWaits'
  <2>1. UNCHANGED <<rfpsync, qtable, failed, get>>
    BY <1>7 DEF RemotePut
  <2>2. rget' = rget \/ \E z : rget' = [rget EXCEPT ![z] = "serve"]
    BY <1>7 DEF RemotePut, TcpSend, TcpRefused, IbSend, IbRefused
  <2>3. \A y \in Order : rget'[y] = "listed" => rget[y] = "listed"
    BY <1>b, <2>2
  <2> QED
    BY <1>b, <2>1, <2>3, GetWaitsStay
<1>8. ASSUME NEW x \in Given, HandleTinfoQuery(x) PROVE GetWaits'
  <2>1. UNCHANGED <<rfpsync, qtable, failed, get>>
    BY <1>8 DEF HandleTinfoQuery, HandOut
  <2>2. \A y \in Order : rget'[y] = "listed" => rget[y] = "listed"
    BY <1>a, <1>b, <1>8 DEF HandleTinfoQuery, HandOut
  <2> QED
    BY <1>b, <2>1, <2>2, GetWaitsStay
<1>9. ASSUME NEW x \in Given, PopTest(x) PROVE GetWaits'
  <2>1. UNCHANGED <<rfpsync, qtable, failed, get>>
    BY <1>9 DEF PopTest
  <2>2. \A y \in Order : rget'[y] = "listed" => rget[y] = "listed"
    BY <1>a, <1>b, <1>9 DEF PopTest
  <2> QED
    BY <1>b, <2>1, <2>2, GetWaitsStay
<1>10. ASSUME NEW x \in Given, PopWait(x) PROVE GetWaits'
  <2>1. UNCHANGED <<rfpsync, qtable, failed, get>>
    BY <1>10 DEF PopWait
  <2>2. \A y \in Order : rget'[y] = "listed" => rget[y] = "listed"
    BY <1>a, <1>b, <1>10 DEF PopWait
  <2> QED
    BY <1>b, <2>1, <2>2, GetWaitsStay
<1>11. ASSUME NEW x \in Given, PopTake(x) PROVE GetWaits'
  <2>1. UNCHANGED <<rfpsync, qtable, failed, get>>
    BY <1>11 DEF PopTake, HandOut
  <2>2. \A y \in Order : rget'[y] = "listed" => rget[y] = "listed"
    BY <1>a, <1>b, <1>11 DEF PopTake, HandOut
  <2> QED
    BY <1>b, <2>1, <2>2, GetWaitsStay
<1>12. ASSUME NEW x \in Given, WaGet(x) PROVE GetWaits'
  <2>1. UNCHANGED <<rfpsync, qtable, failed, get>>
    BY <1>12 DEF WaGet
  <2>2. \A y \in Order : rget'[y] = "listed" => rget[y] = "listed"
    BY <1>a, <1>b, <1>12 DEF WaGet
  <2> QED
    BY <1>b, <2>1, <2>2, GetWaitsStay
<1>13. ASSUME NEW x \in Given, InitGet(x) PROVE GetWaits'
  <2>1. UNCHANGED <<rfpsync, qtable, failed, get>>
    BY <1>13 DEF InitGet
  <2>2. \A y \in Order : rget'[y] = "listed" => rget[y] = "listed"
    BY <1>a, <1>b, <1>13 DEF InitGet
  <2> QED
    BY <1>b, <2>1, <2>2, GetWaitsStay
<1>14. ASSUME NEW x \in Given, TcpWait(x) PROVE GetWaits'
  <2>1. UNCHANGED <<rfpsync, qtable, failed, get>>
    BY <1>14 DEF TcpWait
  <2>2. \A y \in Order : rget'[y] = "listed" => rget[y] = "listed"
    BY <1>a, <1>b, <1>14 DEF TcpWait
  <2> QED
    BY <1>b, <2>1, <2>2, GetWaitsStay
<1>15. ASSUME NEW x \in Given, TcpResume(x) PROVE GetWaits'
  <2>1. UNCHANGED <<rfpsync, qtable, failed, get>>
    BY <1>15 DEF TcpResume
  <2>2. \A y \in Order : rget'[y] = "listed" => rget[y] = "listed"
    BY <1>a, <1>b, <1>15 DEF TcpResume
  <2> QED
    BY <1>b, <2>1, <2>2, GetWaitsStay
<1>16. ASSUME NEW x \in Given, IbServed(x) PROVE GetWaits'
  <2>1. UNCHANGED <<rfpsync, qtable, failed, get>>
    BY <1>16 DEF IbServed
  <2>2. \A y \in Order : rget'[y] = "listed" => rget[y] = "listed"
    BY <1>a, <1>b, <1>16 DEF IbServed
  <2> QED
    BY <1>b, <2>1, <2>2, GetWaitsStay
<1>17. ASSUME NEW x \in Given, PortNotify(x) PROVE GetWaits'
  <2>1. UNCHANGED <<rfpsync, qtable, failed, get>>
    BY <1>17 DEF PortNotify
  <2>2. \A y \in Order : rget'[y] = "listed" => rget[y] = "listed"
    BY <1>a, <1>b, <1>17 DEF PortNotify
  <2> QED
    BY <1>b, <2>1, <2>2, GetWaitsStay
<1>18. ASSUME NEW x \in Given, RecvChunk(x) PROVE GetWaits'
  <2>1. UNCHANGED <<rfpsync, qtable, failed, get>>
    BY <1>18 DEF RecvChunk
  <2>2. \A y \in Order : rget'[y] = "listed" => rget[y] = "listed"
    BY <1>a, <1>b, <1>18 DEF RecvChunk
  <2> QED
    BY <1>b, <2>1, <2>2, GetWaitsStay
<1>19. ASSUME NEW x \in Given, SyncPut(x) PROVE GetWaits'
  <2>1. UNCHANGED <<rfpsync, qtable, failed, get>>
    BY <1>19 DEF SyncPut
  <2>2. \A y \in Order : rget'[y] = "listed" => rget[y] = "listed"
    BY <1>a, <1>b, <1>19 DEF SyncPut
  <2> QED
    BY <1>b, <2>1, <2>2, GetWaitsStay
<1>20. ASSUME NEW x \in Given, WaGetDone(x) PROVE GetWaits'
  <2>1. UNCHANGED <<rfpsync, qtable, failed, get>>
    BY <1>20 DEF WaGetDone
  <2>2. \A y \in Order : rget'[y] = "listed" => rget[y] = "listed"
    BY <1>a, <1>b, <1>20 DEF WaGetDone
  <2> QED
    BY <1>b, <2>1, <2>2, GetWaitsStay
<1>21. ASSUME NEW x \in Given, ListRemote(x) PROVE GetWaits'
  <2>1. x \in Order /\ x.dst \in Site /\ x.dat \in Data
    BY <1>a, ConstType
  <2>2. /\ qtable' = [qtable EXCEPT ![x.dst] = @ \cup {x.dat}] /\ UNCHANGED <<rfpsync, failed, get>>
        /\ \A y \in Order : y # x => rget'[y] = rget[y]
    BY <1>b, <1>21, <2>1 DEF ListRemote
  <2>3. \A n \in Site : qtable'[n] = IF n = x.dst THEN qtable[n] \cup {x.dat} ELSE qtable[n]
    BY <1>b, <2>2
  <2> QED
    BY <1>b, <2>1, <2>2, <2>3, GetWaitsStay
<1>22. ASSUME NEW x \in Given, NotifyRemoteGetDone(x) PROVE GetWaits'
  <2>1. x \in Order /\ x.dst \in Site /\ x.dat \in Data
    BY ConstType, ConfigType DEF IInv
  <2>2. x.dat \in qtable[x.dst]
    BY <1>22, <2>1 DEF NotifyRemoteGetDone, IInv, GetWaits
  <2>3. \A y \in Order : rget'[y] = "listed" => rget[y] = "listed"
    BY <1>22, <2>1 DEF NotifyRemoteGetDone, IInv, TypeOK
  <2>4. \E s \in Notify(rfpsync[x.dst], x.dat) : rfpsync' = [rfpsync EXCEPT ![x.dst] = s]
    BY <1>22 DEF NotifyRemoteGetDone
  <2>5. qtable' = qtable /\ failed' = failed /\ get' = get
    BY <1>22 DEF NotifyRemoteGetDone
  <2> QED
    BY <2>1, <2>2, <2>3, <2>4, <2>5, Released DEF IInv
<1>23. ASSUME NEW x \in Given, HandleFailRemoteGet(x) PROVE GetWaits'
  <2>1. x \in Order /\ x.dst \in Site /\ x.dat \in Data
    BY ConstType, ConfigType DEF IInv
  <2>2. /\ failed' = [failed EXCEPT ![x.dst] = @ \cup {x.dat}]
        /\ qtable' = qtable /\ get' = get
    BY <1>23 DEF HandleFailRemoteGet
  <2>3. \A y \in Order : rget'[y] = "listed" => rget[y] = "listed"
    BY <1>23, <2>1 DEF HandleFailRemoteGet, IInv, TypeOK
  <2>4. \/ rfpsync' = rfpsync
        \/ \E s \in Notify(rfpsync[x.dst], x.dat) : rfpsync' = [rfpsync EXCEPT ![x.dst] = s]
    BY <1>23 DEF HandleFailRemoteGet
  <2>5. /\ x.dat \in failed'[x.dst]
        /\ \A m \in Site : qtable[m] \subseteq qtable'[m] /\ failed[m] \subseteq failed'[m]
    BY <2>1, <2>2 DEF IInv, TypeOK
  <2>6. CASE rfpsync' = rfpsync
    BY <1>b, <2>2, <2>3, <2>5, <2>6 DEF GetWaits, Ended, SyncerType, AddWait, DelPoint
  <2>7. CASE \E s \in Notify(rfpsync[x.dst], x.dat) : rfpsync' = [rfpsync EXCEPT ![x.dst] = s]
    BY <2>1, <2>2, <2>3, <2>5, <2>7, Released DEF IInv
  <2> QED
    BY <2>4, <2>6, <2>7
<1>24. ASSUME NEW g \in config.gets, GetCheck(g) PROVE GetWaits'
  BY <1>a, <1>b, <1>24, ConstType DEF GetCheck, GetWaits, Ended, SyncerType, AddWait, DelPoint
<1>25. ASSUME NEW g \in config.gets, GetWait(g) PROVE GetWaits'
  BY <1>a, <1>b, <1>25, ConstType DEF GetWait, GetWaits, Ended, SyncerType, AddWait, DelPoint
<1>26. ASSUME NEW g \in config.gets, GetResume(g) PROVE GetWaits'
  BY <1>a, <1>b, <1>26, ConstType DEF GetResume, GetWaits, Ended, SyncerType, AddWait, DelPoint
<1>27. CASE \/ \E j \in jobs : HandlerRead(j) \/ HandlerCopy(j) \/ HandlerAdd(j) \/ IbBroken(j) \/
                  IbTangled(j)
            \/ \E n \in Site : InitListen(n)
  <2>1. UNCHANGED <<rfpsync, qtable, failed, get, rget>>
    BY <1>27 DEF HandlerRead, HandlerCopy, HandlerAdd, IbBroken, IbTangled, InitListen
  <2> QED
    BY <1>b, <2>1, GetWaitsStay
<1> QED
  BY <1>1, <1>2, <1>3, <1>4, <1>5, <1>6, <1>7, <1>8, <1>9, <1>10, <1>11, <1>12, <1>13, <1>14, <1>15,
     <1>16, <1>17, <1>18, <1>19, <1>20, <1>21, <1>22, <1>23, <1>24, <1>25, <1>26, <1>27 DEF Next,
     HolderStep, DestinationStep, HandlerStep, Given

\* The ends stay in step when no client comes or goes, no server is begun or
\* gone, and no handler loses either.
LEMMA InStepStays ==
    ASSUME TypeOK, InStep, config' = config, server' = server, jobs' \subseteq jobs,
           \A x \in Order : /\ put'[x] \in {"send", "sent", "broken"}
                                  <=> put[x] \in {"send", "sent", "broken"}
                            /\ rget'[x] \in Serves <=> rget[x] \in Serves
                            /\ <<"FAIL_REMOTE_GET", x>> \in msgs' => put'[x] = "fail",
           \A j \in jobs' : put'[j.order] = "send" /\ rget'[server[j.order]] = "serve"
    PROVE  InStep'
<1>1. Serves' = Serves
  BY DEF Serves
<1>2. \A x \in Order : server[x] # NoOrder => server[x] \in Order
  BY DEF TypeOK
<1> SUFFICES ASSUME Ib PROVE InStep'
  BY Sets DEF InStep
<1>3. Ends'
  BY <1>1, <1>2 DEF InStep, Ends
<1>4. N' = N
  BY Sets
<1>5. Handled'
  BY <1>4 DEF InStep, Handled
<1> QED
  BY <1>3, <1>5 DEF InStep

\* The clients and servers of transfers over InfiniBand stay in step.
LEMMA InStepStep ==
    ASSUME IInv, TypeOK', Next
    PROVE  InStep'
<1> USE DEF PutAt, RgetAt, GoPut, GoRget, Arrived, JobAt, Serves,
           moveVars, syncVars, infoVars, recvVars, siteVars
<1>a. config' = config /\ Given \subseteq Order /\ (~Ib => InStep')
  <2>1. config' = config
    BY DEF Next
  <2> QED
    BY <2>1, ConfigType, Sets DEF IInv, InStep
<1>b. /\ TypeOK /\ InStep /\ Started /\ jobs \subseteq Job
      /\ put \in [Order -> PutPlace] /\ rget \in [Order -> GetPlace]
      /\ server \in [Order -> Order \cup {NoOrder}] /\ NoOrder \notin Order
  BY ConstType DEF IInv, TypeOK
<1>c. Ib => \A j \in jobs : /\ j.order \in Order /\ server[j.order] \in Order
                            /\ put[j.order] = "send" /\ rget[server[j.order]] = "serve"
  <2> SUFFICES ASSUME Ib, NEW j \in jobs
               PROVE  /\ j.order \in Order /\ server[j.order] \in Order
                      /\ put[j.order] = "send" /\ rget[server[j.order]] = "serve"
    OBVIOUS
  <2>1. j.order \in Order
    BY <1>b DEF Job
  <2>2. put[j.order] = "send" /\ rget[server[j.order]] = "serve"
    BY <1>b DEF InStep, Ends, Handled
  <2>3. server[j.order] # NoOrder
    BY <1>b, <2>1, <2>2 DEF InStep, Ends, Handled
  <2> QED
    BY <1>b, <2>1, <2>2, <2>3
<1>1. ASSUME NEW x \in Given, HandleDmMove(x) PROVE InStep'
  <2> SUFFICES ASSUME Ib PROVE InStep'
    BY <1>a
  <2>1. /\ server' = server /\ jobs' = jobs
        /\ \A y \in Order : /\ put'[y] \in {"send", "sent", "broken"}
                                  <=> put[y] \in {"send", "sent", "broken"}
                            /\ rget'[y] \in Serves <=> rget[y] \in Serves
                            /\ <<"FAIL_REMOTE_GET", y>> \in msgs' => put'[y] = "fail"
        /\ \A y \in Order : /\ put[y] = "send" => put'[y] = "send"
                            /\ rget[y] = "serve" => rget'[y] = "serve"
    BY <1>a, <1>b, <1>1 DEF HandleDmMove, InStep, Ends, Handled
  <2> QED
    BY <1>a, <1>b, <1>c, <2>1, InStepStays
<1>2. ASSUME NEW x \in Given, TransInfoWait(x) PROVE InStep'
  <2> SUFFICES ASSUME Ib PROVE InStep'
    BY <1>a
  <2>1. /\ server' = server /\ jobs' = jobs
        /\ \A y \in Order : /\ put'[y] \in {"send", "sent", "broken"}
                                  <=> put[y] \in {"send", "sent", "broken"}
                            /\ rget'[y] \in Serves <=> rget[y] \in Serves
                            /\ <<"FAIL_REMOTE_GET", y>> \in msgs' => put'[y] = "fail"
        /\ \A y \in Order : /\ put[y] = "send" => put'[y] = "send"
                            /\ rget[y] = "serve" => rget'[y] = "serve"
    BY <1>a, <1>b, <1>2 DEF TransInfoWait, InStep, Ends, Handled
  <2> QED
    BY <1>a, <1>b, <1>c, <2>1, InStepStays
<1>3. ASSUME NEW x \in Given, TransInfoResume(x) PROVE InStep'
  <2> SUFFICES ASSUME Ib PROVE InStep'
    BY <1>a
  <2>1. /\ server' = server /\ jobs' = jobs
        /\ \A y \in Order : /\ put'[y] \in {"send", "sent", "broken"}
                                  <=> put[y] \in {"send", "sent", "broken"}
                            /\ rget'[y] \in Serves <=> rget[y] \in Serves
                            /\ <<"FAIL_REMOTE_GET", y>> \in msgs' => put'[y] = "fail"
        /\ \A y \in Order : /\ put[y] = "send" => put'[y] = "send"
                            /\ rget[y] = "serve" => rget'[y] = "serve"
    BY <1>a, <1>b, <1>3 DEF TransInfoResume, InStep, Ends, Handled
  <2> QED
    BY <1>a, <1>b, <1>c, <2>1, InStepStays
<1>4. ASSUME NEW x \in Given, HandleTinfoReply(x) PROVE InStep'
  <2> SUFFICES ASSUME Ib PROVE InStep'
    BY <1>a
  <2>1. /\ server' = server /\ jobs' = jobs
        /\ \A y \in Order : /\ put'[y] \in {"send", "sent", "broken"}
                                  <=> put[y] \in {"send", "sent", "broken"}
                            /\ rget'[y] \in Serves <=> rget[y] \in Serves
                            /\ <<"FAIL_REMOTE_GET", y>> \in msgs' => put'[y] = "fail"
        /\ \A y \in Order : /\ put[y] = "send" => put'[y] = "send"
                            /\ rget[y] = "serve" => rget'[y] = "serve"
    BY <1>a, <1>b, <1>4 DEF HandleTinfoReply, InStep, Ends, Handled
  <2> QED
    BY <1>a, <1>b, <1>c, <2>1, InStepStays
<1>5. ASSUME NEW x \in Given, RemotePutLookUp(x) PROVE InStep'
  <2> SUFFICES ASSUME Ib PROVE InStep'
    BY <1>a
  <2>1. /\ server' = server /\ jobs' = jobs
        /\ \A y \in Order : /\ put'[y] \in {"send", "sent", "broken"}
                                  <=> put[y] \in {"send", "sent", "broken"}
                            /\ rget'[y] \in Serves <=> rget[y] \in Serves
                            /\ <<"FAIL_REMOTE_GET", y>> \in msgs' => put'[y] = "fail"
        /\ \A y \in Order : /\ put[y] = "send" => put'[y] = "send"
                            /\ rget[y] = "serve" => rget'[y] = "serve"
    BY <1>a, <1>b, <1>5 DEF RemotePutLookUp, InStep, Ends, Handled
  <2> QED
    BY <1>a, <1>b, <1>c, <2>1, InStepStays
<1>6. ASSUME NEW x \in Given, RemotePutFails(x) PROVE InStep'
  <2> SUFFICES ASSUME Ib PROVE InStep'
    BY <1>a
  <2>1. /\ server' = server /\ jobs' = jobs
        /\ \A y \in Order : /\ put'[y] \in {"send", "sent", "broken"}
                                  <=> put[y] \in {"send", "sent", "broken"}
                            /\ rget'[y] \in Serves <=> rget[y] \in Serves
                            /\ <<"FAIL_REMOTE_GET", y>> \in msgs' => put'[y] = "fail"
        /\ \A y \in Order : /\ put[y] = "send" => put'[y] = "send"
                            /\ rget[y] = "serve" => rget'[y] = "serve"
    BY <1>a, <1>b, <1>6 DEF RemotePutFails, InStep, Ends, Handled
  <2> QED
    BY <1>a, <1>b, <1>c, <2>1, InStepStays
<1>7. ASSUME NEW x \in Given, RemotePut(x) PROVE InStep'
  <2>1. CASE ~IbSend(x, addr[x])
    <3> SUFFICES ASSUME Ib PROVE InStep'
      BY <1>a
    <3>1. UNCHANGED <<put, rget, msgs, jobs, server>>
      BY <1>7, <2>1 DEF RemotePut, IbRefused, Ib
    <3> QED
      BY <1>a, <1>b, <1>c, <3>1, InStepStays DEF InStep, Ends, Handled
  <2>2. CASE IbSend(x, addr[x]) /\ Ib
    <3> DEFINE K(z) == [order |-> x, at |-> z.dst, first |-> 1, size |-> N, off |-> 0, pc |-> "read"]
    <3>1. PICK z \in Order :
             /\ put' = [put EXCEPT ![x] = "send"] /\ rget' = [rget EXCEPT ![z] = "serve"]
             /\ server' = [server EXCEPT ![x] = z]
             /\ rget[z] \in {"listen", "serve"} /\ msgs' = msgs /\ put[x] = "fetch"
             /\ jobs' = jobs \cup {K(z)}
      BY <1>7, <2>2 DEF RemotePut, IbSend, Listening, Serving
    <3> DEFINE k == K(z)
    <3>2. /\ jobs' = jobs \cup {k} /\ k.order = x /\ k.first = 1 /\ k.size = N /\ k.at = z.dst
          /\ x \in Order
      BY <1>a, <3>1
    <3> HIDE DEF k
    <3>3. /\ \A y \in Order : y # x => put'[y] = put[y] /\ server'[y] = server[y]
          /\ put'[x] = "send" /\ server'[x] = z
          /\ \A y \in Order : y # z => rget'[y] = rget[y]
          /\ rget'[z] = "serve"
      BY <1>b, <3>1, <3>2
    <3>4. \A j \in jobs : j.order # x
      BY <1>c, <2>2, <3>1
    <3>5. \A y \in Order : /\ put'[y] \in {"send", "sent", "broken"} <=> server'[y] # NoOrder
                           /\ server'[y] # NoOrder => rget'[server'[y]] \in Serves
                           /\ rget'[y] \in Serves => \E u \in Order : server'[u] = y
                           /\ <<"FAIL_REMOTE_GET", y>> \in msgs' => put'[y] = "fail"
      <4> SUFFICES ASSUME NEW y \in Order
                   PROVE  /\ put'[y] \in {"send", "sent", "broken"} <=> server'[y] # NoOrder
                          /\ server'[y] # NoOrder => rget'[server'[y]] \in Serves
                          /\ rget'[y] \in Serves => \E u \in Order : server'[u] = y
                          /\ <<"FAIL_REMOTE_GET", y>> \in msgs' => put'[y] = "fail"
        OBVIOUS
      <4>1. put'[y] \in {"send", "sent", "broken"} <=> server'[y] # NoOrder
        <5>1. put[y] \in {"send", "sent", "broken"} <=> server[y] # NoOrder
          BY <1>b, <2>2 DEF InStep, Ends, Handled
        <5>2. z # NoOrder
          BY <1>b
        <5> QED
          BY <3>3, <5>1, <5>2
      <4>2. server'[y] # NoOrder => rget'[server'[y]] \in Serves
        <5>1. server[y] # NoOrder => rget[server[y]] \in Serves /\ server[y] \in Order
          <6>1. Ends
            BY <1>b, <2>2 DEF InStep
          <6>2. server[y] # NoOrder => rget[server[y]] \in Serves
            BY <6>1 DEF Ends
          <6>3. server[y] # NoOrder => server[y] \in Order
            BY <1>b
          <6> QED
            BY <6>2, <6>3
        <5>2. server'[y] # NoOrder => server'[y] = z \/ server'[y] = server[y]
          BY <3>3
        <5>3. z \in Order /\ rget'[z] \in Serves
          BY <3>3
        <5>4. \A u \in Order : rget[u] \in Serves => rget'[u] \in Serves
          BY <3>3
        <5> QED
          BY <5>1, <5>2, <5>3, <5>4
      <4>3. rget'[y] \in Serves => \E u \in Order : server'[u] = y
        <5>1. CASE y = z
          BY <3>2, <3>3, <5>1
        <5>2. CASE y # z /\ rget[y] \in Serves
          <6>1. PICK u \in Order : server[u] = y
            BY <1>b, <2>2, <5>2 DEF InStep, Ends, Handled
          <6>2. u # x
            BY <1>b, <2>2, <3>1, <6>1 DEF InStep, Ends, Handled
          <6> QED
            BY <3>3, <6>1, <6>2
        <5> QED
          BY <3>3, <5>1, <5>2
      <4>4. <<"FAIL_REMOTE_GET", y>> \in msgs' => put'[y] = "fail"
        BY <1>b, <2>2, <3>1, <3>3 DEF InStep, Ends, Handled
      <4> QED
        BY <4>1, <4>2, <4>3, <4>4
    <3>6. \A j \in jobs' : /\ put'[j.order] = "send"
                           /\ rget'[server'[j.order]] = "serve"
                           /\ j.at = server'[j.order].dst
                           /\ j.first = 1 /\ j.size = N
      <4>1. \A j \in jobs : j.at = server[j.order].dst /\ j.first = 1 /\ j.size = N
        BY <1>b, <2>2 DEF InStep, Ends, Handled
      <4> QED
        BY <1>c, <2>2, <3>2, <3>3, <3>4, <4>1
    <3>7. \A i, j \in jobs' : i.order = j.order => i = j
      <4>1. \A i, j \in jobs : i.order = j.order => i = j
        BY <1>b, <2>2 DEF InStep, Ends, Handled
      <4> QED
        BY <3>2, <3>4, <4>1
    <3>8. Ends'
      BY <3>5 DEF Ends
    <3>9. Handled'
      BY <1>a, <3>6, <3>7, Sets DEF Handled
    <3> QED
      BY <3>8, <3>9 DEF InStep
  <2> QED
    BY <1>7, <1>a, <2>1, <2>2 DEF RemotePut, Ib
<1>8. ASSUME NEW x \in Given, HandleTinfoQuery(x) PROVE InStep'
  <2> SUFFICES ASSUME Ib PROVE InStep'
    BY <1>a
  <2>1. /\ UNCHANGED <<put, jobs, server>> /\ rget[x] = "none" /\ x \in Order
        /\ rget' = [rget EXCEPT ![x] = "test"] /\ msgs' \subseteq msgs
    BY <1>a, <1>b, <1>8 DEF HandleTinfoQuery, Ib, Started
  <2>2. \A y \in Order : /\ rget'[y] \in Serves <=> rget[y] \in Serves
                         /\ rget[y] = "serve" => rget'[y] = "serve"
    BY <1>b, <2>1
  <2> QED
    BY <1>a, <1>b, <1>c, <2>1, <2>2, InStepStays DEF InStep, Ends, Handled
<1>9. ASSUME NEW x \in Given, PopTest(x) PROVE InStep'
  <2> SUFFICES ASSUME Ib PROVE InStep'
    BY <1>a
  <2>1. /\ server' = server /\ jobs' = jobs
        /\ \A y \in Order : /\ put'[y] \in {"send", "sent", "broken"}
                                  <=> put[y] \in {"send", "sent", "broken"}
                            /\ rget'[y] \in Serves <=> rget[y] \in Serves
                            /\ <<"FAIL_REMOTE_GET", y>> \in msgs' => put'[y] = "fail"
        /\ \A y \in Order : /\ put[y] = "send" => put'[y] = "send"
                            /\ rget[y] = "serve" => rget'[y] = "serve"
    BY <1>a, <1>b, <1>9 DEF PopTest, InStep, Ends, Handled
  <2> QED
    BY <1>a, <1>b, <1>c, <2>1, InStepStays
<1>10. ASSUME NEW x \in Given, PopWait(x) PROVE InStep'
  <2> SUFFICES ASSUME Ib PROVE InStep'
    BY <1>a
  <2>1. /\ server' = server /\ jobs' = jobs
        /\ \A y \in Order : /\ put'[y] \in {"send", "sent", "broken"}
                                  <=> put[y] \in {"send", "sent", "broken"}
                            /\ rget'[y] \in Serves <=> rget[y] \in Serves
                            /\ <<"FAIL_REMOTE_GET", y>> \in msgs' => put'[y] = "fail"
        /\ \A y \in Order : /\ put[y] = "send" => put'[y] = "send"
                            /\ rget[y] = "serve" => rget'[y] = "serve"
    BY <1>a, <1>b, <1>10 DEF PopWait, InStep, Ends, Handled
  <2> QED
    BY <1>a, <1>b, <1>c, <2>1, InStepStays
<1>11. ASSUME NEW x \in Given, PopTake(x) PROVE InStep'
  <2> SUFFICES ASSUME Ib PROVE InStep'
    BY <1>a
  <2>1. /\ server' = server /\ jobs' = jobs
        /\ \A y \in Order : /\ put'[y] \in {"send", "sent", "broken"}
                                  <=> put[y] \in {"send", "sent", "broken"}
                            /\ rget'[y] \in Serves <=> rget[y] \in Serves
                            /\ <<"FAIL_REMOTE_GET", y>> \in msgs' => put'[y] = "fail"
        /\ \A y \in Order : /\ put[y] = "send" => put'[y] = "send"
                            /\ rget[y] = "serve" => rget'[y] = "serve"
    BY <1>a, <1>b, <1>11 DEF PopTake, HandOut, InStep, Ends, Handled
  <2> QED
    BY <1>a, <1>b, <1>c, <2>1, InStepStays
<1>12. ASSUME NEW x \in Given, WaGet(x) PROVE InStep'
  <2> SUFFICES ASSUME Ib PROVE InStep'
    BY <1>a
  <2>1. /\ server' = server /\ jobs' = jobs
        /\ \A y \in Order : /\ put'[y] \in {"send", "sent", "broken"}
                                  <=> put[y] \in {"send", "sent", "broken"}
                            /\ rget'[y] \in Serves <=> rget[y] \in Serves
                            /\ <<"FAIL_REMOTE_GET", y>> \in msgs' => put'[y] = "fail"
        /\ \A y \in Order : /\ put[y] = "send" => put'[y] = "send"
                            /\ rget[y] = "serve" => rget'[y] = "serve"
    BY <1>a, <1>b, <1>12 DEF WaGet, InStep, Ends, Handled
  <2> QED
    BY <1>a, <1>b, <1>c, <2>1, InStepStays
<1>13. ASSUME NEW x \in Given, InitGet(x) PROVE InStep'
  <2> SUFFICES ASSUME Ib PROVE InStep'
    BY <1>a
  <2>1. /\ server' = server /\ jobs' = jobs
        /\ \A y \in Order : /\ put'[y] \in {"send", "sent", "broken"}
                                  <=> put[y] \in {"send", "sent", "broken"}
                            /\ rget'[y] \in Serves <=> rget[y] \in Serves
                            /\ <<"FAIL_REMOTE_GET", y>> \in msgs' => put'[y] = "fail"
        /\ \A y \in Order : /\ put[y] = "send" => put'[y] = "send"
                            /\ rget[y] = "serve" => rget'[y] = "serve"
    BY <1>a, <1>b, <1>13 DEF InitGet, InStep, Ends, Handled
  <2> QED
    BY <1>a, <1>b, <1>c, <2>1, InStepStays
<1>14. ASSUME NEW x \in Given, TcpWait(x) PROVE InStep'
  BY <1>a, <1>b, <1>14 DEF TcpWait, Started, TcpPlace
<1>15. ASSUME NEW x \in Given, TcpResume(x) PROVE InStep'
  BY <1>a, <1>b, <1>15 DEF TcpResume, Started, TcpPlace
<1>16. ASSUME NEW x \in Given, IbServed(x) PROVE InStep'
  <2> SUFFICES ASSUME Ib PROVE InStep'
    BY <1>a
  <2>1. /\ server' = server /\ jobs' = jobs /\ msgs' = msgs /\ x \in Order /\ rget[x] = "serve"
        /\ \A j \in jobs : server[j.order] # x
        /\ rget' = [rget EXCEPT ![x] = "notify"]
        /\ put' = [y \in Order |-> IF server[y] = x /\ put[y] = "send" THEN "sent" ELSE put[y]]
    BY <1>a, <1>16 DEF IbServed
  <2>2. \A y \in Order : /\ put'[y] \in {"send", "sent", "broken"}
                               <=> put[y] \in {"send", "sent", "broken"}
                         /\ rget'[y] \in Serves <=> rget[y] \in Serves
                         /\ put[y] = "fail" => put'[y] = "fail"
                         /\ server[y] # x /\ put[y] = "send" => put'[y] = "send"
                         /\ y # x /\ rget[y] = "serve" => rget'[y] = "serve"
    BY <1>b, <2>1
  <2> QED
    BY <1>a, <1>b, <1>c, <2>1, <2>2, InStepStays DEF InStep, Ends, Handled
<1>17. ASSUME NEW x \in Given, PortNotify(x) PROVE InStep'
  <2> SUFFICES ASSUME Ib PROVE InStep'
    BY <1>a
  <2>1. /\ UNCHANGED <<put, msgs, jobs, server>> /\ rget[x] = "notify" /\ x \in Order
        /\ \/ rget' = [rget EXCEPT ![x] = "got"]
           \/ \E y \in Order : rget[y] = "parked" /\ rget' = [rget EXCEPT ![y] = "test", ![x] = "got"]
    BY <1>a, <1>17 DEF PortNotify
  <2>2. \A y \in Order : /\ rget'[y] \in Serves <=> rget[y] \in Serves
                         /\ rget[y] = "serve" => rget'[y] = "serve"
    BY <1>b, <2>1
  <2> QED
    BY <1>a, <1>b, <1>c, <2>1, <2>2, InStepStays DEF InStep, Ends, Handled
<1>18. ASSUME NEW x \in Given, RecvChunk(x) PROVE InStep'
  BY <1>a, <1>18 DEF RecvChunk, Ib
<1>19. ASSUME NEW x \in Given, SyncPut(x) PROVE InStep'
  <2> SUFFICES ASSUME Ib PROVE InStep'
    BY <1>a
  <2>1. /\ server' = server /\ jobs' = jobs
        /\ \A y \in Order : /\ put'[y] \in {"send", "sent", "broken"}
                                  <=> put[y] \in {"send", "sent", "broken"}
                            /\ rget'[y] \in Serves <=> rget[y] \in Serves
                            /\ <<"FAIL_REMOTE_GET", y>> \in msgs' => put'[y] = "fail"
        /\ \A y \in Order : /\ put[y] = "send" => put'[y] = "send"
                            /\ rget[y] = "serve" => rget'[y] = "serve"
    BY <1>a, <1>b, <1>19 DEF SyncPut, InStep, Ends, Handled
  <2> QED
    BY <1>a, <1>b, <1>c, <2>1, InStepStays
<1>20. ASSUME NEW x \in Given, WaGetDone(x) PROVE InStep'
  <2> SUFFICES ASSUME Ib PROVE InStep'
    BY <1>a
  <2>1. /\ server' = server /\ jobs' = jobs
        /\ \A y \in Order : /\ put'[y] \in {"send", "sent", "broken"}
                                  <=> put[y] \in {"send", "sent", "broken"}
                            /\ rget'[y] \in Serves <=> rget[y] \in Serves
                            /\ <<"FAIL_REMOTE_GET", y>> \in msgs' => put'[y] = "fail"
        /\ \A y \in Order : /\ put[y] = "send" => put'[y] = "send"
                            /\ rget[y] = "serve" => rget'[y] = "serve"
    BY <1>a, <1>b, <1>20 DEF WaGetDone, InStep, Ends, Handled
  <2> QED
    BY <1>a, <1>b, <1>c, <2>1, InStepStays
<1>21. ASSUME NEW x \in Given, ListRemote(x) PROVE InStep'
  <2> SUFFICES ASSUME Ib PROVE InStep'
    BY <1>a
  <2>1. /\ server' = server /\ jobs' = jobs
        /\ \A y \in Order : /\ put'[y] \in {"send", "sent", "broken"}
                                  <=> put[y] \in {"send", "sent", "broken"}
                            /\ rget'[y] \in Serves <=> rget[y] \in Serves
                            /\ <<"FAIL_REMOTE_GET", y>> \in msgs' => put'[y] = "fail"
        /\ \A y \in Order : /\ put[y] = "send" => put'[y] = "send"
                            /\ rget[y] = "serve" => rget'[y] = "serve"
    BY <1>a, <1>b, <1>21 DEF ListRemote, InStep, Ends, Handled
  <2> QED
    BY <1>a, <1>b, <1>c, <2>1, InStepStays
<1>22. ASSUME NEW x \in Given, NotifyRemoteGetDone(x) PROVE InStep'
  <2> SUFFICES ASSUME Ib PROVE InStep'
    BY <1>a
  <2>1. /\ server' = server /\ jobs' = jobs
        /\ \A y \in Order : /\ put'[y] \in {"send", "sent", "broken"}
                                  <=> put[y] \in {"send", "sent", "broken"}
                            /\ rget'[y] \in Serves <=> rget[y] \in Serves
                            /\ <<"FAIL_REMOTE_GET", y>> \in msgs' => put'[y] = "fail"
        /\ \A y \in Order : /\ put[y] = "send" => put'[y] = "send"
                            /\ rget[y] = "serve" => rget'[y] = "serve"
    BY <1>a, <1>b, <1>22 DEF NotifyRemoteGetDone, InStep, Ends, Handled
  <2> QED
    BY <1>a, <1>b, <1>c, <2>1, InStepStays
<1>23. ASSUME NEW x \in Given, HandleFailRemoteGet(x) PROVE InStep'
  <2> SUFFICES ASSUME Ib PROVE InStep'
    BY <1>a
  <2>1. rget' = rget
    <3>1. \A y \in Order : rget[y] # "wait"
      BY <1>b DEF Started, TcpPlace
    <3>2. thread[x.dst][x.dat] \in Order \cup {NoOrder}
      BY <1>a, ConstType DEF IInv, TypeOK
    <3> QED
      BY <1>23, <3>1, <3>2 DEF HandleFailRemoteGet
  <2>2. UNCHANGED <<put, jobs, server>> /\ msgs' \subseteq msgs
    BY <1>23 DEF HandleFailRemoteGet
  <2> QED
    BY <1>a, <1>b, <1>c, <2>1, <2>2, InStepStays DEF InStep, Ends, Handled
<1>24. ASSUME NEW j \in jobs, HandlerRead(j) PROVE InStep'
  <2>1. UNCHANGED <<put, rget, msgs, server>>
    BY <1>24 DEF HandlerRead
  <2>2. PICK k : /\ k.order = j.order /\ k.first = j.first /\ k.size = j.size /\ k.at = j.at
                 /\ jobs' \subseteq (jobs \ {j}) \cup {k}
    BY <1>24, HandlerJobs DEF IInv, HandlerStep
  <2> QED
    BY <1>a, <1>b, <2>1, <2>2, Sets DEF InStep, Ends, Handled
<1>25. ASSUME NEW j \in jobs, HandlerCopy(j) PROVE InStep'
  <2>1. UNCHANGED <<put, rget, msgs, server>>
    BY <1>25 DEF HandlerCopy
  <2>2. PICK k : /\ k.order = j.order /\ k.first = j.first /\ k.size = j.size /\ k.at = j.at
                 /\ jobs' \subseteq (jobs \ {j}) \cup {k}
    BY <1>25, HandlerJobs DEF IInv, HandlerStep
  <2> QED
    BY <1>a, <1>b, <2>1, <2>2, Sets DEF InStep, Ends, Handled
<1>26. ASSUME NEW j \in jobs, HandlerAdd(j) PROVE InStep'
  <2>1. UNCHANGED <<put, rget, msgs, server>>
    BY <1>26 DEF HandlerAdd
  <2>2. PICK k : /\ k.order = j.order /\ k.first = j.first /\ k.size = j.size /\ k.at = j.at
                 /\ jobs' \subseteq (jobs \ {j}) \cup {k}
    BY <1>26, HandlerJobs DEF IInv, HandlerStep
  <2> QED
    BY <1>a, <1>b, <2>1, <2>2, Sets DEF InStep, Ends, Handled
<1>27. ASSUME NEW j \in jobs, IbBroken(j) PROVE InStep'
  <2> SUFFICES ASSUME Ib PROVE InStep'
    BY <1>a
  <2>1. /\ UNCHANGED <<rget, msgs, server>> /\ jobs' = jobs \ {j}
        /\ put' = [put EXCEPT ![j.order] = "broken"]
    BY <1>27 DEF IbBroken
  <2>2. \A i \in jobs' : i \in jobs /\ i.order # j.order
    BY <1>b, <2>1 DEF InStep, Ends, Handled
  <2>3. \A y \in Order : /\ put'[y] \in {"send", "sent", "broken"}
                               <=> put[y] \in {"send", "sent", "broken"}
                         /\ put[y] = "fail" => put'[y] = "fail"
                         /\ y # j.order => put'[y] = put[y]
    BY <1>b, <1>c, <2>1
  <2> QED
    BY <1>a, <1>b, <1>c, <2>1, <2>2, <2>3, InStepStays DEF InStep, Ends, Handled
<1>28. ASSUME NEW j \in jobs, IbTangled(j) PROVE InStep'
  <2>1. UNCHANGED <<put, rget, msgs, server>>
    BY <1>28 DEF IbTangled
  <2>2. PICK k : /\ k.order = j.order /\ k.first = j.first /\ k.size = j.size /\ k.at = j.at
                 /\ jobs' \subseteq (jobs \ {j}) \cup {k}
    BY <1>28, HandlerJobs DEF IInv, HandlerStep
  <2> QED
    BY <1>a, <1>b, <2>1, <2>2, Sets DEF InStep, Ends, Handled
<1>29. CASE \/ \E g \in config.gets : GetCheck(g) \/ GetWait(g) \/ GetResume(g)
            \/ \E n \in Site : InitListen(n)
  <2>1. UNCHANGED <<put, rget, msgs, jobs, server>>
    BY <1>29 DEF GetCheck, GetWait, GetResume, InitListen
  <2> QED
    BY <1>a, <1>b, <1>c, <2>1, InStepStays DEF InStep, Ends, Handled
<1> QED
  BY <1>1, <1>2, <1>3, <1>4, <1>5, <1>6, <1>7, <1>8, <1>9, <1>10, <1>11, <1>12, <1>13, <1>14, <1>15,
     <1>16, <1>17, <1>18, <1>19, <1>20, <1>21, <1>22, <1>23, <1>24, <1>25, <1>26, <1>27, <1>28,
     <1>29 DEF Next, HolderStep, DestinationStep, HandlerStep, Given

\* A step at one site leaves the ports of the others alone.
LEMMA PortsElsewhere ==
    ASSUME PortsOk, config' = config, NEW m \in Site,
           \A n \in Site \ {m} : (n \in wild' <=> n \in wild) /\ ports'[n] = ports[n],
           \A x \in Order : x.dst # m => (On(x)' <=> On(x)) /\ port'[x] = port[x],
           Ib => IF m \in wild' THEN Crowded(m) ELSE Exclusive(m)'
    PROVE  PortsOk'
<1> SUFFICES ASSUME Ib, NEW n \in Site PROVE IF n \in wild' THEN Crowded(n)' ELSE Exclusive(n)'
  BY Sets DEF PortsOk
<1>1. Crowded(n)' <=> Crowded(n)
  BY Sets DEF Crowded, To
<1>2. CASE n = m
  BY <1>1, <1>2
<1>3. CASE n # m
  <2>1. Users(n)' = Users(n) /\ \A x \in Users(n) : port'[x] = port[x]
    BY <1>3 DEF Users
  <2>2. Exclusive(n) => Exclusive(n)'
    BY <1>3, <2>1 DEF Exclusive
  <2> QED
    BY <1>1, <1>3, <2>2 DEF PortsOk
<1> QED
  BY <1>2, <1>3

\* Ports stay as they are when no remote_get takes or leaves one.
LEMMA PortsStay ==
    ASSUME PortsOk, config' = config, UNCHANGED <<ports, port, wild>>,
           Ib => \A x \in Order : On(x)' <=> On(x)
    PROVE  PortsOk'
<1> SUFFICES ASSUME Ib, NEW n \in Site PROVE IF n \in wild' THEN Crowded(n)' ELSE Exclusive(n)'
  BY Sets DEF PortsOk
<1>1. Crowded(n)' <=> Crowded(n)
  BY Sets DEF Crowded, To
<1>2. Users(n)' = Users(n)
  BY DEF Users
<1>3. Exclusive(n)' <=> Exclusive(n)
  BY <1>2 DEF Exclusive
<1> QED
  BY <1>1, <1>3 DEF PortsOk

\* A queue that is found empty has its ports with as many remote_gets, and one
\* more wants a port.
LEMMA PoppedEmpty ==
    ASSUME TypeOK, Started, NEW n \in Site, Exclusive(n), ports[n] = {}, NEW x \in Order, x.dst = n,
           rget[x] = "take"
    PROVE  Crowded(n)
<1>1. x \in To(n) /\ IsFiniteSet(To(n)) /\ IsFiniteSet(config.ports)
  <2>1. x \in To(n)
    BY DEF Started, To
  <2>2. IsFiniteSet(Given) /\ To(n) \in SUBSET Given
    BY ConfigType DEF To
  <2> QED
    BY <2>1, <2>2, ConfigType, FS_Subset
<1> DEFINE S    == To(n) \ {x}
           f(p) == CHOOSE y \in Users(n) : port[y] = p
           F    == [p \in config.ports |-> f(p)]
<1>2. \A p \in config.ports : f(p) \in Users(n) /\ port[f(p)] = p
  BY DEF Exclusive
<1>3. Users(n) \subseteq S
  BY DEF Users, On, To, Started
<1>4. IsFiniteSet(S) /\ Cardinality(S) = Cardinality(To(n)) - 1 /\ Cardinality(To(n)) \in Nat
  BY <1>1, FS_RemoveElement, FS_CardinalityType
<1>5. Cardinality(config.ports) <= Cardinality(S)
  <2> HIDE DEF f, S
  <2>1. F \in [config.ports -> S]
    BY <1>2, <1>3
  <2>2. \A p, q \in config.ports : F[p] = F[q] => p = q
    BY <1>2
  <2>3. F \in Injection(config.ports, S)
    BY <2>1, <2>2 DEF Injection, IsInjective
  <2> QED
    BY <1>1, <1>4, <2>3, FS_Injection
<1>6. Cardinality(config.ports) \in Nat
  BY <1>1, FS_CardinalityType
<1> QED
  BY <1>4, <1>5, <1>6 DEF Crowded

\* BQueue::pop takes a port that is in the queue, or the queue was empty.
LEMMA PortTaken ==
    ASSUME IInv, TypeOK', config' = config, NEW x \in Order, PopTake(x)
    PROVE  PortsOk'
<1> DEFINE m == x.dst
<1>1. m \in Site /\ rget[x] = "take" /\ PortsOk /\ TypeOK /\ Started
  BY ConstType DEF PopTake, RgetAt, IInv
<1>2. /\ \A n \in Site \ {m} : (n \in wild' <=> n \in wild) /\ ports'[n] = ports[n]
      /\ \A y \in Order : y # x => (On(y)' <=> On(y)) /\ port'[y] = port[y]
  <2>1. /\ ports' = ports \/ \E p : ports' = [ports EXCEPT ![m] = @ \ {p}]
        /\ wild' = wild \/ wild' = wild \cup {m}
        /\ rget' = rget \/ rget' = [rget EXCEPT ![x] = "start"]
        /\ port' = port \/ \E p : port' = [port EXCEPT ![x] = p]
    BY DEF PopTake, HandOut, GoRget, moveVars
  <2>2. /\ ports \in [Site -> SUBSET (Port \cup {NoPort})] /\ rget \in [Order -> GetPlace]
        /\ port \in [Order -> Port \cup {NoPort}]
    BY <1>1 DEF TypeOK
  <2>3. \A n \in Site \ {m} : (n \in wild' <=> n \in wild) /\ ports'[n] = ports[n]
    BY <1>1, <2>1, <2>2
  <2>4. \A y \in Order : y # x => rget'[y] = rget[y] /\ port'[y] = port[y]
    BY <2>1, <2>2
  <2> QED
    BY <2>3, <2>4 DEF On
<1>3. Ib => IF m \in wild' THEN Crowded(m) ELSE Exclusive(m)'
  <2> SUFFICES ASSUME Ib PROVE IF m \in wild' THEN Crowded(m) ELSE Exclusive(m)'
    OBVIOUS
  <2>1. CASE m \in wild
    <3>1. m \in wild'
      BY <2>1 DEF PopTake
    <3> QED
      BY <1>1, <2>1, <3>1 DEF PortsOk
  <2>2. CASE m \notin wild /\ ports[m] = {}
    <3>1. Exclusive(m) /\ m \in wild'
      BY <1>1, <2>2 DEF PortsOk, PopTake
    <3> QED
      BY <1>1, <2>2, <3>1, PoppedEmpty
  <2>3. CASE m \notin wild /\ ports[m] # {}
    <3>1. PICK p \in ports[m] : /\ port' = [port EXCEPT ![x] = p]
                                /\ ports' = [ports EXCEPT ![m] = @ \ {p}]
                                /\ rget' = [rget EXCEPT ![x] = "start"] /\ wild' = wild
      BY <2>3 DEF PopTake, HandOut, GoRget
    <3>2. Exclusive(m) /\ x \notin Users(m)
      BY <1>1, <2>3 DEF PortsOk, Users, On
    <3>3. ports'[m] = ports[m] \ {p} /\ port'[x] = p /\ p \in config.ports
      BY <1>1, <3>1, <3>2 DEF TypeOK, Exclusive
    <3>4. Users(m)' = Users(m) \cup {x}
      <4>1. On(x)'
        BY <1>1, <3>1 DEF TypeOK, On
      <4> QED
        BY <1>2, <4>1 DEF Users
    <3>5. \A y \in Users(m) : port'[y] = port[y]
      BY <1>2, <3>2 DEF Users
    <3>6. Exclusive(m)'
      BY <3>2, <3>3, <3>4, <3>5 DEF Exclusive
    <3> QED
      BY <2>3, <3>1, <3>6
  <2> QED
    BY <2>1, <2>2, <2>3
<1> QED
  BY <1>1, <1>2, <1>3, PortsElsewhere

\* init_get's end brings the port back.
LEMMA PortReturned ==
    ASSUME IInv, TypeOK', config' = config, NEW x \in Order, IbServed(x)
    PROVE  PortsOk'
<1> DEFINE m == x.dst
<1>1. /\ m \in Site /\ PortsOk /\ rget[x] = "serve" /\ rget' = [rget EXCEPT ![x] = "notify"]
      /\ ports' = [ports EXCEPT ![m] = @ \cup {port[x]}] /\ port' = port /\ wild' = wild
      /\ rget \in [Order -> GetPlace] /\ ports \in [Site -> SUBSET (Port \cup {NoPort})]
  BY ConstType DEF IbServed, RgetAt, GoRget, IInv, TypeOK
<1>2. /\ \A n \in Site \ {m} : ports'[n] = ports[n]
      /\ ports'[m] = ports[m] \cup {port[x]}
      /\ \A y \in Order : y # x => (On(y)' <=> On(y))
      /\ ~On(x)' /\ On(x)
  BY <1>1 DEF On
<1>3. Ib /\ m \notin wild => Exclusive(m)'
  <2> SUFFICES ASSUME Ib, m \notin wild PROVE Exclusive(m)'
    OBVIOUS
  <2>1. Exclusive(m)
    BY <1>1 DEF PortsOk
  <2>2. Users(m)' = Users(m) \ {x} /\ x \in Users(m)
    BY <1>2 DEF Users
  <2> QED
    BY <1>1, <1>2, <2>1, <2>2 DEF Exclusive
<1>4. Ib => IF m \in wild' THEN Crowded(m) ELSE Exclusive(m)'
  BY <1>1, <1>3 DEF PortsOk
<1> QED
  BY <1>1, <1>2, <1>4, PortsElsewhere

\* The ports are taken and brought back one by one.
LEMMA PortsStep ==
    ASSUME IInv, TypeOK', Next
    PROVE  PortsOk'
<1> USE DEF PutAt, RgetAt, GoPut, GoRget, Arrived, JobAt,
           moveVars, syncVars, infoVars, recvVars, siteVars
<1>a. config' = config /\ Given \subseteq Order
  BY ConfigType DEF Next, IInv
<1>b. PortsOk /\ Started /\ rget \in [Order -> GetPlace]
  BY DEF IInv, TypeOK
<1>1. ASSUME NEW x \in Given, HandleDmMove(x) PROVE PortsOk'
  <2>1. UNCHANGED <<ports, port, wild>> /\ (Ib => \A y \in Order : On(y)' <=> On(y))
    BY <1>a, <1>b, <1>1 DEF HandleDmMove, On
  <2> QED
    BY <1>a, <1>b, <2>1, PortsStay
<1>2. ASSUME NEW x \in Given, TransInfoWait(x) PROVE PortsOk'
  <2>1. UNCHANGED <<ports, port, wild>> /\ (Ib => \A y \in Order : On(y)' <=> On(y))
    BY <1>a, <1>b, <1>2 DEF TransInfoWait, On
  <2> QED
    BY <1>a, <1>b, <2>1, PortsStay
<1>3. ASSUME NEW x \in Given, TransInfoResume(x) PROVE PortsOk'
  <2>1. UNCHANGED <<ports, port, wild>> /\ (Ib => \A y \in Order : On(y)' <=> On(y))
    BY <1>a, <1>b, <1>3 DEF TransInfoResume, On
  <2> QED
    BY <1>a, <1>b, <2>1, PortsStay
<1>4. ASSUME NEW x \in Given, HandleTinfoReply(x) PROVE PortsOk'
  <2>1. UNCHANGED <<ports, port, wild>> /\ (Ib => \A y \in Order : On(y)' <=> On(y))
    BY <1>a, <1>b, <1>4 DEF HandleTinfoReply, On
  <2> QED
    BY <1>a, <1>b, <2>1, PortsStay
<1>5. ASSUME NEW x \in Given, RemotePutLookUp(x) PROVE PortsOk'
  <2>1. UNCHANGED <<ports, port, wild>> /\ (Ib => \A y \in Order : On(y)' <=> On(y))
    BY <1>a, <1>b, <1>5 DEF RemotePutLookUp, On
  <2> QED
    BY <1>a, <1>b, <2>1, PortsStay
<1>6. ASSUME NEW x \in Given, RemotePutFails(x) PROVE PortsOk'
  <2>1. UNCHANGED <<ports, port, wild>> /\ (Ib => \A y \in Order : On(y)' <=> On(y))
    BY <1>a, <1>b, <1>6 DEF RemotePutFails, On
  <2> QED
    BY <1>a, <1>b, <2>1, PortsStay
<1>7. ASSUME NEW x \in Given, RemotePut(x) PROVE PortsOk'
  <2>1. /\ UNCHANGED <<ports, port, wild>>
        /\ rget' = rget \/ \E z : rget[z] \in {"listen", "serve"} /\ rget' = [rget EXCEPT ![z] = "serve"]
    BY <1>7 DEF RemotePut, TcpSend, TcpRefused, IbSend, IbRefused, Listening, Serving
  <2>2. \A y \in Order : On(y)' <=> On(y)
    BY <1>b, <2>1 DEF On
  <2> QED
    BY <1>a, <1>b, <2>1, <2>2, PortsStay
<1>8. ASSUME NEW x \in Given, HandleTinfoQuery(x) PROVE PortsOk'
  <2> SUFFICES ASSUME Ib PROVE PortsOk'
    BY Sets, <1>a DEF PortsOk
  <2>1. /\ UNCHANGED <<ports, port, wild>> /\ rget[x] = "none" /\ rget' = [rget EXCEPT ![x] = "test"]
    BY <1>a, <1>b, <1>8 DEF HandleTinfoQuery, Ib, Started
  <2>2. \A y \in Order : On(y)' <=> On(y)
    BY <1>b, <2>1 DEF On
  <2> QED
    BY <1>a, <1>b, <2>1, <2>2, PortsStay
<1>9. ASSUME NEW x \in Given, PopTest(x) PROVE PortsOk'
  <2>1. UNCHANGED <<ports, port, wild>> /\ (Ib => \A y \in Order : On(y)' <=> On(y))
    BY <1>a, <1>b, <1>9 DEF PopTest, On
  <2> QED
    BY <1>a, <1>b, <2>1, PortsStay
<1>10. ASSUME NEW x \in Given, PopWait(x) PROVE PortsOk'
  <2>1. UNCHANGED <<ports, port, wild>> /\ (Ib => \A y \in Order : On(y)' <=> On(y))
    BY <1>a, <1>b, <1>10 DEF PopWait, On
  <2> QED
    BY <1>a, <1>b, <2>1, PortsStay
<1>11. ASSUME NEW x \in Given, PopTake(x) PROVE PortsOk'
  BY <1>a, <1>11, PortTaken
<1>12. ASSUME NEW x \in Given, WaGet(x) PROVE PortsOk'
  <2>1. UNCHANGED <<ports, port, wild>> /\ (Ib => \A y \in Order : On(y)' <=> On(y))
    BY <1>a, <1>b, <1>12 DEF WaGet, On
  <2> QED
    BY <1>a, <1>b, <2>1, PortsStay
<1>13. ASSUME NEW x \in Given, InitGet(x) PROVE PortsOk'
  <2>1. UNCHANGED <<ports, port, wild>> /\ (Ib => \A y \in Order : On(y)' <=> On(y))
    BY <1>a, <1>b, <1>13 DEF InitGet, Ib, On
  <2> QED
    BY <1>a, <1>b, <2>1, PortsStay
<1>14. ASSUME NEW x \in Given, TcpWait(x) PROVE PortsOk'
  <2>1. UNCHANGED <<ports, port, wild>> /\ (Ib => \A y \in Order : On(y)' <=> On(y))
    BY <1>a, <1>b, <1>14 DEF TcpWait, Started, TcpPlace, On
  <2> QED
    BY <1>a, <1>b, <2>1, PortsStay
<1>15. ASSUME NEW x \in Given, TcpResume(x) PROVE PortsOk'
  <2>1. UNCHANGED <<ports, port, wild>> /\ (Ib => \A y \in Order : On(y)' <=> On(y))
    BY <1>a, <1>b, <1>15 DEF TcpResume, Started, TcpPlace, On
  <2> QED
    BY <1>a, <1>b, <2>1, PortsStay
<1>16. ASSUME NEW x \in Given, IbServed(x) PROVE PortsOk'
  BY <1>a, <1>16, PortReturned
<1>17. ASSUME NEW x \in Given, PortNotify(x) PROVE PortsOk'
  <2>1. /\ UNCHANGED <<ports, port, wild>> /\ rget[x] = "notify"
        /\ \/ rget' = [rget EXCEPT ![x] = "got"]
           \/ \E y \in Order : rget[y] = "parked" /\ rget' = [rget EXCEPT ![y] = "test", ![x] = "got"]
    BY <1>17 DEF PortNotify
  <2>2. \A y \in Order : On(y)' <=> On(y)
    BY <1>b, <2>1 DEF On
  <2> QED
    BY <1>a, <1>b, <2>1, <2>2, PortsStay
<1>18. ASSUME NEW x \in Given, RecvChunk(x) PROVE PortsOk'
  <2>1. UNCHANGED <<ports, port, wild>> /\ (Ib => \A y \in Order : On(y)' <=> On(y))
    BY <1>a, <1>b, <1>18 DEF RecvChunk, On
  <2> QED
    BY <1>a, <1>b, <2>1, PortsStay
<1>19. ASSUME NEW x \in Given, SyncPut(x) PROVE PortsOk'
  <2>1. UNCHANGED <<ports, port, wild>> /\ (Ib => \A y \in Order : On(y)' <=> On(y))
    BY <1>a, <1>b, <1>19 DEF SyncPut, On
  <2> QED
    BY <1>a, <1>b, <2>1, PortsStay
<1>20. ASSUME NEW x \in Given, WaGetDone(x) PROVE PortsOk'
  <2>1. UNCHANGED <<ports, port, wild>> /\ (Ib => \A y \in Order : On(y)' <=> On(y))
    BY <1>a, <1>b, <1>20 DEF WaGetDone, On
  <2> QED
    BY <1>a, <1>b, <2>1, PortsStay
<1>21. ASSUME NEW x \in Given, ListRemote(x) PROVE PortsOk'
  <2>1. UNCHANGED <<ports, port, wild>> /\ (Ib => \A y \in Order : On(y)' <=> On(y))
    BY <1>a, <1>b, <1>21 DEF ListRemote, On
  <2> QED
    BY <1>a, <1>b, <2>1, PortsStay
<1>22. ASSUME NEW x \in Given, NotifyRemoteGetDone(x) PROVE PortsOk'
  <2>1. UNCHANGED <<ports, port, wild>> /\ (Ib => \A y \in Order : On(y)' <=> On(y))
    BY <1>a, <1>b, <1>22 DEF NotifyRemoteGetDone, On
  <2> QED
    BY <1>a, <1>b, <2>1, PortsStay
<1>23. ASSUME NEW x \in Given, HandleFailRemoteGet(x) PROVE PortsOk'
  <2>1. /\ UNCHANGED <<ports, port, wild>>
        /\ rget' = rget \/ \E y : rget[y] = "wait" /\ rget' = [rget EXCEPT ![y] = "cut"]
    BY <1>23 DEF HandleFailRemoteGet
  <2>2. \A y \in Order : On(y)' <=> On(y)
    BY <1>b, <2>1 DEF On
  <2> QED
    BY <1>a, <1>b, <2>1, <2>2, PortsStay
<1>24. CASE \/ \E j \in jobs : HandlerRead(j) \/ HandlerCopy(j) \/ HandlerAdd(j) \/ IbBroken(j) \/
                  IbTangled(j)
            \/ \E g \in config.gets : GetCheck(g) \/ GetWait(g) \/ GetResume(g)
            \/ \E n \in Site : InitListen(n)
  <2>1. UNCHANGED <<ports, port, wild, rget>>
    BY <1>24 DEF HandlerRead, HandlerCopy, HandlerAdd, IbBroken, IbTangled, GetCheck, GetWait,
       GetResume, InitListen
  <2> QED
    BY <1>a, <1>b, <2>1, PortsStay DEF On
<1> QED
  BY <1>1, <1>2, <1>3, <1>4, <1>5, <1>6, <1>7, <1>8, <1>9, <1>10, <1>11, <1>12, <1>13, <1>14, <1>15,
     <1>16, <1>17, <1>18, <1>19, <1>20, <1>21, <1>22, <1>23, <1>24 DEF Next, HolderStep,
     DestinationStep, HandlerStep, Given

\* A map of maps that is changed at one place is the same everywhere else.
LEMMA Elsewhere ==
    ASSUME NEW S, NEW T, NEW V, NEW f \in [S -> [T -> V]], NEW a, NEW b, NEW v,
           NEW n \in S, NEW d \in T, n # a \/ d # b
    PROVE  [f EXCEPT ![a][b] = v][n][d] = f[n][d]
<1>1. CASE n # a
  BY <1>1
<1>2. CASE n = a
  <2>1. [f EXCEPT ![a][b] = v][n] = [f[n] EXCEPT ![b] = v]
    BY <1>2
  <2> QED
    BY <1>2, <2>1
<1> QED
  BY <1>1, <1>2

\* And there it has the new value.
LEMMA There ==
    ASSUME NEW S, NEW T, NEW V, NEW f \in [S -> [T -> V]], NEW n \in S, NEW d \in T, NEW v
    PROVE  [f EXCEPT ![n][d] = v][n][d] = v
OBVIOUS

\* Over InfiniBand a holder keeps what it is to send: no data is moved to a site
\* that it is moved from.
LEMMA KeepsStep ==
    ASSUME IInv, Next
    PROVE  Keeps'
<1> USE DEF moveVars, syncVars, infoVars, recvVars, siteVars, GoRget, RgetAt
<1>1. config' = config /\ Given \subseteq Order /\ Keeps /\ TypeOK
  BY ConfigType DEF Next, IInv
<1>2. ASSUME UNCHANGED stored, \A n \in Site : qtable[n] \subseteq qtable'[n] PROVE Keeps'
  BY <1>1, <1>2, ConstType, Sets DEF Keeps, WholeAt
<1>3. ASSUME NEW x \in Given, SyncPut(x) PROVE Keeps'
  <2> SUFFICES ASSUME Ib, NEW y \in Given PROVE y.dat \in WholeAt(y.src)'
    BY <1>1, Sets DEF Keeps
  <2>1. /\ x \in Order /\ x.dst \in Site /\ x.dat \in Data /\ y.src \in Site /\ y.dat \in Data
        /\ (x.dst # y.src \/ x.dat # y.dat)
    BY <1>1, ConstType, ConfigType
  <2>2. qtable' = qtable /\ (stored' = stored \/ \E v : stored' = [stored EXCEPT ![x.dst][x.dat] = v])
    BY <1>3 DEF SyncPut
  <2>3. stored \in [Site -> [Data -> Content]]
    BY <1>1 DEF TypeOK
  <2>4. stored'[y.src][y.dat] = stored[y.src][y.dat]
    <3>1. CASE stored' = stored
      BY <3>1
    <3>2. ASSUME NEW v, stored' = [stored EXCEPT ![x.dst][x.dat] = v]
          PROVE  stored'[y.src][y.dat] = stored[y.src][y.dat]
      BY <2>1, <2>3, <3>2, Elsewhere
    <3> QED
      BY <2>2, <3>1, <3>2
  <2>5. y.dat \in qtable[y.src] /\ stored[y.src][y.dat] = Whole
    BY <1>1 DEF Keeps, WholeAt
  <2> QED
    BY <1>1, <2>2, <2>4, <2>5, Sets DEF WholeAt
<1>4. ASSUME NEW x \in Given, ListRemote(x) PROVE Keeps'
  <2>1. stored' = stored /\ qtable' = [qtable EXCEPT ![x.dst] = @ \cup {x.dat}]
    BY <1>4 DEF ListRemote
  <2>2. \A n \in Site : qtable[n] \subseteq qtable'[n]
    BY <1>1, <2>1 DEF TypeOK
  <2> QED
    BY <1>2, <2>1, <2>2
<1>5. CASE \E x \in Given : HolderStep(x)
  BY <1>2, <1>5 DEF HolderStep, HandleDmMove, TransInfoWait, TransInfoResume, HandleTinfoReply,
     RemotePutLookUp, RemotePutFails, RemotePut
<1>6. ASSUME NEW x \in Given, DestinationStep(x), ~SyncPut(x), ~ListRemote(x) PROVE Keeps'
  BY <1>2, <1>6 DEF DestinationStep, HandOut, HandleTinfoQuery, PopTest, PopWait, PopTake, WaGet,
     InitGet, TcpWait, TcpResume, IbServed, PortNotify, RecvChunk, WaGetDone, NotifyRemoteGetDone,
     HandleFailRemoteGet
<1>7. CASE \E j \in jobs : HandlerStep(j)
  BY <1>2, <1>7 DEF HandlerStep, HandlerRead, HandlerCopy, HandlerAdd, IbBroken, IbTangled
<1>8. CASE \/ \E g \in config.gets : GetCheck(g) \/ GetWait(g) \/ GetResume(g)
           \/ \E n \in Site : InitListen(n)
  BY <1>2, <1>8 DEF GetCheck, GetWait, GetResume, InitListen
<1> QED
  BY <1>3, <1>4, <1>5, <1>6, <1>7, <1>8 DEF Next, Given

\* What is begun, sent, failed or broken stays so.
Forward ==
    \A x \in Order : /\ put[x] # "new" => put'[x] # "new"
                     /\ put[x] = "fail" => put'[x] = "fail"
                     /\ put[x] = "broken" => put'[x] = "broken"
                     /\ server[x] # NoOrder => server'[x] = server[x]

\* Over InfiniBand every step goes forward.
LEMMA ForwardStep ==
    ASSUME IInv, Ib, Next
    PROVE  Forward
<1> USE DEF PutAt, RgetAt, GoPut, GoRget, Arrived, JobAt,
           moveVars, syncVars, infoVars, recvVars, siteVars
<1>a. config' = config /\ Given \subseteq Order /\ NoOrder \notin Order
  BY ConfigType, ConstType DEF Next, IInv
<1>b. /\ TypeOK /\ put \in [Order -> PutPlace] /\ server \in [Order -> Order \cup {NoOrder}]
      /\ jobs \subseteq Job
  BY DEF IInv, TypeOK
<1>1. ASSUME NEW x \in Given, HandleDmMove(x) PROVE Forward
  BY <1>a, <1>b, <1>1 DEF HandleDmMove, Forward
<1>2. ASSUME NEW x \in Given, TransInfoWait(x) PROVE Forward
  BY <1>a, <1>b, <1>2 DEF TransInfoWait, Forward
<1>3. ASSUME NEW x \in Given, TransInfoResume(x) PROVE Forward
  BY <1>a, <1>b, <1>3 DEF TransInfoResume, Forward
<1>4. ASSUME NEW x \in Given, HandleTinfoReply(x) PROVE Forward
  BY <1>a, <1>b, <1>4 DEF HandleTinfoReply, Forward
<1>5. ASSUME NEW x \in Given, RemotePutLookUp(x) PROVE Forward
  BY <1>a, <1>b, <1>5 DEF RemotePutLookUp, Forward
<1>6. ASSUME NEW x \in Given, RemotePutFails(x) PROVE Forward
  BY <1>a, <1>b, <1>6 DEF RemotePutFails, Forward
<1>7. ASSUME NEW x \in Given, RemotePut(x) PROVE Forward
  <2>1. \/ UNCHANGED <<put, server>>
        \/ /\ put[x] = "fetch" /\ put' = [put EXCEPT ![x] = "sent"] /\ server' = server
        \/ /\ put[x] = "fetch" /\ put' = [put EXCEPT ![x] = "send"]
           /\ \E z \in Order : server' = [server EXCEPT ![x] = z]
    BY <1>7 DEF RemotePut, TcpSend, TcpRefused, IbSend, IbRefused, Listening, Serving
  <2>2. put[x] = "fetch" => server[x] = NoOrder
    BY <1>a DEF IInv, InStep, Ends
  <2> QED
    BY <1>a, <1>b, <2>1, <2>2 DEF Forward
<1>8. ASSUME NEW x \in Given, HandleTinfoQuery(x) PROVE Forward
  <2>1. UNCHANGED <<put, server>>
    BY <1>8 DEF HandleTinfoQuery, HandOut
  <2> QED
    BY <2>1 DEF Forward
<1>9. ASSUME NEW x \in Given, PopTake(x) PROVE Forward
  <2>1. UNCHANGED <<put, server>>
    BY <1>9 DEF PopTake, HandOut
  <2> QED
    BY <2>1 DEF Forward
<1>10. ASSUME NEW x \in Given, IbServed(x) PROVE Forward
  BY <1>a, <1>b, <1>10 DEF IbServed, Forward
<1>11. ASSUME NEW x \in Given, HandleFailRemoteGet(x) PROVE Forward
  <2>1. UNCHANGED <<put, server>>
    BY <1>11 DEF HandleFailRemoteGet
  <2> QED
    BY <2>1 DEF Forward
<1>12. ASSUME NEW j \in jobs, IbBroken(j) PROVE Forward
  <2>1. put[j.order] = "send"
    BY DEF IInv, InStep, Handled
  <2> QED
    BY <1>b, <1>12, <2>1 DEF IbBroken, Forward
<1>13. CASE \/ \E x \in Given : PopTest(x) \/ PopWait(x) \/ WaGet(x) \/ InitGet(x) \/ TcpWait(x) \/
                  TcpResume(x)
  <2>1. UNCHANGED <<put, server>>
    BY <1>13 DEF PopTest, PopWait, WaGet, InitGet, TcpWait, TcpResume
  <2> QED
    BY <2>1 DEF Forward
<1>14. CASE \/ \E x \in Given : PortNotify(x) \/ RecvChunk(x) \/ SyncPut(x) \/ WaGetDone(x) \/
                  ListRemote(x) \/ NotifyRemoteGetDone(x)
  <2>1. UNCHANGED <<put, server>>
    BY <1>14 DEF PortNotify, RecvChunk, SyncPut, WaGetDone, ListRemote, NotifyRemoteGetDone
  <2> QED
    BY <2>1 DEF Forward
<1>15. CASE \/ \E j \in jobs : HandlerRead(j) \/ HandlerCopy(j) \/ HandlerAdd(j) \/ IbTangled(j)
  <2>1. UNCHANGED <<put, server>>
    BY <1>15 DEF HandlerRead, HandlerCopy, HandlerAdd, IbTangled
  <2> QED
    BY <2>1 DEF Forward
<1>16. CASE \/ \E g \in config.gets : GetCheck(g) \/ GetWait(g) \/ GetResume(g)
            \/ \E n \in Site : InitListen(n)
  <2>1. UNCHANGED <<put, server>>
    BY <1>16 DEF GetCheck, GetWait, GetResume, InitListen
  <2> QED
    BY <2>1 DEF Forward
<1> QED
  BY <1>1, <1>2, <1>3, <1>4, <1>5, <1>6, <1>7, <1>8, <1>9, <1>10, <1>11, <1>12, <1>13, <1>14, <1>15,
     <1>16 DEF Next, HolderStep, DestinationStep, HandlerStep, Given

\* So a transfer that no other has met has not been met before.
LEMMA ApartBefore ==
    ASSUME TypeOK, Forward, config' = config, NEW x \in Order, Apart(x)'
    PROVE  Apart(x)
<1>1. \A y \in config.orders : y.dst = x.dst /\ y.dat = x.dat /\ put[y] # "new" => y = x
  BY ConfigType DEF Apart, Forward, Given
<1>2. \A y \in Order : server[y] # NoOrder /\ server[y].dst = x.dst /\ y.dat = x.dat => server[y] = x
  BY DEF Apart, Forward
<1>3. Clients(x) \subseteq Clients(x)'
  BY ConstType DEF Clients, Forward
<1>4. \A y \in Clients(x) : y.dat = x.dat /\ put[y] # "broken" /\ put[x] # "fail"
  BY <1>3 DEF Apart, Forward, Clients
<1>5. \A y, z \in Clients(x) : y = z
  BY <1>3 DEF Apart
<1> QED
  BY <1>1, <1>2, <1>4, <1>5 DEF Apart

-----------------------------------------------------------------------------
(* What a destination has of a transfer that no other has met.              *)

\* Whoever is under way to the same site with the same data is the same order.
LEMMA Alone ==
    ASSUME IInv, NEW y \in Given, Apart(y), NEW x \in Given, put[x] # "new", x # y
    PROVE  y.dst # x.dst \/ y.dat # x.dat
BY DEF Apart, Given

\* A handler at the place of the transfer is its only one.
LEMMA Handling ==
    ASSUME IInv, Ib, NEW y \in Given, Apart(y), NEW j \in jobs
    PROVE  /\ j.order \in Order /\ j.at \in Site /\ j.order.dat \in Data /\ j.at = server[j.order].dst
           /\ server[j.order] # y => y.dst # j.at \/ y.dat # j.order.dat
           /\ server[j.order] = y => /\ j.at = y.dst /\ j.order.dat = y.dat /\ Mine(y) = {j}
                                     /\ rget[y] = "serve"
<1>1. jobs \subseteq Job /\ Handled /\ Ends
  BY DEF IInv, TypeOK, InStep
<1>2. \A i \in jobs : i.order \in Order /\ i.at \in Site
  BY <1>1 DEF Job
<1>3. /\ j.at = server[j.order].dst /\ rget[server[j.order]] = "serve" /\ put[j.order] = "send"
      /\ server[j.order] # NoOrder
  BY <1>1, <1>2 DEF Handled, Ends
<1>4. j.order.dat \in Data
  BY <1>2, ConstType
<1>5. server[j.order] # y => y.dst # j.at \/ y.dat # j.order.dat
  BY <1>2, <1>3 DEF Apart
<1>6. ASSUME server[j.order] = y PROVE j.order.dat = y.dat /\ Mine(y) = {j}
  <2>1. \A i \in Mine(y) : i \in jobs /\ i.order \in Clients(y)
    BY <1>2 DEF Mine, Clients
  <2>2. j \in Mine(y)
    BY <1>6 DEF Mine
  <2>3. \A i \in Mine(y) : i.order = j.order
    BY <2>1, <2>2 DEF Apart
  <2>4. \A i \in Mine(y) : i = j
    BY <1>1, <2>1, <2>2, <2>3 DEF Handled
  <2>5. j.order.dat = y.dat
    BY <2>1, <2>2 DEF Apart
  <2> QED
    BY <2>2, <2>4, <2>5
<1> QED
  BY <1>2, <1>3, <1>4, <1>5, <1>6

\* The places Buffer says something of, and the steps between them that need
\* nothing new.
Tracked == {"init", "listen", "serve", "notify", "got", "stored", "freed", "listed", "end"}
Near    == {<<"init", "listen">>, <<"notify", "got">>, <<"freed", "listed">>, <<"freed", "end">>,
            <<"listed", "end">>}

Along(l, m) == m \in Tracked => l = m \/ <<l, m>> \in Near

\* A step that touches nothing of a transfer leaves what is known of it.
LEMMA BufferStays ==
    ASSUME NEW y, Buffer(y), config' = config, put[y] = "fail" => put'[y] = "fail",
           Along(rget[y], rget'[y]), Mine(y)' = Mine(y),
           recved'[y.dst][y.dat] = recved[y.dst][y.dat],
           data'[y.dst][y.dat] = data[y.dst][y.dat],
           stored'[y.dst][y.dat] = stored[y.dst][y.dat]
    PROVE  Buffer(y)'
<1> DEFINE l == rget[y]  m == rget'[y]
<1>1. /\ m \in {"init", "listen"} => l \in {"init", "listen"}
      /\ m = "serve" => l = "serve"
      /\ m \in {"notify", "got"} => l \in {"notify", "got"}
      /\ m \in {"stored", "freed"} => l \in {"stored", "freed"}
      /\ m \in {"freed", "listed", "end"} => l \in {"freed", "listed", "end"}
  BY DEF Along, Tracked, Near
<1>2. Whole' = Whole /\ Garbage' = Garbage
  BY Sets
<1> QED
  BY <1>1, <1>2 DEF Buffer

\* Over InfiniBand a destination has what its place says it has, unless the
\* transfer met another.
LEMMA BufferedStep ==
    ASSUME IInv, TypeOK', Next
    PROVE  Buffered'
<1> USE DEF PutAt, RgetAt, GoPut, GoRget, Arrived, JobAt,
           moveVars, syncVars, infoVars, recvVars, siteVars
<1>a. /\ config' = config /\ TypeOK /\ Given \subseteq Order /\ rget \in [Order -> GetPlace]
      /\ \A x \in Order : x.dst \in Site /\ x.dat \in Data
  BY ConfigType, ConstType DEF Next, IInv, TypeOK
<1> SUFFICES ASSUME Ib, NEW y \in Given, Apart(y)' PROVE Buffer(y)'
  BY <1>a, Sets DEF Buffered
<1>b. /\ Forward /\ Apart(y) /\ Buffer(y) /\ y \in Order
      /\ put[y] = "fail" => put'[y] = "fail"
  <2>1. Forward
    BY ForwardStep
  <2>2. y \in Order /\ Apart(y)
    BY <1>a, <2>1, ApartBefore
  <2> QED
    BY <2>1, <2>2 DEF Forward, IInv, Buffered
<1>c. Started
  BY DEF IInv
<1>d. ASSUME UNCHANGED <<recved, data, stored, jobs, server>>, Along(rget[y], rget'[y])
      PROVE  Buffer(y)'
  <2>1. Mine(y)' = Mine(y)
    BY <1>d DEF Mine
  <2> QED
    BY <1>a, <1>b, <1>d, <2>1, BufferStays
<1>e. rget' = rget => Along(rget[y], rget'[y])
  BY DEF Along
<1>f. \A m : \A x \in Given : rget' = [rget EXCEPT ![x] = m] /\ Along(rget[x], m) =>
         Along(rget[y], rget'[y])
  BY <1>a DEF Along
<1>g. \A x \in Given : put[x] # "new" /\ x # y => y.dst # x.dst \/ y.dat # x.dat
  BY <1>b, Alone
<1>h. \A j \in jobs : /\ j.order \in Order /\ j.at \in Site /\ j.order.dat \in Data
                      /\ server[j.order] # y => y.dst # j.at \/ y.dat # j.order.dat
                      /\ server[j.order] = y => /\ j.at = y.dst /\ j.order.dat = y.dat
                                                /\ Mine(y) = {j} /\ rget[y] = "serve"
  BY <1>b, Handling
<1>i. ASSUME NEW j \in jobs, jobs \ {j} \subseteq jobs', \A i \in jobs' \ jobs : i.order = j.order,
             UNCHANGED <<rget, server, stored, recved>>, server[j.order] # y,
             data' = data \/ \E c \in Content : data' = [data EXCEPT ![j.at][j.order.dat] = c]
      PROVE  Buffer(y)'
  <2>1. Mine(y)' = Mine(y)
    BY <1>i DEF Mine
  <2>2. data'[y.dst][y.dat] = data[y.dst][y.dat]
    <3>1. ASSUME NEW c \in Content, data' = [data EXCEPT ![j.at][j.order.dat] = c]
          PROVE  data'[y.dst][y.dat] = data[y.dst][y.dat]
      BY <1>a, <1>b, <1>h, <1>i, <3>1, DataMap
    <3> QED
      BY <1>i, <3>1
  <2> QED
    BY <1>a, <1>b, <1>e, <1>i, <2>1, <2>2, BufferStays
<1>1. ASSUME NEW x \in Given, HandleDmMove(x) PROVE Buffer(y)'
  <2>1. UNCHANGED <<recved, data, stored, jobs, server, rget>>
    BY <1>1 DEF HandleDmMove
  <2> QED
    BY <1>d, <1>e, <2>1
<1>2. ASSUME NEW x \in Given, TransInfoWait(x) PROVE Buffer(y)'
  <2>1. UNCHANGED <<recved, data, stored, jobs, server, rget>>
    BY <1>2 DEF TransInfoWait
  <2> QED
    BY <1>d, <1>e, <2>1
<1>3. ASSUME NEW x \in Given, TransInfoResume(x) PROVE Buffer(y)'
  <2>1. UNCHANGED <<recved, data, stored, jobs, server, rget>>
    BY <1>3 DEF TransInfoResume
  <2> QED
    BY <1>d, <1>e, <2>1
<1>4. ASSUME NEW x \in Given, HandleTinfoReply(x) PROVE Buffer(y)'
  <2>1. UNCHANGED <<recved, data, stored, jobs, server, rget>>
    BY <1>4 DEF HandleTinfoReply
  <2> QED
    BY <1>d, <1>e, <2>1
<1>5. ASSUME NEW x \in Given, RemotePutLookUp(x) PROVE Buffer(y)'
  <2>1. UNCHANGED <<recved, data, stored, jobs, server, rget>>
    BY <1>5 DEF RemotePutLookUp
  <2> QED
    BY <1>d, <1>e, <2>1
<1>6. ASSUME NEW x \in Given, RemotePutFails(x) PROVE Buffer(y)'
  <2>1. UNCHANGED <<recved, data, stored, jobs, server, rget>>
    BY <1>6 DEF RemotePutFails
  <2> QED
    BY <1>d, <1>e, <2>1
<1>7. ASSUME NEW x \in Given, RemotePut(x) PROVE Buffer(y)'
  <2>1. CASE ~IbSend(x, addr[x])
    <3>1. UNCHANGED <<recved, data, stored, jobs, server, rget>>
      BY <1>7, <2>1 DEF RemotePut, IbRefused, Ib
    <3> QED
      BY <1>d, <1>e, <3>1
  <2>2. CASE IbSend(x, addr[x])
    <3> DEFINE K(z) == [order |-> x, at |-> z.dst, first |-> 1, size |-> N, off |-> 0, pc |-> "read"]
    <3>1. PICK z \in Order :
             /\ put' = [put EXCEPT ![x] = "send"] /\ rget' = [rget EXCEPT ![z] = "serve"]
             /\ server' = [server EXCEPT ![x] = z]
             /\ rget[z] \in {"listen", "serve"} /\ put[x] = "fetch"
             /\ jobs' = jobs \cup {K(z)}
             /\ UNCHANGED <<recved, data, stored>>
      BY <1>7, <2>2 DEF RemotePut, IbSend, Listening, Serving
    <3> DEFINE k == K(z)
    <3>2. /\ jobs' = jobs \cup {k} /\ k.order = x /\ k.pc = "read" /\ k.off = 0
          /\ x \in Order
      BY <1>a, <3>1
    <3> HIDE DEF k
    <3>3. /\ \A u \in Order : u # x => server'[u] = server[u]
          /\ server'[x] = z
          /\ \A u \in Order : u # z => rget'[u] = rget[u]
          /\ rget'[z] = "serve" /\ server[x] = NoOrder /\ NoOrder \notin Order
      <4>1. server \in [Order -> Order \cup {NoOrder}]
        BY <1>a DEF TypeOK
      <4>2. server[x] = NoOrder
        BY <3>1, <3>2 DEF IInv, InStep, Ends
      <4> QED
        BY <1>a, <3>1, <3>2, <4>1, <4>2, ConstType
    <3>4. \A j \in jobs : /\ j.order \in Order /\ rget[server[j.order]] = "serve"
                          /\ put[j.order] = "send" /\ j.order # x
      <4>1. jobs \subseteq Job /\ Handled
        BY DEF IInv, TypeOK, InStep
      <4> QED
        BY <3>1, <4>1 DEF Job, Handled
    <3>5. CASE y # z
      <4>1. Mine(y)' = Mine(y)
        BY <3>2, <3>3, <3>4, <3>5 DEF Mine
      <4>2. Along(rget[y], rget'[y])
        BY <1>b, <3>3, <3>5 DEF Along
      <4> QED
        BY <1>a, <1>b, <3>1, <4>1, <4>2, BufferStays
    <3>6. CASE y = z
      <4>1. x \in Clients(y)'
        BY <3>2, <3>3, <3>6 DEF Clients
      <4>2. rget[y] = "listen"
        <5>1. ASSUME rget[y] = "serve" PROVE FALSE
          <6>1. PICK u \in Order : server[u] = y
            BY <1>b, <5>1 DEF IInv, InStep, Ends, Serves
          <6>2. u # x
            BY <1>b, <3>3, <6>1
          <6>3. u \in Clients(y)'
            BY <3>3, <6>1, <6>2 DEF Clients
          <6> QED
            BY <4>1, <6>2, <6>3 DEF Apart
        <5> QED
          BY <3>1, <3>6, <5>1
      <4>3. put[y] # "fail"
        BY <1>b, <4>1 DEF Apart
      <4>4. recved[y.dst][y.dat] = 0 /\ data[y.dst][y.dat] = Garbage
        BY <1>b, <4>2, <4>3 DEF Buffer
      <4>5. Mine(y)' = {k}
        <5>1. \A j \in jobs : server'[j.order] # y
          BY <3>3, <3>4, <4>2
        <5> QED
          BY <3>2, <3>3, <3>6, <5>1 DEF Mine
      <4> QED
        BY <1>a, <3>1, <3>2, <3>3, <3>6, <4>4, <4>5, Sets DEF Buffer
    <3> QED
      BY <3>5, <3>6
  <2> QED
    BY <2>1, <2>2
<1>8. ASSUME NEW x \in Given, HandleTinfoQuery(x) PROVE Buffer(y)'
  <2>1. /\ UNCHANGED <<recved, data, stored, jobs, server>>
        /\ rget' = rget \/ (rget' = [rget EXCEPT ![x] = "test"])
    BY <1>8 DEF HandleTinfoQuery, HandOut, Ib
  <2> QED
    BY <1>a, <1>d, <1>e, <1>f, <1>8, <2>1 DEF Along, Tracked, Near
<1>9. ASSUME NEW x \in Given, PopTest(x) PROVE Buffer(y)'
  <2>1. /\ UNCHANGED <<recved, data, stored, jobs, server>>
        /\ rget' = rget \/ (\E m \in {"take", "empty"} : rget' = [rget EXCEPT ![x] = m])
    BY <1>9 DEF PopTest
  <2> QED
    BY <1>a, <1>d, <1>e, <1>f, <1>9, <2>1 DEF Along, Tracked, Near
<1>10. ASSUME NEW x \in Given, PopWait(x) PROVE Buffer(y)'
  <2>1. /\ UNCHANGED <<recved, data, stored, jobs, server>>
        /\ rget' = rget \/ (rget' = [rget EXCEPT ![x] = "parked"])
    BY <1>10 DEF PopWait
  <2> QED
    BY <1>a, <1>d, <1>e, <1>f, <1>10, <2>1 DEF Along, Tracked, Near
<1>11. ASSUME NEW x \in Given, PopTake(x) PROVE Buffer(y)'
  <2>1. /\ UNCHANGED <<recved, data, stored, jobs, server>>
        /\ rget' = rget \/ (rget' = [rget EXCEPT ![x] = "start"])
    BY <1>11 DEF PopTake, HandOut
  <2> QED
    BY <1>a, <1>d, <1>e, <1>f, <1>11, <2>1 DEF Along, Tracked, Near
<1>12. ASSUME NEW x \in Given, WaGet(x) PROVE Buffer(y)'
  <2>1. x \in Order /\ x.dst \in Site /\ x.dat \in Data /\ put[x] # "new"
    BY <1>a, <1>c, <1>12 DEF WaGet, Started
  <2>2. /\ UNCHANGED <<jobs, server, stored>> /\ rget[x] = "start"
        /\ rget' = [rget EXCEPT ![x] = "init"]
        /\ recved' = [recved EXCEPT ![x.dst][x.dat] = 0]
        /\ data' = [data EXCEPT ![x.dst][x.dat] = Garbage]
    BY <1>12 DEF WaGet
  <2>3. /\ \A n \in Site, d \in Data :
             /\ recved'[n][d] = IF n = x.dst /\ d = x.dat THEN 0 ELSE recved[n][d]
             /\ data'[n][d] = IF n = x.dst /\ d = x.dat THEN Garbage ELSE data[n][d]
    <3>1. \A n \in Site, d \in Data : recved'[n][d] = IF n = x.dst /\ d = x.dat THEN 0 ELSE recved[n][d]
      BY <1>a, <2>1, <2>2, RecvedMap
    <3>2. \A n \in Site, d \in Data : data'[n][d] = IF n = x.dst /\ d = x.dat THEN Garbage ELSE data[n][d]
      <4>1. Garbage \in Content
        BY <1>a, ContentType
      <4>2. data' = [data EXCEPT ![x.dst][x.dat] = Garbage] /\ TypeOK
        BY <1>a, <2>2
      <4> QED
        BY <2>1, <4>1, <4>2, DataMap
    <3> QED
      BY <3>1, <3>2
  <2>4. CASE x = y
    <3>1. rget'[y] = "init" /\ recved'[y.dst][y.dat] = 0 /\ data'[y.dst][y.dat] = Garbage
      BY <1>a, <2>1, <2>2, <2>3, <2>4
    <3> QED
      BY <1>a, <3>1, Sets DEF Buffer
  <2>5. CASE x # y
    <3>1. Along(rget[y], rget'[y]) /\ Mine(y)' = Mine(y)
      BY <1>a, <1>b, <2>2, <2>5 DEF Along, Mine
    <3>2. y.dst \in Site /\ y.dat \in Data /\ (y.dst # x.dst \/ y.dat # x.dat)
      BY <1>a, <1>b, <1>g, <2>1, <2>5
    <3>3. recved'[y.dst][y.dat] = recved[y.dst][y.dat] /\ data'[y.dst][y.dat] = data[y.dst][y.dat]
      BY <2>3, <3>2
    <3> QED
      BY <1>a, <1>b, <2>2, <3>1, <3>3, BufferStays
  <2> QED
    BY <2>4, <2>5
<1>13. ASSUME NEW x \in Given, InitGet(x) PROVE Buffer(y)'
  <2>1. UNCHANGED <<recved, data, stored, jobs, server>> /\ rget[x] = "init"
    BY <1>13 DEF InitGet
  <2>2. rget' = rget \/ rget' = [rget EXCEPT ![x] = "listen"]
    BY <1>13 DEF InitGet, Ib
  <2> QED
    BY <1>a, <1>d, <1>e, <1>f, <1>13, <2>1, <2>2 DEF Along, Tracked, Near
<1>14. ASSUME NEW x \in Given, TcpWait(x) PROVE Buffer(y)'
  BY <1>a, <1>c, <1>14 DEF TcpWait, Started, TcpPlace
<1>15. ASSUME NEW x \in Given, TcpResume(x) PROVE Buffer(y)'
  BY <1>a, <1>c, <1>15 DEF TcpResume, Started, TcpPlace
<1>16. ASSUME NEW x \in Given, IbServed(x) PROVE Buffer(y)'
  <2>1. /\ UNCHANGED <<recved, data, stored, jobs, server>> /\ rget[x] = "serve"
        /\ \A j \in jobs : server[j.order] # x
        /\ rget' = [rget EXCEPT ![x] = "notify"]
    BY <1>16 DEF IbServed
  <2>2. CASE x = y
    <3>1. data[y.dst][y.dat] = Whole
      BY <1>b, <2>1, <2>2 DEF Buffer, Mine
    <3>2. rget'[y] = "notify"
      BY <1>a, <1>b, <2>1, <2>2
    <3> QED
      BY <1>a, <2>1, <3>1, <3>2, Sets DEF Buffer
  <2>3. CASE x # y
    BY <1>a, <1>b, <1>d, <2>1, <2>3 DEF Along
  <2> QED
    BY <2>2, <2>3
<1>17. ASSUME NEW x \in Given, PortNotify(x) PROVE Buffer(y)'
  <2>1. /\ UNCHANGED <<recved, data, stored, jobs, server>> /\ rget[x] = "notify"
        /\ \/ rget' = [rget EXCEPT ![x] = "got"]
           \/ \E u \in Order : rget[u] = "parked" /\ rget' = [rget EXCEPT ![u] = "test", ![x] = "got"]
    BY <1>17 DEF PortNotify
  <2>2. Along(rget[y], rget'[y])
    <3>1. CASE rget' = [rget EXCEPT ![x] = "got"]
      BY <1>f, <2>1, <3>1 DEF Along, Near
    <3>2. ASSUME NEW u \in Order, rget[u] = "parked", rget' = [rget EXCEPT ![u] = "test", ![x] = "got"]
          PROVE  Along(rget[y], rget'[y])
      <4>1. x \in Order /\ y \in Order /\ u # x
        BY <1>a, <1>b, <2>1, <3>2
      <4>2. /\ rget'[x] = "got" /\ rget'[u] = "test"
            /\ y # x /\ y # u => rget'[y] = rget[y]
        BY <1>a, <3>2, <4>1
      <4> QED
        BY <2>1, <4>2 DEF Along, Tracked, Near
    <3> QED
      BY <2>1, <3>1, <3>2
  <2> QED
    BY <1>d, <2>1, <2>2
<1>18. ASSUME NEW x \in Given, RecvChunk(x) PROVE Buffer(y)'
  BY <1>18 DEF RecvChunk, Ib
<1>19. ASSUME NEW x \in Given, SyncPut(x) PROVE Buffer(y)'
  <2>1. x \in Order /\ x.dst \in Site /\ x.dat \in Data /\ put[x] # "new"
    BY <1>a, <1>c, <1>19 DEF SyncPut, Started
  <2> DEFINE v == data[x.dst][x.dat]
  <2>2. /\ UNCHANGED <<jobs, server, recved, data>> /\ rget[x] = "got"
        /\ \/ v = Null /\ UNCHANGED <<stored, rget>>
           \/ /\ v # Null /\ stored' = [stored EXCEPT ![x.dst][x.dat] = v]
              /\ rget' = [rget EXCEPT ![x] = "stored"]
    BY <1>19 DEF SyncPut
  <2>3. v \in Content
    BY <1>a, <2>1 DEF TypeOK
  <2>4. CASE UNCHANGED <<stored, rget>>
    BY <1>d, <1>e, <2>2, <2>4
  <2>5. CASE /\ stored' = [stored EXCEPT ![x.dst][x.dat] = v]
             /\ rget' = [rget EXCEPT ![x] = "stored"]
    <3> HIDE DEF v
    <3>1. \A n \in Site, d \in Data : stored'[n][d] = IF n = x.dst /\ d = x.dat THEN v ELSE stored[n][d]
      BY <1>a, <2>1, <2>3, <2>5, StoredMap
    <3>2. CASE x = y
      <4>1. v = Whole
        BY <1>b, <2>2, <3>2 DEF Buffer, v
      <4>2. stored'[y.dst][y.dat] = Whole /\ rget'[y] = "stored"
        BY <1>a, <2>1, <2>5, <3>1, <3>2, <4>1
      <4> QED
        BY <1>a, <4>2, Sets DEF Buffer
    <3>3. CASE x # y
      <4>1. Along(rget[y], rget'[y]) /\ Mine(y)' = Mine(y)
        BY <1>a, <1>b, <2>2, <2>5, <3>3 DEF Along, Mine
      <4>2. y.dst \in Site /\ y.dat \in Data /\ (y.dst # x.dst \/ y.dat # x.dat)
        BY <1>a, <1>b, <1>g, <2>1, <3>3
      <4>3. stored'[y.dst][y.dat] = stored[y.dst][y.dat]
        BY <3>1, <4>2
      <4> QED
        BY <1>a, <1>b, <2>2, <4>1, <4>3, BufferStays
    <3> QED
      BY <3>2, <3>3
  <2> QED
    BY <2>2, <2>4, <2>5
<1>20. ASSUME NEW x \in Given, WaGetDone(x) PROVE Buffer(y)'
  <2>1. x \in Order /\ x.dst \in Site /\ x.dat \in Data /\ put[x] # "new"
    BY <1>a, <1>c, <1>20 DEF WaGetDone, Started
  <2>2. /\ UNCHANGED <<jobs, server, stored>> /\ rget[x] = "stored"
        /\ rget' = [rget EXCEPT ![x] = "freed"]
        /\ recved' = [recved EXCEPT ![x.dst][x.dat] = Absent]
        /\ data' = [data EXCEPT ![x.dst][x.dat] = Null]
    BY <1>20 DEF WaGetDone
  <2>3. \A n \in Site, d \in Data :
             recved'[n][d] = IF n = x.dst /\ d = x.dat THEN Absent ELSE recved[n][d]
    BY <1>a, <2>1, <2>2, RecvedMap
  <2>4. \A n \in Site, d \in Data :
             data'[n][d] = IF n = x.dst /\ d = x.dat THEN Null ELSE data[n][d]
    <3>1. Null \in Content
      BY <1>a, ContentType
    <3> QED
      BY <1>a, <2>1, <2>2, <3>1, DataMap
  <2>5. CASE x = y
    <3>1. rget'[y] = "freed" /\ recved'[y.dst][y.dat] = Absent
      BY <1>a, <2>1, <2>2, <2>3, <2>5
    <3>2. stored[y.dst][y.dat] = Whole
      BY <1>b, <2>2, <2>5 DEF Buffer
    <3> QED
      BY <1>a, <2>2, <3>1, <3>2, Sets DEF Buffer
  <2>6. CASE x # y
    <3>1. Along(rget[y], rget'[y]) /\ Mine(y)' = Mine(y)
      BY <1>a, <1>b, <2>2, <2>6 DEF Along, Mine
    <3>2. y.dst \in Site /\ y.dat \in Data /\ (y.dst # x.dst \/ y.dat # x.dat)
      BY <1>a, <1>b, <1>g, <2>1, <2>6
    <3>3. recved'[y.dst][y.dat] = recved[y.dst][y.dat] /\ data'[y.dst][y.dat] = data[y.dst][y.dat]
      BY <2>3, <2>4, <3>2
    <3> QED
      BY <1>a, <1>b, <2>2, <3>1, <3>3, BufferStays
  <2> QED
    BY <2>5, <2>6
<1>21. ASSUME NEW x \in Given, ListRemote(x) PROVE Buffer(y)'
  <2>1. /\ UNCHANGED <<recved, data, stored, jobs, server>>
        /\ rget' = rget \/ (rget[x] = "freed" /\ \E m \in {"listed", "end"} : rget' = [rget EXCEPT ![x] = m])
    BY <1>21 DEF ListRemote
  <2> QED
    BY <1>a, <1>d, <1>e, <1>f, <1>21, <2>1 DEF Along, Tracked, Near
<1>22. ASSUME NEW x \in Given, NotifyRemoteGetDone(x) PROVE Buffer(y)'
  <2>1. /\ UNCHANGED <<recved, data, stored, jobs, server>>
        /\ rget' = rget \/ (rget[x] = "listed" /\ rget' = [rget EXCEPT ![x] = "end"])
    BY <1>22 DEF NotifyRemoteGetDone
  <2> QED
    BY <1>a, <1>d, <1>e, <1>f, <1>22, <2>1 DEF Along, Tracked, Near
<1>23. ASSUME NEW x \in Given, HandleFailRemoteGet(x) PROVE Buffer(y)'
  <2>1. /\ x \in Order /\ x.dst \in Site /\ x.dat \in Data
        /\ put[x] = "fail" /\ put'[x] = "fail"
    <3>1. x \in Order /\ <<"FAIL_REMOTE_GET", x>> \in msgs /\ put' = put
      BY <1>a, <1>23 DEF HandleFailRemoteGet
    <3> QED
      BY <1>a, <3>1 DEF IInv, InStep, Ends
  <2>2. /\ UNCHANGED <<jobs, server, stored>>
        /\ recved' = recved \/ recved' = [recved EXCEPT ![x.dst][x.dat] = Absent]
        /\ data' = data \/ data' = [data EXCEPT ![x.dst][x.dat] = Null]
    BY <1>23 DEF HandleFailRemoteGet
  <2>3. rget' = rget
    <3>1. \A u \in Order : rget[u] # "wait"
      BY <1>c DEF Started, TcpPlace
    <3>2. thread[x.dst][x.dat] \in Order \cup {NoOrder}
      BY <1>a, <2>1 DEF TypeOK
    <3> QED
      BY <1>23, <3>1, <3>2 DEF HandleFailRemoteGet
  <2>4. CASE x = y
    <3>1. rget[y] \notin Serves
      <4>1. \A u \in Order : server[u] = y => u \in Clients(y)
        BY DEF Clients
      <4> QED
        BY <1>b, <2>1, <2>4, <4>1 DEF Apart, IInv, InStep, Ends
    <3>2. rget'[y] \notin Serves /\ put'[y] = "fail"
      BY <2>1, <2>3, <2>4, <3>1
    <3> QED
      BY <3>2 DEF Buffer, Serves
  <2>5. CASE x # y
    <3>1. Along(rget[y], rget'[y]) /\ Mine(y)' = Mine(y)
      BY <1>a, <1>b, <2>2, <2>3, <2>5 DEF Along, Mine
    <3>2. y.dst \in Site /\ y.dat \in Data /\ (y.dst # x.dst \/ y.dat # x.dat)
      BY <1>a, <1>b, <1>g, <2>1, <2>5
    <3>3. recved'[y.dst][y.dat] = recved[y.dst][y.dat]
      <4>1. recved' = [recved EXCEPT ![x.dst][x.dat] = Absent] =>
               recved'[y.dst][y.dat] = recved[y.dst][y.dat]
        BY <1>a, <2>1, <3>2, RecvedMap
      <4> QED
        BY <2>2, <4>1
    <3>4. data'[y.dst][y.dat] = data[y.dst][y.dat]
      <4>1. data' = [data EXCEPT ![x.dst][x.dat] = Null] =>
               data'[y.dst][y.dat] = data[y.dst][y.dat]
        BY <1>a, <2>1, <3>2, ContentType, DataMap
      <4> QED
        BY <2>2, <4>1
    <3> QED
      BY <1>a, <1>b, <2>2, <3>1, <3>3, <3>4, BufferStays
  <2> QED
    BY <2>4, <2>5
<1>24. ASSUME NEW j \in jobs, HandlerRead(j) PROVE Buffer(y)'
  <2> DEFINE size == recved[j.at][j.order.dat]
             k    == [j EXCEPT !.off = size, !.pc = "copy"]
  <2>1. /\ UNCHANGED <<rget, server, stored, recved, data>> /\ j.pc = "read"
        /\ jobs' = (jobs \ {j}) \cup IF size = Absent THEN {} ELSE {k}
    BY <1>24 DEF HandlerRead
  <2>2. /\ k.order = j.order /\ k.off = size /\ k.pc = "copy"
    <3>1. j \in Job
      BY <1>24 DEF IInv, TypeOK
    <3> QED
      BY <3>1 DEF Job
  <2> HIDE DEF k
  <2>3. CASE server[j.order] # y
    <3>1. jobs \ {j} \subseteq jobs' /\ \A i \in jobs' \ jobs : i.order = j.order
      BY <2>1, <2>2
    <3> QED
      BY <1>i, <1>24, <2>1, <2>3, <3>1
  <2>4. CASE server[j.order] = y
    <3>1. /\ j.at = y.dst /\ j.order.dat = y.dat /\ Mine(y) = {j} /\ rget[y] = "serve"
      BY <1>h, <1>24, <2>4
    <3>2. size = 0 /\ data[y.dst][y.dat] = Garbage
      BY <1>b, <2>1, <3>1 DEF Buffer
    <3>3. Mine(y)' = {k}
      BY <2>1, <2>2, <2>4, <3>1, <3>2 DEF Mine, Absent
    <3> QED
      BY <1>a, <2>1, <2>2, <3>1, <3>2, <3>3, Sets DEF Buffer
  <2> QED
    BY <2>3, <2>4
<1>25. ASSUME NEW j \in jobs, HandlerCopy(j) PROVE Buffer(y)'
  <2> DEFINE n == j.at
             d == j.order.dat
             k == [j EXCEPT !.pc = "add"]
             Written == [i \in 1 .. N |-> IF i \in j.off + 1 .. j.off + j.size
                                          THEN j.first + (i - j.off - 1) ELSE data[n][d][i]]
  <2>1. /\ UNCHANGED <<rget, server, stored, recved>> /\ j.pc = "copy"
        /\ \/ data[n][d] = Null /\ UNCHANGED <<data, jobs>>
           \/ /\ data[n][d] # Null /\ data' = [data EXCEPT ![n][d] = Written]
              /\ jobs' = (jobs \ {j}) \cup {k}
    BY <1>25 DEF HandlerCopy
  <2>2. /\ k.order = j.order /\ k.off = j.off /\ k.pc = "add" /\ j.off \in Nat
    <3>1. j \in Job
      BY <1>25 DEF IInv, TypeOK
    <3> QED
      BY <3>1 DEF Job
  <2> HIDE DEF k
  <2>3. CASE UNCHANGED <<data, jobs>>
    BY <1>d, <1>e, <2>1, <2>3
  <2>4. CASE server[j.order] # y /\ jobs' = (jobs \ {j}) \cup {k} /\ data[n][d] # Null
    <3>1. data' = [data EXCEPT ![n][d] = Written]
      BY <2>1, <2>4
    <3>2. data'[n][d] = Written
      <4>1. data \in [Site -> [Data -> Content]] /\ n \in Site /\ d \in Data
        BY <1>a, <1>h, <1>25 DEF TypeOK
      <4> HIDE DEF Written
      <4> QED
        BY <3>1, <4>1
    <3>3. data' \in [Site -> [Data -> Content]]
      BY <1>a, Sets DEF TypeOK
    <3>4. Written \in Content
      BY <1>h, <1>25, <3>2, <3>3
    <3>5. jobs \ {j} \subseteq jobs' /\ \A i \in jobs' \ jobs : i.order = j.order
      BY <2>2, <2>4
    <3> HIDE DEF Written
    <3> QED
      BY <1>i, <1>25, <2>1, <2>4, <3>1, <3>4, <3>5
  <2>5. CASE server[j.order] = y /\ jobs' = (jobs \ {j}) \cup {k} /\ data[n][d] # Null
    <3>1. /\ n = y.dst /\ d = y.dat /\ Mine(y) = {j} /\ rget[y] = "serve" /\ n \in Site /\ d \in Data
      BY <1>h, <1>25, <2>5
    <3>2. j.off = 0
      BY <1>b, <2>1, <3>1 DEF Buffer
    <3>3. j.first = 1 /\ j.size = N /\ N \in Nat
      BY <1>a, <1>25, ConfigType DEF IInv, InStep, Handled
    <3>4. Written = Whole
      <4>1. \A i \in 1 .. N : i \in j.off + 1 .. j.off + j.size /\ j.first + (i - j.off - 1) = i
        BY <3>2, <3>3
      <4> QED
        BY <4>1 DEF Whole
    <3>5. data'[y.dst][y.dat] = Whole
      <4>1. data \in [Site -> [Data -> Content]]
        BY <1>a DEF TypeOK
      <4> HIDE DEF Written
      <4> QED
        BY <2>1, <2>5, <3>1, <3>4, <4>1
    <3>6. Mine(y)' = {k}
      BY <2>1, <2>2, <2>5, <3>1 DEF Mine
    <3> QED
      BY <1>a, <2>1, <2>2, <3>1, <3>2, <3>5, <3>6, Sets DEF Buffer
  <2> QED
    BY <2>1, <2>3, <2>4, <2>5
<1>26. ASSUME NEW j \in jobs, HandlerAdd(j) PROVE Buffer(y)'
  <2>1. /\ UNCHANGED <<rget, server, stored, data>> /\ j.pc = "add" /\ jobs' = jobs \ {j}
        /\ \E v : recved' = [recved EXCEPT ![j.at][j.order.dat] = v]
    BY <1>26 DEF HandlerAdd
  <2>2. CASE server[j.order] # y
    <3>1. Mine(y)' = Mine(y)
      BY <2>1, <2>2 DEF Mine
    <3>2. recved'[y.dst][y.dat] = recved[y.dst][y.dat]
      <4>1. recved \in [Site -> [Data -> Nat \cup {Absent}]] /\ y.dst \in Site /\ y.dat \in Data
        BY <1>a, <1>b DEF TypeOK
      <4>2. y.dst # j.at \/ y.dat # j.order.dat
        BY <1>h, <1>26, <2>2
      <4> QED
        BY <2>1, <4>1, <4>2, Elsewhere
    <3> QED
      BY <1>a, <1>b, <1>e, <2>1, <3>1, <3>2, BufferStays
  <2>3. CASE server[j.order] = y
    <3>1. Mine(y) = {j} /\ rget[y] = "serve"
      BY <1>h, <1>26, <2>3
    <3>2. data[y.dst][y.dat] = Whole
      BY <1>b, <2>1, <3>1 DEF Buffer
    <3>3. Mine(y)' = {}
      BY <2>1, <3>1 DEF Mine
    <3> QED
      BY <1>a, <2>1, <3>1, <3>2, <3>3, Sets DEF Buffer
  <2> QED
    BY <2>2, <2>3
<1>27. ASSUME NEW j \in jobs, IbBroken(j) PROVE Buffer(y)'
  <2>1. /\ UNCHANGED <<rget, server, stored, recved, data>> /\ jobs' = jobs \ {j}
        /\ put' = [put EXCEPT ![j.order] = "broken"]
    BY <1>27 DEF IbBroken
  <2>2. server[j.order] # y
    <3>1. put'[j.order] = "broken" /\ j.order \in Order
      BY <1>a, <1>h, <1>27, <2>1 DEF TypeOK
    <3>2. server[j.order] = y => j.order \in Clients(y)'
      BY <2>1, <3>1 DEF Clients
    <3> QED
      BY <3>1, <3>2 DEF Apart
  <2>3. jobs \ {j} \subseteq jobs' /\ \A i \in jobs' \ jobs : i.order = j.order
    BY <2>1
  <2> QED
    BY <1>i, <1>27, <2>1, <2>2, <2>3
<1>28. ASSUME NEW j \in jobs, IbTangled(j) PROVE Buffer(y)'
  <2> DEFINE k == [j EXCEPT !.pc = "add"]
  <2>1. /\ UNCHANGED <<rget, server, stored, recved>>
        /\ \E u \in Clients(server[j.order]) : u # j.order
        /\ \E S : jobs' = (jobs \ {j}) \cup S /\ (S = {} \/ S = {j} \/ S = {k})
        /\ data' = data \/ \E c \in Content : data' = [data EXCEPT ![j.at][j.order.dat] = c]
    <3>1. jobs = (jobs \ {j}) \cup {j}
      BY <1>28
    <3> QED
      BY <1>28, <3>1 DEF IbTangled
  <2>2. k.order = j.order
    <3>1. j \in Job
      BY <1>28 DEF IInv, TypeOK
    <3> QED
      BY <3>1 DEF Job
  <2> HIDE DEF k
  <2>3. server[j.order] # y
    <3>1. j.order \in Order /\ (server[j.order] = y => j.order \in Clients(y))
      BY <1>h, <1>28 DEF Clients
    <3> QED
      BY <1>b, <2>1, <3>1 DEF Apart
  <2>4. jobs \ {j} \subseteq jobs' /\ \A i \in jobs' \ jobs : i.order = j.order
    BY <2>1, <2>2
  <2> QED
    BY <1>i, <1>28, <2>1, <2>3, <2>4
<1>29. CASE \/ \E g \in config.gets : GetCheck(g) \/ GetWait(g) \/ GetResume(g)
            \/ \E n \in Site : InitListen(n)
  <2>1. UNCHANGED <<recved, data, stored, jobs, server, rget>>
    BY <1>29 DEF GetCheck, GetWait, GetResume, InitListen
  <2> QED
    BY <1>d, <1>e, <2>1
<1> QED
  BY <1>1, <1>2, <1>3, <1>4, <1>5, <1>6, <1>7, <1>8, <1>9, <1>10, <1>11, <1>12, <1>13, <1>14, <1>15,
     <1>16, <1>17, <1>18, <1>19, <1>20, <1>21, <1>22, <1>23, <1>24, <1>25, <1>26, <1>27, <1>28,
     <1>29 DEF Next, HolderStep, DestinationStep, HandlerStep, Given

\* What is new stays so when no size grows and no handler is given another place.
LEMMA NewStays ==
    ASSUME NEW y, New(y), server'[y] = NoOrder => server[y] = NoOrder,
           \A j \in jobs' : j.order = y =>
              j.off = 0 /\ (server[y] = NoOrder \/ \E i \in jobs : i.order = y),
           \A n \in Site : recved'[n][y.dat] = recved[n][y.dat] \/ recved'[n][y.dat] \in {0, Absent}
    PROVE  New(y)'
BY DEF New, Absent

\* Over InfiniBand nothing was received of what was not sent.
LEMMA UnreadStep ==
    ASSUME IInv, TypeOK', Next
    PROVE  Unread'
<1> USE DEF PutAt, RgetAt, GoPut, GoRget, Arrived, JobAt,
           moveVars, syncVars, infoVars, recvVars, siteVars
<1>a. /\ config' = config /\ TypeOK /\ Given \subseteq Order /\ jobs \subseteq Job
      /\ \A x \in Order : x.dst \in Site /\ x.dat \in Data
      /\ recved \in [Site -> [Data -> Nat \cup {Absent}]]
  BY ConfigType, ConstType DEF Next, IInv, TypeOK
<1> SUFFICES ASSUME Ib, NEW y \in Given, OrderedOnce(y.dat) PROVE New(y)'
  BY <1>a, Sets DEF Unread, OrderedOnce
<1>b. New(y) /\ y \in Order /\ y.dat \in Data
  BY <1>a DEF IInv, Unread
<1>c. ASSUME UNCHANGED <<jobs, server>>,
             \A n \in Site : recved'[n][y.dat] = recved[n][y.dat] \/ recved'[n][y.dat] \in {0, Absent}
      PROVE  New(y)'
  <2>1. \A j \in jobs' : j.order = y =>
              j.off = 0 /\ (server[y] = NoOrder \/ \E i \in jobs : i.order = y)
    BY <1>b, <1>c DEF New
  <2> QED
    BY <1>b, <1>c, <2>1, NewStays
<1>d. ASSUME NEW x \in Given, NEW v \in {0, Absent}, UNCHANGED <<jobs, server>>,
             recved' = [recved EXCEPT ![x.dst][x.dat] = v]
      PROVE  New(y)'
  <2>1. x.dst \in Site /\ x.dat \in Data /\ v \in Nat \cup {Absent}
    BY <1>a
  <2>2. \A n \in Site, d \in Data : recved'[n][d] = IF n = x.dst /\ d = x.dat THEN v ELSE recved[n][d]
    BY <1>a, <1>d, <2>1, RecvedMap
  <2> QED
    BY <1>b, <1>c, <1>d, <2>2
<1>e. \A j \in jobs : /\ j.order \in Given /\ j.at \in Site /\ j.order.dat \in Data
                      /\ server[j.order] # NoOrder
                      /\ \A i \in jobs : i.order = j.order => i = j
  <2>1. \A j \in jobs : j.order \in Order /\ j.at \in Site
    BY <1>a DEF Job
  <2>2. \A j \in jobs : j.order \in Given /\ put[j.order] = "send"
    BY <2>1 DEF IInv, Started, InStep, Handled
  <2> QED
    BY <1>a, <2>1, <2>2 DEF IInv, InStep, Ends, Handled
<1>f. ASSUME NEW j \in jobs, UNCHANGED <<server, recved>>,
             \A k \in jobs' : k \in jobs \/ (k.order = j.order /\ k.off = j.off)
      PROVE  New(y)'
  <2>1. \A k \in jobs' : k.order = y =>
              k.off = 0 /\ (server[y] = NoOrder \/ \E i \in jobs : i.order = y)
    BY <1>b, <1>f DEF New
  <2> QED
    BY <1>b, <1>f, <2>1, NewStays
<1>1. ASSUME NEW x \in Given, RemotePut(x) PROVE New(y)'
  <2>1. CASE ~IbSend(x, addr[x])
    <3>1. UNCHANGED <<recved, jobs, server>>
      BY <1>1, <2>1 DEF RemotePut, IbRefused, Ib
    <3> QED
      BY <1>c, <3>1
  <2>2. CASE IbSend(x, addr[x])
    <3> DEFINE K(z) == [order |-> x, at |-> z.dst, first |-> 1, size |-> N, off |-> 0, pc |-> "read"]
    <3>1. PICK z \in Order :
             /\ server' = [server EXCEPT ![x] = z] /\ put[x] = "fetch"
             /\ jobs' = jobs \cup {K(z)} /\ UNCHANGED recved
      BY <1>1, <2>2 DEF RemotePut, IbSend, Listening, Serving
    <3> DEFINE k == K(z)
    <3>2. /\ jobs' = jobs \cup {k} /\ k.order = x /\ k.off = 0 /\ x \in Order
      BY <1>a, <3>1
    <3> HIDE DEF k
    <3>3. /\ \A u \in Order : u # x => server'[u] = server[u]
          /\ server'[x] = z /\ z # NoOrder /\ server[x] = NoOrder
      <4>1. server \in [Order -> Order \cup {NoOrder}]
        BY <1>a DEF TypeOK
      <4>2. server[x] = NoOrder
        BY <3>1, <3>2 DEF IInv, InStep, Ends
      <4> QED
        BY <1>a, <3>1, <3>2, <4>1, <4>2, ConstType
    <3>4. \A j \in jobs' : j.order = y =>
              j.off = 0 /\ (server[y] = NoOrder \/ \E i \in jobs : i.order = y)
      BY <1>b, <3>2, <3>3 DEF New
    <3>5. server'[y] = NoOrder => server[y] = NoOrder
      BY <1>b, <3>3
    <3> QED
      BY <1>b, <3>1, <3>4, <3>5, NewStays
  <2> QED
    BY <2>1, <2>2
<1>2. ASSUME NEW x \in Given, HandleTinfoQuery(x) PROVE New(y)'
  <2>1. UNCHANGED <<jobs, recved, server>>
    BY <1>2 DEF HandleTinfoQuery, HandOut
  <2> QED
    BY <1>c, <2>1
<1>3. ASSUME NEW x \in Given, PopTake(x) PROVE New(y)'
  <2>1. UNCHANGED <<jobs, recved, server>>
    BY <1>3 DEF PopTake, HandOut
  <2> QED
    BY <1>c, <2>1
<1>4. ASSUME NEW x \in Given, WaGet(x) PROVE New(y)'
  <2>1. UNCHANGED <<jobs, server>> /\ recved' = [recved EXCEPT ![x.dst][x.dat] = 0]
    BY <1>4 DEF WaGet
  <2> QED
    BY <1>d, <1>4, <2>1
<1>5. ASSUME NEW x \in Given, RecvChunk(x) PROVE New(y)'
  BY <1>5 DEF RecvChunk, Ib
<1>6. ASSUME NEW x \in Given, WaGetDone(x) PROVE New(y)'
  <2>1. UNCHANGED <<jobs, server>> /\ recved' = [recved EXCEPT ![x.dst][x.dat] = Absent]
    BY <1>6 DEF WaGetDone
  <2> QED
    BY <1>d, <1>6, <2>1
<1>7. ASSUME NEW x \in Given, HandleFailRemoteGet(x) PROVE New(y)'
  <2>1. /\ UNCHANGED <<jobs, server>>
        /\ recved' = recved \/ recved' = [recved EXCEPT ![x.dst][x.dat] = Absent]
    BY <1>7 DEF HandleFailRemoteGet
  <2>2. CASE recved' = recved
    BY <1>c, <2>1, <2>2
  <2>3. CASE recved' = [recved EXCEPT ![x.dst][x.dat] = Absent]
    BY <1>d, <1>7, <2>1, <2>3
  <2> QED
    BY <2>1, <2>2, <2>3
<1>8. ASSUME NEW j \in jobs, HandlerRead(j) PROVE New(y)'
  <2> DEFINE size == recved[j.at][j.order.dat]
             k    == [j EXCEPT !.off = size, !.pc = "copy"]
  <2>1. /\ UNCHANGED <<server, recved>>
        /\ jobs' = (jobs \ {j}) \cup IF size = Absent THEN {} ELSE {k}
    BY <1>8 DEF HandlerRead
  <2>2. /\ k.order = j.order /\ k.off = size
    <3>1. j \in Job
      BY <1>a, <1>8
    <3> QED
      BY <3>1 DEF Job
  <2> HIDE DEF k
  <2>3. j.order = y => size \in {0, Absent}
    BY <1>b, <1>e, <1>8 DEF New
  <2>4. \A i \in jobs' : i.order = y =>
              i.off = 0 /\ (server[y] = NoOrder \/ \E u \in jobs : u.order = y)
    BY <1>b, <1>8, <2>1, <2>2, <2>3 DEF New
  <2> QED
    BY <1>b, <2>1, <2>4, NewStays
<1>9. ASSUME NEW j \in jobs, HandlerCopy(j) PROVE New(y)'
  <2> DEFINE k == [j EXCEPT !.pc = "add"]
  <2>1. UNCHANGED <<server, recved>> /\ \A i \in jobs' : i \in jobs \/ i = k
    BY <1>9 DEF HandlerCopy
  <2>2. k.order = j.order /\ k.off = j.off
    <3>1. j \in Job
      BY <1>a, <1>9
    <3> QED
      BY <3>1 DEF Job
  <2> HIDE DEF k
  <2>3. \A i \in jobs' : i \in jobs \/ (i.order = j.order /\ i.off = j.off)
    BY <2>1, <2>2
  <2>4. j \in jobs
    BY <1>9
  <2> QED
    BY <1>f, <2>1, <2>3, <2>4
<1>10. ASSUME NEW j \in jobs, HandlerAdd(j) PROVE New(y)'
  <2>1. /\ UNCHANGED server /\ jobs' = jobs \ {j}
        /\ \E v : recved' = [recved EXCEPT ![j.at][j.order.dat] = v]
    BY <1>10 DEF HandlerAdd
  <2>2. CASE y.dat # j.order.dat
    <3>1. \A n \in Site : recved'[n][y.dat] = recved[n][y.dat]
      BY <1>a, <1>b, <2>1, <2>2, Elsewhere
    <3>2. \A i \in jobs' : i.order = y =>
              i.off = 0 /\ (server[y] = NoOrder \/ \E u \in jobs : u.order = y)
      BY <1>b, <2>1 DEF New
    <3> QED
      BY <1>b, <2>1, <3>1, <3>2, NewStays
  <2>3. CASE y.dat = j.order.dat
    <3>1. y = j.order
      BY <1>e, <1>10, <2>3 DEF OrderedOnce, Given
    <3>2. /\ \A i \in jobs' : i.order # y
          /\ server'[y] # NoOrder
      BY <1>e, <1>10, <2>1, <3>1
    <3> QED
      BY <3>2 DEF New
  <2> QED
    BY <2>2, <2>3
<1>11. ASSUME NEW j \in jobs, IbBroken(j) PROVE New(y)'
  <2>1. UNCHANGED <<server, recved>> /\ \A i \in jobs' : i \in jobs
    BY <1>11 DEF IbBroken
  <2>2. \A i \in jobs' : i \in jobs \/ (i.order = j.order /\ i.off = j.off)
    BY <2>1
  <2>3. j \in jobs
    BY <1>11
  <2> QED
    BY <1>f, <2>1, <2>2, <2>3
<1>12. ASSUME NEW j \in jobs, IbTangled(j) PROVE New(y)'
  <2> DEFINE k == [j EXCEPT !.pc = "add"]
  <2>1. UNCHANGED <<server, recved>> /\ \A i \in jobs' : i \in jobs \/ i = k
    BY <1>12 DEF IbTangled
  <2>2. k.order = j.order /\ k.off = j.off
    <3>1. j \in Job
      BY <1>a, <1>12
    <3> QED
      BY <3>1 DEF Job
  <2> HIDE DEF k
  <2>3. \A i \in jobs' : i \in jobs \/ (i.order = j.order /\ i.off = j.off)
    BY <2>1, <2>2
  <2>4. j \in jobs
    BY <1>12
  <2> QED
    BY <1>f, <2>1, <2>3, <2>4
<1>13. CASE \/ \E x \in Given : HandleDmMove(x) \/ TransInfoWait(x) \/ TransInfoResume(x) \/
                  HandleTinfoReply(x) \/ RemotePutLookUp(x) \/ RemotePutFails(x)
  <2>1. UNCHANGED <<jobs, recved, server>>
    BY <1>13 DEF HandleDmMove, TransInfoWait, TransInfoResume, HandleTinfoReply,
       RemotePutLookUp, RemotePutFails
  <2> QED
    BY <1>c, <2>1
<1>14. CASE \/ \E x \in Given : PopTest(x) \/ PopWait(x) \/ InitGet(x) \/ TcpWait(x) \/ TcpResume(x)
  <2>1. UNCHANGED <<jobs, recved, server>>
    BY <1>14 DEF PopTest, PopWait, InitGet, TcpWait, TcpResume
  <2> QED
    BY <1>c, <2>1
<1>15. CASE \/ \E x \in Given : IbServed(x) \/ PortNotify(x) \/ SyncPut(x) \/ ListRemote(x) \/
                  NotifyRemoteGetDone(x)
  <2>1. UNCHANGED <<jobs, recved, server>>
    BY <1>15 DEF IbServed, PortNotify, SyncPut, ListRemote, NotifyRemoteGetDone
  <2> QED
    BY <1>c, <2>1
<1>16. CASE \/ \E g \in config.gets : GetCheck(g) \/ GetWait(g) \/ GetResume(g)
            \/ \E n \in Site : InitListen(n)
  <2>1. UNCHANGED <<jobs, recved, server>>
    BY <1>16 DEF GetCheck, GetWait, GetResume, InitListen
  <2> QED
    BY <1>c, <2>1
<1> QED
  BY <1>1, <1>2, <1>3, <1>4, <1>5, <1>6, <1>7, <1>8, <1>9, <1>10, <1>11, <1>12, <1>13, <1>14, <1>15,
     <1>16 DEF Next, HolderStep, DestinationStep, HandlerStep, Given

\* A set that loses an element and gains at most one is not larger.
LEMMA Replaced ==
    ASSUME NEW A, IsFiniteSet(A), NEW j \in A, NEW k, NEW B, B \subseteq (A \ {j}) \cup {k}
    PROVE  IsFiniteSet(B) /\ Cardinality(B) <= Cardinality(A) /\ Cardinality(B) \in Nat
<1>1. IsFiniteSet(A \ {j}) /\ Cardinality(A \ {j}) = Cardinality(A) - 1 /\ Cardinality(A) \in Nat
  BY FS_RemoveElement, FS_CardinalityType
<1>2. /\ IsFiniteSet((A \ {j}) \cup {k})
      /\ \/ Cardinality((A \ {j}) \cup {k}) = Cardinality(A \ {j})
         \/ Cardinality((A \ {j}) \cup {k}) = Cardinality(A \ {j}) + 1
  BY <1>1, FS_AddElement
<1>3. /\ IsFiniteSet(B) /\ Cardinality(B) \in Nat
      /\ Cardinality(B) <= Cardinality((A \ {j}) \cup {k})
  BY <1>2, FS_Subset, FS_CardinalityType
<1> QED
  BY <1>1, <1>2, <1>3

\* An order's jobs are finitely many.
LEMMA JobsFinite ==
    ASSUME IsFiniteSet(jobs), NEW x
    PROVE  IsFiniteSet(JobsOf(x)) /\ Cardinality(JobsOf(x)) \in Nat
<1>1. JobsOf(x) \in SUBSET jobs
  BY DEF JobsOf
<1> QED
  BY <1>1, FS_Subset, FS_CardinalityType

\* The count stays when chunks are neither read nor handled; the size may be set
\* to 0, and its entry may go.
LEMMA CountStays ==
    ASSUME TypeOK, IsFiniteSet(jobs), NEW x \in Order, Count(x),
           JobsOf(x)' = JobsOf(x), wire'[x].read = wire[x].read,
           \A n \in Site : recved'[n][x.dat] \in {recved[n][x.dat], 0, Absent}
    PROVE  Count(x)'
<1>1. Cardinality(JobsOf(x)) \in Nat /\ wire[x].read \in Nat
  <2>1. wire[x].read \in 0 .. N /\ N \in Nat
    BY ConfigType DEF TypeOK
  <2> QED
    BY <2>1, JobsFinite
<1>2. \A n \in Site : recved'[n][x.dat] + Cardinality(JobsOf(x)) <= wire[x].read
  BY <1>1 DEF Count, Absent
<1> QED
  BY <1>2 DEF Count

\* init_recv reads a chunk and hands it over.
LEMMA CountRead ==
    ASSUME IInv, ~Ib, config' = config, NEW x \in Given, RecvChunk(x),
           NEW y \in Given, Count(y)
    PROVE  IsFiniteSet(jobs)' /\ Count(y)'
<1> DEFINE k == [order |-> x, at |-> wire[x].site, first |-> wire[x].read + 1, size |-> 1,
                 off |-> 0, pc |-> "read"]
<1>1. /\ jobs' = jobs \cup {k} /\ recved' = recved
      /\ wire' = [wire EXCEPT ![x].read = wire[x].read + 1]
  BY DEF RecvChunk
<1>2. x \in Order /\ y \in Order /\ TypeOK
  BY ConfigType DEF IInv
<1>3. wire[x].read \in Nat /\ wire'[x].read = wire[x].read + 1 /\ (y # x => wire'[y] = wire[y])
  <2>1. wire \in [Order -> [site : Site, read : 0 .. N]] /\ N \in Nat
    BY <1>2, ConfigType DEF TypeOK
  <2> QED
    BY <1>1, <1>2, <2>1
<1>4. IsFiniteSet(jobs) /\ IsFiniteSet(jobs')
  BY <1>1, FS_AddElement DEF IInv, Counted
<1>5. CASE y = x
  <2>1. JobsOf(x)' = JobsOf(x) \cup {k}
    BY <1>1 DEF JobsOf
  <2>2. IsFiniteSet(JobsOf(x)) /\ Cardinality(JobsOf(x)) \in Nat
    BY <1>4, JobsFinite
  <2>3. \/ Cardinality(JobsOf(x)') = Cardinality(JobsOf(x))
        \/ Cardinality(JobsOf(x)') = Cardinality(JobsOf(x)) + 1
    BY <2>1, <2>2, FS_AddElement
  <2>4. \A n \in Site : recved'[n][x.dat] + Cardinality(JobsOf(x)') <= wire'[x].read
    <3> SUFFICES ASSUME NEW n \in Site
                 PROVE  recved[n][x.dat] + Cardinality(JobsOf(x)') <= wire[x].read + 1
      BY <1>1, <1>3
    <3>1. recved[n][x.dat] \in Int
      BY <1>2, ConstType DEF TypeOK, Absent
    <3>2. recved[n][x.dat] + Cardinality(JobsOf(x)) <= wire[x].read
      BY <1>5 DEF Count
    <3> QED
      BY <1>3, <2>2, <2>3, <3>1, <3>2
  <2>5. \A j \in JobsOf(x)' : j.size = 1 /\
           (j.pc # "read" => j.off + Cardinality(JobsOf(x)') <= wire'[x].read)
    <3>0. k.size = 1 /\ k.pc = "read" /\ \A j \in JobsOf(x) : j.size = 1
      BY <1>5 DEF Count
    <3> HIDE DEF k
    <3> SUFFICES ASSUME NEW j \in JobsOf(x), j.pc # "read"
                 PROVE  j.off + Cardinality(JobsOf(x)') <= wire'[x].read
      BY <2>1, <3>0
    <3>1. j.off \in Nat
      BY <1>2 DEF TypeOK, JobsOf, Job
    <3>2. j.off + Cardinality(JobsOf(x)) <= wire[x].read
      BY <1>5 DEF Count
    <3> QED
      BY <1>3, <2>2, <2>3, <3>1, <3>2
  <2>6. Cardinality(JobsOf(x)') <= wire'[x].read
    BY <1>3, <1>5, <2>2, <2>3 DEF Count
  <2> QED
    BY <1>4, <1>5, <2>4, <2>5, <2>6 DEF Count
<1>6. CASE y # x
  <2>1. JobsOf(y)' = JobsOf(y)
    BY <1>1, <1>6 DEF JobsOf
  <2> QED
    BY <1>1, <1>2, <1>3, <1>4, <1>6, <2>1, CountStays
<1> QED
  BY <1>5, <1>6

\* A handler reads the size, copies its chunk and counts it.
LEMMA CountHandled ==
    ASSUME IInv, ~Ib, config' = config, NEW j \in jobs,
           HandlerRead(j) \/ HandlerCopy(j) \/ HandlerAdd(j),
           NEW y \in Given, OrderedOnce(y.dat), Count(y)
    PROVE  Count(y)'
<1> USE DEF JobAt
<1> DEFINE x == j.order
           r == recved[j.at][x.dat]
<1>1. /\ TypeOK /\ IsFiniteSet(jobs) /\ j \in Job /\ x \in Order /\ x \in Given /\ y \in Order
      /\ j.at \in Site /\ j.off \in Nat /\ (y # x => y.dat # x.dat)
  <2>1. TypeOK /\ IsFiniteSet(jobs) /\ j \in Job
    BY DEF IInv, Counted, TypeOK
  <2>2. x \in Order /\ j.at \in Site /\ j.off \in Nat
    BY <2>1 DEF Job
  <2>3. x \in Given
    BY <2>2 DEF IInv, Started
  <2> QED
    BY <2>1, <2>2, <2>3, ConfigType DEF OrderedOnce, Given
<1>2. wire' = wire /\ HandlerStep(j)
  BY DEF HandlerRead, HandlerCopy, HandlerAdd, HandlerStep
<1>3. CASE y # x
  <2>1. JobsOf(y)' = JobsOf(y)
    <3>1. PICK k : k.order = x /\ jobs' \subseteq (jobs \ {j}) \cup {k}
      BY <1>1, <1>2, HandlerJobs
    <3>2. jobs \ {j} \subseteq jobs'
      BY DEF HandlerRead, HandlerCopy, HandlerAdd
    <3> QED
      BY <1>3, <3>1, <3>2 DEF JobsOf
  <2>2. \A n \in Site : recved'[n][y.dat] = recved[n][y.dat]
    <3>1. recved' = recved \/ \E v : recved' = [recved EXCEPT ![j.at][x.dat] = v]
      BY DEF HandlerRead, HandlerCopy, HandlerAdd
    <3>2. recved \in [Site -> [Data -> Nat \cup {Absent}]] /\ y.dat \in Data /\ y.dat # x.dat
      BY <1>1, <1>3, ConstType DEF TypeOK
    <3>3. ASSUME NEW v, recved' = [recved EXCEPT ![j.at][x.dat] = v], NEW n \in Site
          PROVE  recved'[n][y.dat] = recved[n][y.dat]
      BY <1>1, <3>2, <3>3
    <3> QED
      BY <3>1, <3>3
  <2> QED
    BY <1>1, <1>2, <2>1, <2>2, CountStays
<1>4. CASE y = x
  <2>1. /\ IsFiniteSet(JobsOf(x)) /\ Cardinality(JobsOf(x)) \in Nat /\ j \in JobsOf(x)
        /\ wire[x].read \in Int /\ r \in Nat \cup {Absent}
        /\ \A n \in Site : recved[n][x.dat] \in Int
    <3>1. wire[x].read \in 0 .. N /\ N \in Nat
      BY <1>1, ConfigType DEF TypeOK
    <3>2. r \in Nat \cup {Absent} /\ \A n \in Site : recved[n][x.dat] \in Int
      BY <1>1, ConstType DEF TypeOK, Absent
    <3> QED
      BY <1>1, <3>1, <3>2, JobsFinite DEF JobsOf
  <2>2. PICK k : /\ k.order = x /\ k.size = j.size
                 /\ jobs' \subseteq (jobs \ {j}) \cup {k}
    BY <1>1, <1>2, HandlerJobs
  <2>3. JobsOf(x)' \subseteq (JobsOf(x) \ {j}) \cup {k}
    BY <2>2 DEF JobsOf
  <2>4. /\ Cardinality(JobsOf(x)') \in Nat
        /\ Cardinality(JobsOf(x)') <= Cardinality(JobsOf(x))
    BY <2>1, <2>3, Replaced
  <2>5. j.size = 1 /\ \A i \in JobsOf(x)' : i.size = 1
    BY <1>4, <2>1, <2>2, <2>3 DEF Count
  <2>6. CASE HandlerRead(j) \/ HandlerCopy(j)
    <3>1. recved' = recved
      BY <2>6 DEF HandlerRead, HandlerCopy
    <3>2. Cardinality(JobsOf(x)') <= wire[x].read
          /\ \A n \in Site : recved[n][x.dat] + Cardinality(JobsOf(x)') <= wire[x].read
      BY <1>4, <2>1, <2>4 DEF Count
    <3>3. \A i \in JobsOf(x)' : i.pc # "read" =>
             i.off \in Nat /\ i.off + Cardinality(JobsOf(x)) <= wire[x].read
      <4> SUFFICES ASSUME NEW i \in JobsOf(x)', i.pc # "read"
                   PROVE  i.off \in Nat /\ i.off + Cardinality(JobsOf(x)) <= wire[x].read
        OBVIOUS
      <4>1. CASE i \in jobs
        <5>1. i \in JobsOf(x) /\ i \in Job
          BY <1>1, <4>1 DEF JobsOf, TypeOK
        <5> QED
          BY <1>4, <5>1 DEF Count, Job
      <4>2. CASE HandlerRead(j) /\ i \notin jobs
        <5>1. r # Absent /\ i = [j EXCEPT !.off = r, !.pc = "copy"]
          BY <4>2 DEF HandlerRead, JobsOf
        <5>2. i.off = r
          BY <1>1, <5>1 DEF Job
        <5> QED
          BY <1>1, <1>4, <2>1, <5>1, <5>2 DEF Count
      <4>3. CASE HandlerCopy(j) /\ i \notin jobs
        <5>1. j.pc = "copy" /\ i = [j EXCEPT !.pc = "add"]
          BY <4>3 DEF HandlerCopy, JobsOf
        <5>2. i.off = j.off
          BY <1>1, <5>1 DEF Job
        <5> QED
          BY <1>1, <1>4, <2>1, <5>1, <5>2 DEF Count
      <4> QED
        BY <2>6, <4>1, <4>2, <4>3
    <3>4. \A i \in JobsOf(x)' : i.pc # "read" => i.off + Cardinality(JobsOf(x)') <= wire[x].read
      BY <2>1, <2>4, <3>3
    <3> QED
      BY <1>2, <1>4, <2>5, <3>1, <3>2, <3>4 DEF Count
  <2>7. CASE HandlerAdd(j)
    <3>1. JobsOf(x)' = JobsOf(x) \ {j}
      BY <2>7 DEF HandlerAdd, JobsOf
    <3>2. Cardinality(JobsOf(x)') = Cardinality(JobsOf(x)) - 1
      <4>1. Cardinality(JobsOf(x) \ {j}) = Cardinality(JobsOf(x)) - 1
        <5> HIDE DEF x
        <5>1. IsFiniteSet(JobsOf(x)) /\ j \in JobsOf(x)
          BY <2>1
        <5> QED
          BY <5>1, FS_RemoveElement
      <4> QED
        BY <3>1, <4>1
    <3>3. recved' = [recved EXCEPT ![j.at][x.dat] = (IF r = Absent THEN 0 ELSE r) + 1]
      BY <2>5, <2>7 DEF HandlerAdd
    <3>4. \A n \in Site : recved'[n][x.dat] = IF n = j.at THEN (IF r = Absent THEN 0 ELSE r) + 1
                                              ELSE recved[n][x.dat]
      <4>1. recved \in [Site -> [Data -> Nat \cup {Absent}]] /\ x.dat \in Data
        BY <1>1, ConstType DEF TypeOK
      <4> QED
        BY <1>1, <3>3, <4>1
    <3>5. \A n \in Site : recved'[n][x.dat] + Cardinality(JobsOf(x)') <= wire[x].read
      <4> SUFFICES ASSUME NEW n \in Site
                   PROVE  recved'[n][x.dat] + Cardinality(JobsOf(x)') <= wire[x].read
        OBVIOUS
      <4>1. /\ recved[n][x.dat] + Cardinality(JobsOf(x)) <= wire[x].read
            /\ r + Cardinality(JobsOf(x)) <= wire[x].read
            /\ Cardinality(JobsOf(x)) <= wire[x].read
        BY <1>1, <1>4 DEF Count
      <4>2. CASE n = j.at /\ r = Absent
        <5>1. recved'[n][x.dat] = 1
          BY <3>4, <4>2
        <5> QED
          BY <2>1, <3>2, <4>1, <5>1
      <4>3. CASE n = j.at /\ r # Absent
        <5>1. recved'[n][x.dat] = r + 1 /\ r \in Nat
          BY <2>1, <3>4, <4>3
        <5> QED
          BY <2>1, <3>2, <4>1, <5>1
      <4>4. CASE n # j.at
        <5>1. recved'[n][x.dat] = recved[n][x.dat]
          BY <3>4, <4>4
        <5> QED
          BY <2>1, <3>2, <4>1, <5>1
      <4> QED
        BY <4>2, <4>3, <4>4
    <3>6. \A i \in JobsOf(x)' : i.pc # "read" => i.off + Cardinality(JobsOf(x)') <= wire[x].read
      <4> SUFFICES ASSUME NEW i \in JobsOf(x), i.pc # "read"
                   PROVE  i.off + Cardinality(JobsOf(x)') <= wire[x].read
        BY <3>1
      <4>1. i.off \in Nat
        BY <1>1 DEF JobsOf, TypeOK, Job
      <4> QED
        BY <1>4, <2>1, <3>2, <4>1 DEF Count
    <3>7. Cardinality(JobsOf(x)') <= wire[x].read
      BY <1>4, <2>1, <2>4 DEF Count
    <3> QED
      BY <1>2, <1>4, <2>5, <3>5, <3>6, <3>7 DEF Count
  <2> QED
    BY <2>6, <2>7
<1> QED
  BY <1>3, <1>4
\* So do all the counts.
LEMMA CountedStays ==
    ASSUME IInv, config' = config, jobs' = jobs,
           \A x \in Order : wire'[x].read = wire[x].read,
           \A n \in Site, d \in Data : recved'[n][d] \in {recved[n][d], 0, Absent}
    PROVE  Counted'
<1>1. TypeOK /\ IsFiniteSet(jobs) /\ Given \subseteq Order
  BY ConfigType DEF IInv, Counted
<1>2. ASSUME ~Ib, NEW x \in Given, OrderedOnce(x.dat) PROVE Count(x)'
  <2>1. Count(x) /\ x \in Order /\ x.dat \in Data
    BY <1>1, <1>2, ConstType DEF IInv, Counted
  <2>2. JobsOf(x)' = JobsOf(x)
    BY DEF JobsOf
  <2> QED
    BY <1>1, <2>1, <2>2, CountStays
<1>3. \A x \in Given : OrderedOnce(x.dat)' => OrderedOnce(x.dat)
  BY DEF OrderedOnce
<1> QED
  BY <1>1, <1>2, <1>3, Sets DEF Counted

\* The chunks counted and those under way are no more than those read.
LEMMA CountedStep ==
    ASSUME IInv, TypeOK', Next
    PROVE  Counted'
<1> USE DEF moveVars, syncVars, infoVars, recvVars, siteVars
<1>0. config' = config
  BY DEF Next
<1>1. /\ TypeOK /\ IsFiniteSet(jobs) /\ Given \subseteq Order
      /\ \A x \in Order : x.dst \in Site /\ x.dat \in Data
      /\ \A x \in Given : OrderedOnce(x.dat)' <=> OrderedOnce(x.dat)
  BY <1>0, ConfigType, ConstType DEF IInv, Counted, OrderedOnce
<1>2. ASSUME UNCHANGED <<jobs, recved, wire>> PROVE Counted'
  BY <1>0, <1>2, CountedStays
<1>3. ASSUME NEW x \in Given, RemotePut(x) PROVE Counted'
  <2>1. CASE TcpSend(x, addr[x].site)
    <3>1. /\ wire' = [wire EXCEPT ![x].site = addr[x].site]
          /\ jobs' = jobs /\ recved' = recved
      BY <1>3, <2>1 DEF RemotePut, TcpSend
    <3>2. wire \in [Order -> [site : Site, read : 0 .. N]]
      BY <1>1 DEF TypeOK
    <3>3. \A y \in Order : wire'[y].read = wire[y].read
      BY <1>1, <3>1, <3>2
    <3> QED
      BY <1>0, <3>1, <3>3, CountedStays
  <2>2. CASE Ib /\ IbSend(x, addr[x])
    <3>1. PICK k : jobs' = jobs \cup {k}
      BY <2>2 DEF IbSend
    <3>2. IsFiniteSet(jobs')
      BY <1>1, <3>1, FS_AddElement
    <3> QED
      BY <1>0, <2>2, <3>2, Sets DEF Counted
  <2>3. CASE UNCHANGED <<put, rget, wire, jobs, server>>
    BY <1>2, <1>3, <2>3 DEF RemotePut
  <2> QED
    BY <1>3, <2>1, <2>2, <2>3 DEF RemotePut, TcpRefused, IbRefused, Ib
<1>4. ASSUME NEW x \in Given, WaGet(x) \/ WaGetDone(x) \/ HandleFailRemoteGet(x) PROVE Counted'
  <2>1. jobs' = jobs /\ wire' = wire
    BY <1>4 DEF WaGet, WaGetDone, HandleFailRemoteGet
  <2>2. \/ recved' = recved
        \/ recved' = [recved EXCEPT ![x.dst][x.dat] = 0]
        \/ recved' = [recved EXCEPT ![x.dst][x.dat] = Absent]
    BY <1>4 DEF WaGet, WaGetDone, HandleFailRemoteGet
  <2>3. recved \in [Site -> [Data -> Nat \cup {Absent}]]
    BY <1>1 DEF TypeOK
  <2>4. \A n \in Site, d \in Data : recved'[n][d] \in {recved[n][d], 0, Absent}
    <3> SUFFICES ASSUME NEW n \in Site, NEW d \in Data
                 PROVE  recved'[n][d] \in {recved[n][d], 0, Absent}
      OBVIOUS
    <3>1. CASE recved' = [recved EXCEPT ![x.dst][x.dat] = 0]
      BY <1>1, <2>3, <3>1
    <3>2. CASE recved' = [recved EXCEPT ![x.dst][x.dat] = Absent]
      BY <1>1, <2>3, <3>2
    <3> QED
      BY <2>2, <3>1, <3>2
  <2> QED
    BY <1>0, <2>1, <2>4, CountedStays
<1>5. ASSUME NEW x \in Given, RecvChunk(x) PROVE Counted'
  <2>1. ~Ib
    BY <1>5 DEF RecvChunk, Ib
  <2>2. IsFiniteSet(jobs')
    BY <1>1, <1>5, FS_AddElement DEF RecvChunk
  <2>3. \A y \in Given : OrderedOnce(y.dat) => Count(y)
    BY <2>1 DEF IInv, Counted
  <2>4. \A y \in Given : Count(y) => Count(y)'
    BY <1>0, <1>5, <2>1, CountRead
  <2> QED
    BY <1>0, <1>1, <2>2, <2>3, <2>4, Sets DEF Counted
<1>6. ASSUME NEW j \in jobs, HandlerStep(j) PROVE Counted'
  <2>1. IsFiniteSet(jobs')
    <3>1. PICK k : jobs' \subseteq (jobs \ {j}) \cup {k}
      BY <1>1, <1>6, HandlerJobs
    <3> QED
      BY <1>1, <3>1, Replaced
  <2>2. ASSUME ~Ib, NEW y \in Given, OrderedOnce(y.dat) PROVE Count(y)'
    <3>1. Count(y)
      BY <2>2 DEF IInv, Counted
    <3>2. HandlerRead(j) \/ HandlerCopy(j) \/ HandlerAdd(j)
      BY <1>6, <2>2 DEF HandlerStep, IbBroken, IbTangled, Ib
    <3> QED
      BY <1>0, <2>2, <3>1, <3>2, CountHandled
  <2> QED
    BY <1>0, <1>1, <2>1, <2>2, Sets DEF Counted
<1>7. ASSUME NEW x \in Given, HolderStep(x), ~RemotePut(x) PROVE Counted'
  BY <1>2, <1>7 DEF HolderStep, HandleDmMove, TransInfoWait, TransInfoResume,
     HandleTinfoReply, RemotePutLookUp, RemotePutFails
<1>8. ASSUME NEW x \in Given,
             HandleTinfoQuery(x) \/ PopTest(x) \/ PopWait(x) \/ PopTake(x) \/ InitGet(x)
      PROVE  Counted'
  <2>1. UNCHANGED <<jobs, recved, wire>>
    BY <1>8 DEF HandleTinfoQuery, PopTest, PopWait, PopTake, HandOut, InitGet
  <2> QED
    BY <1>2, <2>1
<1>9. ASSUME NEW x \in Given,
             TcpWait(x) \/ TcpResume(x) \/ IbServed(x) \/ PortNotify(x) \/ SyncPut(x)
                \/ ListRemote(x) \/ NotifyRemoteGetDone(x)
      PROVE  Counted'
  BY <1>2, <1>9 DEF TcpWait, TcpResume, IbServed, PortNotify, SyncPut, ListRemote,
     NotifyRemoteGetDone
<1>10. ASSUME NEW g \in Get, GetCheck(g) \/ GetWait(g) \/ GetResume(g) PROVE Counted'
  BY <1>2, <1>10 DEF GetCheck, GetWait, GetResume
<1>11. ASSUME NEW n \in Site, InitListen(n) PROVE Counted'
  BY <1>2, <1>11 DEF InitListen
<1> QED
  BY <1>1, <1>3, <1>4, <1>5, <1>6, <1>7, <1>8, <1>9, <1>10, <1>11, ConfigType
     DEF Next, DestinationStep, Given

-----------------------------------------------------------------------------
(* The invariant.                                                           *)

\* Every step keeps the types.
LEMMA TypeStep ==
    ASSUME IInv, Next
    PROVE  TypeOK'
<1>1. TypeOK /\ JobsFit /\ config' = config
  BY DEF IInv, Next
<1>2. Given \subseteq Order /\ config.gets \subseteq Get
  BY <1>1, ConfigType
<1>3. ASSUME NEW x \in Given, HolderStep(x) PROVE TypeOK'
  BY <1>1, <1>2, <1>3, HolderType
<1>4. ASSUME NEW x \in Given, DestinationStep(x) PROVE TypeOK'
  BY <1>1, <1>2, <1>4, DestinationType
<1>5. ASSUME NEW j \in jobs, HandlerStep(j) PROVE TypeOK'
  BY <1>1, <1>5, JobType
<1>6. ASSUME NEW g \in config.gets, GetCheck(g) \/ GetWait(g) \/ GetResume(g) PROVE TypeOK'
  BY <1>1, <1>2, <1>6, GetType
<1>7. ASSUME NEW n \in Site, InitListen(n) PROVE TypeOK'
  BY <1>1, <1>7, GetType
<1> QED
  BY <1>3, <1>4, <1>5, <1>6, <1>7 DEF Next, Given

\* At the start nothing is under way, and every site lists and holds the data
\* it is to send.
LEMMA InitIInv == Init => IInv
<1> SUFFICES ASSUME Init PROVE IInv
  OBVIOUS
<1>0. /\ config \in Config /\ N \in Nat /\ N >= 1 /\ config.ports \subseteq Port
      /\ Given \subseteq Order
  BY OrderAssumption DEF Init, N, Given
<1>1. \A n \in Site : Held(n) \subseteq Data
  BY <1>0, OrderAssumption DEF Held
<1>2. Whole \in Content /\ Null \in Content
  BY <1>0 DEF Whole, Null, Content
<1>3. TypeOK
  <2>1. stored \in [Site -> [Data -> Content]]
    BY <1>2 DEF Init
  <2>2. qtable \in [Site -> SUBSET Data]
    BY <1>1 DEF Init
  <2>3. wire \in [Order -> [site : Site, read : 0 .. N]]
    BY <1>0, ConstType DEF Init
  <2>4. NoAddr \in Addr
    BY ConstType DEF Addr, NoAddr
  <2>5. trans_info \in [Site -> [Data -> Addr]] /\ addr \in [Order -> Addr]
    BY <2>4 DEF Init
  <2>6. EmptySyncer \in SyncerType(Data, Order) /\ EmptySyncer \in SyncerType(Data, Get)
    BY EmptyType
  <2>7. recved \in [Site -> [Data -> Nat \cup {Absent}]] /\ data \in [Site -> [Data -> Content]]
    BY <1>2 DEF Init
  <2>8. /\ risync \in [Site -> SyncerType(Data, Order)]
        /\ rfpsync \in [Site -> SyncerType(Data, Get)]
        /\ tcpsync \in [Site -> SyncerType(Data, Order)]
    BY <2>6 DEF Init
  <2>9. /\ put \in [Order -> PutPlace] /\ rget \in [Order -> GetPlace]
        /\ ports \in [Site -> SUBSET (Port \cup {NoPort})]
        /\ port \in [Order -> Port \cup {NoPort}]
        /\ server \in [Order -> Order \cup {NoOrder}]
    BY <1>0 DEF Init, PutPlace, GetPlace, IbPorts
  <2> QED
    BY <1>0, <2>1, <2>2, <2>3, <2>5, <2>7, <2>8, <2>9 DEF Init, TypeOK
<1>4. JobsFit /\ Started
  BY DEF Init, JobsFit, Started, IbPlace, TcpPlace
<1>5. GetWaits
  BY DEF Init, GetWaits, EmptySyncer
<1>6. InStep
  BY ConstType DEF Init, InStep, Ends, Handled, Serves
<1>7. PortsOk
  <2> SUFFICES ASSUME NEW n \in Site PROVE Exclusive(n) /\ n \notin wild
    BY DEF PortsOk
  <2>1. Users(n) = {}
    BY DEF Init, Users, On
  <2>2. ports[n] = config.ports /\ n \notin wild
    BY DEF Init, IbPorts
  <2> QED
    BY <2>1, <2>2 DEF Exclusive
<1>8. Keeps
  <2> SUFFICES ASSUME NEW x \in Given PROVE x.dat \in WholeAt(x.src)
    BY DEF Keeps
  <2>1. x \in Order /\ x.src \in Site /\ x.dat \in Data
    BY <1>0, ConstType
  <2>2. x.dat \in Held(x.src)
    BY DEF Held, Given
  <2>3. qtable[x.src] = Held(x.src) /\ stored[x.src][x.dat] = Whole
    BY <2>1, <2>2 DEF Init
  <2> QED
    BY <2>2, <2>3 DEF WholeAt
<1>9. Buffered
  BY <1>0 DEF Init, Buffered, Buffer
<1>10. Unread
  BY <1>0, ConstType DEF Init, Unread, New
<1>11. Counted
  <2>1. jobs = {} /\ IsFiniteSet(jobs)
    BY FS_EmptySet DEF Init
  <2> SUFFICES ASSUME NEW x \in Given PROVE Count(x)
    BY <2>1 DEF Counted
  <2>2. JobsOf(x) = {} /\ Cardinality({}) = 0
    BY <2>1, FS_EmptySet DEF JobsOf
  <2>3. x \in Order /\ x.dat \in Data
    BY <1>0, ConstType
  <2>4. wire[x].read = 0 /\ \A n \in Site : recved[n][x.dat] = Absent
    BY <2>3 DEF Init
  <2> QED
    BY <2>2, <2>4 DEF Count, Absent
<1> QED
  BY <1>3, <1>4, <1>5, <1>6, <1>7, <1>8, <1>9, <1>10, <1>11 DEF IInv

\* Every step keeps the invariant.
LEMMA NextIInv == IInv /\ [Next]_vars => IInv'
<1>1. ASSUME IInv, Next PROVE IInv'
  <2>1. TypeOK'
    BY <1>1, TypeStep
  <2> QED
    BY <1>1, <2>1, StartedStep, GetWaitsStep, InStepStep, PortsStep, KeepsStep, BufferedStep,
       UnreadStep, CountedStep DEF IInv
<1>2. ASSUME IInv, UNCHANGED vars PROVE IInv'
  <2>1. /\ UNCHANGED <<put, rget, cut, msgs, risync, rfpsync, tcpsync>>
        /\ UNCHANGED <<trans_info, thread, ports, port, wild, addr, server>>
        /\ UNCHANGED <<recved, data, listen, wire, jobs, stored, qtable, failed, get, down, config>>
    BY <1>2 DEF vars, moveVars, syncVars, infoVars, recvVars, siteVars
  <2>2. TypeOK'
    BY <1>2, <2>1, Sets DEF IInv, TypeOK
  <2>3. JobsFit' /\ Started' /\ GetWaits'
    BY <1>2, <2>1, Sets DEF IInv, JobsFit, Started, GetWaits, Ended
  <2>4. InStep'
    BY <1>2, <2>1, Sets DEF IInv, InStep, Ends, Handled
  <2>5. PortsOk'
    <3>1. \A x \in Order : On(x)' <=> On(x)
      BY <2>1 DEF On
    <3> QED
      BY <1>2, <2>1, <3>1, PortsStay DEF IInv
  <2>6. Keeps'
    BY <1>2, <2>1, Sets DEF IInv, Keeps, WholeAt
  <2>7. Buffered'
    <3>1. \A x : Apart(x)' => Apart(x)
      BY <2>1 DEF Apart, Clients
    <3>2. \A x : Buffer(x) => Buffer(x)'
      BY <2>1, Sets DEF Buffer, Mine
    <3> QED
      BY <1>2, <2>1, <3>1, <3>2, Sets DEF IInv, Buffered
  <2>8. Unread'
    <3>1. \A x : OrderedOnce(x.dat)' => OrderedOnce(x.dat)
      BY <2>1 DEF OrderedOnce
    <3>2. \A x : New(x) => New(x)'
      BY <2>1 DEF New
    <3> QED
      BY <1>2, <2>1, <3>1, <3>2, Sets DEF IInv, Unread
  <2>9. Counted'
    <3>1. \A n \in Site, d \in Data : recved'[n][d] \in {recved[n][d], 0, Absent}
      BY <2>1
    <3> QED
      BY <1>2, <2>1, <3>1, CountedStays
  <2> QED
    BY <2>2, <2>3, <2>4, <2>5, <2>6, <2>7, <2>8, <2>9 DEF IInv
<1> QED
  BY <1>1, <1>2

\* The invariant holds in every reachable state.
LEMMA Invariance == Spec => []IInv
BY InitIInv, NextIInv, PTL DEF Spec

-----------------------------------------------------------------------------
(* What it shows.                                                           *)

\* No port is lost or shared, as long as the queue was never popped empty, and
\* that takes more orders to the site than it has ports.  BQueue::pop looks at
\* s_lport_queue without its lock, and waits for no condition: handle_tinfo_query
\* may come to an empty queue, but not while the site has a port for every order.
THEOREM PortsHold == Spec => []PortsSound
<1>1. IInv => PortsSound
  <2> SUFFICES ASSUME IInv PROVE PortsSound
    OBVIOUS
  <2>1. TypeOK /\ PortsOk
    BY DEF IInv
  <2>2. PortExclusive
    <3> SUFFICES ASSUME Ib, NEW n \in Site
                 PROVE  IF n \in wild
                        THEN Crowded(n)
                        ELSE /\ \A x, y \in Users(n) : port[x] = port[y] => x = y
                             /\ ports[n] = config.ports \ {port[x] : x \in Users(n)}
      BY DEF PortExclusive, Ib, On, Users, Crowded, To, Given
    <3>1. CASE n \in wild
      BY <2>1, <3>1 DEF PortsOk
    <3>2. CASE n \notin wild
      <4>1. Exclusive(n)
        BY <2>1, <3>2 DEF PortsOk
      <4>2. \A p : p \in ports[n] <=> p \in config.ports /\ p \notin {port[x] : x \in Users(n)}
        BY <4>1 DEF Exclusive
      <4> QED
        BY <3>2, <4>1, <4>2 DEF Exclusive
    <3> QED
      BY <3>1, <3>2
  <2> QED
    BY <2>1, <2>2 DEF PortsSound
<1> QED
  BY <1>1, Invariance, PTL

\* wait_for_get and remote_get agree on what is under way: a get that waited
\* finds its data listed or marked failed, and over InfiniBand a remote_get that
\* has ended leaves no entry that a later get would wait on, if no other
\* transfer met it.
THEOREM WaitersHold == Spec => []WaitersSound
<1>1. IInv => WaitersSound
  <2> SUFFICES ASSUME IInv PROVE WaitersSound
    OBVIOUS
  <2>1. WokenMeansEnded
    BY DEF IInv, GetWaits, Ended, WokenMeansEnded
  <2>2. ASSUME Ib, NEW x \in Given, rget[x] \in {"freed", "listed", "end"}, Apart(x)
        PROVE  recved[x.dst][x.dat] = Absent
    BY <2>2 DEF IInv, Buffered, Buffer
  <2> QED
    BY <2>1, <2>2 DEF WaitersSound, NotBeingGet, Ib, Given
<1> QED
  BY <1>1, Invariance, PTL

\* handle_recv copies within the buffer: however its threads interleave their
\* reading of data_id__recved_size_map with their adding to it, no chunk of data
\* that is ordered once lands past its end.
THEOREM NoOverflowHolds == Spec => []NoOverflow
<1>1. IInv => NoOverflow
  <2> SUFFICES ASSUME IInv, NEW j \in jobs, OrderedOnce(j.order.dat), j.pc # "read"
               PROVE  j.off + j.size <= N
    BY DEF NoOverflow
  <2> DEFINE x == j.order
  <2>1. TypeOK /\ j \in Job /\ x \in Order /\ j.off \in Nat /\ x \in Given /\ N \in Nat
    <3>1. TypeOK /\ j \in Job
      BY DEF IInv, TypeOK
    <3>2. x \in Order /\ j.off \in Nat
      BY <3>1 DEF Job
    <3> QED
      BY <3>1, <3>2, ConfigType DEF IInv, Started
  <2>2. CASE Ib
    <3>1. j.off = 0
      BY <2>1, <2>2 DEF IInv, Unread, New
    <3>2. j.size = N
      BY <2>2 DEF IInv, InStep, Handled
    <3> QED
      BY <2>1, <3>1, <3>2
  <2>3. CASE ~Ib
    <3>1. Count(x) /\ j \in JobsOf(x)
      BY <2>1, <2>3 DEF IInv, Counted, JobsOf
    <3>2. j.size = 1 /\ j.off + Cardinality(JobsOf(x)) <= wire[x].read
      BY <3>1 DEF Count
    <3>3. wire[x].read \in 0 .. N
      BY <2>1 DEF TypeOK
    <3>4. IsFiniteSet(JobsOf(x)) /\ Cardinality(JobsOf(x)) \in Nat
      BY JobsFinite DEF IInv, Counted
    <3>5. Cardinality(JobsOf(x)) # 0
      BY <3>1, <3>4, FS_EmptySet
    <3> QED
      BY <2>1, <3>2, <3>3, <3>4, <3>5
  <2> QED
    BY <2>2, <2>3
<1> QED
  BY <1>1, Invariance, PTL

-----------------------------------------------------------------------------
(* The data plane implements Mover over InfiniBand, for each transfer that no *)
(* other has met.                                                             *)

\* A step leaves alone what the control plane sees.
Unseen ==
    /\ \A x \in Order : (Open(x)' <=> Open(x)) /\ (put'[x] = "new" <=> put[x] = "new")
    /\ \A n \in Site : WholeAt(n)' = WholeAt(n)
    /\ qtable' = qtable /\ failed' = failed

\* A step is one that Mover allows, or one of a transfer that another has met.
Moved ==
    \/ UNCHANGED Movement!vars
    \/ Movement!Next
    \/ \E z \in config.orders : ~Apart(z) /\ Only(z)

\* A step that is not seen is a stuttering step of Mover.
LEMMA Stutters ==
    ASSUME Unseen
    PROVE  Moved
BY DEF Unseen, Moved, Movement!vars

\* What is not seen: the places of a transfer on its way.
LEMMA Hidden ==
    ASSUME config' = config, UNCHANGED <<stored, qtable, failed>>,
           \A x \in Order :
              /\ put'[x] = "new" <=> put[x] = "new"
              /\ rget'[x] \in {"listed", "end"} <=> rget[x] \in {"listed", "end"}
              /\ (put'[x] = "fail" /\ <<"FAIL_REMOTE_GET", x>> \notin msgs') <=>
                 (put[x] = "fail" /\ <<"FAIL_REMOTE_GET", x>> \notin msgs)
    PROVE  Moved
<1>1. \A n \in Site : WholeAt(n)' = WholeAt(n)
  BY Sets DEF WholeAt
<1>2. \A x \in Order : Open(x)' <=> Open(x)
  BY DEF Open
<1> QED
  BY <1>1, <1>2, Stutters DEF Unseen

\* An order that ends, and no other does.
LEMMA OrderEnds ==
    ASSUME NEW x \in Order, Open(x), ~Open(x)', \A y \in Order : y # x => (Open(y)' <=> Open(y))
    PROVE  {y \in Order : Open(y)}' = {y \in Order : Open(y)} \ {x}
OBVIOUS

\* Every step is one that Mover allows, or of a transfer that another has met:
\* HandleDmMove begins an order, ListRemote ends it well, HandleFailRemoteGet badly.
LEMMA MovedStep ==
    ASSUME IInv, Ib, Next
    PROVE  Moved
<1> USE DEF PutAt, RgetAt, GoPut, GoRget, Arrived, JobAt,
           moveVars, syncVars, infoVars, recvVars, siteVars
<1>a. /\ config' = config /\ TypeOK /\ Given \subseteq Order
      /\ \A x \in Order : x.src \in Site /\ x.dst \in Site /\ x.dat \in Data
  BY ConfigType, ConstType DEF Next, IInv
<1>b. put \in [Order -> PutPlace] /\ rget \in [Order -> GetPlace]
  BY DEF IInv, TypeOK
<1>c. /\ \A x \in Order : rget[x] # "none" => put[x] # "new"
      /\ \A x \in Order : <<"FAIL_REMOTE_GET", x>> \in msgs => put[x] = "fail"
  BY DEF IInv, Started, InStep, Ends
<1>d. \A x \in Given : Apart(x) => Buffer(x)
  BY DEF IInv, Buffered
<1>e. \A x \in Given : Apart(x) /\ rget[x] \in Serves => put[x] # "fail"
  <2> SUFFICES ASSUME NEW x \in Given, Apart(x), rget[x] \in Serves PROVE put[x] # "fail"
    OBVIOUS
  <2>1. PICK y \in Order : server[y] = x
    BY <1>a DEF IInv, InStep, Ends
  <2> QED
    BY <2>1 DEF Apart, Clients
<1>1. ASSUME NEW x \in Given, HandleDmMove(x) PROVE Moved
  <2>1. /\ x \in Order /\ x.src \in Site /\ x.dat \in WholeAt(x.src) /\ x.dat \in qtable[x.src]
        /\ put[x] = "new" /\ put' = [put EXCEPT ![x] = "asked"] /\ rget[x] = "none"
        /\ msgs' = msgs \cup {<<"TINFO_QUERY", x>>}
        /\ UNCHANGED <<rget, stored, qtable, failed>>
    BY <1>a, <1>b, <1>c, <1>1 DEF HandleDmMove, IInv, Keeps, WholeAt
  <2>2. \A y \in Order : y # x => (Open(y)' <=> Open(y))
    BY <1>b, <2>1 DEF Open
  <2>3. ~Open(x) /\ Open(x)'
    BY <1>b, <2>1 DEF Open
  <2>4. {y \in Order : Open(y)}' = {y \in Order : Open(y)} \cup {x}
    BY <2>1, <2>2, <2>3
  <2>5. {y \in Order : put[y] = "new"}' = {y \in Order : put[y] = "new"} \ {x}
    BY <1>b, <2>1
  <2>6. \A n \in Site : WholeAt(n)' = WholeAt(n)
    BY <1>a, <2>1, Sets DEF WholeAt
  <2>7. Movement!Begin(x)
    BY <2>1, <2>4, <2>5, <2>6 DEF Movement!Begin
  <2> QED
    BY <2>1, <2>7 DEF Moved, Movement!Next
<1>2. ASSUME NEW x \in Given, TransInfoWait(x) PROVE Moved
  <2>1. UNCHANGED <<stored, qtable, failed>>
    BY <1>2 DEF TransInfoWait
  <2>2. \A y \in Order :
              /\ put'[y] = "new" <=> put[y] = "new"
              /\ rget'[y] \in {"listed", "end"} <=> rget[y] \in {"listed", "end"}
              /\ (put'[y] = "fail" /\ <<"FAIL_REMOTE_GET", y>> \notin msgs') <=>
                 (put[y] = "fail" /\ <<"FAIL_REMOTE_GET", y>> \notin msgs)
    BY <1>a, <1>b, <1>c, <1>2 DEF TransInfoWait
  <2> QED
    BY <1>a, <2>1, <2>2, Hidden
<1>3. ASSUME NEW x \in Given, TransInfoResume(x) PROVE Moved
  <2>1. UNCHANGED <<stored, qtable, failed>>
    BY <1>3 DEF TransInfoResume
  <2>2. \A y \in Order :
              /\ put'[y] = "new" <=> put[y] = "new"
              /\ rget'[y] \in {"listed", "end"} <=> rget[y] \in {"listed", "end"}
              /\ (put'[y] = "fail" /\ <<"FAIL_REMOTE_GET", y>> \notin msgs') <=>
                 (put[y] = "fail" /\ <<"FAIL_REMOTE_GET", y>> \notin msgs)
    BY <1>a, <1>b, <1>c, <1>3 DEF TransInfoResume
  <2> QED
    BY <1>a, <2>1, <2>2, Hidden
<1>4. ASSUME NEW x \in Given, HandleTinfoReply(x) PROVE Moved
  <2>1. UNCHANGED <<stored, qtable, failed>>
    BY <1>4 DEF HandleTinfoReply
  <2>2. \A y \in Order :
              /\ put'[y] = "new" <=> put[y] = "new"
              /\ rget'[y] \in {"listed", "end"} <=> rget[y] \in {"listed", "end"}
              /\ (put'[y] = "fail" /\ <<"FAIL_REMOTE_GET", y>> \notin msgs') <=>
                 (put[y] = "fail" /\ <<"FAIL_REMOTE_GET", y>> \notin msgs)
    BY <1>a, <1>b, <1>c, <1>4 DEF HandleTinfoReply
  <2> QED
    BY <1>a, <2>1, <2>2, Hidden
<1>5. ASSUME NEW x \in Given, RemotePutLookUp(x) PROVE Moved
  <2>1. UNCHANGED <<stored, qtable, failed>>
    BY <1>5 DEF RemotePutLookUp
  <2>2. \A y \in Order :
              /\ put'[y] = "new" <=> put[y] = "new"
              /\ rget'[y] \in {"listed", "end"} <=> rget[y] \in {"listed", "end"}
              /\ (put'[y] = "fail" /\ <<"FAIL_REMOTE_GET", y>> \notin msgs') <=>
                 (put[y] = "fail" /\ <<"FAIL_REMOTE_GET", y>> \notin msgs)
    BY <1>a, <1>b, <1>c, <1>5 DEF RemotePutLookUp
  <2> QED
    BY <1>a, <2>1, <2>2, Hidden
<1>6. ASSUME NEW x \in Given, RemotePutFails(x) PROVE Moved
  <2>1. UNCHANGED <<stored, qtable, failed>>
    BY <1>6 DEF RemotePutFails
  <2>2. \A y \in Order :
              /\ put'[y] = "new" <=> put[y] = "new"
              /\ rget'[y] \in {"listed", "end"} <=> rget[y] \in {"listed", "end"}
              /\ (put'[y] = "fail" /\ <<"FAIL_REMOTE_GET", y>> \notin msgs') <=>
                 (put[y] = "fail" /\ <<"FAIL_REMOTE_GET", y>> \notin msgs)
    BY <1>a, <1>b, <1>c, <1>6 DEF RemotePutFails
  <2> QED
    BY <1>a, <2>1, <2>2, Hidden
<1>7. ASSUME NEW x \in Given, RemotePut(x) PROVE Moved
  <2>1. /\ put[x] = "fetch" /\ msgs' = msgs /\ UNCHANGED <<stored, qtable, failed>>
        /\ put' = put \/ put' = [put EXCEPT ![x] = "sent"] \/ put' = [put EXCEPT ![x] = "send"]
        /\ \/ rget' = rget
           \/ \E z \in Order : rget[z] \in {"listen", "serve"} /\ rget' = [rget EXCEPT ![z] = "serve"]
    BY <1>7 DEF RemotePut, TcpSend, TcpRefused, IbSend, IbRefused, Listening, Serving
  <2>2. \A y \in Order : /\ put'[y] = "new" <=> put[y] = "new"
                         /\ put'[y] = "fail" <=> put[y] = "fail"
    BY <1>b, <2>1
  <2>3. \A y \in Order : rget'[y] \in {"listed", "end"} <=> rget[y] \in {"listed", "end"}
    BY <1>b, <2>1
  <2> QED
    BY <1>a, <2>1, <2>2, <2>3, Hidden
<1>8. ASSUME NEW x \in Given, HandleTinfoQuery(x) PROVE Moved
  <2>1. /\ UNCHANGED <<put, stored, qtable, failed>>
        /\ msgs' = msgs \ {<<"TINFO_QUERY", x>>}
        /\ rget' = [rget EXCEPT ![x] = "test"] /\ rget[x] = "none"
    BY <1>a, <1>8 DEF HandleTinfoQuery, Ib, IInv, Started
  <2>2. \A y \in Order :
              /\ put'[y] = "new" <=> put[y] = "new"
              /\ rget'[y] \in {"listed", "end"} <=> rget[y] \in {"listed", "end"}
              /\ (put'[y] = "fail" /\ <<"FAIL_REMOTE_GET", y>> \notin msgs') <=>
                 (put[y] = "fail" /\ <<"FAIL_REMOTE_GET", y>> \notin msgs)
    BY <1>a, <1>b, <2>1
  <2> QED
    BY <1>a, <2>1, <2>2, Hidden
<1>9. ASSUME NEW x \in Given, PopTest(x) PROVE Moved
  <2>1. UNCHANGED <<stored, qtable, failed>>
    BY <1>9 DEF PopTest
  <2>2. \A y \in Order :
              /\ put'[y] = "new" <=> put[y] = "new"
              /\ rget'[y] \in {"listed", "end"} <=> rget[y] \in {"listed", "end"}
              /\ (put'[y] = "fail" /\ <<"FAIL_REMOTE_GET", y>> \notin msgs') <=>
                 (put[y] = "fail" /\ <<"FAIL_REMOTE_GET", y>> \notin msgs)
    BY <1>a, <1>b, <1>c, <1>9 DEF PopTest
  <2> QED
    BY <1>a, <2>1, <2>2, Hidden
<1>10. ASSUME NEW x \in Given, PopWait(x) PROVE Moved
  <2>1. UNCHANGED <<stored, qtable, failed>>
    BY <1>10 DEF PopWait
  <2>2. \A y \in Order :
              /\ put'[y] = "new" <=> put[y] = "new"
              /\ rget'[y] \in {"listed", "end"} <=> rget[y] \in {"listed", "end"}
              /\ (put'[y] = "fail" /\ <<"FAIL_REMOTE_GET", y>> \notin msgs') <=>
                 (put[y] = "fail" /\ <<"FAIL_REMOTE_GET", y>> \notin msgs)
    BY <1>a, <1>b, <1>c, <1>10 DEF PopWait
  <2> QED
    BY <1>a, <2>1, <2>2, Hidden
<1>11. ASSUME NEW x \in Given, PopTake(x) PROVE Moved
  <2>1. /\ UNCHANGED <<put, stored, qtable, failed>> /\ rget[x] = "take"
        /\ \/ UNCHANGED <<rget, msgs>>
           \/ /\ msgs' = (msgs \ {<<"TINFO_QUERY", x>>}) \cup {<<"TINFO_QUERY_REPLY", x>>}
              /\ rget' = [rget EXCEPT ![x] = "start"]
    BY <1>11 DEF PopTake, HandOut
  <2>2. \A y \in Order :
              /\ put'[y] = "new" <=> put[y] = "new"
              /\ rget'[y] \in {"listed", "end"} <=> rget[y] \in {"listed", "end"}
              /\ (put'[y] = "fail" /\ <<"FAIL_REMOTE_GET", y>> \notin msgs') <=>
                 (put[y] = "fail" /\ <<"FAIL_REMOTE_GET", y>> \notin msgs)
    BY <1>a, <1>b, <2>1
  <2> QED
    BY <1>a, <2>1, <2>2, Hidden
<1>12. ASSUME NEW x \in Given, WaGet(x) PROVE Moved
  <2>1. UNCHANGED <<stored, qtable, failed>>
    BY <1>12 DEF WaGet
  <2>2. \A y \in Order :
              /\ put'[y] = "new" <=> put[y] = "new"
              /\ rget'[y] \in {"listed", "end"} <=> rget[y] \in {"listed", "end"}
              /\ (put'[y] = "fail" /\ <<"FAIL_REMOTE_GET", y>> \notin msgs') <=>
                 (put[y] = "fail" /\ <<"FAIL_REMOTE_GET", y>> \notin msgs)
    BY <1>a, <1>b, <1>c, <1>12 DEF WaGet
  <2> QED
    BY <1>a, <2>1, <2>2, Hidden
<1>13. ASSUME NEW x \in Given, InitGet(x) PROVE Moved
  <2>1. UNCHANGED <<stored, qtable, failed>>
    BY <1>13 DEF InitGet, Ib
  <2>2. \A y \in Order :
              /\ put'[y] = "new" <=> put[y] = "new"
              /\ rget'[y] \in {"listed", "end"} <=> rget[y] \in {"listed", "end"}
              /\ (put'[y] = "fail" /\ <<"FAIL_REMOTE_GET", y>> \notin msgs') <=>
                 (put[y] = "fail" /\ <<"FAIL_REMOTE_GET", y>> \notin msgs)
    BY <1>a, <1>b, <1>c, <1>13 DEF InitGet, Ib
  <2> QED
    BY <1>a, <2>1, <2>2, Hidden
<1>14. ASSUME NEW x \in Given, TcpWait(x) PROVE Moved
  BY <1>a, <1>14 DEF TcpWait, IInv, Started, TcpPlace
<1>15. ASSUME NEW x \in Given, TcpResume(x) PROVE Moved
  BY <1>a, <1>15 DEF TcpResume, IInv, Started, TcpPlace
<1>16. ASSUME NEW x \in Given, IbServed(x) PROVE Moved
  <2>1. /\ UNCHANGED <<msgs, stored, qtable, failed>> /\ rget[x] = "serve"
        /\ rget' = [rget EXCEPT ![x] = "notify"]
        /\ put' = [y \in Order |-> IF server[y] = x /\ put[y] = "send" THEN "sent" ELSE put[y]]
    BY <1>16 DEF IbServed
  <2>2. \A y \in Order : /\ rget'[y] \in {"listed", "end"} <=> rget[y] \in {"listed", "end"}
                         /\ put'[y] = "new" <=> put[y] = "new"
                         /\ put'[y] = "fail" <=> put[y] = "fail"
    BY <1>a, <1>b, <2>1
  <2> QED
    BY <1>a, <2>1, <2>2, Hidden
<1>17. ASSUME NEW x \in Given, PortNotify(x) PROVE Moved
  <2>1. /\ UNCHANGED <<put, msgs, stored, qtable, failed>> /\ rget[x] = "notify"
        /\ \/ rget' = [rget EXCEPT ![x] = "got"]
           \/ \E u \in Order : rget[u] = "parked" /\ rget' = [rget EXCEPT ![u] = "test", ![x] = "got"]
    BY <1>17 DEF PortNotify
  <2>2. \A y \in Order : rget'[y] \in {"listed", "end"} <=> rget[y] \in {"listed", "end"}
    BY <1>a, <1>b, <2>1
  <2> QED
    BY <1>a, <2>1, <2>2, Hidden
<1>18. ASSUME NEW x \in Given, RecvChunk(x) PROVE Moved
  BY <1>18 DEF RecvChunk, Ib
<1>19. ASSUME NEW x \in Given, SyncPut(x) PROVE Moved
  <2> DEFINE v == data[x.dst][x.dat]
  <2>1. /\ x \in Order /\ x.dst \in Site /\ x.dat \in Data /\ rget[x] = "got"
        /\ UNCHANGED <<put, msgs, qtable, failed>>
        /\ \/ v = Null /\ UNCHANGED <<stored, rget>>
           \/ /\ v # Null /\ stored' = [stored EXCEPT ![x.dst][x.dat] = v]
              /\ rget' = [rget EXCEPT ![x] = "stored"]
    BY <1>a, <1>19 DEF SyncPut
  <2>2. v \in Content
    BY <1>a, <2>1 DEF TypeOK
  <2>3. CASE UNCHANGED <<stored, rget>>
    BY <1>a, <2>1, <2>3, Hidden
  <2>4. CASE /\ stored' = [stored EXCEPT ![x.dst][x.dat] = v]
             /\ rget' = [rget EXCEPT ![x] = "stored"]
    <3>1. \A y \in Order : Open(y)' <=> Open(y)
      BY <1>b, <2>1, <2>4 DEF Open
    <3>2. \A n \in Site, d \in Data : stored'[n][d] = IF n = x.dst /\ d = x.dat THEN v ELSE stored[n][d]
      <4> HIDE DEF v
      <4>1. /\ TypeOK /\ x.dst \in Site /\ x.dat \in Data /\ v \in Content
            /\ stored' = [stored EXCEPT ![x.dst][x.dat] = v]
        BY <1>a, <2>1, <2>2, <2>4
      <4> QED
        BY <4>1, StoredMap
    <3> HIDE DEF v
    <3>3. qtable \in [Site -> SUBSET Data]
      BY <1>a DEF TypeOK
    <3>4. \A n \in Site, d \in Data : n # x.dst \/ d # x.dat =>
             (d \in WholeAt(n)' <=> d \in WholeAt(n))
      BY <1>a, <2>1, <3>2, Sets DEF WholeAt
    <3>5. CASE ~Apart(x)
      <4>1. Only(x)
        BY <2>1, <3>1, <3>4 DEF Only
      <4> QED
        BY <3>5, <4>1, <1>19 DEF Moved, Given
    <3>6. CASE Apart(x)
      <4>1. v = Whole /\ Open(x)
        BY <1>c, <1>d, <1>e, <1>19, <2>1, <3>6 DEF Buffer, Open, Serves, v
      <4>2. \A n \in Site : n # x.dst => WholeAt(n)' = WholeAt(n)
        BY <1>a, <2>1, <3>2, <3>3, Sets DEF WholeAt
      <4>3. CASE x.dat \in qtable[x.dst]
        <5>1. WholeAt(x.dst)' = WholeAt(x.dst) \cup {x.dat}
          BY <1>a, <2>1, <3>2, <3>3, <4>1, <4>3, Sets DEF WholeAt
        <5>2. Movement!Arrive(x)
          BY <2>1, <3>1, <4>1, <4>2, <5>1 DEF Movement!Arrive
        <5> QED
          BY <2>1, <5>2 DEF Moved, Movement!Next
      <4>4. CASE x.dat \notin qtable[x.dst]
        <5>1. WholeAt(x.dst)' = WholeAt(x.dst)
          BY <1>a, <2>1, <3>2, <3>3, <4>4, Sets DEF WholeAt
        <5> QED
          BY <2>1, <3>1, <4>2, <5>1, Stutters DEF Unseen
      <4> QED
        BY <4>3, <4>4
    <3> QED
      BY <3>5, <3>6
  <2> QED
    BY <2>1, <2>3, <2>4
<1>20. ASSUME NEW x \in Given, WaGetDone(x) PROVE Moved
  <2>1. UNCHANGED <<stored, qtable, failed>>
    BY <1>20 DEF WaGetDone
  <2>2. \A y \in Order :
              /\ put'[y] = "new" <=> put[y] = "new"
              /\ rget'[y] \in {"listed", "end"} <=> rget[y] \in {"listed", "end"}
              /\ (put'[y] = "fail" /\ <<"FAIL_REMOTE_GET", y>> \notin msgs') <=>
                 (put[y] = "fail" /\ <<"FAIL_REMOTE_GET", y>> \notin msgs)
    BY <1>a, <1>b, <1>c, <1>20 DEF WaGetDone
  <2> QED
    BY <1>a, <2>1, <2>2, Hidden
<1>21. ASSUME NEW x \in Given, ListRemote(x) PROVE Moved
  <2>1. /\ x \in Order /\ x.dst \in Site /\ x.dat \in Data /\ rget[x] = "freed"
        /\ qtable' = [qtable EXCEPT ![x.dst] = @ \cup {x.dat}]
        /\ UNCHANGED <<put, msgs, stored, failed>>
        /\ \E l \in {"listed", "end"} : rget' = [rget EXCEPT ![x] = l]
        /\ qtable \in [Site -> SUBSET Data]
    BY <1>a, <1>21 DEF ListRemote, TypeOK
  <2>2. \A y \in Order : y # x => (Open(y)' <=> Open(y))
    BY <1>b, <2>1 DEF Open
  <2>3. CASE ~Apart(x)
    <3>1. \A n \in Site, d \in Data : n # x.dst \/ d # x.dat =>
             /\ d \in WholeAt(n)' <=> d \in WholeAt(n)
             /\ d \in qtable'[n] <=> d \in qtable[n]
      BY <1>a, <2>1, Sets DEF WholeAt
    <3>2. Only(x)
      BY <2>1, <2>2, <3>1 DEF Only
    <3> QED
      BY <2>3, <3>2, <1>21 DEF Moved, Given
  <2>4. CASE Apart(x)
    <3>1. stored[x.dst][x.dat] = Whole /\ put[x] # "fail" /\ put[x] # "new"
      BY <1>c, <1>d, <1>e, <1>21, <2>1, <2>4 DEF Buffer, Serves
    <3>2. Open(x) /\ ~Open(x)'
      BY <1>b, <2>1, <3>1 DEF Open
    <3>3. {y \in Order : Open(y)}' = {y \in Order : Open(y)} \ {x}
      BY <2>1, <2>2, <3>2, OrderEnds
    <3>4. \A n \in Site : WholeAt(n)' = IF n = x.dst THEN WholeAt(n) \cup {x.dat} ELSE WholeAt(n)
      BY <1>a, <2>1, <3>1, Sets DEF WholeAt
    <3>5. Movement!Done(x)
      BY <2>1, <3>2, <3>3, <3>4 DEF Movement!Done
    <3> QED
      BY <2>1, <3>5 DEF Moved, Movement!Next
  <2> QED
    BY <2>3, <2>4
<1>22. ASSUME NEW x \in Given, NotifyRemoteGetDone(x) PROVE Moved
  <2>1. UNCHANGED <<stored, qtable, failed>>
    BY <1>22 DEF NotifyRemoteGetDone
  <2>2. \A y \in Order :
              /\ put'[y] = "new" <=> put[y] = "new"
              /\ rget'[y] \in {"listed", "end"} <=> rget[y] \in {"listed", "end"}
              /\ (put'[y] = "fail" /\ <<"FAIL_REMOTE_GET", y>> \notin msgs') <=>
                 (put[y] = "fail" /\ <<"FAIL_REMOTE_GET", y>> \notin msgs)
    BY <1>a, <1>b, <1>c, <1>22 DEF NotifyRemoteGetDone
  <2> QED
    BY <1>a, <2>1, <2>2, Hidden
<1>23. ASSUME NEW x \in Given, HandleFailRemoteGet(x) PROVE Moved
  <2>1. /\ x \in Order /\ x.dst \in Site /\ x.dat \in Data
        /\ <<"FAIL_REMOTE_GET", x>> \in msgs /\ put[x] = "fail"
        /\ msgs' = msgs \ {<<"FAIL_REMOTE_GET", x>>}
        /\ failed' = [failed EXCEPT ![x.dst] = @ \cup {x.dat}]
        /\ UNCHANGED <<put, stored, qtable>>
        /\ failed \in [Site -> SUBSET Data]
    BY <1>a, <1>c, <1>23 DEF HandleFailRemoteGet, TypeOK
  <2>2. rget' = rget
    <3>1. \A u \in Order : rget[u] # "wait"
      BY DEF IInv, Started, TcpPlace
    <3>2. thread[x.dst][x.dat] \in Order \cup {NoOrder}
      BY <1>a, <2>1 DEF TypeOK
    <3> QED
      BY <1>23, <3>1, <3>2 DEF HandleFailRemoteGet
  <2>3. \A y \in Order : y # x => (Open(y)' <=> Open(y))
    BY <2>1, <2>2 DEF Open
  <2>4. \A n \in Site : WholeAt(n)' = WholeAt(n)
    BY <1>a, <2>1, Sets DEF WholeAt
  <2>5. CASE ~Apart(x)
    <3>1. \A n \in Site, d \in Data : n # x.dst \/ d # x.dat =>
             (d \in failed'[n] <=> d \in failed[n])
      BY <2>1
    <3>2. Only(x)
      BY <2>1, <2>3, <2>4, <3>1 DEF Only
    <3> QED
      BY <2>5, <3>2, <1>23 DEF Moved, Given
  <2>6. CASE Apart(x)
    <3>1. rget[x] \notin Serves
      BY <1>e, <1>23, <2>1, <2>6
    <3>2. Open(x) /\ ~Open(x)'
      BY <2>1, <2>2, <3>1 DEF Open, Serves
    <3>3. {y \in Order : Open(y)}' = {y \in Order : Open(y)} \ {x}
      BY <2>1, <2>3, <3>2, OrderEnds
    <3>4. Movement!Fail(x)
      BY <2>1, <2>4, <3>2, <3>3 DEF Movement!Fail
    <3> QED
      BY <2>1, <3>4 DEF Moved, Movement!Next
  <2> QED
    BY <2>5, <2>6
<1>24. ASSUME NEW j \in jobs, IbBroken(j) PROVE Moved
  <2>1. /\ UNCHANGED <<rget, msgs, stored, qtable, failed>>
        /\ put' = [put EXCEPT ![j.order] = "broken"]
    BY <1>24 DEF IbBroken
  <2>2. put[j.order] = "send"
    BY DEF IInv, InStep, Handled
  <2>3. \A y \in Order :
              /\ put'[y] = "new" <=> put[y] = "new"
              /\ rget'[y] \in {"listed", "end"} <=> rget[y] \in {"listed", "end"}
              /\ (put'[y] = "fail" /\ <<"FAIL_REMOTE_GET", y>> \notin msgs') <=>
                 (put[y] = "fail" /\ <<"FAIL_REMOTE_GET", y>> \notin msgs)
    BY <1>b, <2>1, <2>2
  <2> QED
    BY <1>a, <2>1, <2>3, Hidden
<1>25. CASE \/ \E j \in jobs : HandlerRead(j) \/ HandlerCopy(j) \/ HandlerAdd(j) \/ IbTangled(j)
  <2>1. UNCHANGED <<put, rget, msgs, stored, qtable, failed>>
    BY <1>25 DEF HandlerRead, HandlerCopy, HandlerAdd, IbTangled
  <2> QED
    BY <1>a, <2>1, Hidden
<1>26. CASE \/ \E g \in config.gets : GetCheck(g) \/ GetWait(g) \/ GetResume(g)
            \/ \E n \in Site : InitListen(n)
  <2>1. UNCHANGED <<put, rget, msgs, stored, qtable, failed>>
    BY <1>26 DEF GetCheck, GetWait, GetResume, InitListen
  <2> QED
    BY <1>a, <2>1, Hidden
<1> QED
  BY <1>1, <1>2, <1>3, <1>4, <1>5, <1>6, <1>7, <1>8, <1>9, <1>10, <1>11, <1>12, <1>13, <1>14, <1>15,
     <1>16, <1>17, <1>18, <1>19, <1>20, <1>21, <1>22, <1>23, <1>24, <1>25, <1>26 DEF Next,
     HolderStep, DestinationStep, HandlerStep, Given

\* The data plane implements Mover: over InfiniBand, what remote_get lists is
\* whole in the DataSpaces of its site, an order ends by that or by being marked
\* failed at its destination, and no step of a transfer touches anything else.
\* One datum may go to many sites, over one entry of the holder's
\* data_id_hash__trans_info_map: whichever server a transfer comes to, this
\* holds of every transfer whose server had it alone.
THEOREM MovesHold == Spec => Moves
<1>1. Init => Movement!Init
  <2> SUFFICES ASSUME Init PROVE Movement!Init
    OBVIOUS
  <2>1. IInv
    BY InitIInv
  <2>2. qtable \in [Site -> SUBSET Data] /\ failed = [n \in Site |-> {}]
    BY <2>1 DEF IInv, TypeOK, Init
  <2>3. \A n \in Site : WholeAt(n) \subseteq Data
    BY <2>2 DEF WholeAt
  <2>4. \A n \in Site : qtable[n] \subseteq WholeAt(n)
    BY <2>2 DEF Init, WholeAt
  <2>5. {x \in Order : Open(x)} = {} /\ {x \in Order : put[x] = "new"} = Order
    BY DEF Init, Open
  <2> QED
    BY <2>2, <2>3, <2>4, <2>5 DEF Movement!Init
<1>2. IInv /\ [Next]_vars => [Protocol = "INFINIBAND" => Moved]_vars
  BY MovedStep DEF Ib
<1> QED
  BY <1>1, <1>2, Invariance, PTL DEF Spec, Moves, Moved

=============================================================================
