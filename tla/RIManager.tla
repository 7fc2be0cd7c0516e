----------------------------- MODULE RIManager -----------------------------
(***************************************************************************)
(* The data plane: what becomes of a move order once dm_act_cb has it      *)
(* (RIManager and RFPManager, dspaces_rel/remote_interact.cpp, over Trans, *)
(* IBTrans and TCPTrans).  The holder asks the destination where to send,  *)
(* the destination starts a remote_get thread that serves one transfer,    *)
(* the holder reads the data from its DataSpaces and sends it, and the     *)
(* destination puts what arrived into its own DataSpaces, lists it and     *)
(* wakes the gets that wait for it.                                        *)
(*                                                                         *)
(* Every message, every remote_get and, over TCP, every received chunk has *)
(* a thread of its own.  Maps are locked call by call.  InfiniBand hands   *)
(* all chunks over at once before the server returns (see IBChannel).  A   *)
(* process ends when it follows a null pointer, listens where it listens   *)
(* already or connects where nobody does: exit in TEST_NZ and in           *)
(* Connector::event_loop, an uncaught exception in                         *)
(* TCPClient::send_control_data.                                           *)
(*                                                                         *)
(* What keeps transfers over InfiniBand apart is the port an IBServer      *)
(* listens on, from a queue whose pop looks at it without its lock, and    *)
(* the address the holder connects to, which is kept per data id and not   *)
(* per transfer.                                                           *)
(***************************************************************************)
EXTENDS Syncer, Integers, Sequences, FiniteSets

CONSTANTS
    Site, Master,
    Data,
    Order,      \* the move orders, [id, src, dst, dat]: holder, destination, data
    Get,        \* the gets that come by meanwhile, [id, site, dat]
    Port,       \* the ports of the sites' ib_lport_lists
    NoPort, NoOrder,
    Config      \* the instances: which orders and gets, which orders are given
                \* only when another has ended, over which protocol, the ports
                \* of each site, how many chunks, whether the holder's DataSpaces
                \* may not answer

ASSUME OrderAssumption ==
    /\ Master \in Site
    /\ \A x \in Order : x.src \in Site /\ x.dst \in Site /\ x.dat \in Data
    /\ \A g \in Get : g.site \in Site /\ g.dat \in Data
    /\ NoPort \notin Port
    /\ NoOrder \notin Order
    /\ \A c \in Config :
          /\ c.orders \subseteq Order
          /\ c.late \subseteq c.orders
          /\ c.gets \subseteq Get
          /\ c.protocol \in {"INFINIBAND", "TCP"}
          /\ c.ports \subseteq Port
          /\ IsFiniteSet(c.orders) /\ IsFiniteSet(c.ports)
          /\ c.chunks \in Nat \ {0}
          /\ c.fails \in BOOLEAN
          \* Data is not moved to a site that it is moved from.
          /\ c.protocol = "INFINIBAND" =>
                \A x, y \in c.orders : x.dat = y.dat => x.dst # y.src

VARIABLES
    config,     \* the instance of Config this is; it does not change
    put,        \* put[x]: the thread in handle_dm_move for x, at the holder
    rget,       \* rget[x]: the remote_get thread for x, at the destination
    cut,        \* the remote_get threads that were interrupted
    msgs,       \* RI messages in flight
    risync,     \* risync[n]: ri_syncer
    rfpsync,    \* rfpsync[n]: rfp_syncer
    tcpsync,    \* tcpsync[n]: TCPServer's syncer
    trans_info, \* trans_info[n][d]: data_id_hash__trans_info_map
    thread,     \* thread[n][d]: data_id__remote_get_t_map
    ports,      \* ports[n]: s_lport_queue
    port,       \* port[x]: the port handed out for x
    wild,       \* the sites whose s_lport_queue was popped when it was empty
    addr,       \* addr[x]: the trans_info that remote_put has for x
    server,     \* server[x]: the order whose IBServer x's IBClient is connected to
    recved,     \* recved[n][d]: data_id__recved_size_map
    data,       \* data[n][d]: the buffer in data_id__data_map
    listen,     \* listen[n]: the acceptor of TCPServer
    wire,       \* wire[x]: where x's TCP connection goes, and how many chunks
                \* init_recv has read from it
    jobs,       \* threads inside RFPManager::handle_recv
    stored,     \* stored[n][d]: what DataSpaces holds (external)
    qtable,     \* qtable[n]: the keys of sdm_slave_'s qtable
    failed,     \* failed[n]: failed_remote_get_data_id_v
    get,        \* get[g]: where handle_get is with wait_for_get
    down        \* the sites whose process has ended

moveVars == <<put, rget, cut, msgs>>
syncVars == <<risync, rfpsync, tcpsync>>
infoVars == <<trans_info, thread, ports, port, wild, addr, server>>
recvVars == <<recved, data, listen, wire, jobs>>
siteVars == <<stored, qtable, failed>>
vars     == <<moveVars, syncVars, infoVars, recvVars, siteVars, get, down, config>>

Protocol == config.protocol
N        == config.chunks     \* chunks of a datum
GetFails == config.fails

\* Contents: chunk k at slot i, or 0 for what malloc left there.
Whole   == [i \in 1 .. N |-> i]
Garbage == [i \in 1 .. N |-> 0]
Null    == <<>>
Content == [1 .. N -> 0 .. N] \cup {Null}
Absent  == -1             \* no entry in data_id__recved_size_map

Addr   == [site : Site, port : Port \cup {NoPort}]
NoAddr == [site |-> Master, port |-> NoPort]
Msg    == {"TINFO_QUERY", "TINFO_QUERY_REPLY", "FAIL_REMOTE_GET"} \X Order
Job    == [order : Order, at : Site, first : 1 .. N, size : 1 .. N,
           off : Nat, pc : {"read", "copy", "add"}]

\* Where handle_dm_move is; where handle_tinfo_query is, in get_s_lport, and
\* then the remote_get it starts.
PutPlace == {"new", "asked", "wait", "ready", "fetch", "send", "sent", "broken", "fail"}
GetPlace == {"none", "test", "empty", "parked", "take", "start", "init", "point", "wait",
             "listen", "serve", "notify", "got", "stored", "freed", "listed", "end", "cut"}

TypeOK ==
    /\ config \in Config
    /\ put \in [Order -> PutPlace]
    /\ rget \in [Order -> GetPlace]
    /\ cut \subseteq Order
    /\ msgs \subseteq Msg
    /\ risync \in [Site -> SyncerType(Data, Order)]
    /\ rfpsync \in [Site -> SyncerType(Data, Get)]
    /\ tcpsync \in [Site -> SyncerType(Data, Order)]
    /\ trans_info \in [Site -> [Data -> Addr]]
    /\ thread \in [Site -> [Data -> Order \cup {NoOrder}]]
    /\ ports \in [Site -> SUBSET (Port \cup {NoPort})]
    /\ port \in [Order -> Port \cup {NoPort}]
    /\ wild \subseteq Site
    /\ addr \in [Order -> Addr]
    /\ server \in [Order -> Order \cup {NoOrder}]
    /\ recved \in [Site -> [Data -> Nat \cup {Absent}]]
    /\ data \in [Site -> [Data -> Content]]
    /\ listen \in [Site -> {"no", "spawned", "on"}]
    /\ wire \in [Order -> [site : Site, read : 0 .. N]]
    /\ jobs \subseteq Job
    /\ stored \in [Site -> [Data -> Content]]
    /\ qtable \in [Site -> SUBSET Data]
    /\ failed \in [Site -> SUBSET Data]
    /\ get \in [Get -> {"new", "seen", "wait", "woken", "passed"}]
    /\ down \subseteq Site

\* IBTrans's constructor fills s_lport_queue.
IbPorts == [n \in Site |-> config.ports]

Held(n) == {x.dat : x \in {y \in config.orders : y.src = n}}

Init ==
    /\ config \in Config
    /\ put = [x \in Order |-> "new"]
    /\ rget = [x \in Order |-> "none"]
    /\ cut = {}
    /\ msgs = {}
    /\ risync = [n \in Site |-> EmptySyncer]
    /\ rfpsync = [n \in Site |-> EmptySyncer]
    /\ tcpsync = [n \in Site |-> EmptySyncer]
    /\ trans_info = [n \in Site |-> [d \in Data |-> NoAddr]]
    /\ thread = [n \in Site |-> [d \in Data |-> NoOrder]]
    /\ ports = IbPorts
    /\ port = [x \in Order |-> NoPort]
    /\ wild = {}
    /\ addr = [x \in Order |-> NoAddr]
    /\ server = [x \in Order |-> NoOrder]
    /\ recved = [n \in Site |-> [d \in Data |-> Absent]]
    /\ data = [n \in Site |-> [d \in Data |-> Null]]
    /\ listen = [n \in Site |-> "no"]
    /\ wire = [x \in Order |-> [site |-> Master, read |-> 0]]
    /\ jobs = {}
    /\ stored = [n \in Site |-> [d \in Data |-> IF d \in Held(n) THEN Whole ELSE Null]]
    /\ qtable = [n \in Site |-> Held(n)]
    /\ failed = [n \in Site |-> {}]
    /\ get = [g \in Get |-> "new"]
    /\ down = {}

-----------------------------------------------------------------------------
PutAt(x, l)  == put[x] = l /\ x.src \notin down
RgetAt(x, l) == rget[x] = l /\ x.dst \notin down
GoPut(x, l)  == put' = [put EXCEPT ![x] = l]
GoRget(x, l) == rget' = [rget EXCEPT ![x] = l]
Arrived(t, x, n) == <<t, x>> \in msgs /\ n \notin down

-----------------------------------------------------------------------------
(* The holder: handle_dm_move, trans_info_query and remote_put.             *)

HandleDmMove(x) ==
    /\ PutAt(x, "new")
    /\ x \in config.late => \E y \in config.orders \ config.late : rget[y] = "end"
    /\ GoPut(x, "asked")
    /\ msgs' = msgs \cup {<<"TINFO_QUERY", x>>}
    /\ UNCHANGED <<rget, cut, syncVars, infoVars, recvVars, siteVars, get, down>>

TransInfoWait(x) ==
    /\ PutAt(x, "asked")
    /\ risync' = [risync EXCEPT ![x.src] = AddWait(@, x.dat, x)]
    /\ GoPut(x, "wait")
    /\ UNCHANGED <<rget, cut, msgs, rfpsync, tcpsync, infoVars, recvVars, siteVars, get, down>>

TransInfoResume(x) ==
    /\ PutAt(x, "wait")
    /\ x \in risync[x.src].woken
    /\ risync' = [risync EXCEPT ![x.src] = DelPoint(@, x.dat, x)]
    /\ GoPut(x, "ready")
    /\ UNCHANGED <<rget, cut, msgs, rfpsync, tcpsync, infoVars, recvVars, siteVars, get, down>>

\* handle_tinfo_query_reply: the address is kept per data id.
HandleTinfoReply(x) ==
    LET n == x.src
        m == <<"TINFO_QUERY_REPLY", x>>
    IN  /\ Arrived(m[1], x, n)
        /\ msgs' = msgs \ {m}
        /\ trans_info' = [trans_info EXCEPT ![n][x.dat] = [site |-> x.dst, port |-> port[x]]]
        /\ \E s \in Notify(risync[n], x.dat) : risync' = [risync EXCEPT ![n] = s]
        /\ UNCHANGED <<put, rget, cut, rfpsync, tcpsync, thread, ports, port, wild, addr, server,
                       recvVars, siteVars, get, down>>

\* remote_put looks up the address, long before it connects.
RemotePutLookUp(x) ==
    /\ PutAt(x, "ready")
    /\ addr' = [addr EXCEPT ![x] = trans_info[x.src][x.dat]]
    /\ GoPut(x, "fetch")
    /\ UNCHANGED <<rget, cut, msgs, syncVars, trans_info, thread, ports, port, wild, server,
                   recvVars, siteVars, get, down>>

\* Mutant of RemotePutFails: the destination is not told.
RemotePutFailsSilently(x) ==
    /\ PutAt(x, "fetch")
    /\ GetFails
    /\ GoPut(x, "fail")
    /\ UNCHANGED <<rget, cut, msgs, syncVars, infoVars, recvVars, siteVars, get, down>>

\* wa_put, when reg_get_wait_for_completion fails: nothing is sent.
RemotePutFails(x) ==
    /\ PutAt(x, "fetch")
    /\ GetFails
    /\ GoPut(x, "fail")
    /\ msgs' = msgs \cup {<<"FAIL_REMOTE_GET", x>>}
    /\ UNCHANGED <<rget, cut, syncVars, infoVars, recvVars, siteVars, get, down>>

\* Over TCP everything is then on its way.
TcpSend(x, to) ==
    /\ listen[to] = "on" /\ to \notin down
    /\ GoPut(x, "sent")
    /\ wire' = [wire EXCEPT ![x].site = to]
    /\ UNCHANGED <<rget, jobs, server, down>>

TcpRefused(x, to) ==
    /\ listen[to] # "on" \/ to \in down
    /\ down' = down \cup {x.src}
    /\ UNCHANGED <<put, rget, wire, jobs, server>>

\* IBTrans::init_client: an IBClient for this transfer, whose send_data waits for
\* the server's end.  It comes to whoever listens at the address now; an IBServer
\* that has a client accepts another.
Listening(a) == {z \in Order : z.dst = a.site /\ z.dst \notin down /\ port[z] = a.port
                               /\ a.port # NoPort /\ rget[z] = "listen"}
Serving(a)   == {z \in Order : z.dst = a.site /\ z.dst \notin down /\ port[z] = a.port
                               /\ a.port # NoPort /\ rget[z] = "serve"}

IbSend(x, a) ==
    \E z \in Listening(a) \cup Serving(a) :
        /\ server' = [server EXCEPT ![x] = z]
        /\ GoPut(x, "send")
        /\ GoRget(z, "serve")
        /\ jobs' = jobs \cup {[order |-> x, at |-> z.dst, first |-> 1, size |-> N, off |-> 0, pc |-> "read"]}
        /\ UNCHANGED <<wire, down>>

IbRefused(x, a) ==
    /\ Listening(a) = {}
    /\ down' = down \cup {x.src}
    /\ UNCHANGED <<put, rget, wire, jobs, server>>

\* Otherwise init_put connects; where nobody listens the process ends.
RemotePut(x) ==
    LET a == addr[x]
    IN  /\ PutAt(x, "fetch")
        /\ \/ Protocol = "TCP" /\ (TcpSend(x, a.site) \/ TcpRefused(x, a.site))
           \/ Protocol = "INFINIBAND" /\ (IbSend(x, a) \/ IbRefused(x, a))
        /\ UNCHANGED <<cut, msgs, syncVars, trans_info, thread, ports, port, wild, addr,
                       recved, data, listen, siteVars, get>>

-----------------------------------------------------------------------------
(* The destination: handle_tinfo_query, remote_get and wa_get.              *)

\* With a port to listen on, handle_tinfo_query starts the remote_get thread and
\* answers.
HandOut(x, p) ==
    /\ port' = [port EXCEPT ![x] = p]
    /\ thread' = [thread EXCEPT ![x.dst][x.dat] = x]
    /\ GoRget(x, "start")
    /\ msgs' = (msgs \ {<<"TINFO_QUERY", x>>}) \cup {<<"TINFO_QUERY_REPLY", x>>}
    /\ UNCHANGED <<put, cut, syncVars, trans_info, addr, server, recvVars, siteVars, get>>

\* Trans::get_s_lport: the server's own port over TCP, one of the queue over
\* InfiniBand.
HandleTinfoQuery(x) ==
    /\ Arrived("TINFO_QUERY", x, x.dst)
    /\ \/ Protocol = "TCP" /\ HandOut(x, NoPort) /\ UNCHANGED <<ports, wild, down>>
       \/ /\ Protocol = "INFINIBAND"
          /\ GoRget(x, "test")
          /\ msgs' = msgs \ {<<"TINFO_QUERY", x>>}
          /\ UNCHANGED <<put, cut, syncVars, infoVars, recvVars, siteVars, get, down>>

\* BQueue::pop looks at the queue without its lock, ...
PopTest(x) ==
    LET n == x.dst
    IN  /\ RgetAt(x, "test")
        /\ \/ (ports[n] # {} \/ n \in wild) /\ GoRget(x, "take")
           \/ (ports[n] = {} \/ n \in wild) /\ GoRget(x, "empty")
        /\ UNCHANGED <<put, cut, msgs, syncVars, infoVars, recvVars, siteVars, get, down>>

\* ... waits for the next push if it was empty, ...
PopWait(x) ==
    /\ RgetAt(x, "empty")
    /\ GoRget(x, "parked")
    /\ UNCHANGED <<put, cut, msgs, syncVars, infoVars, recvVars, siteVars, get, down>>

\* Mutant of PopTake: the port is looked at, not taken.
PopTakePeek(x) ==
    LET n == x.dst
    IN  /\ RgetAt(x, "take")
        /\ n \notin wild
        /\ \E p \in ports[n] : HandOut(x, p)
        /\ UNCHANGED <<ports, wild, down>>

\* ... and takes one, from a queue that another thread may have emptied since it
\* looked.  That is undefined: what is handed out then, and from this queue from
\* then on, may be anything, if the process is not ended.
PopTake(x) ==
    LET n == x.dst
    IN  /\ RgetAt(x, "take")
        /\ \/ /\ n \notin wild
              /\ \E p \in ports[n] : HandOut(x, p) /\ ports' = [ports EXCEPT ![n] = @ \ {p}]
              /\ UNCHANGED <<wild, down>>
           \/ /\ n \in wild \/ ports[n] = {}
              /\ wild' = wild \cup {n}
              /\ \/ (\E p \in Port \cup {NoPort} : HandOut(x, p)) /\ UNCHANGED down
                 \/ /\ down' = down \cup {n}
                    /\ UNCHANGED <<moveVars, syncVars, trans_info, thread, port, addr, server,
                                   recvVars, siteVars, get>>
              /\ UNCHANGED ports

WaGet(x) ==
    LET n == x.dst
        d == x.dat
    IN  /\ RgetAt(x, "start")
        /\ recved' = [recved EXCEPT ![n][d] = 0]
        /\ data' = [data EXCEPT ![n][d] = Garbage]
        /\ GoRget(x, "init")
        /\ UNCHANGED <<put, cut, msgs, syncVars, infoVars, listen, wire, jobs, siteVars, get, down>>

\* Trans::init_get: an IBServer listens on the port, if no other does already;
\* TCPServer::init starts its listening thread the first time and waits for the
\* data id.
Bound(x) ==
    \E y \in Order \ {x} : y.dst = x.dst /\ port[y] = port[x] /\ port[x] # NoPort
                           /\ rget[y] \in {"listen", "serve"}

InitGet(x) ==
    /\ RgetAt(x, "init")
    /\ \/ /\ Protocol = "TCP"
          /\ GoRget(x, "point")
          /\ listen' = IF listen[x.dst] = "no" THEN [listen EXCEPT ![x.dst] = "spawned"] ELSE listen
          /\ UNCHANGED down
       \/ /\ Protocol = "INFINIBAND" /\ ~Bound(x)
          /\ GoRget(x, "listen")
          /\ UNCHANGED <<listen, down>>
       \/ /\ Protocol = "INFINIBAND" /\ Bound(x)
          /\ down' = down \cup {x.dst}
          /\ UNCHANGED <<rget, listen>>
    /\ UNCHANGED <<put, cut, msgs, syncVars, infoVars, recved, data, wire, jobs, siteVars, get>>

InitListen(n) ==
    /\ listen[n] = "spawned" /\ n \notin down
    /\ listen' = [listen EXCEPT ![n] = "on"]
    /\ UNCHANGED <<moveVars, syncVars, infoVars, recved, data, wire, jobs, siteVars, get, down>>

\* An interrupted thread leaves wait at once, by an exception, and the point
\* stays.
TcpWait(x) ==
    LET n == x.dst
        d == x.dat
    IN  /\ RgetAt(x, "point")
        /\ tcpsync' = [tcpsync EXCEPT ![n] = IF x \in cut THEN AddPoint(@, d)
                                             ELSE AddWait(@, d, x)]
        /\ GoRget(x, IF x \in cut THEN "cut" ELSE "wait")
        /\ UNCHANGED <<put, cut, msgs, risync, rfpsync, infoVars, recvVars, siteVars, get, down>>

TcpResume(x) ==
    LET n == x.dst
    IN  /\ RgetAt(x, "wait")
        /\ x \in tcpsync[n].woken
        /\ tcpsync' = [tcpsync EXCEPT ![n] = DelPoint(@, x.dat, x)]
        /\ GoRget(x, "got")
        /\ UNCHANGED <<put, cut, msgs, risync, rfpsync, infoVars, recvVars, siteVars, get, down>>

\* The IBServer is done when its data_recv_cb has returned, or its client is
\* gone; the port is pushed back, ...
Clients(z) == {x \in Order : server[x] = z}

IbServed(z) ==
    /\ RgetAt(z, "serve")
    /\ \A j \in jobs : server[j.order] # z
    /\ ports' = [ports EXCEPT ![z.dst] = @ \cup {port[z]}]
    /\ GoRget(z, "notify")
    /\ put' = [x \in Order |-> IF server[x] = z /\ put[x] = "send" THEN "sent" ELSE put[x]]
    /\ UNCHANGED <<cut, msgs, syncVars, trans_info, thread, port, wild, addr, server,
                   recvVars, siteVars, get, down>>

\* ... and a thread that waits for one is woken, if any does.
PortNotify(z) ==
    LET Parked == {y \in Order : y.dst = z.dst /\ rget[y] = "parked"}
    IN  /\ RgetAt(z, "notify")
        /\ \/ Parked = {} /\ GoRget(z, "got")
           \/ \E y \in Parked : rget' = [rget EXCEPT ![y] = "test", ![z] = "got"]
        /\ UNCHANGED <<put, cut, msgs, syncVars, infoVars, recvVars, siteVars, get, down>>

\* A client whose process has ended before all of its data had come.
IbBroken(j) ==
    /\ Protocol = "INFINIBAND" /\ j.pc = "read"
    /\ j.order.src \in down /\ j.at \notin down
    /\ jobs' = jobs \ {j}
    /\ GoPut(j.order, "broken")
    /\ UNCHANGED <<rget, cut, msgs, syncVars, infoVars, recved, data, listen, wire, siteVars, get, down>>

\* Two clients of one IBServer share its receive state and its completion queue:
\* headers and chunks are taken for each other's, or the process ends.
IbTangled(j) ==
    LET n == j.at
        d == j.order.dat
    IN  /\ Protocol = "INFINIBAND" /\ n \notin down
        /\ \E y \in Clients(server[j.order]) : y # j.order
        /\ \/ down' = down \cup {n} /\ UNCHANGED <<jobs, data>>
           \/ jobs' = jobs \ {j} /\ UNCHANGED <<down, data>>
           \/ /\ j.pc = "copy" /\ data[n][d] # Null
              /\ \E c \in Content \ {Null} : data' = [data EXCEPT ![n][d] = c]
              /\ jobs' = (jobs \ {j}) \cup {[j EXCEPT !.pc = "add"]}
              /\ UNCHANGED down
        /\ UNCHANGED <<moveVars, syncVars, infoVars, recved, listen, wire, siteVars, get>>

\* TCPServer::init_recv: each chunk is handed to a new thread, and the last
\* one's is not waited for.
RecvChunk(x) ==
    LET n == wire[x].site
        k == wire[x].read + 1
    IN  /\ Protocol = "TCP" /\ put[x] = "sent" /\ n \notin down
        /\ k <= N
        /\ wire' = [wire EXCEPT ![x].read = k]
        /\ jobs' = jobs \cup {[order |-> x, at |-> n, first |-> k, size |-> 1, off |-> 0, pc |-> "read"]}
        /\ IF k = N
           THEN \E s \in Notify(tcpsync[n], x.dat) : tcpsync' = [tcpsync EXCEPT ![n] = s]
           ELSE UNCHANGED tcpsync
        /\ UNCHANGED <<moveVars, risync, rfpsync, infoVars, recved, data, listen, siteVars, get, down>>

-----------------------------------------------------------------------------
(* RFPManager::handle_recv.                                                 *)

JobAt(j, l) == j.pc = l /\ j.at \notin down

HandlerRead(j) ==
    LET size == recved[j.at][j.order.dat]
    IN  /\ JobAt(j, "read")
        /\ jobs' = (jobs \ {j}) \cup IF size = Absent THEN {}
                                     ELSE {[j EXCEPT !.off = size, !.pc = "copy"]}
        /\ UNCHANGED <<moveVars, syncVars, infoVars, recved, data, listen, wire, siteVars, get, down>>

\* memcpy to the buffer the map has now; there may be none any more.
HandlerCopy(j) ==
    LET n == j.at
        d == j.order.dat
        Written == [i \in 1 .. N |-> IF i \in j.off + 1 .. j.off + j.size
                                     THEN j.first + (i - j.off - 1) ELSE data[n][d][i]]
    IN  /\ JobAt(j, "copy")
        /\ IF data[n][d] = Null
           THEN down' = down \cup {n} /\ UNCHANGED <<data, jobs>>
           ELSE /\ data' = [data EXCEPT ![n][d] = Written]
                /\ jobs' = (jobs \ {j}) \cup {[j EXCEPT !.pc = "add"]}
                /\ UNCHANGED down
        /\ UNCHANGED <<moveVars, syncVars, infoVars, recved, listen, wire, siteVars, get>>

\* Mutant of HandlerAdd: the chunk is counted twice.
HandlerAddTwice(j) ==
    LET n == j.at
        d == j.order.dat
    IN  /\ JobAt(j, "add")
        /\ recved' = [recved EXCEPT ![n][d] = (IF @ = Absent THEN 0 ELSE @) + 2 * j.size]
        /\ jobs' = jobs \ {j}
        /\ UNCHANGED <<moveVars, syncVars, infoVars, data, listen, wire, siteVars, get, down>>

\* += makes the entry again if wa_get has deleted it.
HandlerAdd(j) ==
    LET n == j.at
        d == j.order.dat
    IN  /\ JobAt(j, "add")
        /\ recved' = [recved EXCEPT ![n][d] = (IF @ = Absent THEN 0 ELSE @) + j.size]
        /\ jobs' = jobs \ {j}
        /\ UNCHANGED <<moveVars, syncVars, infoVars, data, listen, wire, siteVars, get, down>>

-----------------------------------------------------------------------------
(* The rest of wa_get and remote_get.                                       *)

SyncPut(x) ==
    LET n == x.dst
        d == x.dat
    IN  /\ RgetAt(x, "got")
        /\ IF data[n][d] = Null
           THEN down' = down \cup {n} /\ UNCHANGED <<stored, rget>>
           ELSE /\ stored' = [stored EXCEPT ![n][d] = data[n][d]]
                /\ GoRget(x, "stored")
                /\ UNCHANGED down
        /\ UNCHANGED <<put, cut, msgs, syncVars, infoVars, recvVars, qtable, failed, get>>

\* Mutant of WaGetDone: the gets are woken before the data is listed.
WaGetDoneWakes(x) ==
    LET n == x.dst
        d == x.dat
    IN  /\ RgetAt(x, "stored")
        /\ data' = [data EXCEPT ![n][d] = Null]
        /\ recved' = [recved EXCEPT ![n][d] = Absent]
        /\ \E s \in Notify(rfpsync[n], d) : rfpsync' = [rfpsync EXCEPT ![n] = s]
        /\ GoRget(x, "freed")
        /\ UNCHANGED <<put, cut, msgs, risync, tcpsync, infoVars, listen, wire, jobs, siteVars, get, down>>

WaGetDone(x) ==
    LET n == x.dst
        d == x.dat
    IN  /\ RgetAt(x, "stored")
        /\ data' = [data EXCEPT ![n][d] = Null]
        /\ recved' = [recved EXCEPT ![n][d] = Absent]
        /\ GoRget(x, "freed")
        /\ UNCHANGED <<put, cut, msgs, syncVars, infoVars, listen, wire, jobs, siteVars, get, down>>

\* sdm_slave_->put(notify = false).  The master's fails after its qtable has
\* the data (REMOTE_P_ID is registered nowhere), and remote_get ends there.
ListRemote(x) ==
    LET n == x.dst
    IN  /\ RgetAt(x, "freed")
        /\ qtable' = [qtable EXCEPT ![n] = @ \cup {x.dat}]
        /\ GoRget(x, IF n = Master THEN "end" ELSE "listed")
        /\ UNCHANGED <<put, cut, msgs, syncVars, infoVars, recvVars, stored, failed, get, down>>

\* The gets in wait_for_get are woken; the master is told (see SDMControl).
NotifyRemoteGetDone(x) ==
    LET n == x.dst
    IN  /\ RgetAt(x, "listed")
        /\ \E s \in Notify(rfpsync[n], x.dat) : rfpsync' = [rfpsync EXCEPT ![n] = s]
        /\ GoRget(x, "end")
        /\ UNCHANGED <<put, cut, msgs, risync, tcpsync, infoVars, recvVars, siteVars, get, down>>

\* handle_fail_remote_get: the data is marked, its thread interrupted, which
\* has an effect in a syncer's wait only, its buffer freed and the gets woken.
HandleFailRemoteGet(x) ==
    LET n == x.dst
        d == x.dat
        y == thread[n][d]
    IN  /\ Arrived("FAIL_REMOTE_GET", x, n)
        /\ msgs' = msgs \ {<<"FAIL_REMOTE_GET", x>>}
        /\ failed' = [failed EXCEPT ![n] = @ \cup {d}]
        /\ \/ /\ y = NoOrder
              /\ down' = down \cup {n}
              /\ UNCHANGED <<cut, thread, data, recved, tcpsync, rfpsync, rget>>
           \/ /\ y # NoOrder
              /\ cut' = cut \cup {y}
              /\ thread' = [thread EXCEPT ![n][d] = NoOrder]
              /\ IF rget[y] = "wait" /\ y \notin tcpsync[n].woken
                 THEN /\ tcpsync' = [tcpsync EXCEPT ![n].parked = @ \ {<<d, y>>}]
                      /\ GoRget(y, "cut")
                 ELSE UNCHANGED <<tcpsync, rget>>
              /\ data' = [data EXCEPT ![n][d] = Null]
              /\ recved' = IF data[n][d] = Null THEN recved ELSE [recved EXCEPT ![n][d] = Absent]
              /\ \E s \in Notify(rfpsync[n], d) : rfpsync' = [rfpsync EXCEPT ![n] = s]
              /\ UNCHANGED down
        /\ UNCHANGED <<put, risync, trans_info, ports, port, wild, addr, server, listen, wire, jobs,
                       stored, qtable, get>>

-----------------------------------------------------------------------------
(* RFPManager::wait_for_get, as handle_get calls it.                        *)

GetCheck(g) ==
    /\ get[g] = "new" /\ g.site \notin down
    /\ get' = [get EXCEPT ![g] = IF recved[g.site][g.dat] = Absent THEN "passed" ELSE "seen"]
    /\ UNCHANGED <<moveVars, syncVars, infoVars, recvVars, siteVars, down>>

GetWait(g) ==
    LET n == g.site
    IN  /\ get[g] = "seen" /\ n \notin down
        /\ rfpsync' = [rfpsync EXCEPT ![n] = AddWait(@, g.dat, g)]
        /\ get' = [get EXCEPT ![g] = "wait"]
        /\ UNCHANGED <<moveVars, risync, tcpsync, infoVars, recvVars, siteVars, down>>

GetResume(g) ==
    LET n == g.site
    IN  /\ get[g] = "wait" /\ n \notin down
        /\ g \in rfpsync[n].woken
        /\ rfpsync' = [rfpsync EXCEPT ![n] = DelPoint(@, g.dat, g)]
        /\ get' = [get EXCEPT ![g] = "woken"]
        /\ UNCHANGED <<moveVars, risync, tcpsync, infoVars, recvVars, siteVars, down>>

-----------------------------------------------------------------------------
HolderStep(x) ==
    \/ HandleDmMove(x) \/ TransInfoWait(x) \/ TransInfoResume(x)
    \/ HandleTinfoReply(x) \/ RemotePutLookUp(x) \/ RemotePutFails(x) \/ RemotePut(x)

DestinationStep(x) ==
    \/ HandleTinfoQuery(x) \/ PopTest(x) \/ PopWait(x) \/ PopTake(x)
    \/ WaGet(x) \/ InitGet(x) \/ TcpWait(x) \/ TcpResume(x)
    \/ IbServed(x) \/ PortNotify(x) \/ RecvChunk(x) \/ SyncPut(x) \/ WaGetDone(x) \/ ListRemote(x)
    \/ NotifyRemoteGetDone(x) \/ HandleFailRemoteGet(x)

HandlerStep(j) ==
    HandlerRead(j) \/ HandlerCopy(j) \/ HandlerAdd(j) \/ IbBroken(j) \/ IbTangled(j)

Next ==
    /\ \/ \E x \in config.orders : HolderStep(x) \/ DestinationStep(x)
       \/ \E j \in jobs : HandlerStep(j)
       \/ \E g \in config.gets : GetCheck(g) \/ GetWait(g) \/ GetResume(g)
       \/ \E n \in Site : InitListen(n)
    /\ UNCHANGED config

Spec == Init /\ [][Next]_vars
-----------------------------------------------------------------------------
(* Properties.                                                              *)

\* An order is open from handle_dm_move until it is listed or marked failed.
Open(x) ==
    /\ put[x] # "new"
    /\ rget[x] \notin {"listed", "end"}
    /\ put[x] = "fail" => <<"FAIL_REMOTE_GET", x>> \in msgs

\* The data in a site's DataSpaces that a get can come to: listed and whole.
WholeAt(n) == {d \in qtable[n] : stored[n][d] = Whole}

Movement == INSTANCE Mover WITH dspaces <- [n \in Site |-> WholeAt(n)],
                                fresh <- {x \in Order : put[x] = "new"},
                                todo <- {x \in Order : Open(x)},
                                Dst <- [x \in Order |-> x.dst],
                                Dat <- [x \in Order |-> x.dat],
                                Origin <- [d \in Data |-> Master]

\* A transfer that no other has met: its data was not ordered to its site twice,
\* and its IBServer had one client at most, with its data, that sent all of it.
Apart(x) ==
    /\ \A y \in config.orders : y.dst = x.dst /\ y.dat = x.dat /\ put[y] # "new" => y = x
    /\ \A y \in Order : server[y] # NoOrder /\ server[y].dst = x.dst /\ y.dat = x.dat => server[y] = x
    /\ \A y \in Clients(x) : y.dat = x.dat /\ put[y] # "broken" /\ put[x] # "fail"
    /\ \A y, z \in Clients(x) : y = z

\* A step that changes nothing but what is listed, whole or failed of z's data
\* at z's destination, and whether z has ended.
Only(z) ==
    /\ \A n \in Site, d \in Data : n # z.dst \/ d # z.dat =>
          /\ d \in WholeAt(n)' <=> d \in WholeAt(n)
          /\ d \in qtable'[n] <=> d \in qtable[n]
          /\ d \in failed'[n] <=> d \in failed[n]
    /\ \A x \in Order : put'[x] = "new" <=> put[x] = "new"
    /\ \A x \in Order \ {z} : Open(x)' <=> Open(x)

\* Over InfiniBand the data plane keeps its promise to the control plane
\* (Mover), for each transfer that no other has met, whatever becomes of the
\* others: what remote_get lists is in the DataSpaces, and all of it; a transfer
\* that failed is marked at its destination; nothing else is touched.  One datum
\* may go to several sites, whose addresses its holder keeps in one place: a
\* transfer may be sent to the other's server, and still be whole.
\* (Over TCP init_get is released when the last chunk has been read, which is
\* before its handler has copied it: the data is then listed and not whole.)
Moves ==
    /\ Movement!Init
    /\ [][Protocol = "INFINIBAND" => \/ UNCHANGED Movement!vars
                                     \/ Movement!Next
                                     \/ \E z \in config.orders : ~Apart(z) /\ Only(z)]_vars

\* A port belongs to one transfer at a time, and comes back to the queue
\* unless a remote_get is still on it, as long as the queue was never popped
\* empty; and that takes more orders to the site than the site has ports.
PortExclusive ==
    Protocol = "INFINIBAND" =>
        \A n \in Site :
            LET On == {x \in Order : x.dst = n /\ rget[x] \in {"start", "init", "listen", "serve"}}
            IN  IF n \in wild
                THEN Cardinality({x \in config.orders : x.dst = n}) > Cardinality(config.ports)
                ELSE /\ \A x, y \in On : port[x] = port[y] => x = y
                     /\ ports[n] = config.ports \ {port[x] : x \in On}

\* A get that wait_for_get held back finds the data listed, or marked failed,
\* when it goes on: remote_get notifies after its put, and
\* handle_fail_remote_get after its mark.
WokenMeansEnded ==
    \A g \in Get : get[g] = "woken" => g.dat \in qtable[g.site] \cup failed[g.site]

OrderedOnce(d) == \A x, y \in config.orders : x.dat = d /\ y.dat = d => x = y

\* handle_recv never copies past the end of the buffer, whatever its threads
\* read of the size they all add to, as long as no order is given twice.
NoOverflow ==
    \A j \in jobs : OrderedOnce(j.order.dat) /\ j.pc # "read" => j.off + j.size <= N

\* When a remote_get has ended, its data no longer counts as being fetched: a
\* later get would wait for a notification that was already given.  (Over TCP
\* a handler that is still adding makes the entry anew.)
NotBeingGet ==
    Protocol = "INFINIBAND" =>
        \A x \in config.orders : rget[x] \in {"freed", "listed", "end"} /\ Apart(x) =>
            recved[x.dst][x.dat] = Absent

\* handle_tinfo_query takes ports and init_get brings them back: with no more
\* orders to a site than it has ports, none is shared and none is lost,
\* whatever fails in between.
PortsSound == TypeOK /\ PortExclusive

\* wait_for_get and those that notify it agree on what is under way: a get that
\* waited goes on to listed or failed data, and over InfiniBand nobody starts to
\* wait for a transfer that is over, if no other has met it.
WaitersSound == NotBeingGet /\ WokenMeansEnded
=============================================================================
