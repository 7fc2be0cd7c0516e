------------------------------ MODULE SDMNode ------------------------------
(***************************************************************************)
(* How nodes join the overlay the control plane talks over (Commer and     *)
(* SDMNode, dspaces_rel/sdm_control/sdm_node.cpp).  A node asks its join   *)
(* host to be let in; the host adds it and answers with the peers it       *)
(* knows, and the node asks each of them in turn.  Between the sites'      *)
(* nodes (master_slave = false) this is to make a mesh; between a site's   *)
(* RIManager and its applications (master_slave = true), a star.           *)
(*                                                                         *)
(* Each message is handled by a thread of its own (SDMServer::init_recv).  *)
(* A job is a message from the moment it is sent until its handler ends,   *)
(* with the handler's place.  The peer maps are locked call by call, so a  *)
(* handler's steps are its calls on them.  Only positive replies carry a   *)
(* list.  A send to a peer that has no client dereferences a null pointer: *)
(* the node aborts.                                                        *)
(***************************************************************************)
EXTENDS Syncer, Naturals, Bags, FiniteSetsExt

CONSTANTS
    Node,       \* node ids, numbers: the order of the peer maps
    Master,     \* the node whose type is "m"
    JoinHost,   \* the node each one joins; the first node's is itself
    Config      \* the overlays: their nodes, mesh (~master_slave), and whether
                \* a node is started only when the others are quiet (onebyone)

ASSUME NodeAssumption ==
    /\ Node \subseteq Nat
    /\ Master \in Node
    /\ JoinHost \in [Node -> Node]
    /\ Config \subseteq [nodes : SUBSET Node, mesh : BOOLEAN, onebyone : BOOLEAN]

VARIABLES
    config,     \* the overlay of Config this is; it does not change
    pc,         \* pc[n]: where SDMNode::join is
    nsync,      \* nsync[n]: syncer
    info,       \* info[n]: the ids in peer_id__peer_info_map
    client,     \* client[n]: the ids in peer_id__client_map
    master,     \* the nodes whose sdm_master_id is set
    up,         \* up[n]: the peers handle_conn_up was called for
    jobs,       \* the bag of messages in flight and handlers
    aborted     \* nodes that have dereferenced a missing client

peerVars == <<info, client>>
vars     == <<pc, nsync, peerVars, master, up, jobs, aborted, config>>

Point == {"JOIN"}
Job == [type : {"REQUEST", "REPLY", "ACK", "NACK", "PING"}, at : Node, from : Node,
        ack : BOOLEAN, list : SUBSET Node,
        pc : {"recv", "info", "client", "send", "nack", "ping", "others"}]

TypeOK ==
    /\ config \in Config
    /\ pc \in [Node -> {"new", "sent", "wait", "joined"}]
    /\ nsync \in [Node -> SyncerType(Point, {"join"})]
    /\ info \in [Node -> SUBSET Node]
    /\ client \in [Node -> SUBSET Node]
    /\ master \subseteq Node
    /\ up \in [Node -> SUBSET Node]
    /\ BagToSet(jobs) \subseteq Job
    /\ aborted \subseteq Node

Init ==
    /\ config \in Config
    /\ pc = [n \in Node |-> "new"]
    /\ nsync = [n \in Node |-> EmptySyncer]
    /\ info = [n \in Node |-> {}]
    /\ client = [n \in Node |-> {}]
    /\ master = {}
    /\ up = [n \in Node |-> {}]
    /\ jobs = EmptyBag
    /\ aborted = {}

-----------------------------------------------------------------------------
Msg(t, from, to) ==
    [type |-> t, at |-> to, from |-> from, ack |-> FALSE, list |-> {}, pc |-> "recv"]

\* gen_join_reply: in a mesh, the peers known at that moment are listed.
PositiveReply(n, to) ==
    [Msg("REPLY", n, to) EXCEPT !.ack = TRUE, !.list = IF config.mesh THEN info[n] \ {to} ELSE {}]

\* Job j goes on as, or sends, the jobs of S.
Become(j, S) == jobs' = (jobs (-) SetToBag({j})) (+) SetToBag(S)
GoOn(j, l)   == Become(j, {[j EXCEPT !.pc = l]})

\* j sends S over the client of the peer it is about, and goes on as R.
SendToPeer(j, R, S) ==
    IF j.from \in client[j.at]
    THEN Become(j, R \cup S) /\ UNCHANGED aborted
    ELSE Become(j, {}) /\ aborted' = aborted \cup {j.at}

\* A handler that asks for ever whether a peer it should join is one already.
Spinning(j) == j.pc = "others" /\ j.list # {} /\ Min(j.list) \in client[j.at]

Quiet ==
    /\ \A j \in BagToSet(jobs) : Spinning(j) \/ j.at \in aborted
    /\ \A n \in Node : pc[n] # "sent" /\ nsync[n].woken = {}

-----------------------------------------------------------------------------
(* SDMNode::join.                                                           *)

\* The constructor starts the server and asks the join host, again and again
\* until that one is up.  The first node has nobody to ask.
Start(n) ==
    /\ pc[n] = "new"
    /\ config.onebyone => Quiet
    /\ \/ /\ JoinHost[n] = n
          /\ pc' = [pc EXCEPT ![n] = "joined"]
          /\ UNCHANGED jobs
       \/ /\ JoinHost[n] # n
          /\ pc[JoinHost[n]] # "new"
          /\ pc' = [pc EXCEPT ![n] = "sent"]
          /\ jobs' = jobs (+) SetToBag({Msg("REQUEST", n, JoinHost[n])})
    /\ UNCHANGED <<nsync, peerVars, master, up, aborted>>

JoinWait(n) ==
    /\ pc[n] = "sent"
    /\ pc' = [pc EXCEPT ![n] = "wait"]
    /\ nsync' = [nsync EXCEPT ![n] = AddWait(@, "JOIN", "join")]
    /\ UNCHANGED <<peerVars, master, up, jobs, aborted>>

JoinResume(n) ==
    /\ pc[n] = "wait"
    /\ "join" \in nsync[n].woken
    /\ pc' = [pc EXCEPT ![n] = "joined"]
    /\ nsync' = [nsync EXCEPT ![n] = DelPoint(@, "JOIN", "join")]
    /\ UNCHANGED <<peerVars, master, up, jobs, aborted>>

-----------------------------------------------------------------------------
(* Handlers.                                                                *)

\* handle_join_req, up to add_peer's look-up: a known id gets a negative reply
\* over a connection of its own.
HandleRequest(j) ==
    /\ j.type = "REQUEST" /\ j.pc = "recv"
    /\ IF j.from \in info[j.at] THEN Become(j, {Msg("REPLY", j.at, j.from)})
                                ELSE GoOn(j, "info")
    /\ UNCHANGED <<pc, nsync, peerVars, master, up, aborted>>

\* handle_join_reply: a negative reply ends here.  A positive one from a peer
\* that is known already, because its own request was handled, is nacked.
HandleReply(j) ==
    /\ j.type = "REPLY" /\ j.pc = "recv"
    /\ IF ~j.ack THEN Become(j, {}) /\ UNCHANGED master
       ELSE /\ master' = IF j.from = Master THEN master \cup {j.at} ELSE master
            /\ GoOn(j, IF j.from \in info[j.at] THEN "nack" ELSE "info")
    /\ UNCHANGED <<pc, nsync, peerVars, up, aborted>>

SendNack(j) ==
    /\ j.pc = "nack"
    /\ SendToPeer(j, {}, {Msg("NACK", j.at, j.from)})
    /\ UNCHANGED <<pc, nsync, peerVars, master, up>>

\* add_peer: the info, then, once connected, the client.
AddInfo(j) ==
    /\ j.pc = "info"
    /\ info' = [info EXCEPT ![j.at] = @ \cup {j.from}]
    /\ GoOn(j, "client")
    /\ UNCHANGED <<pc, nsync, client, master, up, aborted>>

\* Mutant of AddClient: the client is not kept.
AddClientNot(j) ==
    /\ j.pc = "client"
    /\ GoOn(j, "send")
    /\ UNCHANGED <<pc, nsync, info, client, master, up, aborted>>

AddClient(j) ==
    /\ j.pc = "client"
    /\ client' = [client EXCEPT ![j.at] = @ \cup {j.from}]
    /\ GoOn(j, "send")
    /\ UNCHANGED <<pc, nsync, info, master, up, aborted>>

SendReply(j) ==
    /\ j.type = "REQUEST" /\ j.pc = "send"
    /\ SendToPeer(j, {}, {PositiveReply(j.at, j.from)})
    /\ UNCHANGED <<pc, nsync, peerVars, master, up>>

\* The joiner acks, wakes join and pings.
SendAck(j) ==
    /\ j.type = "REPLY" /\ j.pc = "send"
    /\ SendToPeer(j, {[j EXCEPT !.pc = "ping"]}, {Msg("ACK", j.at, j.from)})
    /\ \E s \in Notify(nsync[j.at], "JOIN") : nsync' = [nsync EXCEPT ![j.at] = s]
    /\ UNCHANGED <<pc, peerVars, master, up>>

SendPing(j) ==
    /\ j.pc = "ping"
    /\ SendToPeer(j, {[j EXCEPT !.pc = "others"]}, {Msg("PING", j.at, j.from)})
    /\ UNCHANGED <<pc, nsync, peerVars, master, up>>

\* Mutant of JoinOthers: nobody is asked.
JoinNoOthers(j) ==
    /\ j.pc = "others"
    /\ Become(j, {})
    /\ UNCHANGED <<pc, nsync, peerVars, master, up, aborted>>

\* The loop over the list.  A listed node that is a peer already is skipped by
\* a continue that leaves count as it is: the loop is then Spinning.
JoinOthers(j) ==
    /\ j.pc = "others"
    /\ \/ /\ j.list = {}
          /\ Become(j, {})
       \/ /\ j.list # {} /\ ~Spinning(j)
          /\ LET k == Min(j.list)
             IN  Become(j, {[j EXCEPT !.list = @ \ {k}], Msg("REQUEST", j.at, k)})
    /\ UNCHANGED <<pc, nsync, peerVars, master, up, aborted>>

\* PACKET_JOIN_ACK is passed on as conn_up.
HandleAck(j) ==
    /\ j.type = "ACK"
    /\ up' = [up EXCEPT ![j.at] = @ \cup {j.from}]
    /\ Become(j, {})
    /\ UNCHANGED <<pc, nsync, peerVars, master, aborted>>

\* rm_peer, the client first; erasing one that is not there yet is undefined,
\* and taken as an abort.
RmPeer(n, k) ==
    /\ info' = [info EXCEPT ![n] = @ \ {k}]
    /\ client' = IF k \in info[n] THEN [client EXCEPT ![n] = @ \ {k}] ELSE client
    /\ aborted' = IF k \in info[n] \ client[n] THEN aborted \cup {n} ELSE aborted

HandleNack(j) ==
    /\ j.type = "NACK"
    /\ Become(j, {})
    /\ RmPeer(j.at, j.from)
    /\ UNCHANGED <<pc, nsync, master, up>>

\* handle_ping answers with a pong, which nobody looks at.
HandlePing(j) ==
    /\ j.type = "PING"
    /\ SendToPeer(j, {}, {})
    /\ UNCHANGED <<pc, nsync, peerVars, master, up>>

-----------------------------------------------------------------------------
JobStep(j) ==
    \/ HandleRequest(j) \/ HandleReply(j) \/ SendNack(j)
    \/ AddInfo(j) \/ AddClient(j) \/ SendReply(j) \/ SendAck(j) \/ SendPing(j)
    \/ JoinOthers(j) \/ HandleAck(j) \/ HandleNack(j) \/ HandlePing(j)

SystemStep ==
    \/ \E j \in BagToSet(jobs) : j.at \notin aborted /\ JobStep(j)
    \/ \E n \in Node \ aborted : JoinWait(n) \/ JoinResume(n)

Next ==
    /\ SystemStep \/ \E n \in config.nodes : Start(n)
    /\ UNCHANGED config

Spec == Init /\ [][Next]_vars
-----------------------------------------------------------------------------
(* Properties.                                                              *)

Peers(n, m) == m \in client[n] /\ n \in client[m]

\* join returns only when node and join host can send to each other, and, if
\* the host is the master, send_msg_to_master knows it.  What is proved in
\* SDMControl takes this for granted.
JoinedMeansPeer ==
    \A n \in Node : pc[n] = "joined" /\ JoinHost[n] # n =>
        /\ Peers(n, JoinHost[n])
        /\ JoinHost[n] = Master => n \in master

\* A join that never returns has only missed its notification: when nothing
\* moves any more, node and join host are peers all the same.
HangingMeansPeer ==
    Quiet => \A n \in Node : pc[n] = "wait" => Peers(n, JoinHost[n])

\* In a star nobody sends over a client that is not there, and nobody removes
\* one.
NoMissingClient == ~config.mesh => aborted = {}

\* The master is told of a connection (reg_ds follows) only when it can send
\* to the peer.
UpMeansClient == \A n \in Node : up[n] \subseteq client[n]

\* Nodes that are started one after the other become a mesh: when nothing moves
\* any more, all that have been started are peers of each other
\* (gen_join_reply: "Add other peers new peer should connect to").
MeshComplete ==
    config.mesh /\ config.onebyone /\ Quiet =>
        \A n, m \in {k \in Node : pc[k] # "new"} : n # m => Peers(n, m)

\* join ends, or hangs, with a connection that works at both ends, and nobody is
\* told of a peer, or sends to one, whose client is not there (add_peer, rm_peer
\* and the join handlers touch two maps in several calls).
ConnectionsWork ==
    /\ TypeOK
    /\ JoinedMeansPeer
    /\ HangingMeansPeer
    /\ UpMeansClient
    /\ NoMissingClient
=============================================================================
