------------------------------- MODULE Wire --------------------------------
(***************************************************************************)
(* Control messages of one node to another (packet.cpp, sdm_client.cpp,    *)
(* sdm_server.cpp, Commer in sdm_node.cpp): every thread that has          *)
(* something to say makes a Packet of a map and sends it over the peer's   *)
(* one SDMClient; the SDMServer of the other node cuts the stream at the   *)
(* announced sizes and starts a thread for every message.                  *)
(*                                                                         *)
(* A message is its sender and its place among the sender's messages; a    *)
(* packet is a sequence of units, a size, a type, the units of the text,   *)
(* and the tail.  The text is what a text archive makes of the map: what   *)
(* stands in front of the fields, and every field as its key, the begin    *)
(* and the rest of its value.  TCP is external: what is sent arrives in    *)
(* order, and a send may take only a part.                                 *)
(***************************************************************************)
EXTENDS Naturals, Sequences

CONSTANTS
    WThread,    \* the threads that send
    WText,      \* WText[t]: the texts of the messages t sends: [lead, fields], the
                \* units in front of the fields and the number of fields
    MaxMsg,     \* MAX_MSG_SIZE, in units of the text
    BadSize     \* bound: the sizes that may be read where no size stands

ASSUME WireAssumption ==
    /\ MaxMsg \in Nat \ {0}
    /\ BadSize \subseteq Nat \ {0}
    /\ WText \in [WThread -> Seq([lead : Nat, fields : Nat])]

VARIABLES
    wlisten,    \* the acceptor listens
    wconn,      \* the client's socket: "no", "open" or "failed"
    wstream,    \* units on their way
    wsent,      \* wsent[t]: messages t has sent
    wok,        \* history: messages sent whole while no send had been partial
    wpart,      \* history: a send was partial
    wrecv,      \* init_recv: where it is, and the size it has read
    wthreads,   \* handle_recv threads, by the text they were given
    whandled,   \* maps given to the handlers
    wclosed     \* the ends that are closed

wvars == <<wlisten, wconn, wstream, wsent, wok, wpart, wrecv, wthreads, whandled, wclosed>>

WireStart ==
    /\ wconn = "no" /\ wstream = <<>> /\ wsent = [t \in WThread |-> 0]
    /\ wok = {} /\ wpart = FALSE
    /\ wrecv = [pc |-> "size", need |-> 0] /\ wthreads = {} /\ whandled = {}
    /\ wclosed = {}

WireInit == wlisten = FALSE /\ WireStart
WireIdle == wlisten = TRUE /\ WireStart

-----------------------------------------------------------------------------
(* Packet.                                                                  *)

SizeSize == 1

\* The units of a field: key, begin of the value, rest of the value.
FieldSize == 3

Unit(m, kind, i) == [msg |-> m, kind |-> kind, i |-> i]

MapText(m)      == WText[m[1]][m[2]]
FieldEnd(m, f) == MapText(m).lead + FieldSize * f
TextSize(m)    == FieldEnd(m, MapText(m).fields)

\* What of the text goes into the packet: a warning, and MAX_MSG_SIZE of it,
\* wherever that is in a field.
MsgSize(m) == IF TextSize(m) > MaxMsg THEN MaxMsg ELSE TextSize(m)

\* Packet::encode.
Encoded(m) == [i \in 1 .. TextSize(m) |-> Unit(m, "text", i)]

PacketOf(m) ==
    <<Unit(m, "size", 0), Unit(m, "type", 0)>>
        \o SubSeq(Encoded(m), 1, MsgSize(m)) \o <<Unit(m, "tail", 0)>>

\* Mutant of Announced: the number is that of the text alone.
AnnouncedText(m) == MsgSize(m)

\* The number in the size: packet_size - SIZE_SIZE.
Announced(m) == Len(PacketOf(m)) - SizeSize

\* Where the text of the message a packet begins with ends in it.
UnitsRead(b) ==
    LET T(k) == \A i \in 1 .. k : i + 1 <= Len(b) /\ b[i + 1] = Unit(b[1].msg, "text", i)
    IN  CHOOSE k \in 0 .. MaxMsg : T(k) /\ (k < MaxMsg => ~T(k + 1))

\* Packet::decode keeps the pairs it has read when the text ends too early.  A value
\* whose begin is there is one of them: the archive makes room for as many bytes as
\* the text says and does not look at how many it gets, so that the value is
\* shortened or filled with NULs.  After a key alone it throws.
FieldsIn(m, k) == IF k < MapText(m).lead THEN 0 ELSE (k - MapText(m).lead) \div FieldSize
Garbles(m, k)  == k >= MapText(m).lead /\ (k - MapText(m).lead) % FieldSize = FieldSize - 1

\* Packet's other constructor, given strlen of the text: up to the first tail.
\* A failure to decode is logged, and the map is handled all the same.
Decoded(b) == [msg |-> b[1].msg, fields |-> FieldsIn(b[1].msg, UnitsRead(b)),
               garbled |-> Garbles(b[1].msg, UnitsRead(b))]

-----------------------------------------------------------------------------
(* The sending node.                                                        *)

\* Commer::add_peer keeps the client whether it has connected or not.
AddPeer ==
    /\ wconn = "no"
    /\ wconn' = IF wlisten THEN "open" ELSE "failed"
    /\ UNCHANGED <<wlisten, wstream, wsent, wok, wpart, wrecv, wthreads, whandled, wclosed>>

\* SDMClient::send: the number of bytes socket_->send took is not looked at.
\* Without a connection it throws, and 1 is returned; with one that the other end
\* has closed it may take the bytes.
ClientSend(t) ==
    /\ wconn # "no" /\ wsent[t] < Len(WText[t])
    /\ wsent' = [wsent EXCEPT ![t] = @ + 1]
    /\ LET m == <<t, wsent[t] + 1>> IN
       IF wconn = "open" /\ wclosed = {}
       THEN \E n \in 1 .. Len(PacketOf(m)) :
                /\ wstream' = wstream \o SubSeq(PacketOf(m), 1, n)
                /\ wpart' = (wpart \/ n < Len(PacketOf(m)))
                /\ wok' = IF wpart' THEN wok ELSE wok \cup {m}
       ELSE UNCHANGED <<wstream, wpart, wok>>
    /\ UNCHANGED <<wlisten, wconn, wrecv, wthreads, whandled, wclosed>>

\* SDMClient::close; what has been sent still arrives.
ClientClose ==
    /\ wconn # "no" /\ "client" \notin wclosed
    /\ wclosed' = wclosed \cup {"client"}
    /\ UNCHANGED <<wlisten, wconn, wstream, wsent, wok, wpart, wrecv, wthreads, whandled>>

-----------------------------------------------------------------------------
(* The receiving node.                                                      *)

\* init_listen, in a thread the constructor starts.
InitListen ==
    /\ ~wlisten
    /\ wlisten' = TRUE
    /\ UNCHANGED <<wconn, wstream, wsent, wok, wpart, wrecv, wthreads, whandled, wclosed>>

\* init_recv reads a size.  Where something else has come to stand, lexical_cast
\* throws and the loop goes on, or makes some number of it.
RecvSize ==
    /\ wconn = "open" /\ wrecv.pc = "size" /\ "server" \notin wclosed
    /\ wstream # <<>>
    /\ wstream' = Tail(wstream)
    /\ IF Head(wstream).kind = "size"
       THEN wrecv' = [pc |-> "text", need |-> Announced(Head(wstream).msg)]
       ELSE wrecv' \in {wrecv} \cup [pc : {"text"}, need : BadSize]
    /\ UNCHANGED <<wlisten, wconn, wsent, wok, wpart, wthreads, whandled, wclosed>>

\* ... then so many bytes, and starts handle_recv in a thread.
RecvText ==
    /\ wrecv.pc = "text" /\ "server" \notin wclosed
    /\ Len(wstream) >= wrecv.need
    /\ wstream' = SubSeq(wstream, wrecv.need + 1, Len(wstream))
    /\ wthreads' = wthreads \cup {SubSeq(wstream, 1, wrecv.need)}
    /\ wrecv' = [wrecv EXCEPT !.pc = "size"]
    /\ UNCHANGED <<wlisten, wconn, wsent, wok, wpart, whandled, wclosed>>

\* A read that meets the end of the stream throws: within a text that is logged,
\* and the read of the next size ends the thread.
RecvEnd ==
    /\ wconn = "open" /\ wrecv.pc # "ended"
    /\ \/ "server" \in wclosed
       \/ "client" \in wclosed /\ Len(wstream) < (IF wrecv.pc = "size" THEN SizeSize ELSE wrecv.need)
    /\ wrecv' = [wrecv EXCEPT !.pc = "ended"]
    /\ wstream' = <<>>
    /\ UNCHANGED <<wlisten, wconn, wsent, wok, wpart, wthreads, whandled, wclosed>>

\* SDMNode::handle_recv: a type nobody knows is ignored.
HandleRecv(b) ==
    /\ wthreads' = wthreads \ {b}
    /\ whandled' = IF b[1].kind = "type" THEN whandled \cup {Decoded(b)} ELSE whandled
    /\ UNCHANGED <<wlisten, wconn, wstream, wsent, wok, wpart, wrecv, wclosed>>

\* SDMServer::close shuts the sockets; handlers that have begun go on.
ServerClose ==
    /\ wlisten /\ "server" \notin wclosed
    /\ wclosed' = wclosed \cup {"server"}
    /\ UNCHANGED <<wlisten, wconn, wstream, wsent, wok, wpart, wrecv, wthreads, whandled>>

-----------------------------------------------------------------------------
Handlers == \E b \in wthreads : HandleRecv(b)

WireNext ==
    \/ InitListen \/ AddPeer \/ ClientClose \/ ServerClose
    \/ RecvSize \/ RecvText \/ RecvEnd \/ Handlers
    \/ \E t \in WThread : ClientSend(t)

\* The receiving thread and the handlers run; nobody has to send, or to close.
WireFair == WF_wvars(RecvSize \/ RecvText \/ RecvEnd) /\ WF_wvars(Handlers)

WireSpec == WireInit /\ [][WireNext]_wvars /\ WireFair

-----------------------------------------------------------------------------
(* Properties.                                                              *)

\* Whatever threads share the socket of an SDMClient, what a handler of the SDMServer
\* gets is a message with all its fields as they were, if its text is not longer than
\* MAX_MSG_SIZE.  Of a longer one it gets the fields that end before the cut, and,
\* when the cut is in a value, that field with a wrong value: neither end knows.
\* Only a send that took a part of its bytes breaks the framing, for itself and for
\* those behind it.
WholeOrCut ==
    \A h \in whandled :
        /\ wpart \/ h.msg \in wok
        /\ h.msg \in wok =>
              /\ h.fields \in 0 .. MapText(h.msg).fields
              /\ \A f \in 1 .. MapText(h.msg).fields : f <= h.fields <=> FieldEnd(h.msg, f) <= MaxMsg
              /\ h.garbled <=> \E f \in 1 .. MapText(h.msg).fields : FieldEnd(h.msg, f) = MaxMsg + 1

\* A message that was sent whole, and behind whole ones, is handled by SDMServer,
\* also when the client closes right after, unless the server closes.
AllHandled ==
    \A t \in WThread : \A i \in 1 .. Len(WText[t]) :
        (<<t, i>> \in wok) ~> ((\E h \in whandled : h.msg = <<t, i>>) \/ "server" \in wclosed)
=============================================================================
