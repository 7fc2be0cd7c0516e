----------------------------- MODULE TcpStream -----------------------------
(***************************************************************************)
(* One transfer over TCP, byte by byte (Trans::init_put, TCPTrans::send,   *)
(* TCPClient and TCPServer::init_recv).  The client sends the data id and  *)
(* the size as two blocks of fixed length and then the data, in as many    *)
(* sends as the kernel wants; the server reads the blocks, then chunks of  *)
(* its own size, starts a thread for every chunk and notifies at the end.  *)
(* What the threads do, in any order and also after the notify, is left to *)
(* RIManager, which has several transfers, whole chunks and the syncer.    *)
(*                                                                         *)
(* TCP is external: bytes arrive in order, and the connection may break,   *)
(* which loses what is on its way.  An int has IntBits bits.               *)
(***************************************************************************)
EXTENDS Integers, Sequences

CONSTANTS
    IdMax,          \* TCP_MAX_DATA_ID_LENGTH = TCP_MAX_DATA_SIZE_LENGTH
    SendChunkSize,  \* TCP_CHUNK_SIZE of tcp_client.h
    RecvChunkSize,  \* TCP_CHUNK_SIZE of tcp_server.h
    IntBits,
    Transfer        \* what is put: [idlen, type, length]

ASSUME TcpAssumption ==
    /\ IdMax \in Nat \ {0, 1} /\ SendChunkSize \in Nat \ {0} /\ RecvChunkSize \in Nat \ {0}
    /\ IntBits \in Nat \ {0}
    /\ \A x \in Transfer : x.idlen \in Nat \ {0} /\ x.length \in Nat

VARIABLES
    transfer,   \* the one of Transfer that is put
    tclient,    \* where TCPClient is, and how much of the data it has left
    tserver,    \* where init_recv is, the id and the size it has read, what is left
    tconn,      \* "no", "refused", "up", "ended" (the client has closed), "closed"
                \* (the server has) or "broken"
    tstream,    \* bytes on their way
    given,      \* the bytes of the chunks a handle_recv thread was started for, in
                \* the order of the threads' starts
    listening,  \* the acceptor listens
    stopped     \* TCPServer::close has been called

tvars == <<transfer, tclient, tserver, tconn, tstream, given, listening, stopped>>

TcpStart ==
    /\ transfer \in Transfer
    /\ tserver = [pc |-> "accept", id |-> <<>>, size |-> 0, left |-> 0]
    /\ tconn = "no" /\ tstream = <<>> /\ given = <<>> /\ stopped = FALSE

TcpInit == TcpStart /\ listening = FALSE /\ tclient = [pc |-> "new", left |-> 0]

\* Nobody puts: neither thread has a step to take.
TcpIdle ==
    /\ TcpStart /\ listening = TRUE /\ tclient = [pc |-> "refused", left |-> 0]
    /\ transfer = CHOOSE x \in Transfer : TRUE

-----------------------------------------------------------------------------
(* Bytes, and the blocks in front of the data.                              *)

Byte(of, i) == [of |-> of, i |-> i]
Nul         == Byte("nul", 0)
TcpBytes(of, n) == [i \in 1 .. n |-> Byte(of, i)]

\* A text and, where there is room, its end; the rest of the block is what malloc
\* left there.
Block(text) == [i \in 1 .. IdMax |-> IF i <= Len(text) THEN text[i]
                                     ELSE IF i = Len(text) + 1 THEN Nul ELSE Byte("junk", i)]

\* A block as a C string.  Without an end it goes on with what lies behind it.
TextOf(b) ==
    LET ends == {i \in 1 .. Len(b) : b[i] = Nul}
    IN  IF ends = {} THEN Append(b, Byte("junk", 0))
        ELSE SubSeq(b, 1, (CHOOSE i \in ends : \A j \in ends : i <= j) - 1)

ElementSize(type) == CASE type = "char" -> 1 [] type \in {"int", "float"} -> 4
                       [] type = "double" -> 8 [] OTHER -> 0

\* An int takes the low bits.
Wrap(n) == LET m == n % (2 ^ IntBits) IN IF m >= 2 ^ (IntBits - 1) THEN m - 2 ^ IntBits ELSE m

\* data_size of Trans::init_put.
DataSize == Wrap(transfer.length * ElementSize(transfer.type))

\* The digits of a size: one byte that stands for all of them.
SizeText(size) == <<Byte("digits", size)>>

IsSize(text) == Len(text) = 1 /\ text[1].of = "digits"

-----------------------------------------------------------------------------
(* The client.                                                              *)

Client(pc) == tclient' = [tclient EXCEPT !.pc = pc]

\* Trans::init_put of a type it does not know.
PutUnknown ==
    /\ tclient.pc = "new" /\ ElementSize(transfer.type) = 0
    /\ Client("refused")
    /\ UNCHANGED <<transfer, tserver, tconn, tstream, given, listening, stopped>>

\* connect: it may fail anyhow, and the socket is then closed.
ConnectOutcome == {"refused"} \cup IF listening THEN {"up"} ELSE {}

\* TCPClient's constructor; a failure is logged.
TcpConnect ==
    /\ tclient.pc = "new" /\ ElementSize(transfer.type) # 0
    /\ tclient' = [pc |-> "id", left |-> DataSize]
    /\ tconn' \in ConnectOutcome
    /\ UNCHANGED <<transfer, tserver, tstream, given, listening, stopped>>

\* boost::asio::write of all of b.  It throws without a connection, but for a
\* while the kernel may take bytes that nobody will read.
Write(b, next) ==
    \/ tconn = "up" /\ tstream' = tstream \o b /\ Client(next)
    \/ tconn \in {"closed", "broken"} /\ UNCHANGED tstream /\ Client(next)
    \/ tconn \in {"refused", "closed", "broken"} /\ UNCHANGED tstream /\ Client("terminated")

\* send_control_data; send does not look at what it returns, and an exception of
\* write is not caught.
SendControl(pc, text, next) ==
    /\ tclient.pc = pc
    /\ IF Len(text) > IdMax THEN Client(next) /\ UNCHANGED tstream
                            ELSE Write(Block(text), next)
    /\ UNCHANGED <<transfer, tserver, tconn, given, listening, stopped>>

\* Mutant of SendChunk: data_ is advanced by the size of the chunk.
SendChunkWhole ==
    LET chunk == IF tclient.left > SendChunkSize THEN SendChunkSize ELSE tclient.left
        from  == DataSize - tclient.left
    IN  /\ tclient.pc = "data" /\ tclient.left > 0
        /\ \/ \E n \in 1 .. chunk :
                /\ tclient' = [tclient EXCEPT !.left = @ - chunk]
                /\ tstream' = IF tconn = "up" THEN tstream \o SubSeq(TcpBytes("data", DataSize), from + 1, from + n)
                                            ELSE tstream
           \/ tconn \in {"closed", "broken"} /\ Client("failed") /\ UNCHANGED tstream
        /\ UNCHANGED <<transfer, tserver, tconn, given, listening, stopped>>

\* send_chunk takes part of a chunk, or throws, closes and returns -1.
SendChunk ==
    LET chunk == IF tclient.left > SendChunkSize THEN SendChunkSize ELSE tclient.left
        from  == DataSize - tclient.left
    IN  /\ tclient.pc = "data" /\ tclient.left > 0
        /\ \/ \E n \in 1 .. chunk :
                /\ tclient' = [tclient EXCEPT !.left = @ - n]
                /\ tstream' = IF tconn = "up" THEN tstream \o SubSeq(TcpBytes("data", DataSize), from + 1, from + n)
                                            ELSE tstream
           \/ tconn \in {"closed", "broken"} /\ Client("failed") /\ UNCHANGED tstream
        /\ UNCHANGED <<transfer, tserver, tconn, given, listening, stopped>>

\* TCPClient::close: what was sent still arrives.
TcpClientClose == tconn' = IF tconn = "up" THEN "ended" ELSE tconn

\* The end of TCPTrans::send: the last reference goes, and the destructor closes
\* the socket.  After a failed send the client stays in active_tcp_client_v.
SendReturns ==
    /\ tclient.pc = "data" /\ tclient.left <= 0
    /\ Client("sent")
    /\ TcpClientClose
    /\ UNCHANGED <<transfer, tserver, tstream, given, listening, stopped>>

\* init_put returns 0 whatever send has returned.
PutReturns ==
    /\ tclient.pc \in {"sent", "failed"}
    /\ Client("returned")
    /\ UNCHANGED <<transfer, tserver, tconn, tstream, given, listening, stopped>>

-----------------------------------------------------------------------------
(* The server.                                                              *)

Server(pc) == tserver' = [tserver EXCEPT !.pc = pc]

\* When init_recv or its process ends, the socket is closed.
ClosedWithServer == tconn' = IF tserver'.pc \in {"notified", "silent", "terminated"} /\ tconn = "up"
                  THEN "closed" ELSE tconn

Listen ==
    /\ ~listening
    /\ listening' = TRUE
    /\ UNCHANGED <<transfer, tclient, tserver, tconn, tstream, given, stopped>>

Accept ==
    /\ listening /\ tserver.pc = "accept"
    /\ tconn \in {"up", "ended", "broken"}
    /\ Server("id")
    /\ UNCHANGED <<transfer, tclient, tconn, tstream, given, listening, stopped>>

\* A blocking read of n bytes: they are there, or they will never be.
CanRead(n)  == Len(tstream) >= n
NeverMore(n) == Len(tstream) < n /\ tconn \in {"ended", "broken"}
Rest(n)     == SubSeq(tstream, n + 1, Len(tstream))

\* The reads of the blocks are outside the try: an exception ends the process.
ReadId ==
    /\ tserver.pc = "id" /\ ~stopped
    /\ \/ /\ CanRead(IdMax)
          /\ tserver' = [tserver EXCEPT !.pc = "size", !.id = TextOf(SubSeq(tstream, 1, IdMax))]
          /\ tstream' = Rest(IdMax)
       \/ /\ NeverMore(IdMax)
          /\ Server("terminated")
          /\ UNCHANGED tstream
    /\ ClosedWithServer
    /\ UNCHANGED <<transfer, tclient, given, listening, stopped>>

\* lexical_cast throws too, unless what is not a size looks like one.
ReadSize ==
    /\ tserver.pc = "size"
    /\ \/ /\ CanRead(IdMax)
          /\ LET text  == TextOf(SubSeq(tstream, 1, IdMax))
                 sizes == IF IsSize(text) THEN {text[1].i} ELSE -1 .. IdMax
             IN  \/ \E n \in sizes : tserver' = [tserver EXCEPT !.pc = "data", !.size = n, !.left = n]
                 \/ ~IsSize(text) /\ Server("terminated")
          /\ tstream' = Rest(IdMax)
       \/ /\ NeverMore(IdMax)
          /\ Server("terminated")
          /\ UNCHANGED tstream
    /\ ClosedWithServer
    /\ UNCHANGED <<transfer, tclient, given, listening, stopped>>

\* What is left is compared as an unsigned number: below zero is large.
ToRecv == IF tserver.left >= 0 /\ tserver.left < RecvChunkSize THEN tserver.left ELSE RecvChunkSize

\* Mutant of ReadChunk: the loop goes on with nothing left.
ReadChunkOn ==
    /\ tserver.pc = "data" /\ ~stopped
    /\ \/ /\ CanRead(ToRecv)
          /\ given' = given \o SubSeq(tstream, 1, ToRecv)
          /\ tstream' = Rest(ToRecv)
          /\ tserver' = [tserver EXCEPT !.left = @ - ToRecv]
       \/ /\ NeverMore(ToRecv)
          /\ Server("silent")
          /\ UNCHANGED <<given, tstream>>
    /\ ClosedWithServer
    /\ UNCHANGED <<transfer, tclient, listening, stopped>>

\* One chunk, and a thread to run handle_recv on it; after the last, notify, which
\* waits for none of these threads.  The end of the stream is caught, and init_recv
\* returns without a word.
ReadChunk ==
    /\ tserver.pc = "data" /\ ~stopped
    /\ \/ /\ CanRead(ToRecv)
          /\ given' = given \o SubSeq(tstream, 1, ToRecv)
          /\ tstream' = Rest(ToRecv)
          /\ tserver' = [tserver EXCEPT !.left = @ - ToRecv, !.pc = IF tserver.left = ToRecv THEN "notified" ELSE "data"]
       \/ /\ NeverMore(ToRecv)
          /\ Server("silent")
          /\ UNCHANGED <<given, tstream>>
    /\ ClosedWithServer
    /\ UNCHANGED <<transfer, tclient, listening, stopped>>

\* TCPServer::close: socket_v is empty, so that a read goes on; the loops of
\* init_recv look at closed before the next one.
Stop == ~stopped /\ stopped' = TRUE

\* TCPTrans::close: its loop over the clients ends where it begins.
Close ==
    /\ listening /\ Stop
    /\ UNCHANGED <<transfer, tclient, tserver, tconn, tstream, given, listening>>

SeeStopped ==
    /\ stopped /\ tserver.pc \in {"id", "data"}
    /\ Server("silent")
    /\ ClosedWithServer
    /\ UNCHANGED <<transfer, tclient, tstream, given, listening, stopped>>

\* External: the connection is lost, and some of the bytes with it.
Break ==
    /\ tconn \in {"up", "ended"} /\ tserver.pc \notin {"notified", "silent", "terminated"}
    /\ tconn' = "broken"
    /\ \E n \in 0 .. Len(tstream) : tstream' = SubSeq(tstream, 1, n)
    /\ UNCHANGED <<transfer, tclient, tserver, given, listening, stopped>>

-----------------------------------------------------------------------------
SendId   == SendControl("id", TcpBytes("id", transfer.idlen), "size")
SendSize == SendControl("size", SizeText(DataSize), "data")

ClientStep == PutUnknown \/ TcpConnect \/ SendId \/ SendSize \/ SendChunk \/ SendReturns \/ PutReturns
ServerStep == Listen \/ Accept \/ ReadId \/ ReadSize \/ ReadChunk \/ SeeStopped

TcpNext == ClientStep \/ ServerStep \/ Close \/ Break

\* The two threads run; nothing has to break or to be closed.
TcpFair == WF_tvars(ClientStep) /\ WF_tvars(ServerStep)

TcpSpec == TcpInit /\ [][TcpNext]_tvars /\ TcpFair

-----------------------------------------------------------------------------
(* Properties.                                                              *)

\* The id leaves room for its end, and the size is an int.
Fits == transfer.idlen < IdMax /\ DataSize = transfer.length * ElementSize(transfer.type)

\* Whoever waits for a data id is woken when all of that data, in order and
\* nothing else, has been read and handed to handle_recv threads, however the bytes
\* were cut into sends and reads, and also when the connection breaks on the way.
\* Whether the threads have called the callback by then is not said.
TcpExact ==
    tserver.pc = "notified" /\ Fits =>
        /\ tserver.id = TcpBytes("id", transfer.idlen)
        /\ given = TcpBytes("data", transfer.length * ElementSize(transfer.type))

\* The server ends without waking anyone, or takes its process down, only for a
\* broken connection, an id or a size that do not fit, or close.
TcpSilentOnlyIf ==
    tserver.pc \in {"silent", "terminated"} => tconn = "broken" \/ stopped \/ ~Fits

\* A put that has returned 0 is followed by the wake-up at the destination,
\* unless the connection broke, the id or the size did not fit, or the server was
\* closed: in these cases it has returned 0 as well.
TcpPutArrives ==
    tclient.pc = "returned" ~> (tserver.pc = "notified" \/ tconn = "broken" \/ stopped \/ ~Fits)

\* What was put over TCP has been read, all of it and in order, and is with the
\* threads that call the callback when its waiter is woken (the calls may still be
\* to come); where the server ends otherwise, the connection broke, something did not
\* fit or the server was closed (TCPClient::send_data, TCPServer::init_recv).
TcpSafe == TcpExact /\ TcpSilentOnlyIf
=============================================================================
