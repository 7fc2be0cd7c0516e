----------------------------- MODULE IBChannel -----------------------------
(***************************************************************************)
(* One transfer over InfiniBand (dspaces_rel/trans/ib_trans): the IBClient *)
(* a wa_put constructs and the IBServer the wa_get of the same data runs.  *)
(* The client's queue holds the RDMA_INIT header, the RDMA_DATA header,    *)
(* the chunks and the end indicator, and a thread that runs send_next      *)
(* copies one item into the client's only buffer and writes it into the    *)
(* server's only buffer.  The one thing that keeps writes apart is the     *)
(* server's MSG_READY_TO_RECV: each one starts one more send_next.         *)
(*                                                                         *)
(* RDMA and its connection manager are external: a posted write is carried *)
(* out later, from what the buffer then holds, once the peer has posted a  *)
(* receive; messages of one connection stay in order.  The server listens  *)
(* before the client connects.                                             *)
(***************************************************************************)
EXTENDS Syncer, Integers, Sequences

CONSTANT N    \* the number of chunks the data is cut into

ASSUME NAssumption == N \in Nat \ {0}

\* The items by their place in size_data_bq; chunk j is item j + 2.
InitItem == 1
HdrItem  == 2
EofItem  == N + 3
Item     == 1 .. N + 3
NoItem   == 0

\* send_next threads, numbered as they are created: one, and one for every
\* MSG_READY_TO_RECV, so that more than N + 3 would outnumber the items.
Sender == 1 .. N + 3

VARIABLES
    main,       \* the thread in wa_put: IBClient's constructor, send_data
    csync,      \* IBClient::syncer
    pushed,     \* size_data_bq: items pushed, and
    popped,     \*   popped, so far
    spawned,    \* send_next threads created
    sp,         \* sp[i]: where the i-th is
    held,       \* held[i]: the item it has popped
    cbuf,       \* the client's buffer_
    wrq,        \* the sizes of the writes posted and not carried out
    inited,     \* MSG_MR has been handled
    conn,       \* the connection, as the event loops see it
    sbuf,       \* the server's buffer_
    srecvs,     \* receives the server has posted
    compq,      \* the server's completions of writes
    recv_state, \* HEADER_RECV or DATA_RECV
    recved,     \* what has been copied to data_to_recv_
    delivered,  \* what data_recv_cb was called with
    sendc,      \* the server's completions of its own messages
    spoll,      \* the server's poll_cq loop runs
    s2c,        \* messages from the server to the client
    crecvs,     \* receives the client has posted
    sret        \* init_server: in its event loop, past it, returned

mainVars   == <<main, csync>>
queueVars  == <<pushed, popped>>
senderVars == <<spawned, sp, held>>
dmaVars    == <<cbuf, wrq, sbuf, srecvs, compq>>
wireVars   == <<dmaVars, s2c, crecvs>>
serverVars == <<recv_state, recved, delivered, sendc, spoll>>
connVars   == <<inited, conn, sret>>
vars       == <<mainVars, queueVars, senderVars, wireVars, serverVars, connVars>>

TypeOK ==
    /\ main \in {"start", "initwait", "push", "pushed", "sendwait", "returned", "destroyed"}
    /\ csync \in SyncerType({"INIT", "SEND"}, {"main"})
    /\ pushed \in 0 .. N + 3
    /\ popped \in 0 .. N + 3
    /\ spawned \in 0 .. N + 3
    /\ sp \in [Sender -> {"none", "check", "park", "wait", "pop", "copy", "post", "end"}]
    /\ held \in [Sender -> Item \cup {NoItem}]
    /\ cbuf \in Item \cup {NoItem}
    /\ wrq \in Seq(Item)
    /\ inited \in BOOLEAN
    /\ conn \in {"none", "resolved", "requested", "open", "closing", "closed", "ended"}
    /\ sbuf \in Item \cup {NoItem}
    /\ srecvs \in Nat
    /\ compq \in Seq(Item)
    /\ recv_state \in {"HEADER_RECV", "DATA_RECV"}
    /\ recved \in Seq(Item)
    /\ delivered \in Seq(Item)
    /\ sendc \in Nat
    /\ spoll \in BOOLEAN
    /\ s2c \in Seq({"MSG_MR", "MSG_READY_TO_RECV", "MSG_DONE"})
    /\ crecvs \in 0 .. 1
    /\ sret \in {"loop", "left", "returned"}

Init ==
    /\ main = "start"
    /\ csync = EmptySyncer
    /\ pushed = 0
    /\ popped = 0
    /\ spawned = 0
    /\ sp = [i \in Sender |-> "none"]
    /\ held = [i \in Sender |-> NoItem]
    /\ cbuf = NoItem
    /\ wrq = <<>>
    /\ inited = FALSE
    /\ conn = "none"
    /\ sbuf = NoItem
    /\ srecvs = 0
    /\ compq = <<>>
    /\ recv_state = "HEADER_RECV"
    /\ recved = <<>>
    /\ delivered = <<>>
    /\ sendc = 0
    /\ spoll = FALSE
    /\ s2c = <<>>
    /\ crecvs = 0
    /\ sret = "loop"

-----------------------------------------------------------------------------
(* The client's threads.                                                    *)

\* pthread_create of call_send_next_w_wrap.
Spawn ==
    /\ spawned < N + 3
    /\ spawned' = spawned + 1
    /\ sp' = [sp EXCEPT ![spawned + 1] = "check"]
    /\ UNCHANGED held

\* The constructor has started init in a thread; it waits for MSG_MR.
MainWaitInit ==
    /\ main = "start"
    /\ csync' = AddWait(csync, "INIT", "main")
    /\ main' = "initwait"
    /\ UNCHANGED <<queueVars, senderVars, wireVars, serverVars, connVars>>

\* The first send_next is started before there is anything to send.
MainInited ==
    /\ main = "initwait"
    /\ "main" \in csync.woken
    /\ csync' = DelPoint(csync, "INIT", "main")
    /\ Spawn
    /\ main' = "push"
    /\ UNCHANGED <<queueVars, wireVars, serverVars, connVars>>

\* BQueue::push, for the items of send_init and send_data in turn, and its
\* notify_one.  A notification that finds nobody waiting is lost.
Push ==
    /\ main = "push"
    /\ pushed' = pushed + 1
    /\ main' = IF pushed + 1 = EofItem THEN "pushed" ELSE "push"
    /\ \/ \E i \in Sender : sp[i] = "wait" /\ sp' = [sp EXCEPT ![i] = "check"]
       \/ (\A i \in Sender : sp[i] # "wait") /\ UNCHANGED sp
    /\ UNCHANGED <<csync, popped, spawned, held, wireVars, serverVars, connVars>>

MainWaitSend ==
    /\ main = "pushed"
    /\ csync' = AddWait(csync, "SEND", "main")
    /\ main' = "sendwait"
    /\ UNCHANGED <<queueVars, senderVars, wireVars, serverVars, connVars>>

\* send_data returns.
MainReturn ==
    /\ main = "sendwait"
    /\ "main" \in csync.woken
    /\ csync' = DelPoint(csync, "SEND", "main")
    /\ main' = "returned"
    /\ UNCHANGED <<queueVars, senderVars, wireVars, serverVars, connVars>>

\* init_client's IBClient goes out of scope: its threads, those in send_next
\* and the one in init, are joined; then wa_put frees the data.
ClientDestroyed ==
    /\ main = "returned"
    /\ \A i \in Sender : sp[i] \in {"none", "end"}
    /\ conn = "ended"
    /\ main' = "destroyed"
    /\ UNCHANGED <<csync, queueVars, senderVars, wireVars, serverVars, connVars>>

\* BQueue::pop: the test for an empty queue, the wait and the pop are steps of
\* their own, and the test is made without the lock.
SenderCheck(i) ==
    /\ sp[i] = "check"
    /\ sp' = [sp EXCEPT ![i] = IF popped < pushed THEN "pop" ELSE "park"]
    /\ UNCHANGED <<mainVars, queueVars, spawned, held, wireVars, serverVars, connVars>>

SenderWait(i) ==
    /\ sp[i] = "park"
    /\ sp' = [sp EXCEPT ![i] = "wait"]
    /\ UNCHANGED <<mainVars, queueVars, spawned, held, wireVars, serverVars, connVars>>

\* The end indicator is not sent.
SenderPop(i) ==
    /\ sp[i] = "pop"
    /\ popped' = popped + 1
    /\ held' = [held EXCEPT ![i] = popped + 1]
    /\ sp' = [sp EXCEPT ![i] = IF popped + 1 = EofItem THEN "end" ELSE "copy"]
    /\ UNCHANGED <<mainVars, pushed, spawned, wireVars, serverVars, connVars>>

\* send_chunk: memcpy from the caller's data, then write_remote.
SenderCopy(i) ==
    /\ sp[i] = "copy"
    /\ cbuf' = held[i]
    /\ sp' = [sp EXCEPT ![i] = "post"]
    /\ UNCHANGED <<mainVars, queueVars, spawned, held, wrq, sbuf, srecvs, compq, s2c, crecvs, serverVars, connVars>>

SenderPost(i) ==
    /\ sp[i] = "post"
    /\ wrq' = Append(wrq, held[i])
    /\ sp' = [sp EXCEPT ![i] = "end"]
    /\ UNCHANGED <<mainVars, queueVars, spawned, held, cbuf, sbuf, srecvs, compq, s2c, crecvs, serverVars, connVars>>

\* The message at the head arrives in the client's msg_, which takes a posted
\* receive: on_pre_conn's, and one posted again after every message but
\* MSG_DONE.  Without one the network tries again (rnr_retry_count).
Take(m) == crecvs > 0 /\ s2c # <<>> /\ Head(s2c) = m /\ s2c' = Tail(s2c)

\* Mutant of ClientMR: the handler starts a send_next as well.
ClientMRSends ==
    /\ Take("MSG_MR")
    /\ crecvs' = crecvs
    /\ inited' = TRUE
    /\ Spawn
    /\ csync' \in Notify(csync, "INIT")
    /\ UNCHANGED <<main, queueVars, dmaVars, serverVars, conn, sret>>

\* IBClient::on_completion, by the client's poll_cq thread.
ClientMR ==
    /\ Take("MSG_MR")
    /\ crecvs' = crecvs
    /\ inited' = TRUE
    /\ csync' \in Notify(csync, "INIT")
    /\ UNCHANGED <<main, queueVars, senderVars, dmaVars, serverVars, conn, sret>>

ClientReady ==
    /\ Take("MSG_READY_TO_RECV")
    /\ crecvs' = crecvs
    /\ Spawn
    /\ UNCHANGED <<mainVars, queueVars, dmaVars, serverVars, connVars>>

ClientDone ==
    /\ Take("MSG_DONE")
    /\ crecvs' = crecvs - 1
    /\ conn' = "closing"
    /\ UNCHANGED <<mainVars, queueVars, senderVars, dmaVars, serverVars, inited, sret>>

\* The client's event loop ends with the connection, after on_disconn.
ClientDisconn ==
    /\ conn = "closing"
    /\ conn' = "closed"
    /\ UNCHANGED <<mainVars, queueVars, senderVars, wireVars, serverVars, inited, sret>>

\* init wakes send_data.
ClientClosed ==
    /\ conn = "closed"
    /\ conn' = "ended"
    /\ csync' \in Notify(csync, "SEND")
    /\ UNCHANGED <<main, queueVars, senderVars, wireVars, serverVars, inited, sret>>

-----------------------------------------------------------------------------
(* RDMA: a write with immediate data takes what is in the client's buffer   *)
(* when it is carried out, and uses up a receive of the server.             *)
Dma ==
    /\ wrq # <<>> /\ srecvs > 0
    /\ wrq' = Tail(wrq)
    /\ sbuf' = cbuf
    /\ compq' = Append(compq, Head(wrq))
    /\ srecvs' = srecvs - 1
    /\ UNCHANGED <<mainVars, queueVars, senderVars, cbuf, s2c, crecvs, serverVars, connVars>>

-----------------------------------------------------------------------------
(* The server.                                                              *)

SendMessage(m) == s2c' = Append(s2c, m) /\ sendc' = sendc + 1

PostReceive == srecvs' = srecvs + 1

(* The events of the connection, as both event loops handle them: the      *)
(* client's address is resolved, the server is asked, both are connected.  *)

\* build_context starts the polling thread of the end it is called for; the
\* client's runs to the end of the transfer.
BuildContext == spoll' = TRUE

\* The client's on_pre_conn registers buffer_ and msg_ and posts a receive.
ClientPreConn == crecvs' = crecvs + 1

AddrResolved ==
    /\ conn = "none"
    /\ conn' = "resolved"
    /\ ClientPreConn
    /\ UNCHANGED <<mainVars, queueVars, senderVars, dmaVars, s2c, serverVars, inited, sret>>

ConnectRequest ==
    /\ conn = "resolved"
    /\ conn' = "requested"
    /\ BuildContext
    /\ PostReceive
    /\ UNCHANGED <<mainVars, queueVars, senderVars, cbuf, wrq, sbuf, compq, s2c, crecvs,
                   recv_state, recved, delivered, sendc, inited, sret>>

\* on_conn sends the address of the buffer.
Established ==
    /\ conn = "requested"
    /\ conn' = "open"
    /\ SendMessage("MSG_MR")
    /\ UNCHANGED <<mainVars, queueVars, senderVars, dmaVars, crecvs, recv_state, recved,
                   delivered, spoll, inited, sret>>

\* Mutant of ServerHeader: the first header is not answered.
ServerHeaderSilent ==
    /\ spoll /\ compq # <<>> /\ recv_state = "HEADER_RECV"
    /\ compq' = Tail(compq)
    /\ recv_state' = IF sbuf = HdrItem THEN "DATA_RECV" ELSE "HEADER_RECV"
    /\ PostReceive
    /\ IF sbuf = HdrItem THEN SendMessage("MSG_READY_TO_RECV") ELSE UNCHANGED <<s2c, sendc>>
    /\ UNCHANGED <<mainVars, queueVars, senderVars, cbuf, wrq, sbuf, crecvs, recved, delivered, spoll, connVars>>

\* on_completion of a write, in HEADER_RECV: proc_header, then READY_TO_RECV.
ServerHeader ==
    /\ spoll /\ compq # <<>> /\ recv_state = "HEADER_RECV"
    /\ compq' = Tail(compq)
    /\ recv_state' = IF sbuf = HdrItem THEN "DATA_RECV" ELSE "HEADER_RECV"
    /\ PostReceive
    /\ SendMessage("MSG_READY_TO_RECV")
    /\ UNCHANGED <<mainVars, queueVars, senderVars, cbuf, wrq, sbuf, crecvs, recved, delivered, spoll, connVars>>

\* In DATA_RECV: a chunk is copied out.
ServerChunk ==
    /\ spoll /\ compq # <<>> /\ recv_state = "DATA_RECV"
    /\ Len(recved) + 1 < N
    /\ compq' = Tail(compq)
    /\ recved' = Append(recved, sbuf)
    /\ PostReceive
    /\ SendMessage("MSG_READY_TO_RECV")
    /\ UNCHANGED <<mainVars, queueVars, senderVars, cbuf, wrq, sbuf, crecvs, recv_state, delivered, spoll, connVars>>

\* Mutant of ServerLast: no callback.
ServerLastNoCallback ==
    /\ spoll /\ compq # <<>> /\ recv_state = "DATA_RECV"
    /\ Len(recved) + 1 = N
    /\ compq' = Tail(compq)
    /\ recved' = Append(recved, sbuf)
    /\ SendMessage("MSG_DONE")
    /\ spoll' = FALSE
    /\ UNCHANGED <<mainVars, queueVars, senderVars, cbuf, wrq, sbuf, srecvs, crecvs, recv_state, delivered, connVars>>

\* The last one is followed by the callback, MSG_DONE and the end of the
\* polling loop.
ServerLast ==
    /\ spoll /\ compq # <<>> /\ recv_state = "DATA_RECV"
    /\ Len(recved) + 1 = N
    /\ compq' = Tail(compq)
    /\ recved' = Append(recved, sbuf)
    /\ delivered' = Append(recved, sbuf)
    /\ SendMessage("MSG_DONE")
    /\ spoll' = FALSE
    /\ UNCHANGED <<mainVars, queueVars, senderVars, cbuf, wrq, sbuf, srecvs, crecvs, recv_state, connVars>>

\* on_completion for one of the server's own messages reaches the end of the
\* function without a return: the value is any, and one that is not 0 ends
\* the polling loop.
ServerSent ==
    /\ spoll /\ sendc > 0
    /\ sendc' = sendc - 1
    /\ spoll' \in BOOLEAN
    /\ UNCHANGED <<mainVars, queueVars, senderVars, wireVars, recv_state, recved, delivered, connVars>>

\* The server's event loop ends with the connection; on_disconn frees the
\* buffers.
ServerDisconn ==
    /\ conn \in {"closing", "closed", "ended"} /\ sret = "loop"
    /\ sret' = "left"
    /\ UNCHANGED <<mainVars, queueVars, senderVars, wireVars, serverVars, inited, conn>>

\* init_server returns when the polling thread has been joined.
ServerClosed ==
    /\ sret = "left" /\ ~spoll
    /\ sret' = "returned"
    /\ UNCHANGED <<mainVars, queueVars, senderVars, wireVars, serverVars, inited, conn>>

-----------------------------------------------------------------------------
SenderStep(i) ==
    SenderCheck(i) \/ SenderWait(i) \/ SenderPop(i) \/ SenderCopy(i) \/ SenderPost(i)

Next ==
    \/ MainWaitInit \/ MainInited \/ Push \/ MainWaitSend \/ MainReturn \/ ClientDestroyed
    \/ ClientMR \/ ClientReady \/ ClientDone \/ ClientDisconn \/ ClientClosed
    \/ Dma
    \/ AddrResolved \/ ConnectRequest \/ Established
    \/ ServerHeader \/ ServerChunk \/ ServerLast \/ ServerSent \/ ServerDisconn \/ ServerClosed
    \/ \E i \in Sender : SenderStep(i)

Spec == Init /\ [][Next]_vars
-----------------------------------------------------------------------------
(* Properties.                                                              *)

Active == {i \in Sender : sp[i] \notin {"none", "end"}}

\* No buffer is overwritten while it is in use: one send_next at a time is
\* between its start and its write; none is while a write is posted, or the
\* server has one to look at, or a READY_TO_RECV is on its way; and pop never
\* finds the queue empty after its unlocked test.
NoOverwrite ==
    /\ \A i, j \in Active : i = j
    /\ Len(wrq) + Len(compq) + Len(s2c) <= 1
    /\ Active # {} => wrq = <<>> /\ compq = <<>> /\ s2c = <<>>
    /\ \A i \in Sender : sp[i] = "pop" => popped < pushed

\* The server has received a prefix of the chunks, in their order, and
\* data_recv_cb gets all of them or is not called.
InOrder ==
    /\ \A k \in 1 .. Len(recved) : recved[k] = k + 2
    /\ delivered # <<>> => Len(delivered) = N /\ delivered = recved

\* send_data and init_server return only when data_recv_cb has the data, and
\* when send_data returns, no thread will read the caller's data any more
\* (wa_put frees it); the server's on_disconn frees its buffers only when the
\* polling loop, which reads them, is over.
ReturnMeansDelivered ==
    /\ main \in {"returned", "destroyed"} \/ sret = "returned" => delivered # <<>>
    /\ sret # "loop" => ~spoll
    /\ main = "returned" => Active = {} /\ popped = N + 2

\* The transfer stops short only in four ways: a notification of the syncer
\* or of the queue came before the thread waited for it (twice the syncer's:
\* for MSG_MR and for the end), or the server's polling loop ended on the
\* value on_completion did not return.
HangsOnlyIfLost ==
    ~ENABLED Next =>
        \/ main = "destroyed" /\ sret = "returned"
        \/ main = "initwait" /\ inited
        \/ main = "sendwait" /\ conn = "ended"
        \/ \E i \in Sender : sp[i] = "wait" /\ popped < pushed
        \/ ~spoll /\ conn # "none" /\ delivered = <<>>

\* All chunks arrive, in order, before either side returns, and nothing is freed
\* that a thread still reads.
Delivers == TypeOK /\ InOrder /\ ReturnMeansDelivered
=============================================================================
