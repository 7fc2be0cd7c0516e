--------------------------- MODULE ChannelsProofs ---------------------------
(***************************************************************************)
(* Proofs about what carries data and messages between sites, for any      *)
(* number of chunks, any file, transfer and messages.                      *)
(*                                                                         *)
(* IBChannel: the protocol has one token: a send_next thread, the write it *)
(* posts, the server's completion of that write, the READY_TO_RECV that    *)
(* answers it and starts the next thread.  IInv says where the token is,   *)
(* and that the number of threads started is the number of the item.       *)
(*                                                                         *)
(* GridFTP: GftpInv says which piece of the file is registered, and that   *)
(* all before it was carried out.                                          *)
(*                                                                         *)
(* TcpStream: TcpInv says that what is on its way is what was written and  *)
(* not yet read of the two blocks and the data (TcpOnWay).                 *)
(*                                                                         *)
(* Wire: WireInv says that behind every size on its way is the rest of its *)
(* message and then the next size (Framed), up to the first partial send.  *)
(***************************************************************************)
EXTENDS IBChannel, GridFTP, TcpStream, Wire, SequenceTheorems, TLAPS

-----------------------------------------------------------------------------
(* The inductive invariant.                                                 *)

\* What the server has made of the first c writes.
Handled(c) ==
    /\ recv_state = IF c >= 2 THEN "DATA_RECV" ELSE "HEADER_RECV"
    /\ Len(recved) = IF c >= 2 THEN c - 2 ELSE 0
    /\ \A k \in 1 .. Len(recved) : recved[k] = k + 2
    /\ delivered = IF c = N + 2 THEN recved ELSE <<>>

\* The places of a send_next thread before and after its pop.
ToPop  == {"check", "park", "wait", "pop"}
ToSend == {"copy", "post"}

\* All threads but the last have ended, and each has popped one item.
Senders ==
    /\ spawned <= N + 2
    /\ \A i \in Sender : /\ i < spawned => sp[i] = "end"
                         /\ i > spawned => sp[i] = "none"
                         /\ i = spawned => sp[i] # "none"

\* No item is being sent: the server's buffer address has not been used yet.
Fresh ==
    /\ spawned = 0 /\ popped = 0 /\ wrq = <<>> /\ compq = <<>> /\ Handled(0)
    /\ main \in {"start", "initwait"}
    /\ \/ conn \in {"none", "resolved", "requested"} /\ s2c = <<>> /\ ~inited
       \/ conn = "open" /\ s2c = <<"MSG_MR">> /\ ~inited
       \/ conn = "open" /\ s2c = <<>> /\ inited

\* The last thread has the token,
Sending ==
    /\ wrq = <<>> /\ compq = <<>> /\ s2c = <<>> /\ Handled(spawned - 1)
    /\ \/ sp[spawned] \in ToPop /\ popped = spawned - 1
       \/ sp[spawned] \in ToSend /\ popped = spawned /\ held[spawned] = spawned
    /\ sp[spawned] = "pop" => popped < pushed
    /\ sp[spawned] = "post" => cbuf = spawned

\* or its write,
Posted ==
    /\ sp[spawned] = "end" /\ popped = spawned
    /\ wrq = <<spawned>> /\ compq = <<>> /\ s2c = <<>> /\ Handled(spawned - 1)
    /\ cbuf = spawned

\* or the server's completion of the write,
Written ==
    /\ sp[spawned] = "end" /\ popped = spawned
    /\ wrq = <<>> /\ compq = <<spawned>> /\ s2c = <<>> /\ Handled(spawned - 1)
    /\ sbuf = spawned

\* or the server's answer.
Answered ==
    /\ sp[spawned] = "end" /\ popped = spawned
    /\ wrq = <<>> /\ compq = <<>> /\ s2c = <<"MSG_READY_TO_RECV">> /\ Handled(spawned)
    /\ spawned < N + 2

Under ==
    /\ spawned > 0 /\ conn = "open"
    /\ main \in {"push", "pushed", "sendwait"}
    /\ Sending \/ Posted \/ Written \/ Answered

\* After the last chunk there is no token any more.
Over ==
    /\ spawned = N + 2 /\ sp[spawned] = "end" /\ popped = spawned
    /\ wrq = <<>> /\ compq = <<>> /\ Handled(spawned) /\ ~spoll
    /\ main \notin {"start", "initwait"}
    /\ \/ s2c = <<"MSG_DONE">> /\ conn = "open" /\ main \notin {"returned", "destroyed"}
       \/ s2c = <<>> /\ conn \in {"closing", "closed", "ended"}

\* Who waits in the syncer, and who has been released.
Waiting ==
    /\ \A x \in csync.parked : \/ x[1] = "INIT" /\ main = "initwait"
                               \/ x[1] = "SEND" /\ main = "sendwait"
    /\ "main" \in csync.woken => \/ main = "initwait" /\ inited
                                 \/ main = "sendwait" /\ conn = "ended"

\* What the thread in wa_put has pushed.
Queued ==
    /\ main \in {"start", "initwait"} => pushed = 0
    /\ main = "push" => pushed < N + 3
    /\ main \in {"returned", "destroyed"} => conn = "ended"

\* The event loops.
Loops ==
    /\ inited => conn # "none" /\ conn # "resolved" /\ conn # "requested"
    /\ conn = "none" => crecvs = 0
    /\ sret # "loop" => conn \in {"closing", "closed", "ended"}
    /\ sret = "returned" => ~spoll

IInv == TypeOK /\ Senders /\ (Fresh \/ Under \/ Over) /\ Waiting /\ Queued /\ Loops

-----------------------------------------------------------------------------
(* Lemmas.                                                                  *)

\* The queues hold one message at most.
LEMMA OneElement ==
    ASSUME NEW x
    PROVE  /\ Head(<<x>>) = x /\ Tail(<<x>>) = <<>> /\ Append(<<>>, x) = <<x>>
           /\ <<x>> # <<>> /\ Len(<<x>>) = 1 /\ Len(<<>>) = 0
OBVIOUS

\* The token's place follows from any trace of it: a thread between its start and
\* its end, a posted write, a completion, an answer.
LEMMA Token ==
    ASSUME IInv
    PROVE  /\ \A i \in Sender : sp[i] \notin {"none", "end"} => i = spawned /\ Under /\ Sending
           /\ wrq # <<>> => Under /\ Posted
           /\ compq # <<>> => Under /\ Written
           /\ s2c # <<>> /\ Head(s2c) = "MSG_READY_TO_RECV" => Under /\ Answered
           /\ s2c # <<>> /\ Head(s2c) = "MSG_DONE" => Over /\ conn = "open"
           /\ s2c # <<>> /\ Head(s2c) = "MSG_MR" =>
                Fresh /\ conn = "open" /\ ~inited /\ s2c = <<"MSG_MR">>
BY NAssumption, OneElement DEF IInv, TypeOK, Senders, Fresh, Under, Sending, Posted,
   Written, Answered, Over, Sender

\* A chunk that is copied out goes to the end of the prefix received so far.
LEMMA Received ==
    ASSUME NEW r \in Seq(Item), NEW x \in Item, x = Len(r) + 3,
           \A k \in 1 .. Len(r) : r[k] = k + 2
    PROVE  /\ Append(r, x) \in Seq(Item)
           /\ Len(Append(r, x)) = Len(r) + 1
           /\ \A k \in 1 .. Len(Append(r, x)) : Append(r, x)[k] = k + 2
           /\ Append(r, x) # <<>>
OBVIOUS

-----------------------------------------------------------------------------
(* The invariant is inductive.                                              *)

\* It holds before anything has happened.
LEMMA InitIInv == Init => IInv
<1> SUFFICES ASSUME Init PROVE IInv
  OBVIOUS
<1> USE NAssumption DEF Init
<1>1. TypeOK
  <2>1. csync \in SyncerType({"INIT", "SEND"}, {"main"})
    BY DEF EmptySyncer, SyncerType
  <2>2. /\ sp \in [Sender -> {"none", "check", "park", "wait", "pop", "copy", "post", "end"}]
        /\ held \in [Sender -> Item \cup {NoItem}]
    OBVIOUS
  <2>3. /\ wrq \in Seq(Item) /\ compq \in Seq(Item)
        /\ recved \in Seq(Item) /\ delivered \in Seq(Item)
        /\ s2c \in Seq({"MSG_MR", "MSG_READY_TO_RECV", "MSG_DONE"})
    OBVIOUS
  <2>4. pushed \in 0 .. N + 3 /\ popped \in 0 .. N + 3 /\ spawned \in 0 .. N + 3
    OBVIOUS
  <2>5. /\ inited \in BOOLEAN /\ spoll \in BOOLEAN
        /\ cbuf \in Item \cup {NoItem} /\ sbuf \in Item \cup {NoItem}
    OBVIOUS
  <2>6. crecvs \in 0 .. 1 /\ srecvs \in Nat /\ sendc \in Nat
    OBVIOUS
  <2> QED
    BY <2>1, <2>2, <2>3, <2>4, <2>5, <2>6, Zenon DEF TypeOK
<1>2. Senders
  BY DEF Senders, Sender
<1>3. Fresh
  BY DEF Fresh, Handled
<1>4. Waiting /\ Queued /\ Loops
  BY DEF Waiting, Queued, Loops, EmptySyncer
<1> QED
  BY <1>1, <1>2, <1>3, <1>4 DEF IInv

\* The thread in wa_put, except for its pushes.
LEMMA MainIInv ==
    ASSUME IInv, MainWaitInit \/ MainInited \/ MainWaitSend \/ MainReturn \/ ClientDestroyed
    PROVE  IInv'
<1> USE NAssumption, OneElement DEF IInv, TypeOK, Senders, Waiting, Queued, Loops,
   Handled, ToPop, ToSend, Fresh, Under, Sending, Posted, Written, Answered, Over,
   Sender, Item, NoItem, EofItem, HdrItem, InitItem, vars, mainVars, queueVars,
   senderVars, dmaVars, wireVars, serverVars, connVars, Spawn, AddWait, DelPoint,
   SyncerType
<1>1. CASE MainWaitInit
  BY <1>1 DEF MainWaitInit
<1>2. CASE MainInited
  BY <1>2 DEF MainInited
<1>3. CASE MainWaitSend
  BY <1>3 DEF MainWaitSend
<1>4. CASE MainReturn
  BY <1>4 DEF MainReturn
<1>5. CASE ClientDestroyed
  BY <1>5 DEF ClientDestroyed
<1> QED
  BY <1>1, <1>2, <1>3, <1>4, <1>5

\* The connection, and what both ends do when it is made and when it ends.
LEMMA ConnectIInv ==
    ASSUME IInv, AddrResolved \/ ConnectRequest \/ Established
                 \/ ClientDisconn \/ ClientClosed \/ ServerSent \/ ServerDisconn \/ ServerClosed
    PROVE  IInv'
<1> USE NAssumption, OneElement DEF IInv, TypeOK, Senders, Waiting, Queued, Loops,
   Handled, ToPop, ToSend, Fresh, Under, Sending, Posted, Written, Answered, Over,
   Sender, Item, NoItem, EofItem, HdrItem, InitItem, vars, mainVars, queueVars,
   senderVars, dmaVars, wireVars, serverVars, connVars, Take, SendMessage, PostReceive,
   BuildContext, ClientPreConn, Notify, SyncerType
<1>1. CASE AddrResolved
  BY <1>1 DEF AddrResolved
<1>2. CASE ConnectRequest
  BY <1>2 DEF ConnectRequest
<1>3. CASE Established
  BY <1>3 DEF Established
<1>4. CASE ClientDisconn
  BY <1>4 DEF ClientDisconn
<1>5. CASE ClientClosed
  BY <1>5 DEF ClientClosed
<1>6. CASE ServerSent
  BY <1>6 DEF ServerSent
<1>7. CASE ServerDisconn
  BY <1>7 DEF ServerDisconn
<1>8. CASE ServerClosed
  BY <1>8 DEF ServerClosed
<1> QED
  BY <1>1, <1>2, <1>3, <1>4, <1>5, <1>6, <1>7, <1>8

\* The client learns the address of the server's buffer.
LEMMA AddressIInv ==
    ASSUME IInv, ClientMR
    PROVE  IInv'
<1> USE NAssumption, OneElement DEF mainVars, queueVars, senderVars, dmaVars, serverVars
<1>1. Fresh /\ conn = "open" /\ ~inited /\ s2c = <<"MSG_MR">>
  BY Token DEF ClientMR, Take
<1>2. s2c' = <<>> /\ inited' = TRUE /\ main' = main /\ conn' = conn
  BY <1>1 DEF ClientMR, Take
<1>3. csync \in SyncerType({"INIT", "SEND"}, {"main"})
  BY DEF IInv, TypeOK
<1>4. csync' = csync \/ \E x \in csync.parked :
          /\ x[1] = "INIT"
          /\ csync' = [pts    |-> csync.pts,
                       parked |-> csync.parked \ {x},
                       woken  |-> csync.woken \cup {x[2]}]
  BY DEF ClientMR, Notify
<1>5. csync' \in SyncerType({"INIT", "SEND"}, {"main"})
  BY <1>3, <1>4 DEF SyncerType
<1>6. Waiting'
  BY <1>2, <1>3, <1>4 DEF IInv, Waiting, SyncerType
<1>7. TypeOK'
  BY <1>2, <1>5 DEF IInv, TypeOK, ClientMR
<1>8. Fresh'
  BY <1>1, <1>2 DEF Fresh, Handled, ClientMR
<1>9. Senders' /\ Queued' /\ Loops'
  BY <1>1, <1>2 DEF IInv, Senders, Queued, Loops, ClientMR
<1> QED
  BY <1>6, <1>7, <1>8, <1>9 DEF IInv

\* A push moves no token; it may put the waiting thread back to its test.
LEMMA PushIInv ==
    ASSUME IInv, Push
    PROVE  IInv'
<1> USE NAssumption, OneElement DEF Sender, Item, NoItem, EofItem, HdrItem, InitItem,
   vars, mainVars, queueVars, senderVars, dmaVars, wireVars, serverVars, connVars
<1> DEFINE PC == {"none", "check", "park", "wait", "pop", "copy", "post", "end"}
<1>0. /\ sp' \in [Sender -> PC]
      /\ \A i \in Sender : sp'[i] = sp[i] \/ (sp[i] = "wait" /\ sp'[i] = "check")
  <2>1. sp \in [Sender -> PC]
    BY DEF IInv, TypeOK
  <2>2. sp' = sp \/ \E i \in Sender : sp[i] = "wait" /\ sp' = [sp EXCEPT ![i] = "check"]
    BY DEF Push
  <2> QED
    BY <2>1, <2>2
<1>1. TypeOK' /\ Senders'
  <2>1. pushed' \in 0 .. N + 3 /\ main' \in {"push", "pushed"}
    BY DEF Push, IInv, TypeOK, Queued
  <2>2. TypeOK'
    BY <1>0, <2>1 DEF Push, IInv, TypeOK
  <2>3. Senders'
    BY <1>0 DEF Push, IInv, Senders
  <2> QED
    BY <2>2, <2>3
<1>2. Waiting' /\ Queued' /\ Loops'
  BY DEF Push, IInv, TypeOK, Waiting, Queued, Loops
<1>3. CASE Fresh
  BY <1>3 DEF Push, Fresh
<1>4. CASE Under /\ Sending
  <2>1. Sending'
    <3>1. spawned \in Sender
      BY <1>4 DEF IInv, TypeOK, Under
    <3> QED
      BY <1>0, <1>4, <3>1 DEF Push, IInv, TypeOK, Sending, Handled, ToPop, ToSend
  <2> QED
    BY <1>1, <1>2, <1>4, <2>1 DEF IInv, Under, Push, Queued
<1>5. CASE (Under /\ ~Sending) \/ Over
  <2>1. \A i \in Sender : sp[i] # "wait"
    BY <1>5, Token DEF Over, Sending, ToPop, ToSend
  <2>2. sp' = sp
    BY <2>1 DEF Push
  <2> QED
    BY <1>1, <1>2, <1>5, <2>2 DEF IInv, Push, Under, Posted, Written, Answered, Over,
       Handled
<1> QED
  BY <1>3, <1>4, <1>5 DEF IInv

\* A send_next thread goes on: it has the token and is the last one.
LEMMA SenderIInv ==
    ASSUME IInv, NEW i \in Sender, SenderStep(i)
    PROVE  IInv'
<1> USE NAssumption, OneElement DEF Sender, Item, NoItem, EofItem, HdrItem, InitItem,
   vars, mainVars, queueVars, senderVars, dmaVars, wireVars, serverVars, connVars
<1>1. i = spawned /\ Under /\ Sending
  BY Token DEF SenderStep, SenderCheck, SenderWait, SenderPop, SenderCopy, SenderPost
<1>2. spawned \in 1 .. N + 2 /\ spawned' = spawned /\ spawned \in Sender
  BY <1>1 DEF SenderStep, SenderCheck, SenderWait, SenderPop, SenderCopy, SenderPost,
     IInv, TypeOK, Senders, Under
<1>3. /\ UNCHANGED <<mainVars, pushed, srecvs, sbuf, compq, s2c, crecvs, serverVars, connVars>>
      /\ \E l \in {"park", "wait", "pop", "copy", "post", "end"} : sp' = [sp EXCEPT ![i] = l]
  BY DEF SenderStep, SenderCheck, SenderWait, SenderPop, SenderCopy, SenderPost
<1>4. Senders' /\ Waiting' /\ Queued' /\ Loops'
  BY <1>1, <1>2, <1>3 DEF IInv, TypeOK, Senders, Waiting, Queued, Loops
<1>5. sp' \in [Sender -> {"none", "check", "park", "wait", "pop", "copy", "post", "end"}]
  BY <1>3 DEF IInv, TypeOK
<1>6. Handled(spawned - 1)' /\ Under \in BOOLEAN
  BY <1>1, <1>2, <1>3 DEF Sending, Handled, Under
<1>7. CASE SenderCheck(i) \/ SenderWait(i)
  <2>1. TypeOK'
    BY <1>7, <1>3, <1>5 DEF IInv, TypeOK, SenderCheck, SenderWait
  <2>2. Sending'
    BY <1>7, <1>1, <1>2, <1>6 DEF SenderCheck, SenderWait, Sending, ToPop, ToSend, IInv,
       TypeOK
  <2> QED
    BY <1>1, <1>2, <1>3, <1>4, <2>1, <2>2 DEF IInv, Under
<1>8. CASE SenderPop(i)
  <2>1. TypeOK'
    BY <1>8, <1>1, <1>2, <1>3, <1>5 DEF IInv, TypeOK, SenderPop, Sending, ToPop, ToSend
  <2>2. Sending'
    BY <1>8, <1>1, <1>2, <1>6 DEF SenderPop, Sending, ToPop, ToSend, IInv, TypeOK
  <2> QED
    BY <1>1, <1>2, <1>3, <1>4, <2>1, <2>2 DEF IInv, Under
<1>9. CASE SenderCopy(i)
  <2>1. TypeOK'
    BY <1>9, <1>1, <1>3, <1>5 DEF IInv, TypeOK, SenderCopy
  <2>2. Sending'
    BY <1>9, <1>1, <1>2, <1>6 DEF SenderCopy, Sending, ToPop, ToSend, IInv, TypeOK
  <2> QED
    BY <1>1, <1>2, <1>3, <1>4, <2>1, <2>2 DEF IInv, Under
<1>10. CASE SenderPost(i)
  <2>1. wrq' = <<spawned>> /\ wrq' \in Seq(Item)
    <3>1. wrq' = <<spawned>> /\ spawned \in Item
      BY <1>10, <1>1, <1>2 DEF SenderPost, Sending, ToPop, ToSend
    <3> QED
      BY <3>1
  <2>2. TypeOK'
    BY <1>10, <1>1, <1>3, <1>5, <2>1 DEF IInv, TypeOK, SenderPost
  <2>3. Posted'
    BY <1>10, <1>1, <1>2, <1>6, <2>1 DEF SenderPost, Sending, Posted, ToPop, ToSend,
       IInv, TypeOK
  <2> QED
    BY <1>1, <1>2, <1>3, <1>4, <2>2, <2>3 DEF IInv, Under
<1> QED
  BY <1>7, <1>8, <1>9, <1>10 DEF SenderStep

\* The write is carried out: the token goes over to the server.
LEMMA DmaIInv ==
    ASSUME IInv, Dma
    PROVE  IInv'
<1> USE NAssumption, OneElement DEF Sender, Item, NoItem, EofItem, HdrItem, InitItem,
   vars, mainVars, queueVars, senderVars, dmaVars, wireVars, serverVars, connVars
<1>1. Under /\ Posted
  BY Token DEF Dma
<1>2. Written'
  BY <1>1 DEF Dma, Posted, Written, Handled
<1>3. TypeOK'
  BY <1>1, <1>2 DEF Dma, IInv, TypeOK, Senders, Under, Written
<1>4. Senders' /\ Waiting' /\ Queued' /\ Loops' /\ Under'
  BY <1>1, <1>2 DEF Dma, IInv, Senders, Waiting, Queued, Loops, Under
<1> QED
  BY <1>3, <1>4 DEF IInv

\* The server looks at a write: it answers it, or it was the last one.
LEMMA ServerIInv ==
    ASSUME IInv, ServerHeader \/ ServerChunk \/ ServerLast
    PROVE  IInv'
<1> USE NAssumption, OneElement DEF Sender, Item, NoItem, EofItem, HdrItem, InitItem,
   vars, mainVars, queueVars, senderVars, dmaVars, wireVars, serverVars, connVars
<1>1. Under /\ Written
  BY Token DEF ServerHeader, ServerChunk, ServerLast
<1>2. /\ UNCHANGED <<mainVars, queueVars, senderVars, cbuf, wrq, sbuf, crecvs, connVars>>
      /\ compq' = <<>> /\ spawned \in 1 .. N + 2
  BY <1>1 DEF ServerHeader, ServerChunk, ServerLast, Written, IInv, TypeOK, Senders,
     Under
<1>3. Senders' /\ Waiting' /\ Queued'
  BY <1>2 DEF IInv, Senders, Waiting, Queued
<1>4. CASE ServerHeader
  <2>1. Handled(spawned)' /\ spawned < N + 2
    BY <1>1, <1>2, <1>4 DEF ServerHeader, Written, Handled
  <2>2. Answered' /\ Under'
    BY <1>1, <1>2, <1>4, <2>1 DEF ServerHeader, Written, Answered, Under, SendMessage
  <2>3. TypeOK' /\ Loops'
    BY <1>1, <1>2, <1>4 DEF ServerHeader, SendMessage, PostReceive, IInv, TypeOK,
       Written, Loops
  <2> QED
    BY <1>3, <2>2, <2>3 DEF IInv
<1>5. CASE ServerChunk \/ ServerLast
  <2>1. /\ recved \in Seq(Item) /\ sbuf \in Item
        /\ sbuf = Len(recved) + 3 /\ spawned = Len(recved) + 3
        /\ \A k \in 1 .. Len(recved) : recved[k] = k + 2
        /\ recved' = Append(recved, sbuf)
    <3>1. recv_state = "DATA_RECV" /\ recved' = Append(recved, sbuf)
      BY <1>5 DEF ServerChunk, ServerLast
    <3>2. recved \in Seq(Item) /\ Len(recved) \in Nat
      BY DEF IInv, TypeOK
    <3>3. Handled(spawned - 1) /\ sbuf = spawned
      BY <1>1 DEF Written
    <3>4. /\ spawned - 1 >= 2 /\ Len(recved) = spawned - 1 - 2
          /\ \A k \in 1 .. Len(recved) : recved[k] = k + 2
      BY <3>1, <3>3 DEF Handled
    <3> QED
      BY <1>2, <3>1, <3>2, <3>3, <3>4
  <2>2. /\ recved' \in Seq(Item) /\ Len(recved') = Len(recved) + 1 /\ recved' # <<>>
        /\ \A k \in 1 .. Len(recved') : recved'[k] = k + 2
    BY <2>1, Received
  <2>3. recv_state' = recv_state /\ recv_state = "DATA_RECV"
    BY <1>5 DEF ServerChunk, ServerLast
  <2>4. CASE ServerChunk
    <3>1. Handled(spawned)' /\ spawned < N + 2
      BY <1>1, <1>2, <2>1, <2>2, <2>3, <2>4 DEF ServerChunk, Written, Handled
    <3>2. Answered' /\ Under'
      BY <1>1, <1>2, <2>4, <3>1 DEF ServerChunk, Written, Answered, Under, SendMessage
    <3>3. TypeOK' /\ Loops'
      BY <1>1, <1>2, <2>2, <2>4 DEF ServerChunk, SendMessage, PostReceive, IInv, TypeOK,
         Written, Loops
    <3> QED
      BY <1>3, <3>2, <3>3 DEF IInv
  <2>5. CASE ServerLast
    <3>1. Handled(spawned)' /\ spawned = N + 2
      BY <1>1, <1>2, <2>1, <2>2, <2>3, <2>5 DEF ServerLast, Written, Handled
    <3>2. Over'
      BY <1>1, <1>2, <2>5, <3>1 DEF ServerLast, Written, Over, Under, SendMessage
    <3>3. delivered' = recved'
      BY <2>5 DEF ServerLast
    <3>4. Loops'
      BY <1>2, <2>5 DEF ServerLast, IInv, Loops
    <3>5. /\ s2c' \in Seq({"MSG_MR", "MSG_READY_TO_RECV", "MSG_DONE"})
          /\ sendc' \in Nat /\ spoll' = FALSE /\ srecvs' = srecvs
      BY <2>5 DEF ServerLast, SendMessage, IInv, TypeOK
    <3>6. compq' \in Seq(Item) /\ delivered' \in Seq(Item)
      BY <1>2, <2>2, <3>3
    <3>7. TypeOK'
      BY <1>2, <2>2, <2>3, <3>5, <3>6 DEF IInv, TypeOK
    <3> QED
      BY <1>3, <3>2, <3>4, <3>7 DEF IInv
  <2> QED
    BY <1>5, <2>4, <2>5
<1> QED
  BY <1>4, <1>5

\* The client takes the answer: it starts the next thread, or ends.
LEMMA AnswerIInv ==
    ASSUME IInv, ClientReady \/ ClientDone
    PROVE  IInv'
<1> USE NAssumption, OneElement DEF Sender, Item, NoItem, EofItem, HdrItem, InitItem,
   vars, mainVars, queueVars, senderVars, dmaVars, wireVars, serverVars, connVars
<1>1. CASE ClientReady
  <2>1. Under /\ Answered
    BY <1>1, Token DEF ClientReady, Take
  <2>2. spawned \in 1 .. N + 1 /\ spawned' = spawned + 1 /\ spawned' \in Sender
    BY <1>1, <2>1 DEF ClientReady, Spawn, IInv, TypeOK, Answered, Under
  <2>3. sp' = [sp EXCEPT ![spawned + 1] = "check"]
    BY <1>1 DEF ClientReady, Spawn
  <2>4. Senders'
    BY <2>1, <2>2, <2>3 DEF IInv, TypeOK, Senders, Answered
  <2>5. Sending' /\ Under'
    BY <1>1, <2>1, <2>2, <2>3 DEF ClientReady, Take, IInv, TypeOK, Answered, Sending,
       Under, Handled, ToPop
  <2>6. TypeOK' /\ Waiting' /\ Queued' /\ Loops'
    BY <1>1, <2>1, <2>2, <2>3 DEF ClientReady, Spawn, Take, IInv, TypeOK, Answered,
       Waiting, Queued, Loops
  <2> QED
    BY <2>4, <2>5, <2>6 DEF IInv
<1>2. CASE ClientDone
  <2>1. Over /\ conn = "open" /\ s2c = <<"MSG_DONE">>
    BY <1>2, Token DEF ClientDone, Take, Over
  <2>2. Over'
    BY <1>2, <2>1 DEF ClientDone, Take, Over, Handled
  <2>3. TypeOK' /\ Senders' /\ Waiting' /\ Queued' /\ Loops'
    BY <1>2, <2>1, <2>2 DEF ClientDone, Take, IInv, TypeOK, Senders, Waiting, Queued,
       Loops, Over
  <2> QED
    BY <2>2, <2>3 DEF IInv
<1> QED
  BY <1>1, <1>2

\* Every step keeps the invariant.
LEMMA NextIInv == IInv /\ [Next]_vars => IInv'
<1> SUFFICES ASSUME IInv, [Next]_vars PROVE IInv'
  OBVIOUS
<1>1. CASE UNCHANGED vars
  BY <1>1 DEF vars, mainVars, queueVars, senderVars, dmaVars, wireVars, serverVars,
     connVars, IInv, TypeOK, Senders, Waiting, Queued, Loops, Handled, Fresh, Under,
     Sending, Posted, Written, Answered, Over
<1>2. CASE Next
  BY <1>2, MainIInv, PushIInv, ConnectIInv, AddressIInv, SenderIInv, DmaIInv,
     ServerIInv, AnswerIInv DEF Next
<1> QED
  BY <1>1, <1>2

\* It holds throughout.
LEMMA Invariance == Spec => []IInv
BY InitIInv, NextIInv, PTL DEF Spec

-----------------------------------------------------------------------------
(* The theorems.                                                            *)

\* For any number of chunks, no buffer is overwritten while it is in use, although
\* the one thing that keeps two writes apart is the server's answer.
THEOREM NoOverwriteHolds == Spec => []NoOverwrite
<1>1. IInv => NoOverwrite
  <2> SUFFICES ASSUME IInv PROVE NoOverwrite
    OBVIOUS
  <2>1. \A i \in Active : i = spawned /\ Under /\ Sending
    BY Token DEF Active
  <2>2. Len(wrq) + Len(compq) + Len(s2c) <= 1
    <3>1. \/ wrq = <<>> /\ compq = <<>> /\ s2c = <<>>
          \/ wrq = <<>> /\ compq = <<>> /\ \E m : s2c = <<m>>
          \/ wrq = <<spawned>> /\ compq = <<>> /\ s2c = <<>>
          \/ wrq = <<>> /\ compq = <<spawned>> /\ s2c = <<>>
      BY DEF IInv, Fresh, Under, Sending, Posted, Written, Answered, Over
    <3>2. \/ Len(wrq) = 0 /\ Len(compq) = 0 /\ Len(s2c) = 0
          \/ Len(wrq) = 0 /\ Len(compq) = 0 /\ Len(s2c) = 1
          \/ Len(wrq) = 1 /\ Len(compq) = 0 /\ Len(s2c) = 0
          \/ Len(wrq) = 0 /\ Len(compq) = 1 /\ Len(s2c) = 0
      BY <3>1, OneElement, Zenon
    <3>3. 0 + 0 + 0 <= 1 /\ 0 + 0 + 1 <= 1 /\ 1 + 0 + 0 <= 1 /\ 0 + 1 + 0 <= 1
      OBVIOUS
    <3> QED
      BY <3>2, <3>3, Zenon
  <2>3. Active # {} => wrq = <<>> /\ compq = <<>> /\ s2c = <<>>
    BY <2>1 DEF Sending
  <2>4. \A i \in Sender : sp[i] = "pop" => popped < pushed
    BY <2>1 DEF Active, Sending
  <2> QED
    BY <2>1, <2>2, <2>3, <2>4 DEF NoOverwrite
<1> QED
  BY <1>1, Invariance, PTL

\* For any number of chunks, data_recv_cb gets all of them in their order, before
\* send_data or init_server returns, and no thread reads what they then free.
THEOREM DeliveryHolds == Spec => []Delivers
<1>1. IInv => Delivers
  <2> SUFFICES ASSUME IInv PROVE Delivers
    OBVIOUS
  <2> USE NAssumption
  <2>1. TypeOK /\ spawned \in Nat
    BY DEF IInv, TypeOK
  <2>2. InOrder
    <3>1. PICK c \in 0 .. N + 2 : Handled(c)
      BY <2>1 DEF IInv, Senders, Fresh, Under, Sending, Posted, Written, Answered, Over
    <3> QED
      BY <3>1 DEF InOrder, Handled
  <2>3. Over => delivered # <<>> /\ ~spoll /\ popped = N + 2 /\ Active = {}
    <3> SUFFICES ASSUME Over PROVE delivered # <<>> /\ ~spoll /\ popped = N + 2 /\ Active = {}
      OBVIOUS
    <3>1. Active = {}
      BY DEF Over, IInv, Senders, Active, Sender
    <3>2. delivered = recved /\ Len(recved) = N
      BY <2>1 DEF Over, Handled
    <3> QED
      BY <3>1, <3>2, OneElement DEF Over
  <2>4. main \in {"returned", "destroyed"} \/ sret # "loop" => Over
    BY DEF IInv, Fresh, Under, Queued, Loops
  <2>5. ReturnMeansDelivered
    BY <2>3, <2>4 DEF ReturnMeansDelivered
  <2> QED
    BY <2>1, <2>2, <2>5 DEF Delivers
<1> QED
  BY <1>1, Invariance, PTL

-----------------------------------------------------------------------------
(* GridFTP: the inductive invariant.                                        *)

GftpPc == {"start", "wait", "blocked", "ok", "err"}

\* A transfer that has not begun, or could not.
GftpUnbegun ==
    gpc \in {"start", "err"} => gpos = 0 /\ greg = None /\ gfile = <<>> /\ gover = "no" /\ ~gshort

\* A put: what is registered is the next piece of the file, and what was carried out is
\* all before it; nothing is registered only when the end was reached.
GftpPutInv ==
    gop = "put" /\ gpc \notin {"start", "err"} =>
        /\ greg.on => /\ greg.len <= gpos /\ greg.len <= MaxBufferSizeW
                      /\ gfile = Bytes(0, gpos - greg.len)
                      /\ \A i \in 1 .. greg.len : gbuf[i] = gpos - greg.len + i
                      /\ greg.eof => gpos = gsize
        /\ ~greg.on => gfile = Bytes(0, gsize)

\* A get: as long as every read was full, the file has what was read.
GftpGetInv ==
    gop = "get" /\ gpc \notin {"start", "err"} =>
        /\ ~gshort => gfile = Bytes(0, gpos)
        /\ ~greg.on => gpos = gsize

GftpTypes ==
    /\ gop \in {"put", "get"} /\ gpc \in GftpPc /\ gover \in {"no", "ok", "err"}
    /\ gsize \in Nat /\ gpos \in 0 .. gsize
    /\ gdone \in BOOLEAN /\ gshort \in BOOLEAN
    /\ gbuf \in [1 .. MaxBufferSizeW -> Nat]
    /\ greg \in [len : Nat, eof : BOOLEAN, on : BOOLEAN]

\* Only a transfer that has come to its end has ended well, and only then is done set.
GftpOver ==
    /\ gover = "ok" <=> gdone
    /\ gover = "ok" => ~greg.on
    /\ gpc = "ok" => gover = "ok"

GftpInv == GftpTypes /\ GftpUnbegun /\ GftpPutInv /\ GftpGetInv /\ GftpOver /\ ReadWhole

\* A piece that goes on where the file ends makes it that much longer.
LEMMA BytesGrow ==
    ASSUME NEW k \in Nat, NEW n \in Nat, NEW t \in Seq(Nat), Len(t) = n, \A i \in 1 .. n : t[i] = k + i
    PROVE  Bytes(0, k) \o t = Bytes(0, k + n)
<1>1. Bytes(0, k) \in Seq(Nat) /\ Len(Bytes(0, k)) = k /\ \A i \in 1 .. k : Bytes(0, k)[i] = i
  BY DEF Bytes
<1>2. /\ Bytes(0, k + n) \in Seq(Nat) /\ Len(Bytes(0, k + n)) = k + n
      /\ \A i \in 1 .. k + n : Bytes(0, k + n)[i] = i
  BY DEF Bytes
<1>3. /\ Bytes(0, k) \o t \in Seq(Nat) /\ Len(Bytes(0, k) \o t) = k + n
      /\ \A i \in 1 .. k + n : (Bytes(0, k) \o t)[i] = IF i <= k THEN Bytes(0, k)[i] ELSE t[i - k]
  <2> DEFINE b == Bytes(0, k)
  <2>1. b \in Seq(Nat) /\ Len(b) = k
    BY <1>1
  <2> HIDE DEF b
  <2>2. /\ b \o t \in Seq(Nat) /\ Len(b \o t) = Len(b) + Len(t)
        /\ \A i \in 1 .. Len(b) + Len(t) : (b \o t)[i] = IF i <= Len(b) THEN b[i] ELSE t[i - Len(b)]
    BY <2>1, ConcatProperties
  <2>3. /\ b \o t \in Seq(Nat) /\ Len(b \o t) = k + n
        /\ \A i \in 1 .. k + n : (b \o t)[i] = IF i <= k THEN b[i] ELSE t[i - k]
    BY <2>1, <2>2
  <2> QED
    BY <2>3 DEF b
<1>4. ASSUME NEW i \in 1 .. k + n PROVE (Bytes(0, k) \o t)[i] = i
  <2>1. CASE i <= k
    BY <1>1, <1>3, <2>1
  <2>2. CASE i > k
    <3>1. i - k \in 1 .. n
      BY <2>2
    <3> QED
      BY <1>3, <2>2, <3>1
  <2>3. i <= k \/ i > k
    OBVIOUS
  <2> QED
    BY <2>1, <2>2, <2>3
<1> QED
  BY <1>2, <1>3, <1>4, SeqEqual

\* fread registers the next piece of the file.
LEMMA FreadNext ==
    ASSUME GftpTypes, Fread
    PROVE  /\ gpos' \in 0 .. gsize /\ gpos' >= gpos
           /\ gbuf' \in [1 .. MaxBufferSizeW -> Nat]
           /\ greg' \in [len : Nat, eof : BOOLEAN, on : BOOLEAN] /\ greg'.on
           /\ greg'.len = gpos' - gpos /\ greg'.len <= MaxBufferSizeW
           /\ \A i \in 1 .. greg'.len : gbuf'[i] = gpos + i
           /\ greg'.eof => gpos' = gsize
           /\ gpos' - greg'.len = gpos /\ greg'.len <= gpos'
<1> DEFINE n == Smaller(MaxBufferSizeW, gsize - gpos)
<1>1. n \in Nat /\ n <= MaxBufferSizeW /\ n <= gsize - gpos /\ (n < MaxBufferSizeW => n = gsize - gpos)
  BY GridFTPAssumption DEF GftpTypes, Smaller
<1>2. /\ gpos' = gpos + n /\ greg' = [len |-> n, eof |-> n < MaxBufferSizeW, on |-> TRUE]
      /\ gbuf' = [i \in 1 .. MaxBufferSizeW |-> IF i <= n THEN gpos + i ELSE gbuf[i]]
  BY DEF Fread
<1> HIDE DEF n
<1>3. \A i \in 1 .. n : i \in 1 .. MaxBufferSizeW
  BY <1>1, GridFTPAssumption
<1>4. gbuf' \in [1 .. MaxBufferSizeW -> Nat]
  BY <1>1, <1>2 DEF GftpTypes
<1>5. greg'.len = n /\ (greg'.eof <=> n < MaxBufferSizeW) /\ greg'.on
  BY <1>2
<1>6. greg' \in [len : Nat, eof : BOOLEAN, on : BOOLEAN]
  <2>1. (n < MaxBufferSizeW) \in BOOLEAN
    OBVIOUS
  <2> QED
    BY <1>1, <1>2, <2>1
<1>7. gpos' \in 0 .. gsize /\ gpos' >= gpos /\ n = gpos' - gpos /\ gpos' - n = gpos /\ n <= gpos'
  BY <1>1, <1>2 DEF GftpTypes
<1>8. \A i \in 1 .. n : gbuf'[i] = gpos + i
  BY <1>2, <1>3
<1>9. n < MaxBufferSizeW => gpos' = gsize
  BY <1>1, <1>2 DEF GftpTypes
<1> QED
  BY <1>1, <1>4, <1>5, <1>6, <1>7, <1>8, <1>9

\* gridftp_put_file registers the first piece, or fails.
LEMMA PutStartKeeps == ASSUME GftpInv, PutStart PROVE GftpInv'
<1> USE DEF GftpInv
<1>1. /\ gop = "put" /\ gpc = "start" /\ gpos = 0 /\ gfile = <<>> /\ gover = "no" /\ greg = None /\ ~gshort
      /\ UNCHANGED <<gop, gsize, gdirs, gdone, gfile, gover, gread, gshort>>
  BY DEF PutStart, GftpUnbegun
<1>2. CASE Fread /\ gpc' = "wait"
  <2>1. /\ gpos' \in 0 .. gsize
        /\ gbuf' \in [1 .. MaxBufferSizeW -> Nat]
        /\ greg' \in [len : Nat, eof : BOOLEAN, on : BOOLEAN] /\ greg'.on
        /\ greg'.len = gpos' /\ greg'.len <= MaxBufferSizeW
        /\ \A i \in 1 .. greg'.len : gbuf'[i] = i
        /\ greg'.eof => gpos' = gsize
        /\ gpos' - greg'.len = 0 /\ greg'.len <= gpos'
    BY <1>1, <1>2, FreadNext
  <2>2. <<>> = Bytes(0, 0)
    BY DEF Bytes
  <2>4. GftpTypes'
    BY <1>1, <1>2, <2>1 DEF GftpTypes, GftpPc
  <2>5. GftpPutInv'
    BY <1>1, <2>1, <2>2 DEF GftpPutInv
  <2>6. GftpUnbegun' /\ GftpGetInv' /\ GftpOver' /\ ReadWhole'
    BY <1>1, <1>2 DEF GftpUnbegun, GftpGetInv, GftpOver, ReadWhole
  <2> QED
    BY <2>4, <2>5, <2>6
<1>3. CASE gpc' = "err" /\ UNCHANGED <<gpos, gbuf, greg>>
  BY <1>1, <1>3 DEF GftpTypes, GftpPc, GftpUnbegun, GftpPutInv, GftpGetInv, GftpOver, ReadWhole
<1> QED
  BY <1>2, <1>3 DEF PutStart

\* A piece that is carried out goes to the end of the file, and the next one follows.
LEMMA WriteCbKeeps == ASSUME GftpInv, data_write_cb PROVE GftpInv'
<1> USE DEF GftpInv
<1> DEFINE k == gpos - greg.len
           piece == SubSeq(gbuf, 1, greg.len)
<1>1. /\ gop = "put" /\ greg.on /\ gover = "no" /\ gfile' = gfile \o piece
      /\ UNCHANGED <<gop, gsize, gdirs, gpc, gdone, gover, gread, gshort>>
  BY DEF data_write_cb
<1>2. gpc \notin {"start", "err"}
  BY <1>1 DEF GftpUnbegun, None
<1>3. /\ greg.len \in Nat /\ greg.len <= gpos /\ greg.len <= MaxBufferSizeW /\ gfile = Bytes(0, k)
      /\ \A i \in 1 .. greg.len : gbuf[i] = k + i
      /\ greg.eof => gpos = gsize
  BY <1>1, <1>2 DEF GftpPutInv, GftpTypes
<1>4. gfile' = Bytes(0, gpos)
  <2>1. \A i \in 1 .. greg.len : gbuf[i] \in Nat
    BY <1>3, GridFTPAssumption DEF GftpTypes
  <2>2. /\ piece \in Seq(Nat) /\ Len(piece) = greg.len
        /\ \A i \in 1 .. greg.len : piece[i] = gbuf[i]
    <3>1. /\ piece \in Seq(Nat) /\ Len(piece) = IF 1 <= greg.len THEN greg.len - 1 + 1 ELSE 0
          /\ \A i \in 1 .. greg.len - 1 + 1 : piece[i] = gbuf[1 + i - 1]
      BY <1>3, <2>1, SubSeqProperties
    <3> HIDE DEF piece
    <3> QED
      BY <1>3, <3>1
  <2>3. k \in Nat /\ k + greg.len = gpos
    BY <1>3 DEF GftpTypes
  <2> HIDE DEF k, piece
  <2>4. \A i \in 1 .. greg.len : piece[i] = k + i
    BY <1>3, <2>2
  <2>5. Bytes(0, k) \o piece = Bytes(0, k + greg.len)
    BY <1>3, <2>2, <2>3, <2>4, BytesGrow
  <2> QED
    BY <1>1, <1>3, <2>3, <2>5
<1>5. CASE greg.eof /\ greg' = None /\ UNCHANGED <<gpos, gbuf>>
  <2>1. ~greg'.on /\ gfile' = Bytes(0, gsize) /\ gsize' = gsize
    BY <1>1, <1>3, <1>4, <1>5 DEF None
  <2>2. GftpTypes'
    BY <1>1, <1>5 DEF GftpTypes, None
  <2>3. GftpPutInv'
    BY <2>1 DEF GftpPutInv
  <2> QED
    BY <1>1, <1>2, <2>1, <2>2, <2>3 DEF GftpUnbegun, GftpGetInv, GftpOver, ReadWhole
<1>6. CASE ~greg.eof /\ Fread
  <2>1. /\ gpos' \in 0 .. gsize /\ gpos' >= gpos
        /\ gbuf' \in [1 .. MaxBufferSizeW -> Nat]
        /\ greg' \in [len : Nat, eof : BOOLEAN, on : BOOLEAN] /\ greg'.on
        /\ greg'.len = gpos' - gpos /\ greg'.len <= MaxBufferSizeW
        /\ \A i \in 1 .. greg'.len : gbuf'[i] = gpos + i
        /\ greg'.eof => gpos' = gsize
    BY <1>6, FreadNext
  <2>2. gpos' - greg'.len = gpos /\ greg'.len <= gpos'
    BY <1>6, FreadNext
  <2>3. GftpTypes'
    BY <1>1, <2>1 DEF GftpTypes
  <2>4. GftpPutInv'
    BY <1>1, <1>4, <2>1, <2>2 DEF GftpPutInv
  <2> QED
    BY <1>1, <1>2, <2>1, <2>3, <2>4 DEF GftpUnbegun, GftpGetInv, GftpOver, ReadWhole
<1> QED
  BY <1>5, <1>6 DEF data_write_cb

\* gridftp_get_file registers a read, or fails.
LEMMA GetFileStartKeeps == ASSUME GftpInv, GetFileStart PROVE GftpInv'
<1> USE DEF GftpInv
<1>1. /\ gop = "get" /\ gpc = "start" /\ gpos = 0 /\ gfile = <<>> /\ gover = "no" /\ greg = None /\ ~gshort
      /\ UNCHANGED <<gop, gsize, gdirs, gdone, gpos, gbuf, gfile, gover, gread, gshort>>
  BY DEF GetFileStart, GftpUnbegun
<1>2. CASE gpc' = "wait" /\ greg' = [None EXCEPT !.on = TRUE]
  <2>1. <<>> = Bytes(0, 0)
    BY DEF Bytes
  <2>2. greg'.on /\ greg' \in [len : Nat, eof : BOOLEAN, on : BOOLEAN]
    BY <1>2 DEF None
  <2> QED
    BY <1>1, <1>2, <2>1, <2>2 DEF GftpTypes, GftpPc, GftpUnbegun, GftpPutInv, GftpGetInv, GftpOver, ReadWhole
<1>3. CASE gpc' = "err" /\ UNCHANGED greg
  BY <1>1, <1>3 DEF GftpTypes, GftpPc, GftpUnbegun, GftpPutInv, GftpGetInv, GftpOver, ReadWhole
<1> QED
  BY <1>2, <1>3 DEF GetFileStart

\* A full read goes to the end of the file; any other is noted in gshort.
LEMMA ReadCbKeeps == ASSUME GftpInv, data_read_cb PROVE GftpInv'
<1> USE DEF GftpInv
<1>1. /\ gop = "get" /\ greg.on /\ gover = "no" /\ gpos \in 0 .. gsize /\ gsize \in Nat
      /\ UNCHANGED <<gop, gsize, gdirs, gpc, gdone, gover, gread>>
  BY DEF data_read_cb, GftpTypes
<1>2. gpc \notin {"start", "err"}
  BY <1>1 DEF GftpUnbegun, None
<1>3. PICK n \in 0 .. Smaller(MaxBufferSizeW, gsize - gpos), eof \in BOOLEAN :
        /\ eof => gpos + n = gsize
        /\ gpos' = gpos + n
        /\ gbuf' = [i \in 1 .. MaxBufferSizeW |-> IF i <= n THEN gpos + i ELSE gbuf[i]]
        /\ gshort' = (gshort \/ (IF eof THEN n > 0 ELSE n < MaxBufferSizeW))
        /\ gfile' = IF eof THEN gfile ELSE gfile \o gbuf'
        /\ greg' = IF eof THEN None ELSE greg
  BY DEF data_read_cb
<1>4. n \in Nat /\ n <= MaxBufferSizeW /\ n <= gsize - gpos
  BY <1>1, <1>3, GridFTPAssumption DEF Smaller
<1>5. gpos' \in 0 .. gsize /\ gbuf' \in [1 .. MaxBufferSizeW -> Nat]
  BY <1>1, <1>3, <1>4 DEF GftpTypes
<1>6. gshort' \in BOOLEAN /\ greg' \in [len : Nat, eof : BOOLEAN, on : BOOLEAN]
  BY <1>3 DEF GftpTypes, None
<1>7. GftpTypes'
  BY <1>1, <1>5, <1>6 DEF GftpTypes
<1>8. ~gshort' => gfile' = Bytes(0, gpos')
  <2> SUFFICES ASSUME ~gshort' PROVE gfile' = Bytes(0, gpos')
    OBVIOUS
  <2>1. ~gshort /\ gfile = Bytes(0, gpos)
    BY <1>1, <1>2, <1>3 DEF GftpGetInv
  <2>2. IF eof THEN ~(n > 0) ELSE ~(n < MaxBufferSizeW)
    BY <1>3
  <2>3. CASE eof
    <3>1. n = 0
      BY <1>4, <2>2, <2>3
    <3>2. gpos' = gpos
      BY <1>1, <1>3, <3>1
    <3> QED
      BY <1>3, <2>1, <2>3, <3>2
  <2>4. CASE ~eof
    <3>1. n = MaxBufferSizeW
      BY <1>4, <2>2, <2>4, GridFTPAssumption
    <3>2. gbuf' \in Seq(Nat) /\ Len(gbuf') = n /\ \A i \in 1 .. n : gbuf'[i] = gpos + i
      BY <1>3, <1>5, <3>1, GridFTPAssumption
    <3>3. gpos \in Nat
      BY <1>1
    <3>4. Bytes(0, gpos) \o gbuf' = Bytes(0, gpos + n)
      BY <1>4, <3>2, <3>3, BytesGrow
    <3> QED
      BY <1>3, <2>1, <2>4, <3>4
  <2> QED
    BY <2>3, <2>4
<1>9. ~greg'.on => gpos' = gsize
  BY <1>1, <1>3 DEF None
<1>10. GftpGetInv'
  BY <1>1, <1>8, <1>9 DEF GftpGetInv
<1> QED
  BY <1>1, <1>2, <1>7, <1>10 DEF GftpUnbegun, GftpPutInv, GftpOver, ReadWhole

\* done_cb sets done when nothing is registered any more.
LEMMA DoneCbKeeps == ASSUME GftpInv, done_cb PROVE GftpInv'
<1> USE DEF GftpInv
<1>1. /\ gpc \in {"wait", "blocked"} /\ gover = "no"
      /\ UNCHANGED <<gop, gsize, gdirs, gpc, gpos, gbuf, greg, gfile, gread, gshort>>
  BY DEF done_cb
<1>2. \/ ~greg.on /\ gover' = "ok" /\ gdone' = TRUE
      \/ gover' = "err" /\ gdone' = gdone
  BY DEF done_cb
<1>3. GftpTypes'
  BY <1>1, <1>2 DEF GftpTypes
<1>4. GftpOver'
  BY <1>1, <1>2 DEF GftpOver
<1> QED
  BY <1>1, <1>3, <1>4 DEF GftpUnbegun, GftpPutInv, GftpGetInv, ReadWhole

\* A caller that returns 0 has seen done.
LEMMA GftpWaitKeeps == ASSUME GftpInv, Wait PROVE GftpInv'
<1> USE DEF GftpInv
<1>1. /\ gpc = "wait" /\ gpc' \in {"ok", "blocked"} /\ (gpc' = "ok" => gdone)
      /\ UNCHANGED <<gop, gsize, gdirs, gdone, gpos, gbuf, greg, gfile, gover, gread, gshort>>
  BY DEF Wait
<1> QED
  BY <1>1 DEF GftpTypes, GftpPc, GftpUnbegun, GftpPutInv, GftpGetInv, GftpOver, ReadWhole

\* The destination reads the file a put has ended well with, or finds none.
LEMMA ReadDelKeeps == ASSUME GftpInv, read_del_datafile PROVE GftpInv'
<1> USE DEF GftpInv
<1>1. /\ gop = "put" /\ gpc \in {"ok", "err"} /\ gread' = read_file
      /\ UNCHANGED <<gop, gsize, gdirs, gpc, gdone, gpos, gbuf, greg, gfile, gover, gshort>>
  BY DEF read_del_datafile
<1>2. CASE gpc = "err"
  <2>1. gread'.how = "thrown"
    BY <1>1, <1>2 DEF read_file, GftpUnbegun, NoText
  <2> QED
    BY <1>1, <2>1 DEF GftpTypes, GftpUnbegun, GftpPutInv, GftpGetInv, GftpOver, ReadWhole
<1>3. CASE gpc = "ok"
  <2>1. gfile = Bytes(0, gsize)
    BY <1>1, <1>3 DEF GftpPutInv, GftpOver
  <2>2. gread'.text = gfile
    BY <1>1, <1>3 DEF read_file
  <2> QED
    BY <1>1, <2>1, <2>2 DEF GftpTypes, GftpUnbegun, GftpPutInv, GftpGetInv, GftpOver, ReadWhole
<1> QED
  BY <1>1, <1>2, <1>3

\* Over GridFTP, what the destination of a put reads is the whole file, a get that
\* returns 0 has left the file as it was sent unless a read was short or came with the
\* end, and a caller that looks at done after the end does not block, for files and
\* buffers of any size (gridftp_put_file, gridftp_get_file and their callbacks).
THEOREM FilesHold == GftpSpec => FilesSound
<1>1. GftpInit => GftpInv
  <2> SUFFICES ASSUME GftpInit PROVE GftpInv
    OBVIOUS
  <2>1. GftpTypes
    <3>1. gsize \in Nat /\ gpos \in 0 .. gsize
      BY GridFTPAssumption DEF GftpInit, GftpStart
    <3>2. gbuf \in [1 .. MaxBufferSizeW -> Nat]
      BY DEF GftpInit, GftpStart
    <3>3. greg \in [len : Nat, eof : BOOLEAN, on : BOOLEAN]
      <4>1. greg = None
        BY DEF GftpInit, GftpStart
      <4> QED
        BY <4>1 DEF None
    <3>4. gdone \in BOOLEAN /\ gshort \in BOOLEAN
      BY DEF GftpInit, GftpStart
    <3>5. gop \in {"put", "get"} /\ gpc = "start" /\ gover = "no"
      BY DEF GftpInit, GftpStart
    <3> QED
      BY <3>1, <3>2, <3>3, <3>4, <3>5 DEF GftpTypes, GftpPc
  <2>2. GftpUnbegun /\ GftpPutInv /\ GftpGetInv /\ GftpOver
    BY DEF GftpInit, GftpStart, GftpUnbegun, GftpPutInv, GftpGetInv, GftpOver
  <2>3. ReadWhole
    BY DEF GftpInit, GftpStart, ReadWhole, NoText
  <2> QED
    BY <2>1, <2>2, <2>3 DEF GftpInv
<1>2. GftpInv /\ [GftpNext]_gvars => GftpInv'
  <2>1. GftpInv /\ UNCHANGED gvars => GftpInv'
    BY DEF gvars, GftpInv, GftpTypes, GftpUnbegun, GftpPutInv, GftpGetInv, GftpOver, ReadWhole
  <2> QED
    BY <2>1, PutStartKeeps, WriteCbKeeps, GetFileStartKeeps, ReadCbKeeps, DoneCbKeeps, GftpWaitKeeps,
       ReadDelKeeps DEF GftpNext
<1>3. GftpInv => ReadWhole /\ GetExact
  BY DEF GftpInv, GftpGetInv, GftpOver, GetExact
<1>4. GftpInv /\ [GftpNext]_gvars => [gpc = "wait" /\ gpc' = "blocked" => gover # "ok"]_gvars
  <2> SUFFICES ASSUME GftpInv, GftpNext, gpc = "wait", gpc' = "blocked" PROVE gover # "ok"
    BY DEF gvars
  <2>1. Wait
    BY DEF GftpNext, PutStart, data_write_cb, GetFileStart, data_read_cb, done_cb, read_del_datafile
  <2>2. ~gdone
    BY <2>1 DEF Wait
  <2> QED
    BY <2>2 DEF GftpInv, GftpOver
<1> QED
  BY <1>1, <1>2, <1>3, <1>4, PTL DEF GftpSpec, FilesSound, EndSeen

-----------------------------------------------------------------------------
(* TcpStream: the inductive invariant.                                      *)

TcpByte == [of : {"id", "digits", "data", "nul", "junk"}, i : Int]

\* All a put sends: two blocks, and the data.
TcpSent ==
    [k \in Nat \ {0} |->
        IF k <= IdMax THEN Block(TcpBytes("id", transfer.idlen))[k]
        ELSE IF k <= 2 * IdMax THEN Block(SizeText(DataSize))[k - IdMax]
        ELSE Byte("data", k - 2 * IdMax)]

\* How much of it was written, and how much was read.
TcpWritten ==
    CASE tclient.pc = "id" -> 0 [] tclient.pc = "size" -> IdMax
      [] OTHER -> 2 * IdMax + DataSize - tclient.left
TcpRead ==
    CASE tserver.pc = "size" -> IdMax [] tserver.pc = "data" -> 2 * IdMax + tserver.size - tserver.left
      [] OTHER -> 0

TcpOver == {"notified", "silent", "terminated"}

TcpTypes ==
    /\ transfer \in Transfer
    /\ tclient \in [pc : {"new", "refused", "id", "size", "data", "sent", "failed", "returned", "terminated"},
                    left : Int]
    /\ tserver \in [pc : {"accept", "id", "size", "data"} \cup TcpOver, id : Seq(TcpByte),
                    size : Int, left : Int]
    /\ tconn \in {"no", "refused", "up", "ended", "closed", "broken"}
    /\ tstream \in Seq(TcpByte) /\ given \in Seq(TcpByte)

\* Where the client is, and what it has left to send.
TcpClientAt ==
    /\ tconn = "no" <=> tclient.pc \in {"new", "refused"}
    /\ tconn = "up" => tclient.pc \in {"id", "size", "data"}
    /\ tconn = "ended" => tclient.pc \in {"sent", "returned"} /\ tclient.left = 0
    /\ tclient.pc \in {"id", "size"} => tclient.left = DataSize
    /\ tclient.pc = "data" => tclient.left \in 0 .. DataSize

\* Where the server is, and what it has made of what it read.
TcpServerAt ==
    /\ tconn \in {"no", "refused"} => tserver.pc = "accept" /\ tstream = <<>>
    /\ tconn = "closed" => tserver.pc \in TcpOver
    /\ tserver.pc \in {"accept", "id", "size"} => given = <<>>
    /\ tserver.pc \in {"size", "data"} => tserver.id = TcpBytes("id", transfer.idlen)
    /\ tserver.pc = "data" => /\ tserver.size = DataSize /\ tserver.left \in 0 .. DataSize
                              /\ given = TcpBytes("data", DataSize - tserver.left)

\* What is on its way is what was written and not read, until the connection breaks.
TcpOnWay ==
    tserver.pc \notin TcpOver =>
        /\ \A i \in 1 .. Len(tstream) : tstream[i] = TcpSent[TcpRead + i]
        /\ tconn \in {"up", "ended"} => TcpRead + Len(tstream) = TcpWritten

\* Nothing is known of a transfer that does not fit.
TcpGood == TcpTypes /\ TcpClientAt /\ TcpServerAt /\ TcpOnWay /\ TcpExact /\ TcpSilentOnlyIf
TcpInv  == Fits => TcpGood

-----------------------------------------------------------------------------
(* Streams.                                                                 *)

\* A stream whose bytes are those of f behind r, continued by those that follow.
LEMMA StreamAppend ==
    ASSUME NEW S, NEW f, NEW r \in Nat, NEW s \in Seq(S), NEW b \in Seq(S),
           \A i \in 1 .. Len(s) : s[i] = f[r + i],
           \A i \in 1 .. Len(b) : b[i] = f[r + Len(s) + i]
    PROVE  /\ s \o b \in Seq(S) /\ Len(s \o b) = Len(s) + Len(b)
           /\ \A i \in 1 .. Len(s \o b) : (s \o b)[i] = f[r + i]
<1>1. /\ s \o b \in Seq(S) /\ Len(s \o b) = Len(s) + Len(b)
      /\ \A i \in 1 .. Len(s) + Len(b) : (s \o b)[i] = IF i <= Len(s) THEN s[i] ELSE b[i - Len(s)]
  BY ConcatProperties
<1>2. Len(s) \in Nat /\ Len(b) \in Nat
  BY LenProperties
<1>3. ASSUME NEW i \in 1 .. Len(s) + Len(b) PROVE (s \o b)[i] = f[r + i]
  <2>1. CASE i <= Len(s)
    BY <1>1, <1>2, <2>1
  <2>2. CASE i > Len(s)
    <3>1. i - Len(s) \in 1 .. Len(b) /\ r + Len(s) + (i - Len(s)) = r + i
      BY <1>2, <2>2
    <3>2. b[i - Len(s)] = f[r + Len(s) + (i - Len(s))]
      BY <3>1
    <3> QED
      BY <1>1, <1>2, <2>2, <3>1, <3>2
  <2>3. i <= Len(s) \/ i > Len(s)
    BY <1>2
  <2> QED
    BY <2>1, <2>2, <2>3
<1> QED
  BY <1>1, <1>3

\* What is left of it when n bytes were read.
LEMMA StreamRest ==
    ASSUME NEW S, NEW f, NEW r \in Nat, NEW s \in Seq(S), NEW n \in Nat, n <= Len(s),
           \A i \in 1 .. Len(s) : s[i] = f[r + i]
    PROVE  /\ SubSeq(s, n + 1, Len(s)) \in Seq(S) /\ Len(SubSeq(s, n + 1, Len(s))) = Len(s) - n
           /\ \A i \in 1 .. Len(s) - n : SubSeq(s, n + 1, Len(s))[i] = f[r + n + i]
<1> DEFINE q == SubSeq(s, n + 1, Len(s))
<1>1. Len(s) \in Nat /\ \A i \in 1 .. Len(s) : s[i] \in S
  BY LenProperties
<1>2. \A i \in n + 1 .. Len(s) : s[i] \in S
  BY <1>1
<1>3. /\ q \in Seq(S) /\ Len(q) = IF n + 1 <= Len(s) THEN Len(s) - (n + 1) + 1 ELSE 0
      /\ \A i \in 1 .. Len(s) - (n + 1) + 1 : q[i] = s[n + 1 + i - 1]
  BY <1>1, <1>2, SubSeqProperties
<1> HIDE DEF q
<1>4. Len(q) = Len(s) - n
  BY <1>1, <1>3
<1>5. ASSUME NEW i \in 1 .. Len(s) - n PROVE q[i] = f[r + n + i]
  <2>1. i \in 1 .. Len(s) - (n + 1) + 1 /\ n + 1 + i - 1 = n + i /\ n + i \in 1 .. Len(s)
    BY <1>1
  <2>2. q[i] = s[n + i]
    BY <1>3, <2>1
  <2>3. s[n + i] = f[r + (n + i)] /\ r + (n + i) = r + n + i
    BY <2>1
  <2> QED
    BY <2>2, <2>3
<1> QED
  BY <1>3, <1>4, <1>5 DEF q

\* And what was read.
LEMMA StreamFirst ==
    ASSUME NEW S, NEW s \in Seq(S), NEW n \in Nat, n <= Len(s)
    PROVE  /\ SubSeq(s, 1, n) \in Seq(S) /\ Len(SubSeq(s, 1, n)) = n
           /\ \A i \in 1 .. n : SubSeq(s, 1, n)[i] = s[i]
<1> DEFINE q == SubSeq(s, 1, n)
<1>1. Len(s) \in Nat /\ \A i \in 1 .. Len(s) : s[i] \in S
  BY LenProperties
<1>2. \A i \in 1 .. n : s[i] \in S
  BY <1>1
<1>3. /\ q \in Seq(S) /\ Len(q) = IF 1 <= n THEN n - 1 + 1 ELSE 0
      /\ \A i \in 1 .. n - 1 + 1 : q[i] = s[1 + i - 1]
  BY <1>2, SubSeqProperties
<1> HIDE DEF q
<1>4. Len(q) = n /\ \A i \in 1 .. n : q[i] = s[i]
  BY <1>3
<1> QED
  BY <1>3, <1>4 DEF q

\* A text that has no end within it and leaves room for one is read back from its block.
LEMMA TextBack ==
    ASSUME NEW text \in Seq(TcpByte), Len(text) < IdMax, \A i \in 1 .. Len(text) : text[i] # Nul,
           NEW b \in Seq(TcpByte), Len(b) = IdMax, \A i \in 1 .. IdMax : b[i] = Block(text)[i]
    PROVE  TextOf(b) = text
<1> DEFINE e == Len(text) + 1
           ends == {i \in 1 .. Len(b) : b[i] = Nul}
           q == SubSeq(b, 1, Len(text))
<1>1. Len(text) \in Nat /\ IdMax \in Nat
  BY TcpAssumption, LenProperties
<1>2. \A i \in 1 .. IdMax : b[i] = IF i <= Len(text) THEN text[i]
                                    ELSE IF i = Len(text) + 1 THEN Nul ELSE Byte("junk", i)
  BY DEF Block
<1>3. \A i \in 1 .. IdMax : Byte("junk", i) # Nul
  BY DEF Byte, Nul
<1>4. ends = {e}
  <2>1. e \in 1 .. Len(b) /\ ~(e <= Len(text))
    BY <1>1
  <2>2. b[e] = Nul
    BY <1>2, <2>1
  <2>3. ASSUME NEW i \in 1 .. Len(b), i # e PROVE b[i] # Nul
    <3>1. CASE i <= Len(text)
      BY <1>1, <1>2, <3>1
    <3>2. CASE ~(i <= Len(text))
      BY <1>2, <1>3, <2>3, <3>2
    <3> QED
      BY <3>1, <3>2
  <2> QED
    BY <2>1, <2>2, <2>3
<1>5. (CHOOSE i \in ends : \A j \in ends : i <= j) = e
  <2>1. e <= e
    BY <1>1
  <2> HIDE DEF e, ends
  <2> QED
    BY <1>4, <2>1
<1>6. TextOf(b) = SubSeq(b, 1, e - 1)
  <2>1. ends # {}
    BY <1>4
  <2>2. TextOf(b) = IF ends = {} THEN Append(b, Byte("junk", 0))
                    ELSE SubSeq(b, 1, (CHOOSE i \in ends : \A j \in ends : i <= j) - 1)
    BY DEF TextOf
  <2> HIDE DEF e, ends
  <2> QED
    BY <1>5, <2>1, <2>2
<1>7. e - 1 = Len(text)
  BY <1>1
<1>8. q \in Seq(TcpByte) /\ Len(q) = Len(text) /\ \A i \in 1 .. Len(text) : q[i] = b[i]
  BY <1>1, StreamFirst
<1>9. \A i \in 1 .. Len(text) : q[i] = text[i]
  BY <1>1, <1>2, <1>8
<1>10. q = text
  <2> HIDE DEF q
  <2> QED
    BY <1>8, <1>9, SeqEqual
<1> QED
  BY <1>6, <1>7, <1>10

\* The data received so far, continued.
LEMMA DataGrows ==
    ASSUME NEW k \in Nat, NEW t \in Seq(TcpByte), \A i \in 1 .. Len(t) : t[i] = Byte("data", k + i)
    PROVE  TcpBytes("data", k) \o t = TcpBytes("data", k + Len(t))
<1> DEFINE b == TcpBytes("data", k)
           w == TcpBytes("data", k + Len(t))
<1>1. Len(t) \in Nat
  BY LenProperties
<1>2. b \in Seq(TcpByte) /\ Len(b) = k /\ \A i \in 1 .. k : b[i] = Byte("data", i)
  BY DEF TcpBytes, TcpByte, Byte
<1>3. w \in Seq(TcpByte) /\ Len(w) = k + Len(t) /\ \A i \in 1 .. k + Len(t) : w[i] = Byte("data", i)
  BY <1>1 DEF TcpBytes, TcpByte, Byte
<1> HIDE DEF b, w
<1>5. b \in Seq(TcpByte)
  BY <1>2
<1>6. /\ b \o t \in Seq(TcpByte) /\ Len(b \o t) = Len(b) + Len(t)
      /\ \A i \in 1 .. Len(b) + Len(t) : (b \o t)[i] = IF i <= Len(b) THEN b[i] ELSE t[i - Len(b)]
  BY <1>5, ConcatProperties
<1>7. ASSUME NEW i \in 1 .. k + Len(t) PROVE (b \o t)[i] = w[i]
  <2>0. (b \o t)[i] = IF i <= k THEN b[i] ELSE t[i - k]
    BY <1>2, <1>6
  <2>1. CASE i <= k
    <3>1. i \in 1 .. k
      BY <1>1, <2>1
    <3> QED
      BY <1>2, <1>3, <2>0, <2>1, <3>1
  <2>2. CASE ~(i <= k)
    <3>1. i - k \in 1 .. Len(t) /\ k + (i - k) = i
      BY <1>1, <2>2
    <3>2. t[i - k] = Byte("data", k + (i - k))
      BY <3>1
    <3> QED
      BY <1>3, <2>0, <2>2, <3>1, <3>2
  <2> QED
    BY <2>1, <2>2
<1>8. b \o t = w
  BY <1>2, <1>3, <1>6, <1>7, SeqEqual
<1> QED
  BY <1>8 DEF b, w

-----------------------------------------------------------------------------
(* The steps, for an id and a size that fit.                                *)

\* What a put sends is fixed by the transfer.
LEMMA TcpFixed ==
    ASSUME transfer' = transfer
    PROVE  DataSize' = DataSize /\ TcpSent' = TcpSent /\ (Fits' <=> Fits)
BY DEF DataSize, TcpSent, Fits

\* The size is that of the data, and the texts leave room in their blocks.
LEMMA TcpSizes ==
    ASSUME Fits, transfer \in Transfer
    PROVE  /\ DataSize \in Nat /\ DataSize = transfer.length * ElementSize(transfer.type)
           /\ transfer.idlen \in Nat /\ transfer.idlen < IdMax
           /\ IdMax \in Nat /\ IdMax >= 2 /\ SendChunkSize \in Nat \ {0} /\ RecvChunkSize \in Nat \ {0}
<1>1. transfer.idlen \in Nat /\ transfer.length \in Nat
  BY TcpAssumption
<1>2. ElementSize(transfer.type) \in Nat
  BY DEF ElementSize
<1>3. \A m, n \in Nat : m * n \in Nat
  OBVIOUS
<1>4. DataSize = transfer.length * ElementSize(transfer.type) /\ transfer.idlen < IdMax
  BY DEF Fits
<1>5. DataSize \in Nat
  BY <1>1, <1>2, <1>3, <1>4
<1>6. IdMax \in Nat /\ IdMax >= 2 /\ SendChunkSize \in Nat \ {0} /\ RecvChunkSize \in Nat \ {0}
  BY TcpAssumption
<1> QED
  BY <1>1, <1>4, <1>5, <1>6

\* The texts of the blocks.
LEMMA TcpTexts ==
    ASSUME Fits, transfer \in Transfer
    PROVE  /\ TcpBytes("id", transfer.idlen) \in Seq(TcpByte)
           /\ Len(TcpBytes("id", transfer.idlen)) = transfer.idlen
           /\ \A i \in 1 .. transfer.idlen : TcpBytes("id", transfer.idlen)[i] # Nul
           /\ SizeText(DataSize) \in Seq(TcpByte) /\ Len(SizeText(DataSize)) = 1
           /\ SizeText(DataSize)[1] # Nul /\ IsSize(SizeText(DataSize))
           /\ SizeText(DataSize)[1].i = DataSize
<1>1. transfer.idlen \in Nat /\ DataSize \in Nat
  BY TcpSizes
<1>2. /\ TcpBytes("id", transfer.idlen) \in Seq(TcpByte)
      /\ Len(TcpBytes("id", transfer.idlen)) = transfer.idlen
      /\ \A i \in 1 .. transfer.idlen : TcpBytes("id", transfer.idlen)[i] # Nul
  <2>1. \A i \in 1 .. transfer.idlen : Byte("id", i) \in TcpByte /\ Byte("id", i) # Nul
    BY <1>1 DEF TcpByte, Byte, Nul
  <2> QED
    BY <1>1, <2>1 DEF TcpBytes
<1>3. /\ SizeText(DataSize) \in Seq(TcpByte) /\ Len(SizeText(DataSize)) = 1
      /\ SizeText(DataSize)[1] = Byte("digits", DataSize)
  BY <1>1 DEF SizeText, TcpByte, Byte
<1>4. /\ Byte("digits", DataSize) # Nul /\ Byte("digits", DataSize).of = "digits"
      /\ Byte("digits", DataSize).i = DataSize
  BY DEF Byte, Nul
<1> QED
  BY <1>2, <1>3, <1>4 DEF IsSize

\* A block has the length of a block, and bytes.
LEMMA BlockTyped ==
    ASSUME NEW text \in Seq(TcpByte)
    PROVE  Block(text) \in Seq(TcpByte) /\ Len(Block(text)) = IdMax
<1>1. IdMax \in Nat /\ Len(text) \in Nat /\ \A i \in 1 .. Len(text) : text[i] \in TcpByte
  BY TcpAssumption, LenProperties
<1>2. Nul \in TcpByte /\ \A i \in 1 .. IdMax : Byte("junk", i) \in TcpByte
  BY DEF Nul, Byte, TcpByte
<1>3. \A i \in 1 .. IdMax : (IF i <= Len(text) THEN text[i]
                             ELSE IF i = Len(text) + 1 THEN Nul ELSE Byte("junk", i)) \in TcpByte
  BY <1>1, <1>2
<1> QED
  BY <1>1, <1>3 DEF Block

\* The places of the blocks and of the data in what is sent.
LEMMA TcpSentAt ==
    ASSUME Fits, transfer \in Transfer
    PROVE  /\ \A i \in 1 .. IdMax : TcpSent[0 + i] = Block(TcpBytes("id", transfer.idlen))[i]
           /\ \A i \in 1 .. IdMax : TcpSent[IdMax + i] = Block(SizeText(DataSize))[i]
           /\ \A i \in Nat \ {0} : TcpSent[2 * IdMax + i] = Byte("data", i)
<1>1. IdMax \in Nat
  BY TcpAssumption
<1>0. \A k \in Nat \ {0} :
        TcpSent[k] = IF k <= IdMax THEN Block(TcpBytes("id", transfer.idlen))[k]
                     ELSE IF k <= 2 * IdMax THEN Block(SizeText(DataSize))[k - IdMax]
                     ELSE Byte("data", k - 2 * IdMax)
  BY DEF TcpSent
<1>2. \A i \in 1 .. IdMax : TcpSent[0 + i] = Block(TcpBytes("id", transfer.idlen))[i]
  BY <1>0, <1>1
<1>3. ASSUME NEW i \in 1 .. IdMax PROVE TcpSent[IdMax + i] = Block(SizeText(DataSize))[i]
  <2> DEFINE k == IdMax + i
  <2>1. k \in Nat \ {0} /\ ~(k <= IdMax) /\ k <= 2 * IdMax /\ k - IdMax = i
    BY <1>1
  <2> HIDE DEF k
  <2>2. TcpSent[k] = Block(SizeText(DataSize))[k - IdMax]
    BY <1>0, <2>1
  <2> QED
    BY <2>1, <2>2 DEF k
<1>4. ASSUME NEW i \in Nat \ {0} PROVE TcpSent[2 * IdMax + i] = Byte("data", i)
  <2> DEFINE k == 2 * IdMax + i
  <2>1. k \in Nat \ {0} /\ ~(k <= IdMax) /\ ~(k <= 2 * IdMax) /\ k - 2 * IdMax = i
    BY <1>1
  <2> HIDE DEF k
  <2>2. TcpSent[k] = Byte("data", k - 2 * IdMax)
    BY <1>0, <2>1
  <2> QED
    BY <2>1, <2>2 DEF k
<1> QED
  BY <1>2, <1>3, <1>4

\* The client's steps leave what the server has read alone.
LEMMA TcpClientFrame ==
    ASSUME Fits, TcpGood, UNCHANGED <<transfer, tserver, given, stopped>>,
           \/ tconn' = tconn
           \/ tconn = "up" /\ tconn' = "ended"
           \/ tconn = "no" /\ tconn' \in {"refused", "up"},
           tconn' \in {"no", "refused"} => tstream' = tstream
    PROVE  TcpServerAt' /\ TcpExact' /\ TcpSilentOnlyIf' /\ TcpRead' = TcpRead
<1>1. DataSize' = DataSize /\ (Fits' <=> Fits)
  BY TcpFixed
<1>2. TcpServerAt'
  BY <1>1 DEF TcpGood, TcpServerAt
<1>3. TcpExact' /\ TcpSilentOnlyIf'
  BY <1>1 DEF TcpGood, TcpExact, TcpSilentOnlyIf
<1>4. TcpRead' = TcpRead
  BY DEF TcpRead
<1> QED
  BY <1>2, <1>3, <1>4

\* A write of what follows keeps the stream as it was sent.
LEMMA TcpWrites ==
    ASSUME Fits, TcpGood, NEW b \in Seq(TcpByte),
           UNCHANGED <<transfer, tserver, given, stopped, tconn>>, tconn = "up", tstream' = tstream \o b,
           \A i \in 1 .. Len(b) : b[i] = TcpSent[TcpWritten + i],
           TcpWritten' = TcpWritten + Len(b)
    PROVE  tstream' \in Seq(TcpByte) /\ TcpOnWay'
<1> USE DEF TcpGood
<1>1. tstream \in Seq(TcpByte) /\ Len(tstream) \in Nat /\ Len(b) \in Nat
  BY LenProperties DEF TcpTypes
<1>2. tstream' \in Seq(TcpByte) /\ Len(tstream') = Len(tstream) + Len(b)
  BY <1>1, ConcatProperties
<1>3. TcpSent' = TcpSent /\ TcpRead' = TcpRead /\ tserver'.pc = tserver.pc
  BY TcpFixed DEF TcpRead
<1>4. CASE tserver.pc \notin TcpOver
  <2>1. TcpRead \in Nat
    BY <1>4, TcpSizes DEF TcpRead, TcpTypes, TcpServerAt, TcpOver
  <2>2. TcpRead + Len(tstream) = TcpWritten /\ \A i \in 1 .. Len(tstream) : tstream[i] = TcpSent[TcpRead + i]
    BY <1>4 DEF TcpOnWay
  <2>3. \A i \in 1 .. Len(b) : b[i] = TcpSent[TcpRead + Len(tstream) + i]
    BY <2>2
  <2>4. \A i \in 1 .. Len(tstream \o b) : (tstream \o b)[i] = TcpSent[TcpRead + i]
    <3> DEFINE f == TcpSent
               r == TcpRead
    <3>1. r \in Nat /\ (\A i \in 1 .. Len(tstream) : tstream[i] = f[r + i])
          /\ \A i \in 1 .. Len(b) : b[i] = f[r + Len(tstream) + i]
      BY <2>1, <2>2, <2>3
    <3> HIDE DEF f, r
    <3>2. \A i \in 1 .. Len(tstream \o b) : (tstream \o b)[i] = f[r + i]
      BY <1>1, <3>1, StreamAppend
    <3> QED
      BY <3>2 DEF f, r
  <2>5. TcpRead + Len(tstream') = TcpWritten'
    BY <1>1, <1>2, <2>1, <2>2
  <2> QED
    BY <1>2, <1>3, <2>4, <2>5 DEF TcpOnWay
<1>5. CASE tserver.pc \in TcpOver
  BY <1>2, <1>3, <1>5 DEF TcpOnWay
<1> QED
  BY <1>4, <1>5

\* A step of the client that puts nothing on the stream.
LEMMA TcpNoWrite ==
    ASSUME Fits, TcpGood, UNCHANGED <<transfer, tserver, given, stopped, tstream>>,
           tconn' \in {"up", "ended"} => tconn \in {"up", "ended"} /\ TcpWritten' = TcpWritten
    PROVE  TcpOnWay'
<1>1. TcpSent' = TcpSent /\ TcpRead' = TcpRead
  BY TcpFixed DEF TcpRead
<1> QED
  BY <1>1 DEF TcpGood, TcpOnWay

\* init_put of a type it does not know; the constructor connects, or does not.
LEMMA TcpConnectKeeps == ASSUME Fits, TcpGood, PutUnknown \/ TcpConnect PROVE TcpGood'
<1> USE DEF TcpGood
<1>0. DataSize' = DataSize /\ TcpSent' = TcpSent /\ DataSize \in Int /\ TcpRead' = TcpRead /\ IdMax \in Nat
  BY TcpFixed, TcpSizes DEF PutUnknown, TcpConnect, TcpTypes, TcpRead
<1>1. /\ tclient.pc = "new" /\ tconn = "no" /\ tserver.pc = "accept" /\ tstream = <<>>
      /\ UNCHANGED <<transfer, tserver, given, stopped, tstream>>
  BY DEF PutUnknown, TcpConnect, TcpClientAt, TcpServerAt
<1>2. CASE PutUnknown
  <2>1. tclient' = [tclient EXCEPT !.pc = "refused"] /\ tconn' = tconn
    BY <1>2 DEF PutUnknown, Client
  <2>2. TcpTypes' /\ TcpClientAt'
    BY <1>0, <1>1, <2>1 DEF TcpTypes, TcpClientAt
  <2>3. TcpServerAt' /\ TcpExact' /\ TcpSilentOnlyIf'
    BY <1>1, <2>1, TcpClientFrame
  <2>4. TcpOnWay'
    BY <1>1, <2>1, TcpNoWrite
  <2> QED
    BY <2>2, <2>3, <2>4
<1>3. CASE TcpConnect
  <2>1. tclient' = [pc |-> "id", left |-> DataSize] /\ tconn' \in {"refused", "up"}
    BY <1>3 DEF TcpConnect, ConnectOutcome
  <2>2. TcpTypes' /\ TcpClientAt'
    BY <1>0, <1>1, <2>1 DEF TcpTypes, TcpClientAt
  <2>3. TcpServerAt' /\ TcpExact' /\ TcpSilentOnlyIf'
    BY <1>1, <2>1, TcpClientFrame
  <2>4. TcpOnWay'
    <3>1. TcpWritten' = 0 /\ TcpRead' = 0 /\ Len(tstream') = 0
      BY <1>0, <1>1, <2>1 DEF TcpWritten, TcpRead
    <3> QED
      BY <3>1 DEF TcpOnWay
  <2> QED
    BY <2>2, <2>3, <2>4
<1> QED
  BY <1>2, <1>3

\* A block that is written is the next one, and one that is not has no connection.
LEMMA TcpControlKeeps ==
    ASSUME Fits, TcpGood, SendId \/ SendSize
    PROVE  TcpGood'
<1> USE DEF TcpGood
<1>0. /\ UNCHANGED <<transfer, tserver, tconn, given, stopped>>
      /\ DataSize' = DataSize /\ DataSize \in Nat /\ IdMax \in Nat /\ TcpRead' = TcpRead
      /\ tclient.pc \in {"id", "size"} /\ tclient.left = DataSize
  <2>1. UNCHANGED <<transfer, tserver, tconn, given, stopped>> /\ tclient.pc \in {"id", "size"}
    BY DEF SendId, SendSize, SendControl
  <2> QED
    BY <2>1, TcpFixed, TcpSizes DEF TcpTypes, TcpClientAt, TcpRead
<1>1. /\ TcpBytes("id", transfer.idlen) \in Seq(TcpByte) /\ SizeText(DataSize) \in Seq(TcpByte)
      /\ Block(TcpBytes("id", transfer.idlen)) \in Seq(TcpByte) /\ Block(SizeText(DataSize)) \in Seq(TcpByte)
      /\ Len(Block(TcpBytes("id", transfer.idlen))) = IdMax /\ Len(Block(SizeText(DataSize))) = IdMax
  BY TcpTexts, BlockTyped DEF TcpTypes
<1>2. /\ ~(Len(TcpBytes("id", transfer.idlen)) > IdMax) /\ ~(Len(SizeText(DataSize)) > IdMax)
  <2>1. transfer \in Transfer
    BY DEF TcpTypes
  <2>2. Len(TcpBytes("id", transfer.idlen)) = transfer.idlen /\ Len(SizeText(DataSize)) = 1
    BY <2>1, TcpTexts
  <2>3. transfer.idlen \in Nat /\ transfer.idlen < IdMax /\ IdMax >= 2
    BY <2>1, TcpSizes
  <2> QED
    BY <1>0, <2>2, <2>3
<1>3. PICK b \in Seq(TcpByte), next \in {"size", "data"} :
        /\ Write(b, next) /\ Len(b) = IdMax
        /\ tclient.pc = "id" => next = "size" /\ b = Block(TcpBytes("id", transfer.idlen))
        /\ tclient.pc = "size" => next = "data" /\ b = Block(SizeText(DataSize))
  <2>1. CASE SendId
    BY <1>1, <1>2, <2>1 DEF SendId, SendControl
  <2>2. CASE SendSize
    BY <1>1, <1>2, <2>2 DEF SendSize, SendControl
  <2> QED
    BY <2>1, <2>2
<1>4. TcpServerAt' /\ TcpExact' /\ TcpSilentOnlyIf'
  <2>1. tconn' \in {"no", "refused"} => tstream' = tstream
    BY <1>0, <1>3 DEF Write
  <2> QED
    BY <1>0, <2>1, TcpClientFrame
<1>5. CASE tconn = "up" /\ tstream' = tstream \o b /\ Client(next)
  <2>1. tclient' = [tclient EXCEPT !.pc = next]
    BY <1>5 DEF Client
  <2>2. TcpClientAt'
    BY <1>0, <1>5, <2>1 DEF TcpTypes, TcpClientAt
  <2>3. TcpWritten \in Nat /\ TcpWritten' = TcpWritten + Len(b)
    BY <1>0, <1>3, <2>1 DEF TcpTypes, TcpWritten
  <2>4. \A i \in 1 .. Len(b) : b[i] = TcpSent[TcpWritten + i]
    BY <1>0, <1>3, TcpSentAt DEF TcpWritten, TcpTypes
  <2>5. tstream' \in Seq(TcpByte) /\ TcpOnWay'
    BY <1>0, <1>5, <2>3, <2>4, TcpWrites
  <2>6. TcpTypes'
    BY <1>0, <2>1, <2>5 DEF TcpTypes
  <2> QED
    BY <1>4, <2>2, <2>5, <2>6
<1>6. CASE tconn \in {"refused", "closed", "broken"} /\ tstream' = tstream /\ (Client(next) \/ Client("terminated"))
  <2>1. PICK pc \in {"size", "data", "terminated"} : tclient' = [tclient EXCEPT !.pc = pc]
    BY <1>6 DEF Client
  <2>2. TcpTypes' /\ TcpClientAt'
    BY <1>0, <1>6, <2>1 DEF TcpTypes, TcpClientAt
  <2>3. TcpOnWay'
    BY <1>0, <1>6, TcpNoWrite
  <2> QED
    BY <1>4, <2>2, <2>3
<1> QED
  BY <1>3, <1>5, <1>6 DEF Write

\* A chunk is the data that comes next.
LEMMA TcpChunkKeeps == ASSUME Fits, TcpGood, SendChunk PROVE TcpGood'
<1> USE DEF TcpGood
<1> DEFINE chunk == IF tclient.left > SendChunkSize THEN SendChunkSize ELSE tclient.left
           from == DataSize - tclient.left
           all == TcpBytes("data", DataSize)
<1>0. UNCHANGED <<transfer, tserver, tconn, given, stopped>> /\ tclient.pc = "data" /\ tclient.left > 0
  BY DEF SendChunk
<1>1. /\ DataSize' = DataSize /\ DataSize \in Nat /\ IdMax \in Nat /\ SendChunkSize \in Nat
      /\ tclient.left \in 0 .. DataSize
  BY <1>0, TcpFixed, TcpSizes DEF TcpTypes, TcpClientAt
<1>2. tconn # "no" /\ tconn # "ended"
  BY <1>0 DEF TcpClientAt
<1>3. ASSUME NEW n \in 1 .. chunk, tclient' = [tclient EXCEPT !.left = @ - n],
             tstream' = IF tconn = "up" THEN tstream \o SubSeq(all, from + 1, from + n) ELSE tstream
      PROVE  TcpGood'
  <2>1. n \in Nat /\ n <= tclient.left /\ from \in Nat /\ from + n <= DataSize
    BY <1>0, <1>1
  <2>2. /\ tclient'.pc = "data" /\ tclient'.left = tclient.left - n /\ tclient'.left \in 0 .. DataSize
        /\ tclient' \in [pc : {"new", "refused", "id", "size", "data", "sent", "failed", "returned", "terminated"},
                         left : Int]
    <3>1. tclient.left - n \in 0 .. DataSize /\ tclient.left - n \in Int
      BY <1>1, <2>1
    <3>2. tclient'.pc = "data" /\ tclient'.left = tclient.left - n
      BY <1>0, <1>3 DEF TcpTypes
    <3>3. tclient' \in [pc : {"new", "refused", "id", "size", "data", "sent", "failed", "returned", "terminated"},
                        left : Int]
      BY <1>3, <3>1 DEF TcpTypes
    <3> QED
      BY <3>1, <3>2, <3>3
  <2>3. TcpClientAt'
    BY <1>0, <1>1, <1>2, <2>2 DEF TcpTypes, TcpClientAt
  <2>4. CASE tconn = "up"
    <3> DEFINE b == SubSeq(all, from + 1, from + n)
    <3>1. all \in Seq(TcpByte) /\ Len(all) = DataSize /\ \A i \in 1 .. DataSize : all[i] = Byte("data", i)
      BY <1>1 DEF TcpBytes, TcpByte, Byte
    <3> HIDE DEF all, from
    <3>2. \A i \in from + 1 .. from + n : all[i] \in TcpByte
      BY <1>1, <2>1, <3>1 DEF TcpByte, Byte
    <3>3. /\ b \in Seq(TcpByte) /\ Len(b) = IF from + 1 <= from + n THEN from + n - (from + 1) + 1 ELSE 0
          /\ \A i \in 1 .. from + n - (from + 1) + 1 : b[i] = all[from + 1 + i - 1]
      BY <2>1, <3>2, SubSeqProperties
    <3> HIDE DEF b
    <3>4. Len(b) = n
      BY <2>1, <3>3
    <3>5. ASSUME NEW i \in 1 .. Len(b) PROVE b[i] = Byte("data", from + i)
      <4>1. i \in 1 .. from + n - (from + 1) + 1 /\ from + 1 + i - 1 = from + i /\ from + i \in 1 .. DataSize
        BY <1>1, <2>1, <3>4
      <4> QED
        BY <3>1, <3>3, <4>1
    <3>6. TcpWritten = 2 * IdMax + from /\ TcpWritten' = TcpWritten + Len(b)
      BY <1>0, <1>1, <2>1, <2>2, <3>4 DEF TcpWritten, from
    <3>7. ASSUME NEW i \in 1 .. Len(b) PROVE b[i] = TcpSent[TcpWritten + i]
      <4> DEFINE k == from + i
      <4>1. k \in Nat \ {0} /\ TcpWritten + i = 2 * IdMax + k
        BY <1>1, <2>1, <3>4, <3>6
      <4>2. b[i] = Byte("data", k)
        BY <3>5
      <4> HIDE DEF k
      <4>3. TcpSent[2 * IdMax + k] = Byte("data", k)
        BY <4>1, TcpSentAt DEF TcpTypes
      <4> QED
        BY <4>1, <4>2, <4>3
    <3>8. tstream' = tstream \o b
      BY <1>3, <2>4 DEF b
    <3>9. tstream' \in Seq(TcpByte) /\ TcpOnWay'
      BY <1>0, <2>4, <3>3, <3>6, <3>7, <3>8, TcpWrites
    <3>10. TcpTypes'
      BY <1>0, <2>2, <3>9 DEF TcpTypes
    <3>11. TcpServerAt' /\ TcpExact' /\ TcpSilentOnlyIf'
      BY <1>0, <2>4, TcpClientFrame
    <3> QED
      BY <2>3, <3>9, <3>10, <3>11
  <2>5. CASE tconn # "up"
    <3>1. tstream' = tstream
      BY <1>3, <2>5
    <3>2. TcpTypes'
      BY <1>0, <2>2, <3>1 DEF TcpTypes
    <3>3. TcpServerAt' /\ TcpExact' /\ TcpSilentOnlyIf'
      BY <1>0, <3>1, TcpClientFrame
    <3>4. TcpOnWay'
      BY <1>0, <1>2, <2>5, <3>1, TcpNoWrite
    <3> QED
      BY <2>3, <3>2, <3>3, <3>4
  <2> QED
    BY <2>4, <2>5
<1>4. ASSUME tconn \in {"closed", "broken"}, Client("failed"), tstream' = tstream PROVE TcpGood'
  <2>1. tclient' = [tclient EXCEPT !.pc = "failed"]
    BY <1>4 DEF Client
  <2>2. TcpTypes' /\ TcpClientAt'
    BY <1>0, <1>1, <1>4, <2>1 DEF TcpTypes, TcpClientAt
  <2>3. TcpServerAt' /\ TcpExact' /\ TcpSilentOnlyIf'
    BY <1>0, <1>4, TcpClientFrame
  <2>4. TcpOnWay'
    BY <1>0, <1>4, TcpNoWrite
  <2> QED
    BY <2>2, <2>3, <2>4
<1> QED
  BY <1>3, <1>4 DEF SendChunk

\* The client returns when all was sent, and closes; init_put returns.
LEMMA TcpReturnKeeps == ASSUME Fits, TcpGood, SendReturns \/ PutReturns PROVE TcpGood'
<1> USE DEF TcpGood
<1>0. UNCHANGED <<transfer, tserver, tstream, given, stopped>>
  BY DEF SendReturns, PutReturns
<1>1. DataSize' = DataSize /\ DataSize \in Nat /\ IdMax \in Nat
  BY <1>0, TcpFixed, TcpSizes DEF TcpTypes
<1>2. CASE SendReturns
  <2>1. /\ tclient.pc = "data" /\ tclient.left = 0 /\ tclient' = [tclient EXCEPT !.pc = "sent"]
        /\ tconn' = IF tconn = "up" THEN "ended" ELSE tconn
    BY <1>1, <1>2 DEF SendReturns, Client, TcpClientClose, TcpClientAt
  <2>2. TcpTypes' /\ TcpClientAt'
    BY <1>0, <1>1, <2>1 DEF TcpTypes, TcpClientAt
  <2>3. TcpServerAt' /\ TcpExact' /\ TcpSilentOnlyIf'
    BY <1>0, <2>1, TcpClientFrame
  <2>4. TcpWritten' = TcpWritten
    BY <1>1, <2>1 DEF TcpWritten, TcpTypes
  <2>5. TcpOnWay'
    BY <1>0, <2>1, <2>4, TcpNoWrite
  <2> QED
    BY <2>2, <2>3, <2>5
<1>3. CASE PutReturns
  <2>1. tclient.pc \in {"sent", "failed"} /\ tclient' = [tclient EXCEPT !.pc = "returned"] /\ tconn' = tconn
    BY <1>3 DEF PutReturns, Client
  <2>2. TcpTypes' /\ TcpClientAt'
    BY <1>0, <1>1, <2>1 DEF TcpTypes, TcpClientAt
  <2>3. TcpServerAt' /\ TcpExact' /\ TcpSilentOnlyIf'
    BY <1>0, <2>1, TcpClientFrame
  <2>4. TcpWritten' = TcpWritten
    BY <1>1, <2>1 DEF TcpWritten, TcpTypes
  <2>5. TcpOnWay'
    BY <1>0, <2>1, <2>4, TcpNoWrite
  <2> QED
    BY <2>2, <2>3, <2>5
<1> QED
  BY <1>2, <1>3

\* A read takes the bytes from the front of the stream.
LEMMA TcpReads ==
    ASSUME Fits, TcpGood, tserver.pc \notin TcpOver, NEW n \in Nat, CanRead(n), tstream' = Rest(n),
           UNCHANGED <<transfer, tclient>>
    PROVE  /\ TcpRead \in Nat /\ Len(tstream) \in Nat /\ tstream' \in Seq(TcpByte)
           /\ SubSeq(tstream, 1, n) \in Seq(TcpByte) /\ Len(SubSeq(tstream, 1, n)) = n
           /\ \A i \in 1 .. n : SubSeq(tstream, 1, n)[i] = TcpSent[TcpRead + i]
           /\ TcpRead' = TcpRead + n /\ tconn' = tconn => TcpOnWay'
<1> USE DEF TcpGood
<1>1. tstream \in Seq(TcpByte) /\ Len(tstream) \in Nat /\ n <= Len(tstream)
  BY LenProperties DEF TcpTypes, CanRead
<1>2. TcpRead \in Nat
  BY TcpSizes DEF TcpRead, TcpTypes, TcpServerAt, TcpOver
<1>3. \A i \in 1 .. Len(tstream) : tstream[i] = TcpSent[TcpRead + i]
  BY DEF TcpOnWay
<1> DEFINE f == TcpSent
           r == TcpRead
<1>4. r \in Nat /\ \A i \in 1 .. Len(tstream) : tstream[i] = f[r + i]
  BY <1>2, <1>3
<1>5. /\ SubSeq(tstream, 1, n) \in Seq(TcpByte) /\ Len(SubSeq(tstream, 1, n)) = n
      /\ \A i \in 1 .. n : SubSeq(tstream, 1, n)[i] = tstream[i]
  BY <1>1, StreamFirst
<1>6. \A i \in 1 .. n : SubSeq(tstream, 1, n)[i] = f[r + i]
  BY <1>1, <1>4, <1>5
<1>7. /\ tstream' \in Seq(TcpByte) /\ Len(tstream') = Len(tstream) - n
      /\ \A i \in 1 .. Len(tstream) - n : tstream'[i] = f[r + n + i]
  <2> HIDE DEF f, r
  <2> QED
    BY <1>1, <1>4, StreamRest DEF Rest
<1>8. ASSUME TcpRead' = TcpRead + n, tconn' = tconn PROVE TcpOnWay'
  <2>1. TcpSent' = TcpSent /\ TcpWritten' = TcpWritten
    BY TcpFixed DEF TcpWritten
  <2>2. tconn \in {"up", "ended"} => TcpRead' + Len(tstream') = TcpWritten
    <3>1. tconn \in {"up", "ended"} => TcpRead + Len(tstream) = TcpWritten
      BY DEF TcpOnWay
    <3>2. TcpRead' + Len(tstream') = TcpRead + Len(tstream)
      BY <1>1, <1>2, <1>7, <1>8
    <3> QED
      BY <3>1, <3>2
  <2>3. \A i \in 1 .. Len(tstream') : tstream'[i] = TcpSent[TcpRead' + i]
    BY <1>7, <1>8
  <2> QED
    BY <1>8, <2>1, <2>2, <2>3 DEF TcpOnWay
<1> QED
  BY <1>1, <1>2, <1>5, <1>6, <1>7, <1>8

\* Bytes that belong to the put are missing for ever only when the connection broke.
LEMMA TcpNeverMore ==
    ASSUME Fits, TcpGood, tserver.pc \notin TcpOver, NEW n \in Nat, NeverMore(n),
           TcpRead + n <= 2 * IdMax + DataSize
    PROVE  tconn = "broken"
<1> USE DEF TcpGood
<1>1. Len(tstream) \in Nat /\ Len(tstream) < n /\ tconn \in {"ended", "broken"}
  BY LenProperties DEF TcpTypes, NeverMore
<1>2. TcpRead \in Nat /\ DataSize \in Nat /\ IdMax \in Nat
  BY TcpSizes DEF TcpRead, TcpTypes, TcpServerAt, TcpOver
<1>3. ASSUME tconn = "ended" PROVE FALSE
  <2>1. TcpWritten = 2 * IdMax + DataSize
    BY <1>2, <1>3 DEF TcpClientAt, TcpWritten, TcpTypes
  <2>2. TcpRead + Len(tstream) = TcpWritten
    BY <1>3 DEF TcpOnWay
  <2> QED
    BY <1>1, <1>2, <2>1, <2>2
<1> QED
  BY <1>1, <1>3

\* The server ends without a word when the connection broke or it was closed.
LEMMA TcpDies ==
    ASSUME Fits, TcpGood, tserver.pc \in {"id", "size", "data"}, NEW pc \in {"silent", "terminated"},
           Server(pc), tconn = "broken" \/ stopped, ClosedWithServer,
           UNCHANGED <<transfer, tclient, tstream, given, stopped>>
    PROVE  TcpGood'
<1> USE DEF TcpGood
<1>1. /\ tserver' = [tserver EXCEPT !.pc = pc] /\ tserver'.pc = pc
      /\ tconn' = IF tconn = "up" THEN "closed" ELSE tconn
  BY DEF Server, ClosedWithServer, TcpTypes
<1>2. DataSize' = DataSize /\ Fits'
  BY TcpFixed
<1>3. tconn \notin {"no", "refused"}
  BY DEF TcpServerAt
<1>4. TcpTypes' /\ TcpClientAt'
  BY <1>1, <1>2, <1>3 DEF TcpTypes, TcpClientAt, TcpOver
<1>5. TcpServerAt' /\ TcpOnWay' /\ TcpExact' /\ TcpSilentOnlyIf'
  BY <1>1, <1>2, <1>3 DEF TcpServerAt, TcpOnWay, TcpExact, TcpSilentOnlyIf, TcpOver
<1> QED
  BY <1>4, <1>5

\* The id comes back as it was sent.
LEMMA TcpReadIdKeeps == ASSUME Fits, TcpGood, ReadId PROVE TcpGood'
<1> USE DEF TcpGood
<1>0. tserver.pc = "id" /\ UNCHANGED <<transfer, tclient, given, stopped>> /\ ClosedWithServer
  BY DEF ReadId
<1>1. /\ DataSize' = DataSize /\ Fits' /\ DataSize \in Nat /\ IdMax \in Nat /\ TcpRead = 0
      /\ tserver.pc \notin TcpOver /\ tserver.pc \in {"id", "size", "data"} /\ transfer \in Transfer
  BY <1>0, TcpFixed, TcpSizes DEF TcpTypes, TcpRead, TcpOver
<1>2. CASE NeverMore(IdMax) /\ Server("terminated") /\ UNCHANGED tstream
  <2>1. TcpRead + IdMax <= 2 * IdMax + DataSize
    BY <1>1
  <2>2. tconn = "broken"
    BY <1>1, <1>2, <2>1, TcpNeverMore
  <2> QED
    BY <1>0, <1>1, <1>2, <2>2, TcpDies
<1>3. CASE /\ CanRead(IdMax) /\ tstream' = Rest(IdMax)
           /\ tserver' = [tserver EXCEPT !.pc = "size", !.id = TextOf(SubSeq(tstream, 1, IdMax))]
  <2> DEFINE b == SubSeq(tstream, 1, IdMax)
             text == TcpBytes("id", transfer.idlen)
  <2>1. /\ b \in Seq(TcpByte) /\ Len(b) = IdMax /\ tstream' \in Seq(TcpByte)
        /\ \A i \in 1 .. IdMax : b[i] = TcpSent[0 + i]
        /\ TcpRead' = TcpRead + IdMax /\ tconn' = tconn => TcpOnWay'
    <3>1. \A i \in 1 .. IdMax : b[i] = TcpSent[TcpRead + i]
      BY <1>0, <1>1, <1>3, TcpReads
    <3>2. /\ b \in Seq(TcpByte) /\ Len(b) = IdMax /\ tstream' \in Seq(TcpByte)
          /\ TcpRead' = TcpRead + IdMax /\ tconn' = tconn => TcpOnWay'
      BY <1>0, <1>1, <1>3, TcpReads
    <3> QED
      BY <1>1, <3>1, <3>2
  <2>2. /\ text \in Seq(TcpByte) /\ Len(text) = transfer.idlen /\ transfer.idlen < IdMax
        /\ \A i \in 1 .. transfer.idlen : text[i] # Nul
        /\ \A i \in 1 .. IdMax : TcpSent[0 + i] = Block(text)[i]
    BY <1>1, TcpTexts, TcpSizes, TcpSentAt
  <2>3. TextOf(b) = text
    <3> HIDE DEF b, text
    <3>1. /\ Len(text) < IdMax /\ \A i \in 1 .. Len(text) : text[i] # Nul
          /\ \A i \in 1 .. IdMax : b[i] = Block(text)[i]
      BY <2>1, <2>2
    <3> QED
      BY <2>1, <2>2, <3>1, TextBack
  <2>4. tserver' = [tserver EXCEPT !.pc = "size", !.id = text] /\ text \in Seq(TcpByte)
    BY <1>3, <2>2, <2>3
  <2>5. tserver'.pc = "size" /\ tserver'.id = text
    BY <2>4 DEF TcpTypes
  <2>6. tconn' = tconn
    BY <1>0, <2>5 DEF ClosedWithServer
  <2>7. TcpOnWay'
    <3>1. TcpRead' = TcpRead + IdMax
      BY <1>1, <2>5 DEF TcpRead
    <3> QED
      BY <2>1, <2>6, <3>1
  <2>8. TcpTypes'
    BY <1>0, <2>1, <2>4, <2>6 DEF TcpTypes
  <2>9. TcpClientAt' /\ TcpServerAt' /\ TcpExact' /\ TcpSilentOnlyIf'
    BY <1>0, <1>1, <2>5, <2>6 DEF TcpClientAt, TcpServerAt, TcpExact, TcpSilentOnlyIf, TcpOver
  <2> QED
    BY <2>7, <2>8, <2>9
<1> QED
  BY <1>2, <1>3 DEF ReadId

\* A read of something leaves less.
LEMMA TcpRestLen ==
    ASSUME tstream \in Seq(TcpByte), NEW n \in Nat, CanRead(n)
    PROVE  Len(Rest(n)) = Len(tstream) - n /\ Len(tstream) \in Nat
<1>1. tstream \in Seq(TcpByte) /\ Len(tstream) \in Nat /\ n <= Len(tstream)
  BY LenProperties DEF CanRead
<1>2. \A i \in n + 1 .. Len(tstream) : tstream[i] \in TcpByte
  BY <1>1
<1>3. Len(SubSeq(tstream, n + 1, Len(tstream))) =
        IF n + 1 <= Len(tstream) THEN Len(tstream) - (n + 1) + 1 ELSE 0
  BY <1>1, <1>2, SubSeqProperties
<1> QED
  BY <1>1, <1>3 DEF Rest

\* The size comes back as it was sent.
LEMMA TcpReadSizeKeeps == ASSUME Fits, TcpGood, ReadSize PROVE TcpGood'
<1> USE DEF TcpGood
<1>0. tserver.pc = "size" /\ UNCHANGED <<transfer, tclient, given, stopped>> /\ ClosedWithServer
  BY DEF ReadSize
<1>1. /\ DataSize' = DataSize /\ Fits' /\ DataSize \in Nat /\ IdMax \in Nat /\ TcpRead = IdMax
      /\ tserver.pc \notin TcpOver /\ tserver.pc \in {"id", "size", "data"} /\ transfer \in Transfer
  BY <1>0, TcpFixed, TcpSizes DEF TcpTypes, TcpRead, TcpOver
<1>2. CASE NeverMore(IdMax) /\ Server("terminated") /\ UNCHANGED tstream
  <2>1. TcpRead + IdMax <= 2 * IdMax + DataSize
    BY <1>1
  <2>2. tconn = "broken"
    BY <1>1, <1>2, <2>1, TcpNeverMore
  <2> QED
    BY <1>0, <1>1, <1>2, <2>2, TcpDies
<1>3. CASE CanRead(IdMax) /\ ReadSize /\ tstream' = Rest(IdMax)
  <2> DEFINE b == SubSeq(tstream, 1, IdMax)
             text == SizeText(DataSize)
  <2>1. /\ b \in Seq(TcpByte) /\ Len(b) = IdMax /\ tstream' \in Seq(TcpByte)
        /\ \A i \in 1 .. IdMax : b[i] = TcpSent[IdMax + i]
        /\ TcpRead' = TcpRead + IdMax /\ tconn' = tconn => TcpOnWay'
    <3>1. \A i \in 1 .. IdMax : b[i] = TcpSent[TcpRead + i]
      BY <1>0, <1>1, <1>3, TcpReads
    <3>2. /\ b \in Seq(TcpByte) /\ Len(b) = IdMax /\ tstream' \in Seq(TcpByte)
          /\ TcpRead' = TcpRead + IdMax /\ tconn' = tconn => TcpOnWay'
      BY <1>0, <1>1, <1>3, TcpReads
    <3> QED
      BY <1>1, <3>1, <3>2
  <2>2. /\ text \in Seq(TcpByte) /\ Len(text) = 1 /\ 1 < IdMax
        /\ text[1] # Nul /\ IsSize(text) /\ text[1].i = DataSize
        /\ \A i \in 1 .. IdMax : TcpSent[IdMax + i] = Block(text)[i]
    BY <1>1, TcpTexts, TcpSizes, TcpSentAt
  <2>3. TextOf(b) = text
    <3> HIDE DEF b, text
    <3>1. /\ Len(text) < IdMax /\ \A i \in 1 .. Len(text) : text[i] # Nul
          /\ \A i \in 1 .. IdMax : b[i] = Block(text)[i]
      BY <2>1, <2>2
    <3> QED
      BY <2>1, <2>2, <3>1, TextBack
  <2>4. tserver' = [tserver EXCEPT !.pc = "data", !.size = DataSize, !.left = DataSize]
    <3>1. IsSize(TextOf(b)) /\ TextOf(b)[1].i = DataSize
      BY <2>2, <2>3
    <3>2. tstream' # tstream
      <4>1. Len(tstream') = Len(tstream) - IdMax /\ Len(tstream) \in Nat /\ IdMax >= 2
        <5>1. tstream \in Seq(TcpByte)
          BY DEF TcpTypes
        <5>2. Len(Rest(IdMax)) = Len(tstream) - IdMax /\ Len(tstream) \in Nat
          BY <1>1, <1>3, <5>1, TcpRestLen
        <5> QED
          BY <1>1, <1>3, <5>2, TcpSizes
      <4> QED
        BY <1>1, <4>1
    <3> QED
      BY <1>3, <3>1, <3>2 DEF ReadSize
  <2>5. tserver'.pc = "data" /\ tserver'.size = DataSize /\ tserver'.left = DataSize /\ tserver'.id = tserver.id
    BY <2>4 DEF TcpTypes
  <2>6. tconn' = tconn
    BY <1>0, <2>5 DEF ClosedWithServer
  <2>7. TcpOnWay'
    <3>1. TcpRead' = TcpRead + IdMax
      BY <1>1, <2>5 DEF TcpRead
    <3> QED
      BY <2>1, <2>6, <3>1
  <2>8. TcpTypes'
    <3>1. DataSize \in Int
      BY <1>1
    <3>2. tserver' \in [pc : {"accept", "id", "size", "data"} \cup TcpOver, id : Seq(TcpByte),
                        size : Int, left : Int]
      BY <2>4, <3>1 DEF TcpTypes
    <3> QED
      BY <1>0, <2>1, <2>6, <3>2 DEF TcpTypes
  <2>9. TcpServerAt'
    <3>1. given = <<>> /\ tserver.id = TcpBytes("id", transfer.idlen) /\ tconn \notin {"no", "refused", "closed"}
      BY <1>0 DEF TcpServerAt, TcpOver
    <3>2. DataSize - DataSize = 0 /\ DataSize \in 0 .. DataSize /\ TcpBytes("data", 0) = <<>>
      BY <1>1 DEF TcpBytes
    <3> QED
      BY <1>0, <1>1, <2>5, <2>6, <3>1, <3>2 DEF TcpServerAt, TcpOver
  <2>10. TcpClientAt' /\ TcpExact' /\ TcpSilentOnlyIf'
    BY <1>0, <1>1, <2>5, <2>6 DEF TcpClientAt, TcpExact, TcpSilentOnlyIf
  <2> QED
    BY <2>7, <2>8, <2>9, <2>10
<1> QED
  BY <1>2, <1>3 DEF ReadSize

\* A chunk is the data that comes next, and the last one makes it whole.
LEMMA TcpReadChunkKeeps == ASSUME Fits, TcpGood, ReadChunk PROVE TcpGood'
<1> USE DEF TcpGood
<1> DEFINE n == ToRecv
           k == DataSize - tserver.left
<1>0. tserver.pc = "data" /\ UNCHANGED <<transfer, tclient, stopped>> /\ ClosedWithServer
  BY DEF ReadChunk
<1>1. /\ DataSize' = DataSize /\ Fits' /\ DataSize \in Nat /\ IdMax \in Nat
      /\ tserver.pc \notin TcpOver /\ tserver.pc \in {"id", "size", "data"} /\ transfer \in Transfer
      /\ tserver.size = DataSize /\ tserver.left \in 0 .. DataSize /\ given = TcpBytes("data", k)
      /\ tserver.id = TcpBytes("id", transfer.idlen) /\ tconn \notin {"no", "refused", "closed"}
  BY <1>0, TcpFixed, TcpSizes DEF TcpTypes, TcpServerAt, TcpOver
<1>2. n \in Nat /\ n <= tserver.left /\ k \in Nat /\ TcpRead = 2 * IdMax + k
  <2>1. RecvChunkSize \in Nat \ {0}
    BY TcpAssumption
  <2>2. TcpRead = 2 * IdMax + k
    BY <1>0, <1>1 DEF TcpRead
  <2> QED
    BY <1>1, <2>1, <2>2 DEF ToRecv
<1>3. CASE NeverMore(ToRecv) /\ Server("silent") /\ UNCHANGED <<given, tstream>>
  <2>1. TcpRead + ToRecv <= 2 * IdMax + DataSize
    BY <1>1, <1>2
  <2>2. tconn = "broken"
    BY <1>1, <1>2, <1>3, <2>1, TcpNeverMore
  <2> QED
    BY <1>0, <1>1, <1>3, <2>2, TcpDies
<1>4. CASE /\ CanRead(ToRecv) /\ given' = given \o SubSeq(tstream, 1, ToRecv) /\ tstream' = Rest(ToRecv)
           /\ tserver' = [tserver EXCEPT !.left = @ - ToRecv,
                                         !.pc = IF tserver.left = ToRecv THEN "notified" ELSE "data"]
  <2> DEFINE t == SubSeq(tstream, 1, n)
  <2> HIDE DEF n
  <2>1. /\ t \in Seq(TcpByte) /\ Len(t) = n /\ tstream' \in Seq(TcpByte)
        /\ \A i \in 1 .. n : t[i] = TcpSent[TcpRead + i]
        /\ TcpRead' = TcpRead + n /\ tconn' = tconn => TcpOnWay'
    <3>1. CanRead(n) /\ tstream' = Rest(n)
      BY <1>4 DEF n
    <3> QED
      BY <1>0, <1>1, <1>2, <3>1, TcpReads
  <2>2. \A i \in 1 .. n : t[i] = Byte("data", k + i)
    <3> SUFFICES ASSUME NEW i \in 1 .. n PROVE t[i] = Byte("data", k + i)
      OBVIOUS
    <3> DEFINE j == k + i
    <3>1. j \in Nat \ {0} /\ TcpRead + i = 2 * IdMax + j
      BY <1>1, <1>2
    <3> HIDE DEF j
    <3>2. TcpSent[2 * IdMax + j] = Byte("data", j)
      BY <1>1, <3>1, TcpSentAt
    <3>3. t[i] = Byte("data", j)
      BY <2>1, <3>1, <3>2
    <3> QED
      BY <3>3 DEF j
  <2>3. given' = TcpBytes("data", k + n)
    <3>1. given' = TcpBytes("data", k) \o t
      BY <1>1, <1>4 DEF n
    <3> HIDE DEF t, k
    <3> QED
      BY <1>2, <2>1, <2>2, <3>1, DataGrows
  <2>4. given' \in Seq(TcpByte)
    <3>1. k + n \in Nat
      BY <1>2
    <3>2. \A m \in Nat : TcpBytes("data", m) \in Seq(TcpByte)
      BY DEF TcpBytes, TcpByte, Byte
    <3> QED
      BY <2>3, <3>1, <3>2
  <2>5. /\ tserver'.left = tserver.left - n /\ tserver'.id = tserver.id /\ tserver'.size = DataSize
        /\ tserver'.pc = IF tserver.left = n THEN "notified" ELSE "data"
    BY <1>1, <1>4 DEF TcpTypes, n
  <2>6. tserver.left - n \in 0 .. DataSize /\ k + n = DataSize - (tserver.left - n)
    BY <1>1, <1>2
  <2>7. tserver' \in [pc : {"accept", "id", "size", "data"} \cup TcpOver, id : Seq(TcpByte),
                      size : Int, left : Int]
    <3>1. tserver.left - ToRecv \in Int
      BY <2>6 DEF n
    <3> QED
      BY <1>4, <3>1 DEF TcpTypes, TcpOver
  <2>8. CASE tserver.left = n
    <3>1. tserver'.pc = "notified" /\ tconn' = IF tconn = "up" THEN "closed" ELSE tconn
      BY <1>0, <2>5, <2>8 DEF ClosedWithServer
    <3>2. TcpTypes' /\ TcpClientAt'
      BY <1>0, <1>1, <2>1, <2>4, <2>7, <3>1 DEF TcpTypes, TcpClientAt
    <3>3. TcpServerAt' /\ TcpOnWay' /\ TcpSilentOnlyIf'
      BY <1>1, <3>1 DEF TcpServerAt, TcpOnWay, TcpSilentOnlyIf, TcpOver
    <3>4. TcpExact'
      <4>1. k + n = DataSize
        BY <1>1, <1>2, <2>8
      <4>2. DataSize = transfer.length * ElementSize(transfer.type)
        BY DEF Fits
      <4> QED
        BY <1>0, <1>1, <2>3, <2>5, <4>1, <4>2 DEF TcpExact
    <3> QED
      BY <3>2, <3>3, <3>4
  <2>9. CASE tserver.left # n
    <3>1. tserver'.pc = "data" /\ tconn' = tconn
      BY <1>0, <2>5, <2>9 DEF ClosedWithServer
    <3>2. TcpTypes' /\ TcpClientAt'
      BY <1>0, <1>1, <2>1, <2>4, <2>7, <3>1 DEF TcpTypes, TcpClientAt
    <3>3. TcpServerAt'
      BY <1>0, <1>1, <2>3, <2>5, <2>6, <3>1 DEF TcpServerAt, TcpOver
    <3>4. TcpOnWay'
      <4>1. TcpRead' = TcpRead + n
        <5>1. TcpRead' = 2 * IdMax + DataSize - (tserver.left - n)
          BY <2>5, <3>1 DEF TcpRead
        <5> QED
          BY <1>1, <1>2, <5>1
      <4> QED
        BY <2>1, <3>1, <4>1
    <3>5. TcpExact' /\ TcpSilentOnlyIf'
      BY <3>1 DEF TcpExact, TcpSilentOnlyIf
    <3> QED
      BY <3>2, <3>3, <3>4, <3>5
  <2> QED
    BY <2>8, <2>9
<1> QED
  BY <1>3, <1>4 DEF ReadChunk

\* A broken connection leaves a beginning of what was on its way.
LEMMA TcpBreakKeeps == ASSUME Fits, TcpGood, Break PROVE TcpGood'
<1> USE DEF TcpGood
<1>0. /\ UNCHANGED <<transfer, tclient, tserver, given, stopped>> /\ tconn' = "broken"
      /\ tconn \in {"up", "ended"} /\ tserver.pc \notin TcpOver
  BY DEF Break, TcpOver
<1>1. PICK n \in 0 .. Len(tstream) : tstream' = SubSeq(tstream, 1, n)
  BY DEF Break
<1>2. tstream \in Seq(TcpByte) /\ Len(tstream) \in Nat /\ n \in Nat /\ n <= Len(tstream)
  <2>1. tstream \in Seq(TcpByte) /\ Len(tstream) \in Nat
    BY LenProperties DEF TcpTypes
  <2> QED
    BY <2>1
<1>3. tstream' \in Seq(TcpByte) /\ Len(tstream') = n /\ \A i \in 1 .. n : tstream'[i] = tstream[i]
  BY <1>1, <1>2, StreamFirst
<1>4. TcpOnWay'
  <2>1. TcpSent' = TcpSent /\ TcpRead' = TcpRead
    BY <1>0, TcpFixed DEF TcpRead
  <2>2. \A i \in 1 .. n : tstream'[i] = TcpSent[TcpRead + i]
    BY <1>0, <1>2, <1>3 DEF TcpOnWay
  <2> QED
    BY <1>0, <1>3, <2>1, <2>2 DEF TcpOnWay
<1>5. DataSize' = DataSize /\ Fits'
  BY <1>0, TcpFixed
<1>6. TcpTypes' /\ TcpClientAt'
  BY <1>0, <1>3, <1>5 DEF TcpTypes, TcpClientAt
<1>7. TcpServerAt' /\ TcpExact' /\ TcpSilentOnlyIf'
  BY <1>0, <1>5 DEF TcpServerAt, TcpExact, TcpSilentOnlyIf, TcpOver
<1> QED
  BY <1>4, <1>6, <1>7

\* The steps that read and write nothing.
LEMMA TcpOtherKeeps ==
    ASSUME Fits, TcpGood, Listen \/ Accept \/ Close \/ SeeStopped \/ UNCHANGED tvars PROVE TcpGood'
<1> USE DEF TcpGood
<1>1. CASE SeeStopped
  <2>1. /\ stopped /\ tserver.pc \in {"id", "size", "data"} /\ Server("silent") /\ ClosedWithServer
        /\ UNCHANGED <<transfer, tclient, tstream, given, stopped>>
    BY <1>1 DEF SeeStopped
  <2> QED
    BY <2>1, TcpDies
<1>2. CASE Listen \/ Close \/ UNCHANGED tvars
  <2>1. /\ UNCHANGED <<transfer, tclient, tserver, tconn, tstream, given>>
        /\ stopped' = stopped \/ stopped' = TRUE
    BY <1>2 DEF Listen, Close, Stop, tvars
  <2>2. DataSize' = DataSize /\ TcpSent' = TcpSent /\ Fits'
    BY <2>1, TcpFixed
  <2>3. TcpRead' = TcpRead /\ TcpWritten' = TcpWritten
    BY <2>1, <2>2 DEF TcpRead, TcpWritten
  <2>4. TcpTypes' /\ TcpClientAt' /\ TcpServerAt'
    BY <2>1, <2>2 DEF TcpTypes, TcpClientAt, TcpServerAt
  <2>5. TcpOnWay' /\ TcpExact' /\ TcpSilentOnlyIf'
    BY <2>1, <2>2, <2>3 DEF TcpOnWay, TcpExact, TcpSilentOnlyIf
  <2> QED
    BY <2>4, <2>5
<1>3. CASE Accept
  <2>1. /\ UNCHANGED <<transfer, tclient, tconn, tstream, given, stopped>> /\ tserver.pc = "accept"
        /\ tconn \in {"up", "ended", "broken"} /\ tserver' = [tserver EXCEPT !.pc = "id"]
    BY <1>3 DEF Accept, Server
  <2>2. DataSize' = DataSize /\ TcpSent' = TcpSent /\ Fits'
    BY <2>1, TcpFixed
  <2>3. tserver'.pc = "id" /\ TcpRead' = TcpRead /\ TcpWritten' = TcpWritten
    BY <2>1, <2>2 DEF TcpRead, TcpWritten, TcpTypes
  <2>4. TcpTypes' /\ TcpClientAt' /\ TcpServerAt'
    BY <2>1, <2>2, <2>3 DEF TcpTypes, TcpClientAt, TcpServerAt
  <2>5. TcpOnWay' /\ TcpExact' /\ TcpSilentOnlyIf'
    BY <2>1, <2>2, <2>3 DEF TcpOnWay, TcpExact, TcpSilentOnlyIf, TcpOver
  <2> QED
    BY <2>4, <2>5
<1> QED
  BY <1>1, <1>2, <1>3

\* What TCP_TRANS reads and hands to its handle_recv threads is what was put, for
\* every size of the blocks, of the chunks and of the data, however the bytes are cut
\* and wherever the connection breaks.
THEOREM TcpHolds == TcpSpec => []TcpSafe
<1>1. TcpInit => TcpInv
  <2> SUFFICES ASSUME TcpInit, Fits PROVE TcpGood
    BY DEF TcpInv
  <2>1. /\ transfer \in Transfer /\ tclient = [pc |-> "new", left |-> 0]
        /\ tserver = [pc |-> "accept", id |-> <<>>, size |-> 0, left |-> 0]
        /\ tconn = "no" /\ tstream = <<>> /\ given = <<>>
    BY DEF TcpInit, TcpStart
  <2>2. TcpTypes
    BY <2>1 DEF TcpTypes
  <2>3. TcpClientAt /\ TcpServerAt /\ TcpExact /\ TcpSilentOnlyIf
    BY <2>1 DEF TcpClientAt, TcpServerAt, TcpExact, TcpSilentOnlyIf
  <2>4. TcpOnWay
    BY <2>1 DEF TcpOnWay
  <2> QED
    BY <2>2, <2>3, <2>4 DEF TcpGood
<1>2. TcpInv /\ [TcpNext]_tvars => TcpInv'
  <2> SUFFICES ASSUME TcpInv, [TcpNext]_tvars, Fits' PROVE TcpGood'
    BY DEF TcpInv
  <2>1. transfer' = transfer
    BY DEF TcpNext, ClientStep, ServerStep, PutUnknown, TcpConnect, SendId, SendSize, SendControl, SendChunk,
           SendReturns, PutReturns, Listen, Accept, ReadId, ReadSize, ReadChunk, SeeStopped, Close, Break, tvars
  <2>2. Fits /\ TcpGood
    BY <2>1, TcpFixed DEF TcpInv
  <2>3. CASE ClientStep
    BY <2>2, <2>3, TcpConnectKeeps, TcpControlKeeps, TcpChunkKeeps, TcpReturnKeeps DEF ClientStep
  <2>4. CASE ServerStep
    BY <2>2, <2>4, TcpOtherKeeps, TcpReadIdKeeps, TcpReadSizeKeeps, TcpReadChunkKeeps DEF ServerStep
  <2> QED
    BY <2>2, <2>3, <2>4, TcpOtherKeeps, TcpBreakKeeps DEF TcpNext
<1>3. TcpInv => TcpSafe
  BY DEF TcpInv, TcpGood, TcpSafe, TcpExact, TcpSilentOnlyIf
<1> QED
  BY <1>1, <1>2, <1>3, PTL DEF TcpSpec

-----------------------------------------------------------------------------
(* Wire: the inductive invariant.                                           *)

WMsg  == {m \in WThread \X (Nat \ {0}) : m[2] \in 1 .. Len(WText[m[1]])}
WUnit == [msg : WMsg, kind : {"size", "type", "text", "tail"}, i : Nat]

WireTypes ==
    /\ wstream \in Seq(WUnit) /\ wsent \in [WThread -> Nat] /\ wok \subseteq WMsg /\ wpart \in BOOLEAN
    /\ wrecv \in [pc : {"size", "text", "ended"}, need : Nat]
    /\ wrecv.pc = "text" => wrecv.need >= 1
    /\ \A b \in wthreads : b \in Seq(WUnit) /\ Len(b) >= 1

\* A message has a number its sender has reached.
WokSent == \A m \in wok : m[2] <= wsent[m[1]]

\* Only what follows a partial send is of a message that does not count as sent whole.
WireWhole ==
    /\ ~wpart => \A i \in 1 .. Len(wstream) : wstream[i].msg \in wok
    /\ \A i, j \in 1 .. Len(wstream) : i < j /\ wstream[j].msg \in wok => wstream[i].msg \in wok

\* Behind a size there is the rest of its message, and behind that a size.
Framed ==
    \A i \in 1 .. Len(wstream) :
        wstream[i].msg \in wok /\ wstream[i].kind = "size" =>
            LET n == Announced(wstream[i].msg)
            IN  /\ i + n <= Len(wstream)
                /\ \A j \in 1 .. n : wstream[i + j] = PacketOf(wstream[i].msg)[j + 1]
                /\ i + n + 1 <= Len(wstream) /\ wstream[i + n + 1].msg \in wok => wstream[i + n + 1].kind = "size"

\* init_recv is at a size, or at the text whose size it has read; or it is behind a partial send.
RecvAt ==
    /\ wrecv.pc = "size" /\ Len(wstream) >= 1 /\ wstream[1].msg \in wok => wstream[1].kind = "size"
    /\ wrecv.pc = "text" =>
          \/ wpart /\ \A i \in 1 .. Len(wstream) : wstream[i].msg \notin wok
          \/ \E m \in wok :
                /\ wrecv.need = Announced(m) /\ wrecv.need <= Len(wstream)
                /\ \A j \in 1 .. wrecv.need : wstream[j] = PacketOf(m)[j + 1]
                /\ wrecv.need + 1 <= Len(wstream) /\ wstream[wrecv.need + 1].msg \in wok
                      => wstream[wrecv.need + 1].kind = "size"

\* What a handle_recv thread was given.
TextsWhole ==
    \A b \in wthreads : b[1].kind = "type" =>
        IF b[1].msg \in wok
        THEN Len(b) = Announced(b[1].msg) /\ \A j \in 1 .. Len(b) : b[j] = PacketOf(b[1].msg)[j + 1]
        ELSE wpart

\* After the end of the stream the connection is closed, and nothing is sent.
EndedClosed == wrecv.pc = "ended" => wclosed # {} /\ wstream = <<>>

WireInv == WireTypes /\ WokSent /\ WireWhole /\ Framed /\ RecvAt /\ TextsWhole /\ EndedClosed /\ WholeOrCut

\* The text of a message: what is in front of its fields, and they.
LEMMA TextShape ==
    ASSUME NEW m \in WMsg
    PROVE  /\ MapText(m).lead \in Nat /\ MapText(m).fields \in Nat
           /\ TextSize(m) \in Nat /\ TextSize(m) = MapText(m).lead + 3 * MapText(m).fields
           /\ \A f \in Nat : FieldEnd(m, f) = MapText(m).lead + 3 * f
<1>1. m[1] \in WThread /\ m[2] \in 1 .. Len(WText[m[1]])
  BY DEF WMsg
<1>2. WText[m[1]] \in Seq([lead : Nat, fields : Nat])
  BY <1>1, WireAssumption
<1>3. MapText(m) \in [lead : Nat, fields : Nat]
  BY <1>1, <1>2, ElementOfSeq DEF MapText
<1> QED
  BY <1>3 DEF TextSize, FieldEnd, FieldSize

\* What is in a packet, and where.
LEMMA PacketShape ==
    ASSUME NEW m \in WMsg
    PROVE  /\ PacketOf(m) \in Seq(WUnit) /\ MsgSize(m) \in 0 .. MaxMsg /\ MaxMsg \in Nat
           /\ Len(PacketOf(m)) = MsgSize(m) + 3 /\ Announced(m) = MsgSize(m) + 2
           /\ PacketOf(m)[1] = Unit(m, "size", 0) /\ PacketOf(m)[2] = Unit(m, "type", 0)
           /\ \A f \in 1 .. MsgSize(m) : PacketOf(m)[f + 2] = Unit(m, "text", f)
           /\ PacketOf(m)[MsgSize(m) + 3] = Unit(m, "tail", 0)
           /\ \A i \in 1 .. MsgSize(m) + 3 : PacketOf(m)[i].msg = m /\ (PacketOf(m)[i].kind = "size" => i = 1)
<1> DEFINE k == MsgSize(m)
           n == TextSize(m)
           c == Encoded(m)
           e == SubSeq(c, 1, k)
           h == <<Unit(m, "size", 0), Unit(m, "type", 0)>>
           t == <<Unit(m, "tail", 0)>>
<1>1. MaxMsg \in Nat /\ n \in Nat
  <2>1. MaxMsg \in Nat
    BY WireAssumption
  <2> QED
    BY <2>1, TextShape
<1>2. k \in Nat /\ k <= MaxMsg /\ k <= n
  BY <1>1 DEF MsgSize
<1>3. \A f \in Nat : /\ Unit(m, "text", f) \in WUnit /\ Unit(m, "text", f).msg = m
                     /\ Unit(m, "text", f).kind = "text"
  BY DEF Unit, WUnit
<1>4. /\ h \in Seq(WUnit) /\ Len(h) = 2 /\ h[1] = Unit(m, "size", 0) /\ h[2] = Unit(m, "type", 0)
      /\ t \in Seq(WUnit) /\ Len(t) = 1 /\ t[1] = Unit(m, "tail", 0)
  <2>1. \A q \in {"size", "type", "tail"} : Unit(m, q, 0) \in WUnit
    BY DEF Unit, WUnit
  <2> QED
    BY <2>1
<1>5. e \in Seq(WUnit) /\ Len(e) = k /\ \A f \in 1 .. k : e[f] = Unit(m, "text", f)
  <2>1. \A f \in 1 .. n : Unit(m, "text", f) \in WUnit
    BY <1>1, <1>3
  <2>2. c \in Seq(WUnit) /\ Len(c) = n /\ \A f \in 1 .. n : c[f] = Unit(m, "text", f)
    BY <1>1, <2>1 DEF Encoded
  <2> HIDE DEF c, k, n
  <2>3. \A f \in 1 .. k : c[f] \in WUnit
    BY <1>1, <1>2, <1>3, <2>2
  <2>4. e \in Seq(WUnit) /\ Len(e) = (IF 1 <= k THEN k - 1 + 1 ELSE 0)
        /\ \A f \in 1 .. k - 1 + 1 : e[f] = c[1 + f - 1]
    BY <1>2, <2>3, SubSeqProperties
  <2> HIDE DEF e
  <2> QED
    BY <1>1, <1>2, <2>2, <2>4
<1>6. PacketOf(m) = (h \o e) \o t
  BY DEF PacketOf
<1> HIDE DEF h, e, t, k, n, c
<1>7. /\ h \o e \in Seq(WUnit) /\ Len(h \o e) = 2 + k
      /\ \A i \in 1 .. 2 + k : (h \o e)[i] = IF i <= 2 THEN h[i] ELSE e[i - 2]
  <2>1. h \in Seq(WUnit) /\ e \in Seq(WUnit)
    BY <1>4, <1>5
  <2>2. /\ h \o e \in Seq(WUnit) /\ Len(h \o e) = Len(h) + Len(e)
        /\ \A i \in 1 .. Len(h) + Len(e) : (h \o e)[i] = IF i <= Len(h) THEN h[i] ELSE e[i - Len(h)]
    BY <2>1, ConcatProperties
  <2> QED
    BY <1>4, <1>5, <2>2
<1>8. /\ PacketOf(m) \in Seq(WUnit) /\ Len(PacketOf(m)) = 2 + k + 1
      /\ \A i \in 1 .. 2 + k + 1 : PacketOf(m)[i] = IF i <= 2 + k THEN (h \o e)[i] ELSE t[i - (2 + k)]
  <2> DEFINE a == h \o e
  <2>1. a \in Seq(WUnit) /\ t \in Seq(WUnit)
    BY <1>4, <1>7
  <2> HIDE DEF a
  <2>2. /\ a \o t \in Seq(WUnit) /\ Len(a \o t) = Len(a) + Len(t)
        /\ \A i \in 1 .. Len(a) + Len(t) : (a \o t)[i] = IF i <= Len(a) THEN a[i] ELSE t[i - Len(a)]
    BY <2>1, ConcatProperties
  <2>3. Len(a) = 2 + k /\ Len(t) = 1 /\ PacketOf(m) = a \o t
    BY <1>4, <1>6, <1>7 DEF a
  <2>4. /\ PacketOf(m) \in Seq(WUnit) /\ Len(PacketOf(m)) = 2 + k + 1
        /\ \A i \in 1 .. 2 + k + 1 : PacketOf(m)[i] = IF i <= 2 + k THEN a[i] ELSE t[i - (2 + k)]
    BY <2>2, <2>3
  <2> QED
    BY <2>4 DEF a
<1>9. Len(PacketOf(m)) = k + 3 /\ Announced(m) = k + 2
  BY <1>2, <1>8 DEF Announced, SizeSize
<1>10. PacketOf(m)[1] = Unit(m, "size", 0) /\ PacketOf(m)[2] = Unit(m, "type", 0)
  <2>1. /\ 1 \in 1 .. 2 + k + 1 /\ 1 <= 2 + k /\ 1 \in 1 .. 2 + k
        /\ 2 \in 1 .. 2 + k + 1 /\ 2 <= 2 + k /\ 2 \in 1 .. 2 + k
    BY <1>2
  <2>2. PacketOf(m)[1] = (h \o e)[1] /\ PacketOf(m)[2] = (h \o e)[2]
    BY <1>8, <2>1
  <2>3. (h \o e)[1] = h[1] /\ (h \o e)[2] = h[2]
    BY <1>7, <2>1
  <2> QED
    BY <1>4, <2>2, <2>3
<1>11. ASSUME NEW f \in 1 .. k PROVE PacketOf(m)[f + 2] = Unit(m, "text", f)
  <2> DEFINE i == f + 2
  <2>1. i \in 1 .. 2 + k /\ ~(i <= 2) /\ i - 2 = f /\ i \in 1 .. 2 + k + 1 /\ i <= 2 + k
    BY <1>2
  <2> HIDE DEF i
  <2>2. PacketOf(m)[i] = (h \o e)[i]
    BY <1>8, <2>1
  <2>3. (h \o e)[i] = e[f]
    BY <1>7, <2>1
  <2>4. PacketOf(m)[i] = Unit(m, "text", f)
    BY <1>5, <2>2, <2>3
  <2> QED
    BY <2>4 DEF i
<1>12. PacketOf(m)[k + 3] = Unit(m, "tail", 0)
  <2> DEFINE i == k + 3
  <2>1. i \in 1 .. 2 + k + 1 /\ ~(i <= 2 + k) /\ i - (2 + k) = 1
    BY <1>2
  <2> HIDE DEF i
  <2>2. PacketOf(m)[i] = t[1]
    BY <1>8, <2>1
  <2> QED
    BY <1>4, <2>2 DEF i
<1>13. ASSUME NEW i \in 1 .. k + 3
       PROVE  PacketOf(m)[i].msg = m /\ (PacketOf(m)[i].kind = "size" => i = 1)
  <2>1. \A q \in {"size", "type", "tail"} : Unit(m, q, 0).msg = m /\ Unit(m, q, 0).kind = q
    BY DEF Unit
  <2>2. CASE i \in {1, 2, k + 3}
    BY <1>10, <1>12, <2>1, <2>2
  <2>3. CASE i \notin {1, 2, k + 3}
    <3>1. i - 2 \in 1 .. k /\ i - 2 + 2 = i /\ i - 2 \in Nat
      BY <1>2, <2>3
    <3>2. PacketOf(m)[i] = Unit(m, "text", i - 2)
      BY <1>11, <3>1
    <3> QED
      BY <1>3, <3>1, <3>2
  <2> QED
    BY <2>2, <2>3
<1>14. k \in 0 .. MaxMsg
  BY <1>1, <1>2
<1> QED
  BY <1>1, <1>8, <1>9, <1>10, <1>11, <1>12, <1>13, <1>14 DEF k

\* A text that is whole is decoded to all the fields of its packet.
LEMMA WholeDecoded ==
    ASSUME NEW m \in WMsg, NEW b \in Seq(WUnit), Len(b) = Announced(m),
           \A j \in 1 .. Len(b) : b[j] = PacketOf(m)[j + 1]
    PROVE  b[1].msg = m /\ UnitsRead(b) = MsgSize(m)
<1> DEFINE n == MsgSize(m)
           F(k) == \A f \in 1 .. k : f + 1 <= Len(b) /\ b[f + 1] = Unit(b[1].msg, "text", f)
<1>1. n \in 0 .. MaxMsg /\ MaxMsg \in Nat /\ n \in Nat /\ n <= MaxMsg /\ Len(b) = n + 2
  BY PacketShape
<1>2. b[1] = Unit(m, "type", 0) /\ b[1].msg = m
  <2>1. 1 \in 1 .. Len(b) /\ 1 + 1 = 2
    BY <1>1
  <2>2. PacketOf(m)[2] = Unit(m, "type", 0)
    BY PacketShape
  <2>3. b[1] = Unit(m, "type", 0)
    BY <2>1, <2>2
  <2> QED
    BY <2>3 DEF Unit
<1>3. \A f \in 1 .. n : b[f + 1] = Unit(m, "text", f)
  <2> SUFFICES ASSUME NEW f \in 1 .. n PROVE b[f + 1] = Unit(m, "text", f)
    OBVIOUS
  <2>1. f + 1 \in 1 .. Len(b) /\ f + 1 + 1 = f + 2
    BY <1>1
  <2>2. PacketOf(m)[f + 2] = Unit(m, "text", f)
    BY PacketShape
  <2>3. b[f + 1] = PacketOf(m)[f + 1 + 1]
    BY <2>1
  <2> QED
    BY <2>1, <2>2, <2>3
<1>4. b[n + 2] = Unit(m, "tail", 0)
  <2>1. n + 2 \in 1 .. Len(b) /\ n + 2 + 1 = n + 3
    BY <1>1
  <2> QED
    BY <2>1, PacketShape
<1>5. b[n + 2] # Unit(m, "text", n + 1)
  BY <1>4 DEF Unit
<1> HIDE DEF n
<1>6. F(n)
  BY <1>1, <1>2, <1>3
<1>7. ASSUME NEW k \in Nat, k > n PROVE ~F(k)
  <2>1. n + 1 \in 1 .. k /\ n + 1 + 1 = n + 2
    BY <1>1, <1>7
  <2> QED
    BY <1>2, <1>5, <2>1
<1>8. ASSUME NEW k \in Nat, k < n PROVE F(k + 1)
  <2>1. \A f \in 1 .. k + 1 : f \in 1 .. n
    BY <1>1, <1>8
  <2> QED
    BY <1>6, <2>1
<1>9. ASSUME NEW k \in 0 .. MaxMsg PROVE F(k) /\ (k < MaxMsg => ~F(k + 1)) <=> k = n
  <2>1. k \in Nat /\ n + 1 > n /\ n + 1 \in Nat /\ (k = n \/ k < n \/ k > n) /\ (k < n => k < MaxMsg)
    BY <1>1
  <2>2. CASE k = n
    BY <1>6, <1>7, <2>1, <2>2
  <2>3. CASE k < n
    BY <1>8, <2>1, <2>3
  <2>4. CASE k > n
    BY <1>7, <2>1, <2>4
  <2> QED
    BY <2>1, <2>2, <2>3, <2>4
<1>10. UnitsRead(b) = CHOOSE k \in 0 .. MaxMsg : F(k) /\ (k < MaxMsg => ~F(k + 1))
  BY DEF UnitsRead
<1> HIDE DEF F
<1>11. UnitsRead(b) = CHOOSE k \in 0 .. MaxMsg : k = n
  BY <1>9, <1>10
<1>12. UnitsRead(b) = n
  BY <1>1, <1>11
<1> QED
  BY <1>2, <1>12 DEF n

\* What WholeOrCut says of the map a handler gets.
DecodedRight(h) ==
    /\ h.fields \in 0 .. MapText(h.msg).fields
    /\ \A f \in 1 .. MapText(h.msg).fields : f <= h.fields <=> FieldEnd(h.msg, f) <= MaxMsg
    /\ h.garbled <=> \E f \in 1 .. MapText(h.msg).fields : FieldEnd(h.msg, f) = MaxMsg + 1

\* So many units of its text hold these fields of a message whole, and this one garbled.
LEMMA FieldsDecoded ==
    ASSUME NEW m \in WMsg, NEW h,
           h = [msg |-> m, fields |-> FieldsIn(m, MsgSize(m)), garbled |-> Garbles(m, MsgSize(m))]
    PROVE  DecodedRight(h)
<1> DEFINE a == MapText(m).lead
           n == MapText(m).fields
           k == MsgSize(m)
           q == FieldsIn(m, k)
<1>1. a \in Nat /\ n \in Nat /\ MaxMsg \in Nat /\ \A f \in Nat : FieldEnd(m, f) = a + 3 * f
  BY TextShape, WireAssumption
<1>2. k = IF a + 3 * n > MaxMsg THEN MaxMsg ELSE a + 3 * n
  BY TextShape DEF MsgSize
<1>3. q = IF k < a THEN 0 ELSE (k - a) \div 3
  BY DEF FieldsIn, FieldSize
<1>4. Garbles(m, k) <=> k >= a /\ (k - a) % 3 = 2
  BY DEF Garbles, FieldSize
<1>5. h.msg = m /\ h.fields = q /\ h.garbled = Garbles(m, k)
  OBVIOUS
<1> HIDE DEF a, n, k, q
<1>6. q \in 0 .. n
  BY <1>1, <1>2, <1>3
<1>7. ASSUME NEW f \in 1 .. n PROVE f <= q <=> a + 3 * f <= MaxMsg
  <2>1. CASE k < a
    BY <1>1, <1>2, <1>3, <1>7, <2>1
  <2>2. CASE k >= a
    <3>1. f <= (k - a) \div 3 <=> a + 3 * f <= k
      BY <1>1, <1>2, <1>7, <2>2
    <3>2. a + 3 * f <= k <=> a + 3 * f <= MaxMsg
      BY <1>1, <1>2, <1>7
    <3>3. q = (k - a) \div 3
      BY <1>1, <1>2, <1>3, <2>2
    <3> QED
      BY <3>1, <3>2, <3>3
  <2> QED
    BY <1>1, <1>2, <2>1, <2>2
<1>8. (k >= a /\ (k - a) % 3 = 2) <=> \E f \in 1 .. n : a + 3 * f = MaxMsg + 1
  <2>1. ASSUME k >= a, (k - a) % 3 = 2 PROVE \E f \in 1 .. n : a + 3 * f = MaxMsg + 1
    <3> DEFINE d == (k - a) \div 3
    <3>1. k \in Nat /\ d \in Nat /\ k = a + 3 * d + 2
      BY <1>1, <1>2, <2>1
    <3> HIDE DEF d
    <3>2. k = MaxMsg /\ a + 3 * n > MaxMsg
      BY <1>1, <1>2, <3>1
    <3>3. d + 1 \in 1 .. n /\ a + 3 * (d + 1) = MaxMsg + 1
      BY <1>1, <3>1, <3>2
    <3> QED
      BY <3>3
  <2>2. ASSUME NEW f \in 1 .. n, a + 3 * f = MaxMsg + 1 PROVE k >= a /\ (k - a) % 3 = 2
    <3>1. k = MaxMsg /\ k - a = 3 * (f - 1) + 2 /\ k >= a
      BY <1>1, <1>2, <2>2
    <3>2. \A x \in Nat : (3 * x + 2) % 3 = 2
      OBVIOUS
    <3>3. f - 1 \in Nat
      OBVIOUS
    <3> QED
      BY <3>1, <3>2, <3>3
  <2> QED
    BY <2>1, <2>2
<1> QED
  <2>1. \A f \in 1 .. n : FieldEnd(m, f) = a + 3 * f
    BY <1>1
  <2>2. n = MapText(m).fields
    BY DEF n
  <2>3. h.garbled <=> \E f \in 1 .. n : a + 3 * f = MaxMsg + 1
    BY <1>4, <1>5, <1>8 DEF k
  <2> QED
    BY <1>5, <1>6, <1>7, <2>1, <2>2, <2>3 DEF DecodedRight

\* Every unit on its way is of a message.
LEMMA UnitsTyped ==
    ASSUME WireTypes
    PROVE  Len(wstream) \in Nat /\ \A i \in 1 .. Len(wstream) : wstream[i].msg \in WMsg
<1>1. wstream \in Seq(WUnit)
  BY DEF WireTypes
<1>2. Len(wstream) \in Nat /\ \A i \in 1 .. Len(wstream) : wstream[i] \in WUnit
  BY <1>1, LenProperties, ElementOfSeq
<1>3. \A u \in WUnit : u.msg \in WMsg
  BY DEF WUnit
<1> QED
  BY <1>2, <1>3

\* A read from the front leaves a stream that is framed.
LEMMA WireReads ==
    ASSUME WireTypes, WireWhole, Framed, NEW n \in Nat, n <= Len(wstream), UNCHANGED <<wok, wpart>>,
           wstream' \in Seq(WUnit), Len(wstream') = Len(wstream) - n,
           \A i \in 1 .. Len(wstream) - n : wstream'[i] = wstream[n + i]
    PROVE  WireWhole' /\ Framed'
<1>1. Len(wstream) \in Nat /\ \A i \in 1 .. Len(wstream) : wstream[i].msg \in WMsg
  BY UnitsTyped
<1>2. WireWhole'
  <2>1. \A i \in 1 .. Len(wstream') : n + i \in 1 .. Len(wstream) /\ wstream'[i] = wstream[n + i]
    BY <1>1
  <2>2. ~wpart => \A i \in 1 .. Len(wstream') : wstream'[i].msg \in wok
    BY <2>1 DEF WireWhole
  <2>3. ASSUME NEW i \in 1 .. Len(wstream'), NEW j \in 1 .. Len(wstream'), i < j, wstream'[j].msg \in wok
        PROVE  wstream'[i].msg \in wok
    <3>1. n + i < n + j
      BY <1>1, <2>3
    <3> DEFINE x == n + i
               y == n + j
    <3>2. x \in 1 .. Len(wstream) /\ y \in 1 .. Len(wstream) /\ x < y /\ wstream[y].msg \in wok
      BY <2>1, <2>3, <3>1
    <3> HIDE DEF x, y
    <3>3. wstream[x].msg \in wok
      BY <3>2 DEF WireWhole
    <3> QED
      BY <2>1, <3>3 DEF x
  <2> QED
    BY <2>2, <2>3 DEF WireWhole
<1>3. ASSUME NEW i \in 1 .. Len(wstream'), wstream'[i].msg \in wok, wstream'[i].kind = "size",
             NEW a, a = Announced(wstream'[i].msg)
      PROVE  /\ i + a <= Len(wstream')
             /\ \A j \in 1 .. a : wstream'[i + j] = PacketOf(wstream'[i].msg)[j + 1]
             /\ i + a + 1 <= Len(wstream') /\ wstream'[i + a + 1].msg \in wok => wstream'[i + a + 1].kind = "size"
  <2> DEFINE k == n + i
  <2>1. k \in 1 .. Len(wstream) /\ wstream'[i] = wstream[k]
    BY <1>1
  <2>2. a \in Nat
    BY <1>1, <1>3, <2>1, PacketShape
  <2>3. /\ k + a <= Len(wstream)
        /\ \A j \in 1 .. a : wstream[k + j] = PacketOf(wstream[k].msg)[j + 1]
        /\ k + a + 1 <= Len(wstream) /\ wstream[k + a + 1].msg \in wok => wstream[k + a + 1].kind = "size"
    <3> HIDE DEF k
    <3> QED
      BY <1>3, <2>1 DEF Framed
  <2>4. i + a <= Len(wstream')
    BY <1>1, <2>2, <2>3
  <2>5. ASSUME NEW j \in 1 .. a PROVE wstream'[i + j] = PacketOf(wstream'[i].msg)[j + 1]
    <3>1. i + j \in 1 .. Len(wstream) - n /\ n + (i + j) = k + j
      BY <1>1, <2>2, <2>3
    <3>2. wstream'[i + j] = wstream[n + (i + j)]
      BY <3>1
    <3> QED
      BY <2>1, <2>3, <3>1, <3>2
  <2>6. ASSUME i + a + 1 <= Len(wstream'), wstream'[i + a + 1].msg \in wok PROVE wstream'[i + a + 1].kind = "size"
    <3>1. i + a + 1 \in 1 .. Len(wstream) - n /\ n + (i + a + 1) = k + a + 1 /\ k + a + 1 <= Len(wstream)
      BY <1>1, <2>2, <2>6
    <3>2. wstream'[i + a + 1] = wstream[n + (i + a + 1)]
      BY <3>1
    <3> QED
      BY <2>3, <2>6, <3>1, <3>2
  <2> QED
    BY <2>4, <2>5, <2>6
<1>4. Framed'
  BY <1>3 DEF Framed
<1> QED
  BY <1>2, <1>4

\* What a send adds, when it is a part, or comes behind one.
LEMMA WireSendsPart ==
    ASSUME WireInv, NEW m \in WMsg, m \notin wok, NEW n \in Nat, n <= Len(PacketOf(m)),
           UNCHANGED <<wok, wrecv>>, wpart',
           wstream' \in Seq(WUnit), Len(wstream') = Len(wstream) + n,
           \A i \in 1 .. Len(wstream) : wstream'[i] = wstream[i],
           \A i \in 1 .. n : wstream'[Len(wstream) + i] = PacketOf(m)[i]
    PROVE  WireWhole' /\ Framed' /\ RecvAt'
<1> USE DEF WireInv
<1>1. Len(wstream) \in Nat /\ \A i \in 1 .. Len(wstream) : wstream[i].msg \in WMsg
  BY UnitsTyped
<1>2. ASSUME NEW i \in 1 .. Len(wstream'), wstream'[i].msg \in wok
      PROVE  i \in 1 .. Len(wstream) /\ wstream'[i] = wstream[i]
  <2>1. CASE i > Len(wstream)
    <3> DEFINE k == i - Len(wstream)
    <3>1. k \in 1 .. n /\ Len(wstream) + k = i /\ k \in 1 .. MsgSize(m) + 3
      BY <1>1, <2>1, PacketShape
    <3> HIDE DEF k
    <3>2. wstream'[i] = PacketOf(m)[k]
      BY <3>1
    <3>3. PacketOf(m)[k].msg = m
      BY <3>1, PacketShape
    <3> QED
      BY <1>2, <3>2, <3>3
  <2>2. CASE i <= Len(wstream)
    BY <1>1, <2>2
  <2> QED
    BY <1>1, <2>1, <2>2
<1>3. WireWhole'
  <2>1. ASSUME NEW i \in 1 .. Len(wstream'), NEW j \in 1 .. Len(wstream'), i < j, wstream'[j].msg \in wok
        PROVE  wstream'[i].msg \in wok
    <3>1. j \in 1 .. Len(wstream) /\ wstream[j].msg \in wok
      BY <1>2, <2>1
    <3>2. i \in 1 .. Len(wstream) /\ wstream'[i] = wstream[i]
      BY <1>1, <2>1, <3>1
    <3> QED
      BY <2>1, <3>1, <3>2 DEF WireWhole
  <2> QED
    BY <2>1 DEF WireWhole
<1>4. Framed'
  <2> SUFFICES ASSUME NEW i \in 1 .. Len(wstream'), wstream'[i].msg \in wok, wstream'[i].kind = "size",
                      NEW a, a = Announced(wstream'[i].msg)
               PROVE  /\ i + a <= Len(wstream')
                      /\ \A j \in 1 .. a : wstream'[i + j] = PacketOf(wstream'[i].msg)[j + 1]
                      /\ i + a + 1 <= Len(wstream') /\ wstream'[i + a + 1].msg \in wok
                            => wstream'[i + a + 1].kind = "size"
    BY DEF Framed
  <2>1. i \in 1 .. Len(wstream) /\ wstream'[i] = wstream[i]
    BY <1>2
  <2>2. a \in Nat
    BY <1>1, <2>1, PacketShape
  <2>3. /\ i + a <= Len(wstream)
        /\ \A j \in 1 .. a : wstream[i + j] = PacketOf(wstream[i].msg)[j + 1]
        /\ i + a + 1 <= Len(wstream) /\ wstream[i + a + 1].msg \in wok => wstream[i + a + 1].kind = "size"
    BY <2>1 DEF Framed
  <2>4. ASSUME NEW j \in 1 .. a PROVE wstream'[i + j] = PacketOf(wstream'[i].msg)[j + 1]
    <3>0. i + a <= Len(wstream) /\ Len(wstream) \in Nat
      BY <1>1, <2>3
    <3>1. i + j \in 1 .. Len(wstream)
      BY <2>1, <2>2, <3>0
    <3> QED
      BY <2>1, <2>3, <3>1
  <2>5. ASSUME i + a + 1 <= Len(wstream'), wstream'[i + a + 1].msg \in wok PROVE wstream'[i + a + 1].kind = "size"
    <3>1. i + a + 1 \in 1 .. Len(wstream')
      BY <1>1, <2>1, <2>2, <2>5
    <3>2. i + a + 1 \in 1 .. Len(wstream) /\ wstream'[i + a + 1] = wstream[i + a + 1]
      BY <1>2, <2>5, <3>1
    <3> QED
      BY <2>3, <2>5, <3>2
  <2> QED
    BY <1>1, <2>2, <2>3, <2>4, <2>5
<1>5. RecvAt'
  <2>1. wrecv.pc = "size" /\ Len(wstream') >= 1 /\ wstream'[1].msg \in wok => wstream'[1].kind = "size"
    <3>1. Len(wstream') >= 1 => 1 \in 1 .. Len(wstream')
      BY <1>1
    <3>2. 1 \in 1 .. Len(wstream) => Len(wstream) >= 1
      BY <1>1
    <3> QED
      BY <1>2, <3>1, <3>2 DEF RecvAt
  <2>2. ASSUME wrecv.pc = "text", \A i \in 1 .. Len(wstream) : wstream[i].msg \notin wok
        PROVE  \A i \in 1 .. Len(wstream') : wstream'[i].msg \notin wok
    BY <1>2, <2>2
  <2>3. ASSUME NEW q \in wok, wrecv.need = Announced(q), wrecv.need <= Len(wstream),
               \A j \in 1 .. wrecv.need : wstream[j] = PacketOf(q)[j + 1],
               wrecv.need + 1 <= Len(wstream) /\ wstream[wrecv.need + 1].msg \in wok
                  => wstream[wrecv.need + 1].kind = "size"
        PROVE  /\ wrecv.need <= Len(wstream')
               /\ \A j \in 1 .. wrecv.need : wstream'[j] = PacketOf(q)[j + 1]
               /\ wrecv.need + 1 <= Len(wstream') /\ wstream'[wrecv.need + 1].msg \in wok
                     => wstream'[wrecv.need + 1].kind = "size"
    <3>1. wrecv.need \in Nat
      BY DEF WireTypes
    <3>2. wrecv.need <= Len(wstream') /\ \A j \in 1 .. wrecv.need : wstream'[j] = PacketOf(q)[j + 1]
      BY <1>1, <2>3, <3>1
    <3>3. ASSUME wrecv.need + 1 <= Len(wstream'), wstream'[wrecv.need + 1].msg \in wok
          PROVE  wstream'[wrecv.need + 1].kind = "size"
      <4>1. wrecv.need + 1 \in 1 .. Len(wstream')
        BY <1>1, <3>1, <3>3
      <4>2. wrecv.need + 1 \in 1 .. Len(wstream) /\ wstream'[wrecv.need + 1] = wstream[wrecv.need + 1]
        BY <1>2, <3>3, <4>1
      <4> QED
        BY <1>1, <2>3, <3>3, <4>2
    <3> QED
      BY <3>2, <3>3
  <2> QED
    BY <2>1, <2>2, <2>3 DEF RecvAt
<1> QED
  BY <1>3, <1>4, <1>5

\* One may be counted on either side.
LEMMA ShiftOne == \A x, y \in Nat : (x + 1) + y = x + (y + 1)
OBVIOUS

\* What a whole send adds, when no send was partial.
LEMMA WireSendsWhole ==
    ASSUME WireInv, NEW m \in WMsg, ~wpart,
           UNCHANGED <<wpart, wrecv>>, wok' = wok \cup {m},
           wstream' \in Seq(WUnit), Len(wstream') = Len(wstream) + Len(PacketOf(m)),
           \A i \in 1 .. Len(wstream) : wstream'[i] = wstream[i],
           \A i \in 1 .. Len(PacketOf(m)) : wstream'[Len(wstream) + i] = PacketOf(m)[i]
    PROVE  WireWhole' /\ Framed' /\ RecvAt'
<1> USE DEF WireInv
<1> DEFINE l == Len(wstream)
           n == Len(PacketOf(m))
<1>1. /\ l \in Nat /\ n \in Nat /\ n >= 3 /\ Announced(m) + 1 = n /\ Announced(m) \in Nat
      /\ \A i \in 1 .. l : wstream[i].msg \in wok
  BY UnitsTyped, PacketShape DEF WireWhole
<1>2. \A i \in 1 .. l : wstream[i].msg \in WMsg
  BY UnitsTyped
<1>3. \A i \in 1 .. n : PacketOf(m)[i].msg = m /\ (PacketOf(m)[i].kind = "size" => i = 1)
  BY PacketShape
<1>4. 1 \in 1 .. n /\ wstream'[l + 1] = PacketOf(m)[1] /\ PacketOf(m)[1].kind = "size"
  <2>1. 1 \in 1 .. n
    BY <1>1
  <2>2. PacketOf(m)[1] = Unit(m, "size", 0) /\ Unit(m, "size", 0).kind = "size"
    BY PacketShape DEF Unit
  <2> QED
    BY <2>1, <2>2
<1>5. ASSUME NEW i \in 1 .. Len(wstream')
      PROVE  \/ i \in 1 .. l /\ wstream'[i] = wstream[i]
             \/ /\ i - l \in 1 .. n /\ wstream'[i] = PacketOf(m)[i - l] /\ wstream'[i].msg = m
                /\ wstream'[i].kind = "size" => i = l + 1
  <2>1. CASE i > l
    <3> DEFINE k == i - l
    <3>1. k \in 1 .. n /\ l + k = i
      BY <1>1, <2>1
    <3> HIDE DEF k
    <3>2. wstream'[i] = PacketOf(m)[k]
      BY <3>1
    <3>3. PacketOf(m)[k].msg = m /\ (PacketOf(m)[k].kind = "size" => k = 1)
      BY <1>3, <3>1
    <3>4. k = 1 => i = l + 1
      BY <1>1, <3>1
    <3> QED
      BY <3>1, <3>2, <3>3, <3>4 DEF k
  <2>2. CASE i <= l
    BY <1>1, <2>2
  <2> QED
    BY <1>1, <2>1, <2>2
<1>6. WireWhole'
  <2>1. \A i \in 1 .. Len(wstream') : wstream'[i].msg \in wok'
    BY <1>1, <1>5
  <2> QED
    BY <2>1 DEF WireWhole
<1>7. Framed'
  <2> SUFFICES ASSUME NEW i \in 1 .. Len(wstream'), wstream'[i].kind = "size",
                      NEW a, a = Announced(wstream'[i].msg)
               PROVE  /\ i + a <= Len(wstream')
                      /\ \A j \in 1 .. a : wstream'[i + j] = PacketOf(wstream'[i].msg)[j + 1]
                      /\ i + a + 1 <= Len(wstream') => wstream'[i + a + 1].kind = "size"
    BY DEF Framed
  <2>1. CASE i \in 1 .. l /\ wstream'[i] = wstream[i]
    <3>0. wstream[i].msg \in wok /\ wstream[i].msg \in WMsg
      BY <1>1, <1>2, <2>1
    <3>1. a \in Nat
      <4> DEFINE q == wstream[i].msg
      <4>1. q \in WMsg /\ a = Announced(q)
        BY <2>1, <3>0
      <4> HIDE DEF q
      <4> QED
        BY <4>1, PacketShape
    <3>2. /\ i + a <= l
          /\ \A j \in 1 .. a : wstream[i + j] = PacketOf(wstream[i].msg)[j + 1]
          /\ i + a + 1 <= l /\ wstream[i + a + 1].msg \in wok => wstream[i + a + 1].kind = "size"
      BY <2>1, <3>0 DEF Framed
    <3>6. i + a <= l /\ l \in Nat /\ n \in Nat /\ i \in Nat /\ Len(wstream') = l + n
      BY <1>1, <2>1, <3>2
    <3>7. i + a <= Len(wstream')
      BY <3>1, <3>6
    <3>3. ASSUME NEW j \in 1 .. a PROVE wstream'[i + j] = PacketOf(wstream'[i].msg)[j + 1]
      <4>1. i + j \in 1 .. l
        BY <1>1, <2>1, <3>1, <3>2
      <4> QED
        BY <2>1, <3>2, <4>1
    <3>4. CASE i + a + 1 <= l
      <4>1. i + a + 1 \in 1 .. l
        BY <3>1, <3>4, <3>6
      <4>2. wstream'[i + a + 1] = wstream[i + a + 1] /\ wstream[i + a + 1].msg \in wok
        BY <1>1, <4>1
      <4> QED
        BY <3>2, <3>3, <3>4, <3>7, <4>2
    <3>5. CASE ~(i + a + 1 <= l)
      <4>1. i + a + 1 = l + 1
        BY <3>1, <3>5, <3>6
      <4> QED
        BY <1>4, <3>3, <3>7, <4>1
    <3> QED
      BY <3>4, <3>5
  <2>2. CASE i = l + 1 /\ wstream'[i].msg = m
    <3>1. a + 1 = n /\ a \in Nat /\ i + a = Len(wstream')
      <4>1. a = Announced(m) /\ Len(wstream') = l + n
        BY <2>2
      <4>2. l \in Nat /\ n \in Nat /\ Announced(m) + 1 = n /\ Announced(m) \in Nat
        BY <1>1
      <4> HIDE DEF l, n
      <4>3. a + 1 = n /\ a \in Nat
        BY <4>1, <4>2
      <4>4. i + a = l + n
        <5>1. i = l + 1 /\ n = a + 1
          BY <2>2, <4>3
        <5>2. (l + 1) + a = l + (a + 1)
          BY <4>2, <4>3, ShiftOne
        <5> QED
          BY <5>1, <5>2
      <4> QED
        BY <4>1, <4>3, <4>4
    <3>2. ASSUME NEW j \in 1 .. a PROVE wstream'[i + j] = PacketOf(wstream'[i].msg)[j + 1]
      <4>1. j + 1 \in 1 .. n /\ l + (j + 1) = i + j
        BY <1>1, <2>2, <3>1
      <4>2. wstream'[l + (j + 1)] = PacketOf(m)[j + 1]
        BY <4>1
      <4> QED
        BY <2>2, <4>1, <4>2
    <3>3. ~(i + a + 1 <= Len(wstream'))
      BY <1>1, <2>2, <3>1
    <3> QED
      BY <1>1, <3>1, <3>2, <3>3
  <2> QED
    BY <1>5, <2>1, <2>2
<1>8. RecvAt'
  <2>1. Len(wstream') >= 1 /\ wrecv.pc = "size" => wstream'[1].kind = "size"
    <3>1. CASE l >= 1
      <4>1. 1 \in 1 .. l
        BY <1>1, <3>1
      <4> QED
        BY <1>1, <3>1, <4>1 DEF RecvAt
    <3>2. CASE ~(l >= 1)
      <4>1. l + 1 = 1
        BY <1>1, <3>2
      <4> QED
        BY <1>4, <4>1
    <3> QED
      BY <3>1, <3>2
  <2>2. ASSUME NEW q \in wok, wrecv.need = Announced(q), wrecv.need <= l,
               \A j \in 1 .. wrecv.need : wstream[j] = PacketOf(q)[j + 1],
               wrecv.need + 1 <= l /\ wstream[wrecv.need + 1].msg \in wok => wstream[wrecv.need + 1].kind = "size"
        PROVE  /\ wrecv.need <= Len(wstream')
               /\ \A j \in 1 .. wrecv.need : wstream'[j] = PacketOf(q)[j + 1]
               /\ wrecv.need + 1 <= Len(wstream') => wstream'[wrecv.need + 1].kind = "size"
    <3>1. wrecv.need \in Nat
      BY DEF WireTypes
    <3>2. wrecv.need <= Len(wstream') /\ \A j \in 1 .. wrecv.need : wstream'[j] = PacketOf(q)[j + 1]
      BY <1>1, <2>2, <3>1
    <3>3. CASE wrecv.need + 1 <= l
      <4>1. wrecv.need + 1 \in 1 .. l
        BY <1>1, <3>1, <3>3
      <4> QED
        BY <1>1, <2>2, <3>2, <3>3, <4>1
    <3>4. CASE ~(wrecv.need + 1 <= l)
      <4>1. wrecv.need + 1 = l + 1
        BY <1>1, <2>2, <3>1, <3>4
      <4> QED
        BY <1>4, <3>2, <4>1
    <3> QED
      BY <3>3, <3>4
  <2> HIDE DEF l, n
  <2>3. ASSUME wrecv.pc = "text"
        PROVE  \E q \in wok :
                 /\ wrecv.need = Announced(q) /\ wrecv.need <= Len(wstream')
                 /\ \A j \in 1 .. wrecv.need : wstream'[j] = PacketOf(q)[j + 1]
                 /\ wrecv.need + 1 <= Len(wstream') => wstream'[wrecv.need + 1].kind = "size"
    <3>1. PICK q \in wok :
             /\ wrecv.need = Announced(q) /\ wrecv.need <= Len(wstream)
             /\ \A j \in 1 .. wrecv.need : wstream[j] = PacketOf(q)[j + 1]
             /\ wrecv.need + 1 <= Len(wstream) /\ wstream[wrecv.need + 1].msg \in wok
                   => wstream[wrecv.need + 1].kind = "size"
      BY <2>3 DEF RecvAt
    <3> QED
      BY <2>2, <3>1 DEF l
  <2> QED
    BY <2>1, <2>3 DEF RecvAt
<1> QED
  BY <1>6, <1>7, <1>8

\* A thread sends its next message, all or a part of it, or finds the connection closed.
LEMMA WireSendKeeps == ASSUME WireInv, NEW t \in WThread, ClientSend(t) PROVE WireInv'
<1> USE DEF WireInv
<1> DEFINE m == <<t, wsent[t] + 1>>
           P == PacketOf(m)
<1>0. /\ UNCHANGED <<wlisten, wconn, wrecv, wthreads, whandled, wclosed>> /\ wsent' = [wsent EXCEPT ![t] = @ + 1]
      /\ wsent[t] < Len(WText[t])
  BY DEF ClientSend
<1>1. wsent \in [WThread -> Nat] /\ wsent[t] \in Nat /\ Len(WText[t]) \in Nat
  <2>1. WText[t] \in Seq([lead : Nat, fields : Nat])
    BY WireAssumption
  <2> QED
    BY <2>1, LenProperties DEF WireTypes
<1>2. m \in WMsg
  <2>1. wsent[t] + 1 \in Nat \ {0} /\ wsent[t] + 1 \in 1 .. Len(WText[t])
    BY <1>0, <1>1
  <2> QED
    BY <2>1 DEF WMsg
<1>3. m \notin wok
  <2>1. ASSUME m \in wok PROVE FALSE
    <3>1. m[2] <= wsent[m[1]] /\ m[1] = t /\ m[2] = wsent[t] + 1
      BY <2>1 DEF WokSent
    <3> QED
      BY <1>1, <3>1
  <2> QED
    BY <2>1
<1>4. /\ wsent' \in [WThread -> Nat] /\ wsent'[t] = wsent[t] + 1
      /\ \A u \in WThread : wsent[u] \in Nat /\ wsent'[u] \in Nat /\ wsent[u] <= wsent'[u]
  BY <1>0, <1>1
<1>5. ASSUME wok' \in {wok, wok \cup {m}} PROVE WokSent' /\ wok' \subseteq WMsg
  <2>1. ASSUME NEW q \in wok PROVE q[2] <= wsent'[q[1]]
    <3>1. q \in WMsg /\ q[2] <= wsent[q[1]]
      BY DEF WokSent, WireTypes
    <3>2. q[1] \in WThread /\ q[2] \in Nat
      BY <3>1 DEF WMsg
    <3>3. wsent[q[1]] \in Nat /\ wsent'[q[1]] \in Nat /\ wsent[q[1]] <= wsent'[q[1]]
      BY <1>4, <3>2
    <3> QED
      BY <3>1, <3>2, <3>3
  <2>2. m[2] <= wsent'[m[1]]
    <3>1. m[1] = t /\ m[2] = wsent[t] + 1
      OBVIOUS
    <3> QED
      BY <1>1, <1>4, <3>1
  <2> HIDE DEF m
  <2>3. WokSent'
    BY <1>5, <2>1, <2>2 DEF WokSent
  <2>4. wok' \subseteq WMsg
    BY <1>2, <1>5 DEF WireTypes
  <2> QED
    BY <2>3, <2>4
<1>6. CASE wconn = "open" /\ wclosed = {}
  <2>1. PICK n \in 1 .. Len(P) :
            /\ wstream' = wstream \o SubSeq(P, 1, n) /\ wpart' = (wpart \/ n < Len(P))
            /\ wok' = IF wpart' THEN wok ELSE wok \cup {m}
    BY <1>6 DEF ClientSend
  <2>2. P \in Seq(WUnit) /\ Len(P) \in Nat
    <3>1. P \in Seq(WUnit)
      BY <1>2, PacketShape
    <3> QED
      BY <3>1, LenProperties
  <2>3. wstream \in Seq(WUnit) /\ Len(wstream) \in Nat
    BY UnitsTyped DEF WireTypes
  <2> DEFINE p == SubSeq(P, 1, n)
  <2> HIDE DEF P
  <2>4. n \in Nat /\ n <= Len(P) /\ n \in 1 .. Len(P)
    BY <2>2
  <2>5. p \in Seq(WUnit) /\ Len(p) = n /\ \A i \in 1 .. n : p[i] = P[i]
    BY <2>2, <2>4, StreamFirst
  <2> HIDE DEF p
  <2>6. /\ wstream \o p \in Seq(WUnit) /\ Len(wstream \o p) = Len(wstream) + Len(p)
        /\ \A i \in 1 .. Len(wstream) + Len(p) :
              (wstream \o p)[i] = IF i <= Len(wstream) THEN wstream[i] ELSE p[i - Len(wstream)]
    BY <2>3, <2>5, ConcatProperties
  <2>7. wstream' \in Seq(WUnit) /\ Len(wstream') = Len(wstream) + n /\ wstream' = wstream \o p
    BY <2>1, <2>5, <2>6 DEF p
  <2>8. \A i \in 1 .. Len(wstream) : wstream'[i] = wstream[i]
    BY <2>3, <2>4, <2>5, <2>6, <2>7
  <2>9. ASSUME NEW i \in 1 .. n PROVE wstream'[Len(wstream) + i] = P[i]
    <3> DEFINE k == Len(wstream) + i
    <3>1. k \in 1 .. Len(wstream) + Len(p) /\ ~(k <= Len(wstream)) /\ k - Len(wstream) = i
      BY <2>3, <2>4, <2>5
    <3> HIDE DEF k
    <3>2. wstream'[k] = p[i]
      BY <2>6, <2>7, <3>1
    <3> QED
      BY <2>5, <3>2 DEF k
  <2> HIDE DEF m
  <2>10. WireTypes' /\ WokSent'
    <3>1. WokSent' /\ wok' \subseteq WMsg
      BY <1>5, <2>1
    <3>2. wpart' \in BOOLEAN
      BY <2>1
    <3> QED
      BY <1>0, <1>4, <2>7, <3>1, <3>2 DEF WireTypes
  <2>11. EndedClosed'
    BY <1>0, <1>6 DEF EndedClosed
  <2>12. CASE wpart'
    <3>1. wok' = wok
      BY <2>1, <2>12
    <3>2. WireWhole' /\ Framed' /\ RecvAt'
      BY <1>0, <1>2, <1>3, <2>4, <2>7, <2>8, <2>9, <2>12, <3>1, WireSendsPart DEF P
    <3>3. TextsWhole' /\ WholeOrCut'
      BY <1>0, <2>12, <3>1 DEF TextsWhole, WholeOrCut
    <3> QED
      BY <2>10, <2>11, <3>2, <3>3
  <2>13. CASE ~wpart'
    <3>8. wok' = wok \cup {m} /\ ~wpart /\ ~(n < Len(P))
      BY <2>1, <2>13, Zenon
    <3>9. n = Len(P)
      BY <2>2, <2>4, <3>8
    <3>1. wok' = wok \cup {m} /\ ~wpart /\ n = Len(P)
      BY <3>8, <3>9, Zenon
    <3>2. wpart' = wpart
      <4>1. wpart \in BOOLEAN /\ wpart' \in BOOLEAN
        BY <2>10 DEF WireTypes
      <4> QED
        BY <2>13, <3>1, <4>1, Zenon
    <3>3. WireWhole' /\ Framed' /\ RecvAt'
      BY <1>0, <1>2, <2>7, <2>8, <2>9, <3>1, <3>2, WireSendsWhole DEF P
    <3>4. \A b \in wthreads : b[1].kind = "type" => b[1].msg \in wok
      BY <3>1 DEF TextsWhole
    <3>5. TextsWhole'
      BY <1>0, <3>1, <3>4 DEF TextsWhole
    <3>6. \A h \in whandled : h.msg \in wok
      BY <3>1 DEF WholeOrCut
    <3>7. WholeOrCut'
      BY <1>0, <3>1, <3>6 DEF WholeOrCut
    <3> QED
      BY <2>10, <2>11, <3>3, <3>5, <3>7
  <2> QED
    BY <2>12, <2>13
<1>7. CASE ~(wconn = "open" /\ wclosed = {})
  <2>1. UNCHANGED <<wstream, wpart, wok>>
    BY <1>7 DEF ClientSend
  <2>2. WireTypes' /\ WokSent'
    BY <1>0, <1>4, <1>5, <2>1 DEF WireTypes
  <2>3. WireWhole' /\ Framed' /\ RecvAt'
    BY <1>0, <2>1 DEF WireWhole, Framed, RecvAt
  <2>4. TextsWhole' /\ EndedClosed' /\ WholeOrCut'
    BY <1>0, <2>1 DEF TextsWhole, EndedClosed, WholeOrCut
  <2> QED
    BY <2>2, <2>3, <2>4
<1> QED
  BY <1>6, <1>7

\* init_recv reads a size, or what stands where a size should.
LEMMA WireSizeKeeps == ASSUME WireInv, RecvSize PROVE WireInv'
<1> USE DEF WireInv
<1>0. /\ UNCHANGED <<wlisten, wconn, wsent, wok, wpart, wthreads, whandled, wclosed>> /\ wrecv.pc = "size"
      /\ wstream # <<>> /\ wstream' = Tail(wstream)
  BY DEF RecvSize
<1>1. wstream \in Seq(WUnit) /\ Len(wstream) \in Nat /\ \A i \in 1 .. Len(wstream) : wstream[i].msg \in WMsg
  BY UnitsTyped DEF WireTypes
<1>2. /\ Len(wstream) >= 1 /\ Head(wstream) = wstream[1] /\ wstream' \in Seq(WUnit)
      /\ Len(wstream') = Len(wstream) - 1
      /\ \A i \in 1 .. Len(wstream) - 1 : wstream'[i] = wstream[i + 1]
  <2>1. Len(wstream) # 0
    BY <1>0, <1>1, EmptySeq
  <2>2. /\ Tail(wstream) \in Seq(WUnit) /\ Len(Tail(wstream)) = Len(wstream) - 1
        /\ \A i \in 1 .. Len(Tail(wstream)) : Tail(wstream)[i] = wstream[i + 1]
    BY <1>0, <1>1, HeadTailProperties
  <2>3. Head(wstream) = wstream[1]
    BY <1>0, <1>1
  <2> QED
    BY <1>0, <1>1, <2>1, <2>2, <2>3
<1>3. \A i \in 1 .. Len(wstream) - 1 : wstream'[i] = wstream[1 + i]
  BY <1>1, <1>2
<1>4. WireWhole' /\ Framed'
  <2> DEFINE n == 1
  <2>1. n \in Nat /\ n <= Len(wstream) /\ Len(wstream') = Len(wstream) - n
        /\ \A i \in 1 .. Len(wstream) - n : wstream'[i] = wstream[n + i]
    BY <1>1, <1>2, <1>3
  <2> HIDE DEF n
  <2> QED
    BY <1>0, <1>2, <2>1, WireReads
<1>5. WokSent' /\ TextsWhole' /\ WholeOrCut'
  BY <1>0 DEF WokSent, TextsWhole, WholeOrCut
<1>6. 1 \in 1 .. Len(wstream) /\ wstream[1].msg \in WMsg
  BY <1>1, <1>2
<1>7. wrecv' \in [pc : {"size", "text"}, need : Nat] /\ (wrecv'.pc = "text" => wrecv'.need >= 1)
  <2>1. CASE Head(wstream).kind = "size"
    <3> DEFINE m == wstream[1].msg
    <3>1. wrecv' = [pc |-> "text", need |-> Announced(m)]
      BY <1>2, <2>1 DEF RecvSize
    <3>2. m \in WMsg
      BY <1>6
    <3> HIDE DEF m
    <3>3. Announced(m) \in Nat /\ Announced(m) >= 1
      BY <3>2, PacketShape
    <3> QED
      BY <3>1, <3>3
  <2>2. CASE Head(wstream).kind # "size"
    <3>1. wrecv' \in {wrecv} \cup [pc : {"text"}, need : BadSize]
      BY <2>2 DEF RecvSize
    <3>2. BadSize \subseteq Nat \ {0}
      BY WireAssumption
    <3>3. \A x \in BadSize : x \in Nat /\ x >= 1
      BY <3>2
    <3>4. CASE wrecv' = wrecv
      BY <1>0, <3>4 DEF WireTypes
    <3>5. CASE wrecv' \in [pc : {"text"}, need : BadSize]
      BY <3>3, <3>5
    <3> QED
      BY <3>1, <3>4, <3>5
  <2> QED
    BY <2>1, <2>2
<1>8. WireTypes' /\ EndedClosed'
  <2>1. wrecv' \in [pc : {"size", "text", "ended"}, need : Nat] /\ wrecv'.pc # "ended"
    BY <1>7
  <2> QED
    BY <1>0, <1>2, <1>7, <2>1 DEF WireTypes, EndedClosed
<1>9. CASE wstream[1].msg \in wok
  <2> DEFINE m == wstream[1].msg
             a == Announced(m)
  <2>1. wstream[1].kind = "size"
    BY <1>0, <1>2, <1>9 DEF RecvAt
  <2>2. wrecv' = [pc |-> "text", need |-> a]
    BY <1>2, <2>1 DEF RecvSize
  <2>3. a \in Nat
    <3> HIDE DEF m
    <3> QED
      BY <1>6, PacketShape DEF m
  <2>4. /\ 1 + a <= Len(wstream)
        /\ \A j \in 1 .. a : wstream[1 + j] = PacketOf(m)[j + 1]
        /\ 1 + a + 1 <= Len(wstream) /\ wstream[1 + a + 1].msg \in wok => wstream[1 + a + 1].kind = "size"
    BY <1>6, <1>9, <2>1 DEF Framed
  <2> HIDE DEF a
  <2>5. a <= Len(wstream')
    BY <1>1, <1>2, <2>3, <2>4
  <2>6. ASSUME NEW j \in 1 .. a PROVE wstream'[j] = PacketOf(m)[j + 1]
    <3>1. j \in 1 .. Len(wstream) - 1
      BY <1>1, <2>3, <2>4
    <3> QED
      BY <1>3, <2>4, <3>1
  <2>7. a + 1 <= Len(wstream') /\ wstream'[a + 1].msg \in wok => wstream'[a + 1].kind = "size"
    <3>1. ASSUME a + 1 <= Len(wstream') PROVE wstream'[a + 1] = wstream[1 + a + 1] /\ 1 + a + 1 <= Len(wstream)
      <4>1. a + 1 \in 1 .. Len(wstream) - 1 /\ 1 + (a + 1) = 1 + a + 1 /\ 1 + a + 1 <= Len(wstream)
        BY <1>1, <1>2, <2>3, <3>1
      <4>2. wstream'[a + 1] = wstream[1 + (a + 1)]
        BY <1>3, <4>1
      <4> QED
        BY <4>1, <4>2
    <3> QED
      BY <2>4, <3>1
  <2>8. wrecv'.pc = "text" /\ wrecv'.need = a
    BY <2>2
  <2> HIDE DEF m
  <2>9. RecvAt'
    <3>1. m \in wok' /\ wok' = wok /\ a = Announced(m)
      BY <1>0, <1>9 DEF m, a
    <3> QED
      BY <2>5, <2>6, <2>7, <2>8, <3>1 DEF RecvAt
  <2> QED
    BY <1>4, <1>5, <1>8, <2>9
<1>10. CASE wstream[1].msg \notin wok
  <2>1. wpart
    BY <1>6, <1>10 DEF WireWhole
  <2>2. ASSUME NEW i \in 1 .. Len(wstream') PROVE wstream'[i].msg \notin wok
    <3> DEFINE k == 1 + i
    <3>1. k \in 1 .. Len(wstream) /\ 1 < k /\ i \in 1 .. Len(wstream) - 1
      BY <1>1, <1>2
    <3>2. wstream'[i] = wstream[k]
      BY <1>3, <3>1
    <3> HIDE DEF k
    <3> QED
      BY <1>6, <1>10, <3>1, <3>2 DEF WireWhole
  <2>3. Len(wstream') >= 1 => wstream'[1].msg \notin wok
    <3>1. Len(wstream') >= 1 => 1 \in 1 .. Len(wstream')
      BY <1>1, <1>2
    <3> QED
      BY <2>2, <3>1
  <2>4. RecvAt'
    BY <1>0, <2>1, <2>2, <2>3 DEF RecvAt
  <2> QED
    BY <1>4, <1>5, <1>8, <2>4
<1> QED
  BY <1>9, <1>10

\* ... and the text, for a handle_recv thread.
LEMMA WireTextKeeps == ASSUME WireInv, RecvText PROVE WireInv'
<1> USE DEF WireInv
<1> DEFINE n == wrecv.need
           b == SubSeq(wstream, 1, n)
<1>0. /\ UNCHANGED <<wlisten, wconn, wsent, wok, wpart, whandled, wclosed>> /\ wrecv.pc = "text"
      /\ Len(wstream) >= n /\ wstream' = SubSeq(wstream, n + 1, Len(wstream))
      /\ wthreads' = wthreads \cup {b} /\ wrecv' = [wrecv EXCEPT !.pc = "size"]
  BY DEF RecvText
<1>1. wstream \in Seq(WUnit) /\ Len(wstream) \in Nat /\ \A i \in 1 .. Len(wstream) : wstream[i].msg \in WMsg
  BY UnitsTyped DEF WireTypes
<1>2. n \in Nat /\ n >= 1 /\ n <= Len(wstream)
  BY <1>0, <1>1 DEF WireTypes
<1> HIDE DEF n
<1>3. b \in Seq(WUnit) /\ Len(b) = n /\ \A i \in 1 .. n : b[i] = wstream[i]
  BY <1>1, <1>2, StreamFirst
<1>4. /\ wstream' \in Seq(WUnit) /\ Len(wstream') = Len(wstream) - n
      /\ \A i \in 1 .. Len(wstream) - n : wstream'[i] = wstream[n + i]
  <2> DEFINE z == 0
             q == SubSeq(wstream, n + 1, Len(wstream))
  <2>1. z \in Nat /\ \A i \in 1 .. Len(wstream) : wstream[i] = wstream[z + i]
    BY <1>1
  <2>0. z = 0
    OBVIOUS
  <2> HIDE DEF z
  <2>2. /\ q \in Seq(WUnit) /\ Len(q) = Len(wstream) - n
        /\ \A i \in 1 .. Len(wstream) - n : q[i] = wstream[z + n + i]
    BY <1>1, <1>2, <2>1, StreamRest
  <2>3. z + n = n
    BY <1>2, <2>0
  <2> QED
    BY <1>0, <2>2, <2>3
<1> HIDE DEF b
<1>5. WireWhole' /\ Framed'
  BY <1>0, <1>2, <1>4, WireReads
<1>6. WokSent' /\ WholeOrCut'
  BY <1>0 DEF WokSent, WholeOrCut
<1>7. wrecv'.pc = "size" /\ wrecv' \in [pc : {"size", "text", "ended"}, need : Nat]
  BY <1>0 DEF WireTypes
<1>8. WireTypes' /\ EndedClosed'
  BY <1>0, <1>2, <1>3, <1>4, <1>7 DEF WireTypes, EndedClosed
<1>9. CASE wpart /\ \A i \in 1 .. Len(wstream) : wstream[i].msg \notin wok
  <2>1. 1 \in 1 .. n /\ 1 \in 1 .. Len(wstream)
    BY <1>1, <1>2
  <2>2. b[1].msg \notin wok
    BY <1>3, <1>9, <2>1
  <2>3. TextsWhole'
    BY <1>0, <1>9, <2>2 DEF TextsWhole
  <2>4. Len(wstream') >= 1 => wstream'[1].msg \notin wok
    <3>1. Len(wstream') >= 1 => 1 \in 1 .. Len(wstream) - n /\ n + 1 \in 1 .. Len(wstream)
      BY <1>1, <1>2, <1>4
    <3> QED
      BY <1>4, <1>9, <3>1
  <2>5. RecvAt'
    BY <1>0, <1>7, <2>4 DEF RecvAt
  <2> QED
    BY <1>5, <1>6, <1>8, <2>3, <2>5
<1>10. ASSUME NEW m \in wok, n = Announced(m), \A j \in 1 .. n : wstream[j] = PacketOf(m)[j + 1],
              n + 1 <= Len(wstream) /\ wstream[n + 1].msg \in wok => wstream[n + 1].kind = "size"
       PROVE  WireInv'
  <2>1. \A j \in 1 .. Len(b) : b[j] = PacketOf(m)[j + 1]
    BY <1>3, <1>10
  <2>2. m \in WMsg
    BY DEF WireTypes
  <2>3. b[1].msg = m
    BY <1>3, <1>10, <2>1, <2>2, WholeDecoded
  <2>4. TextsWhole'
    BY <1>0, <1>3, <1>10, <2>1, <2>3 DEF TextsWhole
  <2>5. Len(wstream') >= 1 /\ wstream'[1].msg \in wok => wstream'[1].kind = "size"
    <3>1. Len(wstream') >= 1 => 1 \in 1 .. Len(wstream) - n /\ n + 1 <= Len(wstream)
      BY <1>1, <1>2, <1>4
    <3> QED
      BY <1>4, <1>10, <3>1
  <2>6. RecvAt'
    BY <1>0, <1>7, <2>5 DEF RecvAt
  <2> QED
    BY <1>5, <1>6, <1>8, <2>4, <2>6
<1> QED
  BY <1>0, <1>9, <1>10 DEF RecvAt, n

\* A handler decodes the text it was given.
LEMMA WireHandleKeeps == ASSUME WireInv, NEW b \in wthreads, HandleRecv(b) PROVE WireInv'
<1> USE DEF WireInv
<1>0. /\ UNCHANGED <<wlisten, wconn, wstream, wsent, wok, wpart, wrecv, wclosed>>
      /\ wthreads' = wthreads \ {b}
      /\ whandled' = IF b[1].kind = "type" THEN whandled \cup {Decoded(b)} ELSE whandled
  BY DEF HandleRecv
<1>1. WireTypes' /\ WokSent' /\ WireWhole' /\ Framed'
  BY <1>0 DEF WireTypes, WokSent, WireWhole, Framed
<1>2. RecvAt' /\ TextsWhole' /\ EndedClosed'
  BY <1>0 DEF RecvAt, TextsWhole, EndedClosed
<1>3. ASSUME b[1].kind = "type"
      PROVE  /\ wpart \/ Decoded(b).msg \in wok
             /\ Decoded(b).msg \in wok => DecodedRight(Decoded(b))
  <2>1. Decoded(b).msg = b[1].msg
    BY DEF Decoded
  <2>2. wpart \/ b[1].msg \in wok
    BY <1>3 DEF TextsWhole
  <2>3. ASSUME b[1].msg \in wok PROVE DecodedRight(Decoded(b))
    <3> DEFINE m == b[1].msg
    <3>1. m \in WMsg /\ b \in Seq(WUnit)
      BY <2>3 DEF WireTypes
    <3>2. Len(b) = Announced(m) /\ \A j \in 1 .. Len(b) : b[j] = PacketOf(m)[j + 1]
      BY <1>3, <2>3 DEF TextsWhole
    <3>3. Decoded(b) = [msg |-> m, fields |-> FieldsIn(m, UnitsRead(b)), garbled |-> Garbles(m, UnitsRead(b))]
      BY DEF Decoded
    <3> HIDE DEF m
    <3>4. UnitsRead(b) = MsgSize(m)
      BY <3>1, <3>2, WholeDecoded
    <3> QED
      BY <3>1, <3>3, <3>4, FieldsDecoded
  <2> QED
    BY <2>1, <2>2, <2>3
<1>4. WholeOrCut'
  <2>1. ASSUME NEW h \in whandled', h.msg \in wok PROVE DecodedRight(h)
    BY <1>0, <1>3, <2>1 DEF WholeOrCut, DecodedRight
  <2>2. \A h \in whandled' : wpart \/ h.msg \in wok
    BY <1>0, <1>3 DEF WholeOrCut
  <2> QED
    BY <1>0, <2>1, <2>2 DEF WholeOrCut, DecodedRight
<1> QED
  BY <1>1, <1>2, <1>4

\* The end of the stream, and the steps that read and write nothing.
LEMMA WireOtherKeeps ==
    ASSUME WireInv, RecvEnd \/ InitListen \/ AddPeer \/ ClientClose \/ ServerClose \/ UNCHANGED wvars
    PROVE  WireInv'
<1> USE DEF WireInv
<1>1. CASE RecvEnd
  <2>1. /\ UNCHANGED <<wlisten, wconn, wsent, wok, wpart, wthreads, whandled, wclosed>>
        /\ wrecv' = [wrecv EXCEPT !.pc = "ended"] /\ wstream' = <<>> /\ wclosed # {}
    BY <1>1 DEF RecvEnd
  <2>2. wrecv'.pc = "ended" /\ wrecv' \in [pc : {"size", "text", "ended"}, need : Nat]
    BY <2>1 DEF WireTypes
  <2>3. wstream' \in Seq(WUnit) /\ Len(wstream') = 0 /\ 1 .. 0 = {}
    BY <2>1
  <2>4. WireTypes' /\ WokSent' /\ TextsWhole' /\ WholeOrCut' /\ EndedClosed' /\ RecvAt'
    BY <2>1, <2>2, <2>3 DEF WireTypes, WokSent, TextsWhole, WholeOrCut, EndedClosed, RecvAt
  <2>5. WireWhole' /\ Framed'
    BY <2>3 DEF WireWhole, Framed
  <2> QED
    BY <2>4, <2>5
<1>2. CASE InitListen \/ AddPeer \/ ClientClose \/ ServerClose \/ UNCHANGED wvars
  <2>1. /\ UNCHANGED <<wstream, wsent, wok, wpart, wrecv, wthreads, whandled>>
        /\ wclosed # {} => wclosed' # {}
    BY <1>2 DEF InitListen, AddPeer, ClientClose, ServerClose, wvars
  <2>2. WireTypes' /\ WokSent' /\ WireWhole' /\ Framed'
    BY <2>1 DEF WireTypes, WokSent, WireWhole, Framed
  <2>3. RecvAt' /\ TextsWhole' /\ EndedClosed' /\ WholeOrCut'
    BY <2>1 DEF RecvAt, TextsWhole, EndedClosed, WholeOrCut
  <2> QED
    BY <2>2, <2>3
<1> QED
  BY <1>1, <1>2

\* However many threads share an SDMClient, and whatever they send, a handler of the
\* SDMServer gets messages with all their fields, or, of those longer than
\* MAX_MSG_SIZE, what the cut leaves, with a field it goes through garbled, until a
\* send was partial.
THEOREM MessagesHold == WireSpec => []WholeOrCut
<1>1. WireInit => WireInv
  <2> SUFFICES ASSUME WireInit PROVE WireInv
    OBVIOUS
  <2>1. /\ wstream = <<>> /\ wsent = [t \in WThread |-> 0] /\ wok = {} /\ wpart = FALSE
        /\ wrecv = [pc |-> "size", need |-> 0] /\ wthreads = {} /\ whandled = {}
    BY DEF WireInit, WireStart
  <2>2. Len(wstream) = 0 /\ wstream \in Seq(WUnit) /\ 1 .. 0 = {}
    BY <2>1
  <2>3. WireTypes /\ WokSent /\ RecvAt /\ TextsWhole /\ EndedClosed /\ WholeOrCut
    BY <2>1, <2>2 DEF WireTypes, WokSent, RecvAt, TextsWhole, EndedClosed, WholeOrCut
  <2>4. WireWhole /\ Framed
    BY <2>2 DEF WireWhole, Framed
  <2> QED
    BY <2>3, <2>4 DEF WireInv
<1>2. WireInv /\ [WireNext]_wvars => WireInv'
  BY WireSendKeeps, WireSizeKeeps, WireTextKeeps, WireHandleKeeps, WireOtherKeeps DEF WireNext, Handlers
<1>3. WireInv => WholeOrCut
  BY DEF WireInv
<1> QED
  BY <1>1, <1>2, <1>3, PTL DEF WireSpec
=============================================================================
