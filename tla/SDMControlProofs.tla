-------------------------- MODULE SDMControlProofs --------------------------
(***************************************************************************)
(* Proofs about SDMControl, for any set of sites, applications, data and   *)
(* gets: its invariants, what its replies mean, and that it implements     *)
(* Mover, the control plane's side of the contract with the data mover.    *)
(***************************************************************************)
EXTENDS SDMControl, SyncerProofs

-----------------------------------------------------------------------------
(* Types.                                                                   *)

\* Every operation has an application, a datum and a site.
LEMMA OpType ==
    ASSUME NEW o \in Op
    PROVE  OpApp(o) \in App /\ OpData(o) \in Data /\ OpNode(o) \in Node
BY ConstAssumption DEF Op, OpApp, OpData, OpNode

\* A put is its own datum.
LEMMA PutOp ==
    ASSUME NEW d \in Data
    PROVE  d \in Op /\ OpApp(d) = Producer[d] /\ OpData(d) = d /\ OpNode(d) = Home[Producer[d]]
BY ConstAssumption DEF Op, OpApp, OpData, OpNode

\* A get names its application and its datum.
LEMMA GetOp ==
    ASSUME NEW g \in Get
    PROVE  g \in Op /\ OpApp(g) = GetApp[g] /\ OpData(g) = GetData[g] /\ OpNode(g) = Home[GetApp[g]]
BY ConstAssumption DEF Op, OpApp, OpData, OpNode

\* M builds messages.
LEMMA MsgOk ==
    ASSUME NEW t \in MsgType, NEW n \in Node, NEW o \in Op \cup App
    PROVE  M(t, n, o) \in Msg
BY DEF M, Msg

\* The holder of available data is a site that the WASpace says holds it.
LEMMA FromHolds ==
    ASSUME NEW d \in Data, Available(d)
    PROVE  From(d) \in Node /\ d \in ds_kv[From(d)]
BY DEF Available, From

\* The sync points the sites and the master wait on.
LEMMA PointType ==
    ASSUME NEW o \in Op, NEW a \in App
    PROVE  /\ <<"REG", a>> \in SPoint
           /\ <<"SQUERY", OpData(o)>> \in SPoint
           /\ <<"BQUERY", OpData(o)>> \in MPoint
           /\ <<"MOVE", OpData(o)>> \in MPoint
           /\ \A k \in {"op", "sq", "wm"} : <<k, o>> \in Thread
BY OpType DEF SPoint, MPoint, Thread

\* The moves of a thread and of its site's syncer.
LEMMA GotoType ==
    ASSUME TypeOK, NEW o \in Op, NEW l \in PC, Goto(o, l)
    PROVE  pc' \in [Op -> PC]
BY DEF TypeOK, Goto

\* A thread that starts to wait leaves its site's syncer well typed,
LEMMA WaitType ==
    ASSUME TypeOK, NEW o \in Op, NEW n \in Node, NEW p \in SPoint, NEW l \in PC, Wait(o, n, p, l)
    PROVE  pc' \in [Op -> PC] /\ ssync' \in [Node -> SyncerType(SPoint, Thread)]
<1>1. AddWait(ssync[n], p, <<"op", o>>) \in SyncerType(SPoint, Thread)
  BY AddWaitType, PointType, OpType DEF TypeOK
<1> QED
  BY <1>1, GotoType DEF TypeOK, Wait

\* so does one that returns from its wait,
LEMMA ResumedType ==
    ASSUME TypeOK, NEW o \in Op, NEW n \in Node, NEW p, Resumed(o, n, p)
    PROVE  ssync' \in [Node -> SyncerType(SPoint, Thread)]
<1>1. DelPoint(ssync[n], p, <<"op", o>>) \in SyncerType(SPoint, Thread)
  BY DelPointType DEF TypeOK
<1> QED
  BY <1>1 DEF TypeOK, Resumed

\* and so does a notification at the site.
LEMMA NotifySiteType ==
    ASSUME TypeOK, NEW n \in Node, NEW p, NotifySite(n, p)
    PROVE  ssync' \in [Node -> SyncerType(SPoint, Thread)]
<1>1. PICK r \in Notify(ssync[n], p) : ssync' = [ssync EXCEPT ![n] = r]
  BY DEF NotifySite
<1>2. r \in SyncerType(SPoint, Thread)
  BY NotifyType DEF TypeOK
<1> QED
  BY <1>1, <1>2 DEF TypeOK

\* The master's syncer.
LEMMA NotifyMasterType ==
    ASSUME TypeOK, NEW p, NotifyMaster(p)
    PROVE  msync' \in SyncerType(MPoint, Thread)
BY NotifyType DEF TypeOK, NotifyMaster

\* Messages sent.
LEMMA SendType ==
    ASSUME TypeOK, NEW t \in MsgType, NEW n \in Node, NEW o \in Op \cup App, Send({M(t, n, o)})
    PROVE  msgs' \subseteq Msg
BY MsgOk DEF TypeOK, Send

\* Every step keeps every variable in its type.
LEMMA TypeStep == TypeOK /\ [Next]_vars => TypeOK'
<1> SUFFICES ASSUME TypeOK, [Next]_vars PROVE TypeOK'
  OBVIOUS
<1> USE OpType DEF localVars, opVars, spaceVars, masterVars, netVars
<1>1. ASSUME NEW o \in Op, RegWait(o) PROVE TypeOK'
  BY <1>1, PointType, WaitType DEF TypeOK, RegWait, PC
<1>2. ASSUME NEW o \in Op, RegResume(o) PROVE TypeOK'
  BY <1>2, ResumedType, GotoType DEF TypeOK, RegResume, PC
<1>3. ASSUME NEW d \in Data, SlavePut(d) PROVE TypeOK'
  BY <1>3, PutOp, GotoType, SendType DEF TypeOK, SlavePut, PC, MsgType, Node
<1>4. ASSUME NEW d \in Data, MasterPut(d) PROVE TypeOK'
  BY <1>4, PutOp, GotoType, NotifyMasterType DEF TypeOK, MasterPut, PC, Node
<1>5. ASSUME NEW d \in Data, MasterPutSpace(d) PROVE TypeOK'
  BY <1>5, PutOp, GotoType, ConstAssumption DEF TypeOK, MasterPutSpace, PC, WaPut
<1>6. ASSUME NEW g \in Get, SlaveGet(g) PROVE TypeOK'
  BY <1>6, GetOp, GotoType, SendType DEF TypeOK, SlaveGet, PC, MsgType, Node
<1>7. ASSUME NEW g \in Get, SlaveGetWait(g) PROVE TypeOK'
  BY <1>7, GetOp, PointType, WaitType DEF TypeOK, SlaveGetWait, PC
<1>8. ASSUME NEW g \in Get, SlaveGetResume(g) PROVE TypeOK'
  BY <1>8, GetOp, ResumedType, GotoType DEF TypeOK, SlaveGetResume, PC
<1>9. ASSUME NEW g \in Get, MasterGet(g) PROVE TypeOK'
  BY <1>9, GetOp, GotoType, SendType, FromHolds DEF TypeOK, MasterGet, PC, MsgType,
     MoveToMaster, MasterGetResult
<1>10. ASSUME NEW g \in Get, MasterGetBlock(g) PROVE TypeOK'
  BY <1>10, GetOp, GotoType, AddWaitType, PointType DEF TypeOK, MasterGetBlock, PC
<1>11. ASSUME NEW g \in Get, MasterGetUnblock(g) PROVE TypeOK'
  BY <1>11, GetOp, GotoType, SendType, FromHolds, DelPointType DEF TypeOK,
     MasterGetUnblock, PC, MsgType, MoveToMaster, MasterGetResult
<1>12. ASSUME NEW g \in Get, MasterGetMoveWait(g) PROVE TypeOK'
  BY <1>12, GetOp, GotoType, AddWaitType, PointType DEF TypeOK, MasterGetMoveWait, PC
<1>13. ASSUME NEW g \in Get, MasterGetMoved(g) PROVE TypeOK'
  BY <1>13, GetOp, GotoType, DelPointType DEF TypeOK, MasterGetMoved, PC,
     MasterGetResult
<1>14. ASSUME NEW a \in App, HandleRegApp(a) PROVE TypeOK'
  BY <1>14, ConstAssumption, MsgOk DEF TypeOK, HandleRegApp, MsgType, Node
<1>15. ASSUME NEW d \in Data, HandlePutNotification(d) PROVE TypeOK'
  BY <1>15, PutOp, NotifyMasterType, ConstAssumption DEF TypeOK, HandlePutNotification,
     WaPut
<1>16. ASSUME NEW g \in Get, HandleSquery(g) PROVE TypeOK'
  BY <1>16 DEF TypeOK, HandleSquery
<1>17. ASSUME NEW g \in Get, SqueryPush(g) PROVE TypeOK'
  BY <1>17, GetOp, FromHolds, SendType DEF TypeOK, SqueryPush, OrderMove, MsgType, Node
<1>18. ASSUME NEW g \in Get, SqueryBlock(g) PROVE TypeOK'
  BY <1>18, GetOp, AddWaitType, PointType DEF TypeOK, SqueryBlock
<1>19. ASSUME NEW g \in Get, SqueryUnblock(g) PROVE TypeOK'
  BY <1>19, GetOp, FromHolds, SendType, DelPointType DEF TypeOK, SqueryUnblock,
     OrderMove, MsgType, Node
<1>20. ASSUME NEW g \in Get, WaitForMove(g) PROVE TypeOK'
  BY <1>20, GetOp, AddWaitType, PointType DEF TypeOK, WaitForMove
<1>21. ASSUME NEW g \in Get, MoveWaited(g) PROVE TypeOK'
  BY <1>21, GetOp, DelPointType, SendType DEF TypeOK, MoveWaited, MsgType
<1>22. ASSUME NEW g \in Get, HandleMoveReply(g) PROVE TypeOK'
  BY <1>22, NotifyMasterType DEF TypeOK, HandleMoveReply
<1>23. ASSUME NEW a \in App, HandleRegAppReply(a) PROVE TypeOK'
  BY <1>23, NotifySiteType, ConstAssumption DEF TypeOK, HandleRegAppReply
<1>24. ASSUME NEW g \in Get, HandleSqueryReply(g) PROVE TypeOK'
  BY <1>24, GetOp, NotifySiteType DEF TypeOK, HandleSqueryReply
<1>25. ASSUME NEW n \in Slave, NEW g \in Get, HandleMove(n, g) PROVE TypeOK'
  BY <1>25 DEF TypeOK, HandleMove, Node
<1>26. ASSUME NEW x \in xfer, TransferDone(x) PROVE TypeOK'
  <2>1. x.op \in Get /\ OpNode(x.op) \in Node /\ OpData(x.op) \in Data
    BY GetOp DEF TypeOK
  <2>2. dspaces' \in [Node -> SUBSET Data] /\ qtable' \in [Node -> SUBSET Data]
    BY <1>26, <2>1 DEF TypeOK, TransferDone
  <2>3. msgs' \subseteq Msg /\ msync' \in SyncerType(MPoint, Thread)
    BY <1>26, <2>1, GetOp, NotifyMasterType, SendType DEF TypeOK, TransferDone, MsgType,
       Node
  <2> QED
    BY <1>26, <2>2, <2>3 DEF TypeOK, TransferDone
<1>27. ASSUME NEW x \in xfer, TransferFail(x) PROVE TypeOK'
  BY <1>27, GetOp, NotifySiteType DEF TypeOK, TransferFail
<1>28. ASSUME NEW o \in Op, Start(o) PROVE TypeOK'
  <2>1. dspaces' \in [Node -> SUBSET Data]
    BY <1>28 DEF TypeOK, Start
  <2>2. reged' \subseteq App /\ app_ds' \in [App -> Node \cup {NoNode}]
    BY <1>28 DEF TypeOK, Start, Node
  <2>3. pc' \in [Op -> PC]
    BY <1>28, GotoType DEF Start, PC
  <2>4. msgs' \subseteq Msg
    BY <1>28, SendType DEF TypeOK, Start, MsgType, Node
  <2> QED
    BY <1>28, <2>1, <2>2, <2>3, <2>4 DEF TypeOK, Start
<1>29. CASE UNCHANGED vars
  BY <1>29 DEF TypeOK, vars
<1> QED
  BY <1>1, <1>2, <1>3, <1>4, <1>5, <1>6, <1>7, <1>8, <1>9, <1>10, <1>11, <1>12, <1>13,
     <1>14, <1>15, <1>16, <1>17, <1>18, <1>19, <1>20, <1>21, <1>22, <1>23, <1>24, <1>25,
     <1>26, <1>27, <1>28, <1>29 DEF Next, ControlStep, TransferStep, OpStep, PutStep, GetStep,
     SqueryStep

\* TypeOK holds in every reachable state, whatever the sets of sites,
\* applications, data and gets: no handler leaves the tables it may touch.
THEOREM TypeCorrect == Spec => []TypeOK
<1>1. Init => TypeOK
  BY EmptyType, ConstAssumption DEF Init, TypeOK, PC
<1> QED
  BY <1>1, TypeStep, PTL DEF Spec

-----------------------------------------------------------------------------
(* The inductive invariant.  GetSound, MoveSourceHolds, ProducerKnown and   *)
(* OneHolder follow from where data is and from who is registered; the      *)
(* second needs to know what every thread blocked at a site is waiting for. *)

KnownAtHome(a) == app_ds[a] = Home[a]

\* An application in app_id_v is known to the master, or one of its threads
\* is still inside reg_app.
RegKnown ==
    \A a \in reged : KnownAtHome(a) \/ \E o \in Op : OpApp(o) = a /\ pc[o] \in {"regsent", "regwait"}

MasterIds ==
    \A d \in Data : Home[Producer[d]] = Master => app_ds[Producer[d]] \in {Master, NoNode}

ReplyKnown ==
    \A a \in App : M("REG_APP_REPLY", Home[a], a) \in msgs => KnownAtHome(a)

\* A put past reg_app has a registered producer.
ReadyKnown == \A d \in Data : pc[d] = "ready" => KnownAtHome(Producer[d])

\* A parked thread waits at its own site on the point of its request, and
\* has not been released.
Parked ==
    \A n \in Node : \A x \in ssync[n].parked :
        \E o \in Op : /\ x[2] = <<"op", o>>
                      /\ n = OpNode(o)
                      /\ x[2] \notin ssync[n].woken
                      /\ \/ pc[o] = "regwait" /\ x[1] = <<"REG", OpApp(o)>>
                         \/ pc[o] = "sqwait" /\ x[1] = <<"SQUERY", OpData(o)>>

\* A thread released from reg_app has had its reply.
Woken ==
    \A n \in Node : \A t \in ssync[n].woken :
        \E o \in Op : /\ t = <<"op", o>>
                      /\ n = OpNode(o)
                      /\ pc[o] \in {"regwait", "sqwait"}
                      /\ pc[o] = "regwait" => KnownAtHome(OpApp(o))

RegInv == RegKnown /\ MasterIds /\ ReplyKnown /\ ReadyKnown /\ Parked /\ Woken

\* What a site's qtable lists is in its DataSpaces.
Stored == \A n \in Node : qtable[n] \subseteq dspaces[n]

PutStored == \A d \in Data : pc[d] # "new" => d \in dspaces[OpNode(d)]

\* The site the WASpace names is the producer's, and lists the datum.
HolderHas ==
    \A n \in Node : \A d \in ds_kv[n] : n = Home[Producer[d]] /\ d \in qtable[n]

\* A put on its way to the WASpace is listed at its site.
Announced ==
    \A d \in Data : M("PUT_NOTIFICATION", Master, d) \in msgs \/ pc[d] = "wa_put"
                        => d \in qtable[Home[Producer[d]]]

\* Only gets at the master are inside sdm_mquery.
Sited ==
    \A g \in Get : pc[g] \in {"qmiss", "bwait", "mvsent", "mvwait"} => OpNode(g) = Master

\* Data whose put has not begun is stored nowhere.
NewNowhere == \A d \in Data, n \in Node : d \in dspaces[n] => pc[d] # "new"

PlaceInv ==
    /\ Sited /\ Stored /\ PutStored /\ NewNowhere /\ HolderHas /\ Announced
    /\ ProducerKnown /\ MoveSourceHolds /\ GetSound

IInv == TypeOK /\ RegInv /\ PlaceInv

-----------------------------------------------------------------------------
(* Registration.                                                            *)

\* The steps that do not touch registration: threads that wait at a site stay
\* where they are, and nobody becomes ready or is sent a reply.
Quiet ==
    /\ ssync' = ssync /\ reged' = reged /\ app_ds' = app_ds
    /\ \A o \in Op : pc[o] \in {"regsent", "regwait", "sqwait"} => pc'[o] = pc[o]
    /\ \A d \in Data : pc'[d] = "ready" => pc[d] = "ready"
    /\ \A a \in App : M("REG_APP_REPLY", Home[a], a) \in msgs' => M("REG_APP_REPLY", Home[a], a) \in msgs

\* They preserve the registration invariant.
LEMMA QuietStep ==
    ASSUME TypeOK, RegInv, Quiet
    PROVE  RegInv'
<1>1. RegKnown'
  BY DEF RegInv, RegKnown, Quiet, KnownAtHome
<1>2. (MasterIds /\ ReplyKnown /\ ReadyKnown)'
  BY DEF RegInv, MasterIds, ReplyKnown, ReadyKnown, Quiet, KnownAtHome
<1>3. Parked'
  BY DEF RegInv, Parked, Quiet
<1>4. Woken'
  BY DEF RegInv, Woken, Quiet, KnownAtHome
<1> QED
  BY <1>1, <1>2, <1>3, <1>4 DEF RegInv

QuietAction ==
    \/ \E d \in Data : SlavePut(d) \/ MasterPut(d) \/ MasterPutSpace(d) \/ HandlePutNotification(d)
    \/ \E g \in Get : \/ SlaveGet(g) \/ MasterGet(g) \/ MasterGetBlock(g) \/ MasterGetUnblock(g)
                      \/ MasterGetMoveWait(g) \/ MasterGetMoved(g)
                      \/ HandleSquery(g) \/ SqueryPush(g) \/ SqueryBlock(g) \/ SqueryUnblock(g)
                      \/ WaitForMove(g) \/ MoveWaited(g) \/ HandleMoveReply(g)
                      \/ \E n \in Slave : HandleMove(n, g)
    \/ \E x \in xfer : TransferDone(x)

\* Puts past reg_app, the master's gets and its query threads, and the data
\* mover's successful transfers are such steps.
LEMMA QuietActions ==
    ASSUME TypeOK, QuietAction
    PROVE  Quiet
<1> USE DEF TypeOK, Quiet, Goto, Send, M, localVars, opVars, spaceVars, masterVars,
   netVars
<1>1. ASSUME NEW d \in Data, SlavePut(d) PROVE Quiet
  BY <1>1, PutOp DEF SlavePut, Op
<1>2. ASSUME NEW d \in Data, MasterPut(d) PROVE Quiet
  BY <1>2, PutOp DEF MasterPut, Op
<1>3. ASSUME NEW d \in Data, MasterPutSpace(d) PROVE Quiet
  BY <1>3, PutOp DEF MasterPutSpace, Op
<1>4. ASSUME NEW g \in Get, SlaveGet(g) PROVE Quiet
  BY <1>4, GetOp DEF SlaveGet, Op
<1>5. ASSUME NEW g \in Get, MasterGet(g) PROVE Quiet
  BY <1>5, GetOp DEF MasterGet, MoveToMaster, MasterGetResult, Op
<1>6. ASSUME NEW g \in Get, MasterGetBlock(g) PROVE Quiet
  BY <1>6, GetOp DEF MasterGetBlock, Op
<1>7. ASSUME NEW g \in Get, MasterGetUnblock(g) PROVE Quiet
  BY <1>7, GetOp DEF MasterGetUnblock, MoveToMaster, MasterGetResult, Op
<1>8. ASSUME NEW g \in Get, MasterGetMoveWait(g) PROVE Quiet
  BY <1>8, GetOp DEF MasterGetMoveWait, Op
<1>9. ASSUME NEW g \in Get, MasterGetMoved(g) PROVE Quiet
  BY <1>9, GetOp DEF MasterGetMoved, MasterGetResult
<1>10. ASSUME NEW d \in Data, HandlePutNotification(d) PROVE Quiet
  BY <1>10 DEF HandlePutNotification
<1>11. ASSUME NEW g \in Get, HandleSquery(g) PROVE Quiet
  BY <1>11 DEF HandleSquery
<1>12. ASSUME NEW g \in Get, SqueryPush(g) PROVE Quiet
  BY <1>12 DEF SqueryPush, OrderMove
<1>13. ASSUME NEW g \in Get, SqueryBlock(g) PROVE Quiet
  BY <1>13 DEF SqueryBlock
<1>14. ASSUME NEW g \in Get, SqueryUnblock(g) PROVE Quiet
  BY <1>14 DEF SqueryUnblock, OrderMove
<1>15. ASSUME NEW g \in Get, WaitForMove(g) PROVE Quiet
  BY <1>15 DEF WaitForMove
<1>16. ASSUME NEW g \in Get, MoveWaited(g) PROVE Quiet
  BY <1>16 DEF MoveWaited
<1>17. ASSUME NEW g \in Get, HandleMoveReply(g) PROVE Quiet
  BY <1>17 DEF HandleMoveReply, Op
<1>18. ASSUME NEW n \in Slave, NEW g \in Get, HandleMove(n, g) PROVE Quiet
  BY <1>18 DEF HandleMove
<1>19. ASSUME NEW x \in xfer, TransferDone(x) PROVE Quiet
  BY <1>19 DEF TransferDone
<1> QED
  BY <1>1, <1>2, <1>3, <1>4, <1>5, <1>6, <1>7, <1>8, <1>9, <1>10, <1>11, <1>12, <1>13,
     <1>14, <1>15, <1>16, <1>17, <1>18, <1>19 DEF QuietAction

\* A notify on the registration point of a known application, or on a query's
\* point, releases at most one thread, and that one is where it should be.
LEMMA NotifyKeeps ==
    ASSUME TypeOK, Parked, Woken, pc' = pc, app_ds' = app_ds,
           NEW n \in Node, NEW p, NotifySite(n, p),
           \A a \in App : p = <<"REG", a>> => KnownAtHome(a)
    PROVE  Parked' /\ Woken'
<1>1. PICK r \in Notify(ssync[n], p) : ssync' = [ssync EXCEPT ![n] = r]
  BY DEF NotifySite
<1>2. ssync'[n] = r /\ \A k \in Node \ {n} : ssync'[k] = ssync[k]
  BY <1>1 DEF TypeOK
<1>3. CASE r = ssync[n]
  BY <1>2, <1>3 DEF Parked, Woken, KnownAtHome
<1>4. ASSUME NEW x \in ssync[n].parked, x[1] = p,
             r.parked = ssync[n].parked \ {x}, r.woken = ssync[n].woken \cup {x[2]}
      PROVE  Parked' /\ Woken'
  <2>1. PICK o \in Op : /\ x[2] = <<"op", o>>
                        /\ n = OpNode(o)
                        /\ \/ pc[o] = "regwait" /\ x[1] = <<"REG", OpApp(o)>>
                           \/ pc[o] = "sqwait" /\ x[1] = <<"SQUERY", OpData(o)>>
    BY DEF Parked
  <2>2. pc[o] = "regwait" => KnownAtHome(OpApp(o))
    BY <1>4, <2>1, OpType
  <2>3. Woken'
    BY <1>2, <1>4, <2>1, <2>2 DEF Woken, KnownAtHome
  <2>4. ASSUME NEW y \in ssync[n].parked, y # x PROVE y[2] # x[2]
    <3>1. SUFFICES ASSUME y[2] = x[2] PROVE FALSE
      OBVIOUS
    <3>2. PICK q \in Op : /\ y[2] = <<"op", q>>
                          /\ \/ pc[q] = "regwait" /\ y[1] = <<"REG", OpApp(q)>>
                             \/ pc[q] = "sqwait" /\ y[1] = <<"SQUERY", OpData(q)>>
      BY DEF Parked
    <3>3. q = o
      BY <2>1, <3>1, <3>2
    <3>4. y[1] = x[1]
      BY <2>1, <3>2, <3>3
    <3>5. x \in SPoint \X Thread /\ y \in SPoint \X Thread
      BY DEF TypeOK, SyncerType
    <3> QED
      BY <2>4, <3>1, <3>4, <3>5
  <2>5. Parked'
    <3>1. ASSUME NEW k \in Node, NEW y \in ssync'[k].parked
          PROVE  \E q \in Op : /\ y[2] = <<"op", q>>
                               /\ k = OpNode(q)
                               /\ y[2] \notin ssync'[k].woken
                               /\ \/ pc'[q] = "regwait" /\ y[1] = <<"REG", OpApp(q)>>
                                  \/ pc'[q] = "sqwait" /\ y[1] = <<"SQUERY", OpData(q)>>
      <4>1. y \in ssync[k].parked /\ (k = n => y # x)
        BY <1>2, <1>4, <3>1
      <4>2. y[2] \notin ssync[k].woken => y[2] \notin ssync'[k].woken
        BY <1>2, <1>4, <2>4, <4>1
      <4> QED
        BY <4>1, <4>2 DEF Parked
    <3> QED
      BY <3>1 DEF Parked
  <2> QED
    BY <2>3, <2>5
<1> QED
  BY <1>1, <1>3, <1>4, NotifyEffect

\* The point a thread in reg_app or in a slave's get waits on.
OwnPoint(o, p, l) ==
    \/ l = "regwait" /\ p = <<"REG", OpApp(o)>>
    \/ l = "sqwait" /\ p = <<"SQUERY", OpData(o)>>

\* A thread that begins to wait is parked on its own point, once.
LEMMA WaitKeeps ==
    ASSUME TypeOK, Parked, Woken, app_ds' = app_ds,
           NEW o \in Op, NEW p, NEW l, OwnPoint(o, p, l),
           pc[o] \notin {"regwait", "sqwait"}, Wait(o, OpNode(o), p, l)
    PROVE  Parked' /\ Woken'
<1> DEFINE n == OpNode(o)
           s == AddWait(ssync[n], p, <<"op", o>>)
<1>1. n \in Node /\ pc' = [pc EXCEPT ![o] = l] /\ ssync' = [ssync EXCEPT ![n] = s]
  BY OpType DEF Wait, Goto
<1>2. pc'[o] = l /\ (\A q \in Op \ {o} : pc'[q] = pc[q])
  BY <1>1 DEF TypeOK
<1>3. /\ ssync'[n].parked = ssync[n].parked \cup {<<p, <<"op", o>>>>}
      /\ \A k \in Node : ssync'[k].woken = ssync[k].woken
      /\ \A k \in Node \ {n} : ssync'[k] = ssync[k]
  BY <1>1 DEF TypeOK, AddWait
<1>4. \A k \in Node : <<"op", o>> \notin ssync[k].woken
  BY DEF Woken
<1>5. \A k \in Node : \A x \in ssync[k].parked : x[2] # <<"op", o>>
  BY DEF Parked
<1>6. Woken'
  BY <1>2, <1>3, <1>4 DEF Woken, KnownAtHome
<1>7. ASSUME NEW k \in Node, NEW y \in ssync'[k].parked
      PROVE  \E q \in Op : /\ y[2] = <<"op", q>>
                           /\ k = OpNode(q)
                           /\ y[2] \notin ssync'[k].woken
                           /\ \/ pc'[q] = "regwait" /\ y[1] = <<"REG", OpApp(q)>>
                              \/ pc'[q] = "sqwait" /\ y[1] = <<"SQUERY", OpData(q)>>
  <2>1. CASE y \in ssync[k].parked
    BY <1>2, <1>3, <1>5, <2>1 DEF Parked
  <2>2. CASE y = <<p, <<"op", o>>>> /\ k = n
    BY <1>2, <1>3, <1>4, <2>2 DEF OwnPoint
  <2> QED
    BY <1>3, <2>1, <2>2
<1> QED
  BY <1>6, <1>7 DEF Parked

\* A thread that returns from its wait leaves nothing of itself behind, and
\* no other thread parked or released is affected that is still where it was.
LEMMA ResumeKeeps ==
    ASSUME TypeOK, Parked, Woken, app_ds' = app_ds,
           NEW o \in Op, NEW p, NEW l, OwnPoint(o, p, pc[o]), l \notin {"regwait", "sqwait"},
           Resumed(o, OpNode(o), p), Goto(o, l)
    PROVE  Parked' /\ Woken'
<1> DEFINE n == OpNode(o)
           s == DelPoint(ssync[n], p, <<"op", o>>)
<1>1. n \in Node /\ pc' = [pc EXCEPT ![o] = l] /\ ssync' = [ssync EXCEPT ![n] = s]
  BY OpType DEF Resumed, Goto
<1>2. \A q \in Op \ {o} : pc'[q] = pc[q]
  BY <1>1 DEF TypeOK
<1>3. /\ \A k \in Node : ssync'[k].parked \subseteq ssync[k].parked
      /\ \A k \in Node : ssync'[k].woken \subseteq ssync[k].woken
      /\ <<"op", o>> \notin ssync'[n].woken
      /\ \A x \in ssync'[n].parked : x[1] # p
  BY <1>1 DEF TypeOK, DelPoint
<1>4. \A k \in Node : <<"op", o>> \notin ssync'[k].woken
  BY <1>3 DEF Woken
<1>5. \A k \in Node : \A x \in ssync'[k].parked : x[2] # <<"op", o>>
  BY <1>3 DEF Parked, OwnPoint
<1>6. Woken'
  BY <1>2, <1>3, <1>4 DEF Woken, KnownAtHome
<1>7. ASSUME NEW k \in Node, NEW y \in ssync'[k].parked
      PROVE  \E q \in Op : /\ y[2] = <<"op", q>>
                           /\ k = OpNode(q)
                           /\ y[2] \notin ssync'[k].woken
                           /\ \/ pc'[q] = "regwait" /\ y[1] = <<"REG", OpApp(q)>>
                              \/ pc'[q] = "sqwait" /\ y[1] = <<"SQUERY", OpData(q)>>
  <2>1. y \in ssync[k].parked /\ y[2] # <<"op", o>>
    BY <1>3, <1>5
  <2> QED
    BY <1>2, <1>3, <2>1 DEF Parked
<1> QED
  BY <1>6, <1>7 DEF Parked

\* Every step preserves the registration invariant.
LEMMA RegStep ==
    ASSUME TypeOK, RegInv, [Next]_vars
    PROVE  RegInv'
<1> USE DEF localVars, opVars, spaceVars, masterVars, netVars
<1>1. CASE QuietAction
  BY <1>1, QuietActions, QuietStep
<1>2. CASE UNCHANGED vars
  BY <1>2, QuietStep DEF vars, Quiet
<1>3. ASSUME NEW o \in Op, RegWait(o) PROVE RegInv'
  <2>1. Parked' /\ Woken'
    BY <1>3, WaitKeeps DEF RegInv, RegWait, OwnPoint
  <2>2. /\ pc[o] = "regsent" /\ pc' = [pc EXCEPT ![o] = "regwait"]
        /\ reged' = reged /\ app_ds' = app_ds /\ msgs' = msgs
    BY <1>3 DEF RegWait, Wait, Goto
  <2>3. RegKnown'
    BY <2>2 DEF TypeOK, RegInv, RegKnown, KnownAtHome
  <2> QED
    BY <2>1, <2>2, <2>3, PutOp DEF TypeOK, RegInv, MasterIds, ReplyKnown, ReadyKnown,
       KnownAtHome
<1>4. ASSUME NEW o \in Op, RegResume(o) PROVE RegInv'
  <2>1. Parked' /\ Woken'
    BY <1>4, ResumeKeeps DEF RegInv, RegResume, OwnPoint
  <2>2. /\ pc[o] = "regwait" /\ pc' = [pc EXCEPT ![o] = "ready"]
        /\ reged' = reged /\ app_ds' = app_ds /\ msgs' = msgs
        /\ <<"op", o>> \in ssync[OpNode(o)].woken
    BY <1>4 DEF RegResume, Resumed, Goto
  <2>3. KnownAtHome(OpApp(o))
    BY <2>2, OpType DEF RegInv, Woken
  <2>4. RegKnown'
    BY <2>2, <2>3 DEF TypeOK, RegInv, RegKnown, KnownAtHome
  <2> QED
    BY <2>1, <2>2, <2>3, <2>4, PutOp DEF TypeOK, RegInv, MasterIds, ReplyKnown,
       ReadyKnown, KnownAtHome
<1>5. ASSUME NEW g \in Get, SlaveGetWait(g) PROVE RegInv'
  <2>1. Parked' /\ Woken'
    BY <1>5, WaitKeeps, GetOp DEF RegInv, SlaveGetWait, OwnPoint
  <2>2. /\ pc[g] = "sqsent" /\ pc' = [pc EXCEPT ![g] = "sqwait"]
        /\ reged' = reged /\ app_ds' = app_ds /\ msgs' = msgs
    BY <1>5 DEF SlaveGetWait, Wait, Goto
  <2>3. RegKnown'
    BY <2>2, GetOp DEF TypeOK, RegInv, RegKnown, KnownAtHome
  <2> QED
    BY <2>1, <2>2, <2>3, PutOp, GetOp DEF TypeOK, RegInv, MasterIds, ReplyKnown,
       ReadyKnown, KnownAtHome
<1>6. ASSUME NEW g \in Get, SlaveGetResume(g) PROVE RegInv'
  <2>1. Parked' /\ Woken'
    BY <1>6, ResumeKeeps, GetOp DEF RegInv, SlaveGetResume, OwnPoint
  <2>2. /\ pc[g] = "sqwait" /\ \E l \in {"ok", "fail"} : pc' = [pc EXCEPT ![g] = l]
        /\ reged' = reged /\ app_ds' = app_ds /\ msgs' = msgs
    BY <1>6 DEF SlaveGetResume, Goto
  <2>3. RegKnown'
    BY <2>2, GetOp DEF TypeOK, RegInv, RegKnown, KnownAtHome
  <2> QED
    BY <2>1, <2>2, <2>3, PutOp, GetOp DEF TypeOK, RegInv, MasterIds, ReplyKnown,
       ReadyKnown, KnownAtHome
<1>7. ASSUME NEW a \in App, HandleRegApp(a) PROVE RegInv'
  <2>1. /\ ssync' = ssync /\ pc' = pc /\ reged' = reged
        /\ \/ /\ app_ds[a] = NoNode /\ app_ds' = [app_ds EXCEPT ![a] = Home[a]]
              /\ msgs' \subseteq msgs \cup {M("REG_APP_REPLY", Home[a], a)}
           \/ app_ds' = app_ds /\ msgs' \subseteq msgs
    BY <1>7 DEF HandleRegApp
  <2>2. \A b \in App : KnownAtHome(b) => KnownAtHome(b)'
    BY <2>1, ConstAssumption DEF TypeOK, KnownAtHome
  <2>3. ReplyKnown'
    BY <2>1, <2>2, ConstAssumption DEF TypeOK, RegInv, ReplyKnown, KnownAtHome, M
  <2>4. MasterIds'
    BY <2>1, ConstAssumption DEF TypeOK, RegInv, MasterIds
  <2>5. RegKnown' /\ ReadyKnown'
    BY <2>1, <2>2, ConstAssumption DEF TypeOK, RegInv, RegKnown, ReadyKnown
  <2>6. Parked' /\ Woken'
    BY <2>1, <2>2, OpType DEF RegInv, Parked, Woken
  <2> QED
    BY <2>3, <2>4, <2>5, <2>6 DEF RegInv
<1>8. ASSUME NEW a \in App, HandleRegAppReply(a) PROVE RegInv'
  <2>1. KnownAtHome(a)
    BY <1>8 DEF HandleRegAppReply, RegInv, ReplyKnown
  <2>2. Parked' /\ Woken'
    BY <1>8, <2>1, NotifyKeeps, ConstAssumption DEF HandleRegAppReply, RegInv
  <2> QED
    BY <1>8, <2>2 DEF HandleRegAppReply, RegInv, RegKnown, MasterIds, ReplyKnown,
       ReadyKnown, KnownAtHome
<1>9. ASSUME NEW g \in Get, HandleSqueryReply(g) PROVE RegInv'
  <2>1. Parked' /\ Woken'
    BY <1>9, NotifyKeeps, GetOp, OpType DEF HandleSqueryReply, RegInv
  <2> QED
    BY <1>9, <2>1 DEF HandleSqueryReply, RegInv, RegKnown, MasterIds, ReplyKnown,
       ReadyKnown, KnownAtHome
<1>10. ASSUME NEW x \in xfer, TransferFail(x) PROVE RegInv'
  <2>1. Parked' /\ Woken'
    BY <1>10, NotifyKeeps, GetOp, OpType DEF TypeOK, TransferFail, RegInv
  <2> QED
    BY <1>10, <2>1 DEF TransferFail, RegInv, RegKnown, MasterIds, ReplyKnown,
       ReadyKnown, KnownAtHome
<1>11. ASSUME NEW o \in Op, Start(o) PROVE RegInv'
  <2> DEFINE a == OpApp(o)
  <2>1. /\ a \in App /\ pc[o] = "new" /\ ssync' = ssync
        /\ \A q \in Op \ {o} : pc'[q] = pc[q]
        /\ \A b \in App \ {a} : app_ds'[b] = app_ds[b]
        /\ \A b \in App : M("REG_APP_REPLY", Home[b], b) \in msgs' => M("REG_APP_REPLY", Home[b], b) \in msgs
    BY <1>11, OpType DEF TypeOK, Start, Goto, Send, M
  <2>2. \/ a \in reged /\ reged' = reged /\ app_ds' = app_ds /\ pc'[o] = "ready"
        \/ /\ a \notin reged /\ OpNode(o) = Master /\ app_ds[a] = NoNode
           /\ reged' = reged \cup {a} /\ app_ds'[a] = Master /\ pc'[o] = "ready"
        \/ /\ a \notin reged /\ OpNode(o) = Master /\ app_ds[a] # NoNode
           /\ reged' = reged /\ app_ds' = app_ds /\ pc'[o] = "ready"
        \/ reged' = reged \cup {a} /\ app_ds' = app_ds /\ pc'[o] = "regsent"
    BY <1>11, OpType DEF TypeOK, Start, Goto
  <2>3. \A b \in App : KnownAtHome(b) => KnownAtHome(b)'
    BY <2>1, <2>2, ConstAssumption DEF KnownAtHome
  <2>4. a \in reged => KnownAtHome(a)
    BY <1>11 DEF RegInv, RegKnown, Start, Busy
  <2>5. RegKnown'
    BY <2>1, <2>2, <2>3, OpType DEF TypeOK, RegInv, RegKnown, KnownAtHome, OpNode
  <2>6. MasterIds' /\ ReplyKnown'
    BY <2>1, <2>2, <2>3, ConstAssumption DEF RegInv, MasterIds, ReplyKnown, OpNode
  <2>7. o \in Data /\ pc'[o] = "ready" => KnownAtHome(Producer[o])'
    BY <2>2, <2>3, <2>4, PutOp DEF RegInv, MasterIds, KnownAtHome
  <2>8. ReadyKnown'
    BY <2>1, <2>3, <2>7, PutOp, ConstAssumption DEF RegInv, ReadyKnown
  <2>9. Parked' /\ Woken'
    BY <2>1, <2>3, OpType DEF RegInv, Parked, Woken
  <2> QED
    BY <2>5, <2>6, <2>8, <2>9 DEF RegInv
<1> QED
  BY <1>1, <1>2, <1>3, <1>4, <1>5, <1>6, <1>7, <1>8, <1>9, <1>10, <1>11
     DEF Next, ControlStep, TransferStep, OpStep, PutStep, GetStep, SqueryStep, QuietAction

-----------------------------------------------------------------------------
(* Where data is.                                                           *)

\* What a step may do to the facts PlaceInv is made of: data is never taken
\* from a table, and each new fact rests on a table entry.
PlaceFrame ==
    /\ \A n \in Node : dspaces[n] \subseteq dspaces'[n] /\ qtable[n] \subseteq qtable'[n]
    /\ \A a \in App : KnownAtHome(a) => KnownAtHome(a)'
    /\ \A n \in Node : qtable'[n] \subseteq qtable[n] \cup dspaces'[n]
    /\ \A d \in Data : pc'[d] # "new" => pc[d] # "new" \/ d \in dspaces'[OpNode(d)]
    /\ \A d \in Data : pc[d] # "new" => pc'[d] # "new"
    /\ \A n \in Node : \A d \in dspaces'[n] : d \in dspaces[n] \/ pc'[d] # "new"
    /\ \A n \in Node : \A d \in ds_kv'[n] :
            d \in ds_kv[n] \/ (n = Home[Producer[d]] /\ d \in qtable[n])
    /\ \A d \in Data : M("PUT_NOTIFICATION", Master, d) \in msgs' \/ pc'[d] = "wa_put"
            => \/ M("PUT_NOTIFICATION", Master, d) \in msgs \/ pc[d] = "wa_put"
               \/ KnownAtHome(Producer[d]) /\ d \in qtable'[Home[Producer[d]]]
    /\ \A n \in Node, g \in Get : Ordered(n, g)' => Ordered(n, g) \/ OpData(g) \in qtable[n]
    /\ \A g \in Get : pc'[g] \in {"qmiss", "bwait", "mvsent", "mvwait"}
            => pc[g] \in {"qmiss", "bwait", "mvsent", "mvwait"} \/ OpNode(g) = Master
    /\ \A g \in Get : pc'[g] = "ok" => pc[g] = "ok" \/ OpData(g) \in qtable[OpNode(g)]

\* Such a step preserves PlaceInv.
LEMMA PlaceFrameStep ==
    ASSUME TypeOK, TypeOK', PlaceInv, PlaceFrame
    PROVE  PlaceInv'
<1>1. Stored' /\ PutStored' /\ Sited'
  BY PutOp, OpType DEF PlaceInv, Sited, Stored, PutStored, PlaceFrame
<1>6. NewNowhere'
  BY DEF PlaceInv, NewNowhere, PlaceFrame
<1>2. HolderHas'
  BY DEF PlaceInv, HolderHas, PlaceFrame
<1>3. Announced' /\ ProducerKnown'
  BY ConstAssumption DEF PlaceInv, Announced, ProducerKnown, PlaceFrame, KnownAtHome
<1>4. MoveSourceHolds'
  BY DEF PlaceInv, Stored, MoveSourceHolds, PlaceFrame
<1>5. GetSound'
  BY GetOp, OpType DEF PlaceInv, Stored, GetSound, PlaceFrame
<1> QED
  BY <1>1, <1>2, <1>3, <1>4, <1>5, <1>6 DEF PlaceInv

\* Every step is such a step.
LEMMA PlaceFrameActions ==
    ASSUME TypeOK, RegInv, PlaceInv, [Next]_vars
    PROVE  PlaceFrame
<1> USE OpType DEF TypeOK, PlaceInv, PlaceFrame, KnownAtHome, Ordered, Goto, Send, M,
   Op, localVars, opVars, spaceVars, masterVars, netVars
<1>1. ASSUME NEW o \in Op, RegWait(o) PROVE PlaceFrame
  BY <1>1 DEF RegWait, Wait
<1>2. ASSUME NEW o \in Op, RegResume(o) PROVE PlaceFrame
  BY <1>2 DEF RegResume, Resumed
<1>3. ASSUME NEW d \in Data, SlavePut(d) PROVE PlaceFrame
  <2>1. /\ d \in Op /\ OpNode(d) = Home[Producer[d]] /\ Home[Producer[d]] \in Node
        /\ app_ds[Producer[d]] = Home[Producer[d]] /\ d \in dspaces[Home[Producer[d]]]
    BY <1>3, PutOp DEF SlavePut, RegInv, ReadyKnown, PutStored
  <2>2. /\ \A n \in Node : qtable[n] \subseteq qtable'[n] /\ qtable'[n] \subseteq qtable[n] \cup dspaces[n]
        /\ d \in qtable'[Home[Producer[d]]]
    BY <1>3, <2>1 DEF SlavePut
  <2>3. \A c \in Data : M("PUT_NOTIFICATION", Master, c) \in msgs'
            => M("PUT_NOTIFICATION", Master, c) \in msgs \/ c = d
    BY <1>3 DEF SlavePut
  <2>4. \A c \in Op : c # d => pc'[c] = pc[c]
    BY <1>3, <2>1 DEF SlavePut
  <2>5. \A n \in Node, g \in Get : Ordered(n, g)' => Ordered(n, g)
    BY <1>3 DEF SlavePut
  <2> QED
    BY <1>3, <2>1, <2>2, <2>3, <2>4, <2>5, ConstAssumption DEF SlavePut
<1>4. ASSUME NEW d \in Data, MasterPut(d) PROVE PlaceFrame
  BY <1>4, PutOp DEF MasterPut, RegInv, ReadyKnown, PutStored, Node
<1>5. ASSUME NEW d \in Data, MasterPutSpace(d) PROVE PlaceFrame
  <2>1. /\ d \in Op /\ pc[d] = "wa_put"
        /\ app_ds[Producer[d]] = Home[Producer[d]] /\ d \in qtable[Home[Producer[d]]]
    BY <1>5, PutOp DEF MasterPutSpace, Announced, ProducerKnown
  <2>2. \A n \in Node : ds_kv'[n] \subseteq ds_kv[n] \cup (IF n = Home[Producer[d]] THEN {d} ELSE {})
    BY <1>5, <2>1 DEF MasterPutSpace, WaPut
  <2>3. \A c \in Op : c # d => pc'[c] = pc[c]
    BY <1>5, <2>1 DEF MasterPutSpace
  <2>4. pc'[d] \in {"ok", "fail"} /\ d \notin Get
    BY <1>5, <2>1, ConstAssumption DEF MasterPutSpace
  <2> QED
    BY <1>5, <2>1, <2>2, <2>3, <2>4 DEF MasterPutSpace
<1>6. ASSUME NEW g \in Get, SlaveGet(g) PROVE PlaceFrame
  BY <1>6, GetOp DEF SlaveGet
<1>7. ASSUME NEW g \in Get, SlaveGetWait(g) PROVE PlaceFrame
  BY <1>7, GetOp DEF SlaveGetWait, Wait
<1>8. ASSUME NEW g \in Get, SlaveGetResume(g) PROVE PlaceFrame
  BY <1>8, GetOp DEF SlaveGetResume, Resumed
<1>9. ASSUME NEW g \in Get, MasterGet(g) PROVE PlaceFrame
  BY <1>9, GetOp, FromHolds DEF MasterGet, MoveToMaster, MasterGetResult, HolderHas
<1>10. ASSUME NEW g \in Get, MasterGetBlock(g) PROVE PlaceFrame
  BY <1>10, GetOp DEF MasterGetBlock
<1>11. ASSUME NEW g \in Get, MasterGetUnblock(g) PROVE PlaceFrame
  <2>1. g \in Op /\ OpData(g) \in Data /\ OpNode(g) \in Node
    BY GetOp
  <2>2. \A c \in Op : c # g => pc'[c] = pc[c]
    BY <1>11, <2>1 DEF MasterGetUnblock, MoveToMaster
  <2>3. pc'[g] \in {"ok", "fail", "mvsent"}
    BY <1>11, <2>1 DEF MasterGetUnblock, MoveToMaster, MasterGetResult
  <2>4. OpNode(g) = Master
    BY <1>11, <2>1 DEF MasterGetUnblock, Sited
  <2>5. pc'[g] = "ok" => OpData(g) \in qtable[Master]
    BY <1>11, <2>1 DEF MasterGetUnblock, MoveToMaster, MasterGetResult
  <2>6. /\ \A n \in Node, k \in Get : Ordered(n, k)' => Ordered(n, k) \/ OpData(k) \in qtable[n]
        /\ \A c \in Data : M("PUT_NOTIFICATION", Master, c) \in msgs' => M("PUT_NOTIFICATION", Master, c) \in msgs
    BY <1>11, <2>1, FromHolds DEF MasterGetUnblock, MoveToMaster, HolderHas
  <2> QED
    BY <1>11, <2>1, <2>2, <2>3, <2>4, <2>5, <2>6 DEF MasterGetUnblock
<1>12. ASSUME NEW g \in Get, MasterGetMoveWait(g) PROVE PlaceFrame
  BY <1>12, GetOp DEF MasterGetMoveWait
<1>13. ASSUME NEW g \in Get, MasterGetMoved(g) PROVE PlaceFrame
  <2>1. g \in Op /\ OpNode(g) = Master
    BY <1>13, GetOp DEF MasterGetMoved, Sited
  <2>2. pc' = [pc EXCEPT ![g] = MasterGetResult(g)]
    BY <1>13 DEF MasterGetMoved
  <2>3. /\ MasterGetResult(g) \in {"ok", "fail"}
        /\ MasterGetResult(g) = "ok" => OpData(g) \in qtable[Master]
    BY DEF MasterGetResult
  <2> QED
    BY <1>13, <2>1, <2>2, <2>3, GetOp DEF MasterGetMoved
<1>14. ASSUME NEW a \in App, HandleRegApp(a) PROVE PlaceFrame
  BY <1>14, ConstAssumption DEF HandleRegApp
<1>15. ASSUME NEW d \in Data, HandlePutNotification(d) PROVE PlaceFrame
  BY <1>15, PutOp DEF HandlePutNotification, WaPut, Announced, ProducerKnown,
     KnownAtHome
<1>16. ASSUME NEW g \in Get, HandleSquery(g) PROVE PlaceFrame
  BY <1>16 DEF HandleSquery
<1>17. ASSUME NEW g \in Get, SqueryPush(g) PROVE PlaceFrame
  BY <1>17, GetOp, FromHolds DEF SqueryPush, OrderMove, HolderHas
<1>18. ASSUME NEW g \in Get, SqueryBlock(g) PROVE PlaceFrame
  BY <1>18 DEF SqueryBlock
<1>19. ASSUME NEW g \in Get, SqueryUnblock(g) PROVE PlaceFrame
  BY <1>19, GetOp, FromHolds DEF SqueryUnblock, OrderMove, HolderHas
<1>20. ASSUME NEW g \in Get, WaitForMove(g) PROVE PlaceFrame
  BY <1>20 DEF WaitForMove
<1>21. ASSUME NEW g \in Get, MoveWaited(g) PROVE PlaceFrame
  BY <1>21 DEF MoveWaited
<1>22. ASSUME NEW g \in Get, HandleMoveReply(g) PROVE PlaceFrame
  BY <1>22 DEF HandleMoveReply
<1>23. ASSUME NEW a \in App, HandleRegAppReply(a) PROVE PlaceFrame
  BY <1>23 DEF HandleRegAppReply
<1>24. ASSUME NEW g \in Get, HandleSqueryReply(g) PROVE PlaceFrame
  BY <1>24 DEF HandleSqueryReply
<1>25. ASSUME NEW n \in Slave, NEW g \in Get, HandleMove(n, g) PROVE PlaceFrame
  BY <1>25 DEF HandleMove, MoveSourceHolds, Node
<1>26. ASSUME NEW x \in xfer, TransferDone(x) PROVE PlaceFrame
  <2>1. x.op \in Get /\ OpData(x.op) \in Data /\ OpNode(x.op) \in Node /\ x.from \in Node
    BY GetOp
  <2>2. OpData(x.op) \in dspaces[x.from]
    BY <1>26, <2>1 DEF MoveSourceHolds, TransferDone
  <2>3. pc[OpData(x.op)] # "new" /\ pc' = pc
    BY <1>26, <2>1, <2>2 DEF NewNowhere, TransferDone
  <2>4. \A n \in Node : \A d \in dspaces'[n] : d \in dspaces[n] \/ pc'[d] # "new"
    BY <1>26, <2>1, <2>3 DEF TransferDone
  <2> QED
    BY <1>26, <2>1, <2>3, <2>4 DEF TransferDone
<1>27. ASSUME NEW x \in xfer, TransferFail(x) PROVE PlaceFrame
  BY <1>27 DEF TransferFail
<1>28. ASSUME NEW o \in Op, Start(o) PROVE PlaceFrame
  <2>1. /\ \A n \in Node : dspaces[n] \subseteq dspaces'[n]
        /\ o \in Data => o \in dspaces'[OpNode(o)]
    BY <1>28 DEF Start
  <2>2. \A a \in App : KnownAtHome(a) => KnownAtHome(a)'
    BY <1>28, ConstAssumption DEF Start, OpNode
  <2>3. pc'[o] \in {"ready", "regsent"} /\ \A q \in Op \ {o} : pc'[q] = pc[q]
    BY <1>28 DEF Start
  <2>4. /\ \A n \in Node, k \in Get : Ordered(n, k)' => Ordered(n, k)
        /\ \A c \in Data : M("PUT_NOTIFICATION", Master, c) \in msgs' => M("PUT_NOTIFICATION", Master, c) \in msgs
    BY <1>28 DEF Start
  <2> QED
    BY <1>28, <2>1, <2>2, <2>3, <2>4, PutOp DEF Start
<1>29. CASE UNCHANGED vars
  BY <1>29 DEF vars
<1> QED
  BY <1>1, <1>2, <1>3, <1>4, <1>5, <1>6, <1>7, <1>8, <1>9, <1>10, <1>11, <1>12, <1>13,
     <1>14, <1>15, <1>16, <1>17, <1>18, <1>19, <1>20, <1>21, <1>22, <1>23, <1>24, <1>25,
     <1>26, <1>27, <1>28, <1>29 DEF Next, ControlStep, TransferStep, OpStep, PutStep, GetStep,
     SqueryStep

-----------------------------------------------------------------------------
(* Replies.  A move is waited for on a point that names the datum only, so  *)
(* what a reply says can be trusted as long as one site asks for a datum,   *)
(* however many of its applications and queries do.                         *)

\* Gets of one datum come from one slave.
OneAsker ==
    /\ \A g \in Get : OpNode(g) # Master
    /\ \A g, h \in Get : OpData(g) = OpData(h) => OpNode(g) = OpNode(h)

Arrived(g) == OpData(g) \in qtable[OpNode(g)]
Marked(g)  == OpData(g) \in failed[OpNode(g)]

\* SDM_MOVE_REPLY is sent when the data is listed.
MoveReplies == \A g \in Get : M("MOVE_REPLY", Master, g) \in msgs => Arrived(g)

\* Every wait_for_move waits on the point of its datum, and is released when the
\* data is there.
MoveWaits ==
    \A x \in msync.parked, g \in Get : x[2] = <<"wm", g>> => x[1] = <<"MOVE", OpData(g)>>
Released == \A g \in Get : <<"wm", g>> \in msync.woken => Arrived(g)

\* A get is released from SDMSlave::get's wait by the data or by a failure,
Answered ==
    \A g \in Get : <<"op", g>> \in ssync[OpNode(g)].woken /\ pc[g] = "sqwait"
                        => Arrived(g) \/ Marked(g)

\* and fails by a failure only.
Failing == \A g \in Get : pc[g] = "fail" => Marked(g)

ReplyInv == MoveReplies /\ MoveWaits /\ Released /\ ReplyMeansMoved /\ Answered /\ Failing

\* What a step may do to these facts.
ReplyFrame ==
    /\ \A n \in Node : qtable[n] \subseteq qtable'[n] /\ failed[n] \subseteq failed'[n]
    /\ \A g \in Get :
          /\ M("MOVE_REPLY", Master, g) \in msgs'
                => M("MOVE_REPLY", Master, g) \in msgs \/ Arrived(g)'
          /\ M("SQUERY_REPLY", OpNode(g), g) \in msgs'
                => M("SQUERY_REPLY", OpNode(g), g) \in msgs \/ Arrived(g)
          /\ \A x \in msync'.parked : x[2] = <<"wm", g>>
                => x \in msync.parked \/ x[1] = <<"MOVE", OpData(g)>>
          /\ <<"wm", g>> \in msync'.woken => <<"wm", g>> \in msync.woken \/ Arrived(g)
          /\ <<"op", g>> \in ssync'[OpNode(g)].woken /\ pc'[g] = "sqwait"
                => \/ <<"op", g>> \in ssync[OpNode(g)].woken /\ pc[g] = "sqwait"
                   \/ Arrived(g) \/ Marked(g)'
          /\ pc'[g] = "fail" => pc[g] = "fail" \/ Marked(g)

\* Such a step preserves ReplyInv.
LEMMA ReplyFrameStep ==
    ASSUME TypeOK, ReplyInv, ReplyFrame
    PROVE  ReplyInv'
<1>1. \A g \in Get : (Arrived(g) => Arrived(g)') /\ (Marked(g) => Marked(g)')
  BY GetOp, OpType DEF ReplyFrame, Arrived, Marked
<1>2. MoveReplies'
  BY <1>1 DEF ReplyInv, ReplyFrame, MoveReplies
<1>3. MoveWaits' /\ Released'
  BY <1>1 DEF ReplyInv, ReplyFrame, MoveWaits, Released
<1>4. ReplyMeansMoved'
  BY <1>1 DEF ReplyInv, ReplyFrame, ReplyMeansMoved, Arrived
<1>5. Answered'
  BY <1>1 DEF ReplyInv, ReplyFrame, Answered
<1>6. Failing'
  BY <1>1 DEF ReplyInv, ReplyFrame, Failing
<1> QED
  BY <1>2, <1>3, <1>4, <1>5, <1>6 DEF ReplyInv

\* The frame of the steps that leave threads, tables and replies alone.
LEMMA ReplySilent ==
    ASSUME TypeOK,
           \A n \in Node : qtable[n] \subseteq qtable'[n] /\ failed' = failed,
           \A g \in Get : /\ M("MOVE_REPLY", Master, g) \in msgs' => M("MOVE_REPLY", Master, g) \in msgs
                          /\ M("SQUERY_REPLY", OpNode(g), g) \in msgs'
                                => M("SQUERY_REPLY", OpNode(g), g) \in msgs,
           msync' = msync, ssync' = ssync,
           \A g \in Get : pc'[g] \in {"sqwait", "fail"} => pc'[g] = pc[g] \/ (pc'[g] = "fail" /\ Marked(g))
    PROVE  ReplyFrame
BY GetOp, OpType DEF ReplyFrame

\* Notifications at the master of anything but a move's end, and those of a
\* move's end while one site asks.
LEMMA NotifiedMaster ==
    ASSUME TypeOK, ReplyInv, OneAsker, NEW p, NotifyMaster(p),
           \/ p[1] = "BQUERY"
           \/ \E h \in Get : p = <<"MOVE", OpData(h)>> /\ Arrived(h),
           NEW g \in Get
    PROVE  /\ msync'.parked \subseteq msync.parked
           /\ <<"wm", g>> \in msync'.woken => <<"wm", g>> \in msync.woken \/ Arrived(g)
<1>1. CASE msync' = msync
  BY <1>1
<1>2. ASSUME NEW x \in msync.parked, x[1] = p, msync'.parked = msync.parked \ {x},
             msync'.woken = msync.woken \cup {x[2]}
      PROVE  /\ msync'.parked \subseteq msync.parked
             /\ <<"wm", g>> \in msync'.woken => <<"wm", g>> \in msync.woken \/ Arrived(g)
  <2>1. x[2] = <<"wm", g>> => p = <<"MOVE", OpData(g)>>
    BY <1>2 DEF ReplyInv, MoveWaits
  <2>2. x[2] = <<"wm", g>> => Arrived(g)
    <3>1. SUFFICES ASSUME x[2] = <<"wm", g>> PROVE Arrived(g)
      OBVIOUS
    <3>2. p = <<"MOVE", OpData(g)>> /\ p[1] # "BQUERY"
      BY <2>1, <3>1
    <3>3. PICK h \in Get : p = <<"MOVE", OpData(h)>> /\ Arrived(h)
      BY <3>2
    <3>4. OpData(h) = OpData(g) /\ OpNode(h) = OpNode(g)
      BY <3>2, <3>3 DEF OneAsker
    <3> QED
      BY <3>3, <3>4 DEF Arrived
  <2> QED
    BY <1>2, <2>2
<1> QED
  BY <1>1, <1>2, NotifyEffect DEF NotifyMaster

\* A notification of a query's end at a site releases only gets of that datum
\* there; one of a registration, no get that waits for data.
LEMMA NotifiedSite ==
    ASSUME TypeOK, RegInv, NEW n \in Node, NEW p, NotifySite(n, p), NEW g \in Get,
           <<"op", g>> \in ssync'[OpNode(g)].woken, pc[g] = "sqwait"
    PROVE  \/ <<"op", g>> \in ssync[OpNode(g)].woken
           \/ n = OpNode(g) /\ p = <<"SQUERY", OpData(g)>>
<1>1. PICK r \in Notify(ssync[n], p) : ssync' = [ssync EXCEPT ![n] = r]
  BY DEF NotifySite
<1>2. OpNode(g) \in Node /\ ssync \in [Node -> SyncerType(SPoint, Thread)]
  BY GetOp, OpType DEF TypeOK
<1>3. CASE OpNode(g) # n \/ r = ssync[n]
  BY <1>1, <1>2, <1>3
<1>4. ASSUME OpNode(g) = n, NEW x \in ssync[n].parked, x[1] = p,
             r.woken = ssync[n].woken \cup {x[2]}
      PROVE  <<"op", g>> \in ssync[n].woken \/ p = <<"SQUERY", OpData(g)>>
  <2>1. SUFFICES ASSUME x[2] = <<"op", g>> PROVE p = <<"SQUERY", OpData(g)>>
    BY <1>1, <1>2, <1>4
  <2>2. PICK o \in Op : /\ x[2] = <<"op", o>>
                        /\ \/ pc[o] = "regwait" /\ x[1] = <<"REG", OpApp(o)>>
                           \/ pc[o] = "sqwait" /\ x[1] = <<"SQUERY", OpData(o)>>
    BY <1>4 DEF RegInv, Parked
  <2>3. o = g
    BY <2>1, <2>2
  <2> QED
    BY <1>4, <2>2, <2>3
<1> QED
  BY <1>1, <1>2, <1>3, <1>4, NotifyEffect

\* Every step of a system where one site asks for a datum is such a step.
LEMMA ReplyFrameActions ==
    ASSUME OneAsker, TypeOK, RegInv, PlaceInv, ReplyInv, [Next]_vars
    PROVE  ReplyFrame
<1> USE GetOp, OpType DEF Goto, Send, M, Op, localVars, opVars, spaceVars, masterVars,
   netVars
<1>0. /\ qtable \in [Node -> SUBSET Data] /\ failed \in [Node -> SUBSET Data]
      /\ pc \in [Op -> PC] /\ ssync \in [Node -> SyncerType(SPoint, Thread)]
      /\ msync \in SyncerType(MPoint, Thread) /\ xfer \subseteq [from : Node, op : Get]
  BY DEF TypeOK
<1>a. \A g \in Get : OpNode(g) # Master /\ pc[g] \notin {"qmiss", "bwait", "mvsent", "mvwait"}
  BY DEF OneAsker, PlaceInv, Sited
<1>1. ASSUME NEW o \in Op, RegWait(o) PROVE ReplyFrame
  BY <1>0, <1>1 DEF RegWait, Wait, AddWait, ReplyFrame
<1>2. ASSUME NEW o \in Op, RegResume(o) PROVE ReplyFrame
  BY <1>0, <1>2 DEF RegResume, Resumed, DelPoint, ReplyFrame
<1>3. ASSUME NEW d \in Data, SlavePut(d) PROVE ReplyFrame
  BY <1>0, <1>3, PutOp, ReplySilent DEF SlavePut
<1>4. ASSUME NEW d \in Data, MasterPut(d) PROVE ReplyFrame
  <2>1. \A g \in Get : /\ msync'.parked \subseteq msync.parked
                       /\ <<"wm", g>> \in msync'.woken => <<"wm", g>> \in msync.woken \/ Arrived(g)
    BY <1>4, NotifiedMaster DEF MasterPut
  <2> QED
    BY <1>0, <1>4, <2>1, PutOp DEF MasterPut, ReplyFrame
<1>5. ASSUME NEW d \in Data, MasterPutSpace(d) PROVE ReplyFrame
  BY <1>0, <1>5, PutOp, ConstAssumption, ReplySilent DEF MasterPutSpace
<1>6. ASSUME NEW g \in Get, SlaveGet(g) PROVE ReplyFrame
  BY <1>0, <1>6, ReplySilent DEF SlaveGet, Marked
<1>7. ASSUME NEW g \in Get, SlaveGetWait(g) PROVE ReplyFrame
  <2>1. \A n \in Node : <<"op", g>> \notin ssync[n].woken
    BY <1>7 DEF SlaveGetWait, RegInv, Woken
  <2> QED
    BY <1>0, <1>7, <2>1 DEF SlaveGetWait, Wait, AddWait, ReplyFrame
<1>8. ASSUME NEW g \in Get, SlaveGetResume(g) PROVE ReplyFrame
  <2>1. Arrived(g) \/ Marked(g)
    BY <1>8 DEF SlaveGetResume, Resumed, ReplyInv, Answered
  <2> QED
    BY <1>0, <1>8, <2>1 DEF SlaveGetResume, Resumed, DelPoint, ReplyFrame, Arrived
<1>9. ASSUME NEW g \in Get, MasterGet(g) PROVE ReplyFrame
  BY <1>9, <1>a DEF MasterGet
<1>10. ASSUME NEW g \in Get, MasterGetBlock(g) PROVE ReplyFrame
  BY <1>10, <1>a DEF MasterGetBlock
<1>11. ASSUME NEW g \in Get, MasterGetUnblock(g) PROVE ReplyFrame
  BY <1>11, <1>a DEF MasterGetUnblock
<1>12. ASSUME NEW g \in Get, MasterGetMoveWait(g) PROVE ReplyFrame
  BY <1>12, <1>a DEF MasterGetMoveWait
<1>13. ASSUME NEW g \in Get, MasterGetMoved(g) PROVE ReplyFrame
  BY <1>13, <1>a DEF MasterGetMoved
<1>14. ASSUME NEW a \in App, HandleRegApp(a) PROVE ReplyFrame
  BY <1>0, <1>14, ReplySilent DEF HandleRegApp
<1>15. ASSUME NEW d \in Data, HandlePutNotification(d) PROVE ReplyFrame
  <2>1. \A g \in Get : /\ msync'.parked \subseteq msync.parked
                       /\ <<"wm", g>> \in msync'.woken => <<"wm", g>> \in msync.woken \/ Arrived(g)
    BY <1>15, NotifiedMaster DEF HandlePutNotification
  <2> QED
    BY <1>0, <1>15, <2>1 DEF HandlePutNotification, ReplyFrame
<1>16. ASSUME NEW g \in Get, HandleSquery(g) PROVE ReplyFrame
  BY <1>0, <1>16, ReplySilent DEF HandleSquery
<1>17. ASSUME NEW g \in Get, SqueryPush(g) PROVE ReplyFrame
  BY <1>0, <1>17, ReplySilent DEF SqueryPush, OrderMove
<1>18. ASSUME NEW g \in Get, SqueryBlock(g) PROVE ReplyFrame
  BY <1>0, <1>18 DEF SqueryBlock, AddWait, ReplyFrame
<1>19. ASSUME NEW g \in Get, SqueryUnblock(g) PROVE ReplyFrame
  BY <1>0, <1>19 DEF SqueryUnblock, OrderMove, DelPoint, ReplyFrame
<1>20. ASSUME NEW g \in Get, WaitForMove(g) PROVE ReplyFrame
  BY <1>0, <1>20 DEF WaitForMove, AddWait, ReplyFrame
<1>21. ASSUME NEW g \in Get, MoveWaited(g) PROVE ReplyFrame
  <2>1. Arrived(g)
    BY <1>21 DEF MoveWaited, ReplyInv, Released
  <2> QED
    BY <1>0, <1>21, <2>1 DEF MoveWaited, DelPoint, ReplyFrame
<1>22. ASSUME NEW g \in Get, HandleMoveReply(g) PROVE ReplyFrame
  <2>1. Arrived(g)
    BY <1>22 DEF HandleMoveReply, ReplyInv, MoveReplies
  <2>2. \A h \in Get : /\ msync'.parked \subseteq msync.parked
                       /\ <<"wm", h>> \in msync'.woken => <<"wm", h>> \in msync.woken \/ Arrived(h)
    BY <1>22, <2>1, NotifiedMaster DEF HandleMoveReply
  <2> QED
    BY <1>0, <1>22, <2>2 DEF HandleMoveReply, ReplyFrame
<1>23. ASSUME NEW a \in App, HandleRegAppReply(a) PROVE ReplyFrame
  <2>1. \A g \in Get : <<"op", g>> \in ssync'[OpNode(g)].woken /\ pc[g] = "sqwait"
                            => <<"op", g>> \in ssync[OpNode(g)].woken
    BY <1>23, NotifiedSite, ConstAssumption DEF HandleRegAppReply
  <2> QED
    BY <1>0, <1>23, <2>1 DEF HandleRegAppReply, ReplyFrame
<1>24. ASSUME NEW g \in Get, HandleSqueryReply(g) PROVE ReplyFrame
  <2>1. Arrived(g)
    BY <1>24 DEF HandleSqueryReply, ReplyInv, ReplyMeansMoved, Arrived
  <2>2. \A h \in Get : <<"op", h>> \in ssync'[OpNode(h)].woken /\ pc[h] = "sqwait"
                            => \/ <<"op", h>> \in ssync[OpNode(h)].woken
                               \/ OpNode(g) = OpNode(h) /\ OpData(g) = OpData(h)
    BY <1>24, NotifiedSite DEF HandleSqueryReply
  <2>3. \A h \in Get : <<"op", h>> \in ssync'[OpNode(h)].woken /\ pc[h] = "sqwait"
                            => <<"op", h>> \in ssync[OpNode(h)].woken \/ Arrived(h)
    BY <2>1, <2>2 DEF Arrived
  <2> QED
    BY <1>0, <1>24, <2>3 DEF HandleSqueryReply, ReplyFrame
<1>25. ASSUME NEW n \in Slave, NEW g \in Get, HandleMove(n, g) PROVE ReplyFrame
  BY <1>0, <1>25, ReplySilent DEF HandleMove
<1>26. ASSUME NEW x \in xfer, TransferDone(x) PROVE ReplyFrame
  <2>1. x.op \in Get /\ OpNode(x.op) # Master /\ OpData(x.op) \in qtable'[OpNode(x.op)]
    BY <1>0, <1>a, <1>26 DEF TransferDone
  <2>2. Arrived(x.op)'
    BY <2>1 DEF Arrived
  <2>3. \A g \in Get : M("MOVE_REPLY", Master, g) \in msgs' => M("MOVE_REPLY", Master, g) \in msgs \/ g = x.op
    BY <1>26, <2>1 DEF TransferDone
  <2> QED
    BY <1>0, <1>26, <2>1, <2>2, <2>3 DEF TransferDone, ReplyFrame
<1>27. ASSUME NEW x \in xfer, TransferFail(x) PROVE ReplyFrame
  <2>1. x.op \in Get
    BY <1>0
  <2>2. \A h \in Get : <<"op", h>> \in ssync'[OpNode(h)].woken /\ pc[h] = "sqwait"
                            => \/ <<"op", h>> \in ssync[OpNode(h)].woken
                               \/ OpNode(x.op) = OpNode(h) /\ OpData(x.op) = OpData(h)
    BY <1>27, <2>1, NotifiedSite DEF TransferFail
  <2>3. OpData(x.op) \in failed'[OpNode(x.op)] /\ \A n \in Node : failed[n] \subseteq failed'[n]
    BY <1>0, <1>27, <2>1 DEF TransferFail
  <2>4. \A h \in Get : <<"op", h>> \in ssync'[OpNode(h)].woken /\ pc[h] = "sqwait"
                            => <<"op", h>> \in ssync[OpNode(h)].woken \/ Marked(h)'
    BY <2>2, <2>3 DEF Marked
  <2> QED
    BY <1>27, <2>3, <2>4 DEF TransferFail, ReplyFrame
<1>28. ASSUME NEW o \in Op, Start(o) PROVE ReplyFrame
  BY <1>0, <1>28, ReplySilent DEF Start
<1>29. CASE UNCHANGED vars
  BY <1>29, ReplySilent DEF vars
<1> QED
  BY <1>1, <1>2, <1>3, <1>4, <1>5, <1>6, <1>7, <1>8, <1>9, <1>10, <1>11, <1>12, <1>13,
     <1>14, <1>15, <1>16, <1>17, <1>18, <1>19, <1>20, <1>21, <1>22, <1>23, <1>24, <1>25,
     <1>26, <1>27, <1>28, <1>29
  DEF Next, ControlStep, TransferStep, OpStep, PutStep, GetStep, SqueryStep

-----------------------------------------------------------------------------
(* The theorems.                                                            *)

\* The invariant holds of every reachable state.
LEMMA Inductive == Spec => []IInv
<1>1. Init => IInv
  <2> SUFFICES ASSUME Init PROVE IInv
    OBVIOUS
  <2>1. TypeOK
    BY EmptyType, ConstAssumption DEF Init, TypeOK, PC
  <2>2. RegInv
    BY ConstAssumption DEF Init, RegInv, RegKnown, MasterIds, ReplyKnown, ReadyKnown,
       Parked, Woken, KnownAtHome, EmptySyncer, Op
  <2>3. PlaceInv
    BY DEF Init, PlaceInv, Sited, Stored, PutStored, NewNowhere, HolderHas, Announced,
       ProducerKnown, MoveSourceHolds, GetSound, Ordered, Op
  <2> QED
    BY <2>1, <2>2, <2>3 DEF IInv
<1>2. IInv /\ [Next]_vars => IInv'
  BY TypeStep, RegStep, PlaceFrameActions, PlaceFrameStep DEF IInv
<1> QED
  BY <1>1, <1>2, PTL DEF Spec

\* GetSound for any numbers of sites, applications, data and gets: success is
\* reported to an application only when its site's DataSpaces has the data.
THEOREM GetSoundness == Spec => []GetSound
<1>1. IInv => GetSound
  BY DEF IInv, PlaceInv
<1> QED
  BY <1>1, Inductive, PTL

\* MoveSourceHolds in general: no SDM_MOVE is ever sent to a site, or handled
\* by its data mover, that does not have the data.
THEOREM MoveSourceSoundness == Spec => []MoveSourceHolds
<1>1. IInv => MoveSourceHolds
  BY DEF IInv, PlaceInv
<1> QED
  BY <1>1, Inductive, PTL

\* ProducerKnown in general: every put that reaches MWASpace::put is by an
\* application the master has registered at its own site.
THEOREM ProducerSoundness == Spec => []ProducerKnown
<1>1. IInv => ProducerKnown
  BY DEF IInv, PlaceInv
<1> QED
  BY <1>1, Inductive, PTL

\* OneHolder in general: ds_id__kv_map names at most one site for a datum, its
\* producer's, which has it; query(...)[0] in the move handlers is no choice.
THEOREM HolderSoundness == Spec => []OneHolder
<1>1. IInv => OneHolder
  BY DEF IInv, PlaceInv, HolderHas, Stored, OneHolder
<1> QED
  BY <1>1, Inductive, PTL

\* RepliesSound in general, as long as one site asks for a datum: whatever
\* handler threads, failures and repeated queries do, an SDM_SQUERY_REPLY means
\* that the data was listed at the asker before, and a blocking get fails only
\* where its transfer did.  With two asking sites it is false (run crossed):
\* wait_for_move's point names the datum and not the destination.
THEOREM RepliesSoundness == ASSUME OneAsker PROVE Spec => []RepliesSound
<1>1. Init => ReplyInv
  BY GetOp DEF Init, ReplyInv, MoveReplies, MoveWaits, Released, ReplyMeansMoved,
     Answered, Failing, EmptySyncer, Op
<1>2. IInv /\ ReplyInv /\ [Next]_vars => ReplyInv'
  BY ReplyFrameActions, ReplyFrameStep DEF IInv
<1>3. ReplyInv => RepliesSound
  BY DEF ReplyInv, Failing, Marked, RepliesSound, BlockingGetSucceeds
<1> QED
  BY <1>1, <1>2, <1>3, Inductive, PTL DEF Spec

-----------------------------------------------------------------------------
(* Each get's order is given once or never.  The get's thread and the       *)
(* thread of its query go through their stages in one direction only.       *)

Asked(g) == M("SQUERY", Master, g) \in msgs

\* Past the point where a slave's get has sent its query.
Queried == {"sqsent", "sqwait", "ok", "fail"}

\* Only gets at slaves are queried about, and only after the query was sent.
Route ==
    \A g \in Get : /\ Asked(g) => sq[g] = "none"
                   /\ Asked(g) \/ sq[g] # "none" => pc[g] \in Queried /\ OpNode(g) # Master

\* A get that has a move in flight will not order another one.
Stage == \A g \in Get : InFlight(g) => ~Undecided(g)

\* A get has one move in flight, either as a message or with a data mover.
Single ==
    \A g \in Get : \A n, k \in Node :
        /\ Ordered(n, g) /\ Ordered(k, g) => n = k
        /\ ~(M("MOVE", n, g) \in msgs /\ [from |-> n, op |-> g] \in xfer)

MoveInv == Route /\ Stage /\ Single

\* A step that decides about no order, and one that decides about g's.
Unsettled  == \A g \in Get : Undecided(g)' <=> Undecided(g)
Settles(g) == Undecided(g) /\ \A h \in Get : Undecided(h)' <=> Undecided(h) /\ h # g

\* The orders in flight stay the same.
SameOrders == \A g \in Get : InFlight(g)' <=> InFlight(g)

-----------------------------------------------------------------------------
(* Steps that give no order and do not touch a query.                       *)

Still ==
    /\ sq' = sq /\ xfer' = xfer
    /\ \A g \in Get : /\ Asked(g)' => Asked(g)
                      /\ pc[g] \in Queried => pc'[g] \in Queried
                      /\ Undecided(g)' <=> Undecided(g)
                      /\ \A n \in Node : M("MOVE", n, g) \in msgs' <=> M("MOVE", n, g) \in msgs

\* They preserve MoveInv and leave the orders in flight as they are.
LEMMA StillStep ==
    ASSUME MoveInv, Still
    PROVE  MoveInv' /\ SameOrders /\ Unsettled
<1>1. \A n \in Node, g \in Get : Ordered(n, g)' <=> Ordered(n, g)
  BY DEF Still, Ordered
<1>2. SameOrders /\ Unsettled
  BY <1>1 DEF InFlight, SameOrders, Unsettled, Still
<1>3. Route'
  BY DEF MoveInv, Route, Still
<1>4. Stage'
  BY <1>2 DEF MoveInv, Stage, SameOrders, Unsettled
<1>5. Single'
  BY <1>1 DEF MoveInv, Single, Still
<1> QED
  BY <1>2, <1>3, <1>4, <1>5 DEF MoveInv

StillAction ==
    \/ \E o \in Op : RegWait(o) \/ RegResume(o) \/ Start(o)
    \/ \E d \in Data : SlavePut(d) \/ MasterPut(d) \/ MasterPutSpace(d) \/ HandlePutNotification(d)
    \/ \E g \in Get : \/ SlaveGetWait(g) \/ SlaveGetResume(g)
                      \/ MasterGetBlock(g) \/ MasterGetMoveWait(g) \/ MasterGetMoved(g)
                      \/ WaitForMove(g) \/ MoveWaited(g) \/ HandleMoveReply(g) \/ HandleSqueryReply(g)
    \/ \E a \in App : HandleRegApp(a) \/ HandleRegAppReply(a)

\* Registration, puts, waits and replies are such steps.
LEMMA StillActions ==
    ASSUME TypeOK, StillAction
    PROVE  Still
<1> USE DEF TypeOK, Still, Asked, Queried, Undecided, GetAtMaster, Goto, Send, M,
            localVars, opVars, spaceVars, masterVars, netVars
<1>1. ASSUME NEW o \in Op, RegWait(o) PROVE Still
  BY <1>1 DEF RegWait, Wait
<1>2. ASSUME NEW o \in Op, RegResume(o) PROVE Still
  BY <1>2 DEF RegResume, Resumed
<1>3. ASSUME NEW o \in Op, Start(o) PROVE Still
  <2>1. /\ sq' = sq /\ xfer' = xfer /\ pc[o] = "new" /\ \A q \in Op : q # o => pc'[q] = pc[q]
        /\ pc'[o] \in {"ready", "regsent"}
    BY <1>3 DEF Start
  <2>2. msgs' = msgs \/ msgs' = msgs \cup {M("REG_APP", Master, OpApp(o))}
    BY <1>3 DEF Start
  <2> QED
    BY <2>1, <2>2, GetOp
<1>4. ASSUME NEW d \in Data, SlavePut(d) PROVE Still
  BY <1>4, PutOp, ConstAssumption DEF SlavePut
<1>5. ASSUME NEW d \in Data, MasterPut(d) PROVE Still
  BY <1>5, PutOp, ConstAssumption DEF MasterPut
<1>6. ASSUME NEW d \in Data, MasterPutSpace(d) PROVE Still
  BY <1>6, PutOp, ConstAssumption DEF MasterPutSpace
<1>7. ASSUME NEW d \in Data, HandlePutNotification(d) PROVE Still
  BY <1>7 DEF HandlePutNotification
<1>8. ASSUME NEW g \in Get, SlaveGetWait(g) PROVE Still
  BY <1>8, GetOp DEF SlaveGetWait, Wait
<1>9. ASSUME NEW g \in Get, SlaveGetResume(g) PROVE Still
  BY <1>9, GetOp DEF SlaveGetResume, Resumed
<1>10. ASSUME NEW g \in Get, MasterGetBlock(g) PROVE Still
  BY <1>10, GetOp DEF MasterGetBlock
<1>11. ASSUME NEW g \in Get, MasterGetMoveWait(g) PROVE Still
  BY <1>11, GetOp DEF MasterGetMoveWait
<1>12. ASSUME NEW g \in Get, MasterGetMoved(g) PROVE Still
  <2>1. MasterGetResult(g) \in {"ok", "fail"}
    BY DEF MasterGetResult
  <2> QED
    BY <1>12, <2>1, GetOp DEF MasterGetMoved
<1>13. ASSUME NEW g \in Get, WaitForMove(g) PROVE Still
  BY <1>13 DEF WaitForMove
<1>14. ASSUME NEW g \in Get, MoveWaited(g) PROVE Still
  BY <1>14 DEF MoveWaited
<1>15. ASSUME NEW g \in Get, HandleMoveReply(g) PROVE Still
  BY <1>15 DEF HandleMoveReply
<1>16. ASSUME NEW g \in Get, HandleSqueryReply(g) PROVE Still
  BY <1>16 DEF HandleSqueryReply
<1>17. ASSUME NEW a \in App, HandleRegApp(a) PROVE Still
  BY <1>17 DEF HandleRegApp
<1>18. ASSUME NEW a \in App, HandleRegAppReply(a) PROVE Still
  BY <1>18 DEF HandleRegAppReply
<1> QED
  BY <1>1, <1>2, <1>3, <1>4, <1>5, <1>6, <1>7, <1>8, <1>9, <1>10, <1>11, <1>12, <1>13, <1>14,
     <1>15, <1>16, <1>17, <1>18 DEF StillAction

-----------------------------------------------------------------------------
(* Steps that give an order.                                                *)

\* An order for g to site n is added to those in flight.
Gives(g, n) ==
    \/ msgs' = msgs \cup {M("MOVE", n, g)} /\ xfer' = xfer
    \/ msgs' = msgs /\ xfer' = xfer \cup {[from |-> n, op |-> g]}

\* It is given by g's own thread, at the master, or by the thread of g's query.
GivesNow(g) ==
    \/ /\ OpNode(g) = Master /\ pc[g] \in {"ready", "bwait"}
       /\ sq' = sq /\ pc' = [pc EXCEPT ![g] = "mvsent"]
    \/ /\ sq[g] \in {"push", "bwait"}
       /\ pc' = pc /\ sq' = [sq EXCEPT ![g] = "end"]

\* A get that gives an order has none in flight, and has one afterwards.
LEMMA GivesStep ==
    ASSUME TypeOK, MoveInv, NEW g \in Get, NEW n \in Node, Gives(g, n), GivesNow(g)
    PROVE  /\ MoveInv' /\ Settles(g) /\ ~InFlight(g)
           /\ \A h \in Get : InFlight(h)' <=> InFlight(h) \/ h = g
<1>9. Settles(g)
  <2>1. CASE OpNode(g) = Master /\ pc[g] \in {"ready", "bwait"}
             /\ sq' = sq /\ pc' = [pc EXCEPT ![g] = "mvsent"]
    BY <2>1, GetOp DEF TypeOK, Settles, Undecided, GetAtMaster
  <2>2. CASE sq[g] \in {"push", "bwait"} /\ pc' = pc /\ sq' = [sq EXCEPT ![g] = "end"]
    BY <2>2 DEF TypeOK, MoveInv, Route, Settles, Undecided, GetAtMaster
  <2> QED
    BY <2>1, <2>2 DEF GivesNow
<1>1. ~InFlight(g)
  BY <1>9 DEF MoveInv, Stage, Settles
<1>2. \A k \in Node, h \in Get : Ordered(k, h)' <=> Ordered(k, h) \/ (k = n /\ h = g)
  BY DEF Gives, Ordered, M
<1>3. \A h \in Get : InFlight(h)' <=> InFlight(h) \/ h = g
  BY <1>2 DEF InFlight
<1>4. \A h \in Get : Asked(h)' <=> Asked(h)
  BY DEF Gives, Asked, M
<1>5. Route'
  BY <1>4, GetOp DEF TypeOK, MoveInv, Route, GivesNow, Queried
<1>6. Stage'
  BY <1>3, <1>9 DEF MoveInv, Stage, Settles
<1>7. \A k \in Node : ~Ordered(k, g)
  BY <1>1 DEF InFlight
<1>8. Single'
  <2> SUFFICES ASSUME NEW h \in Get, NEW k \in Node, NEW l \in Node
               PROVE  /\ Ordered(k, h)' /\ Ordered(l, h)' => k = l
                      /\ ~(M("MOVE", k, h) \in msgs' /\ [from |-> k, op |-> h] \in xfer')
    BY DEF Single
  <2>1. CASE h # g
    BY <1>2, <2>1 DEF MoveInv, Single, Gives, M
  <2>2. CASE h = g
    BY <1>2, <1>7, <2>2 DEF Gives, Ordered, M
  <2> QED
    BY <2>1, <2>2
<1> QED
  BY <1>1, <1>3, <1>5, <1>6, <1>8, <1>9 DEF MoveInv

-----------------------------------------------------------------------------
(* The refinement, step by step.                                            *)

Mapped == <<dspaces, qtable, failed>>

\* A step that changes neither the tables of the sites nor the orders in
\* flight and decides about none is a stuttering step of Mover.
LEMMA StutterMapped ==
    ASSUME Mapped' = Mapped, SameOrders, Unsettled
    PROVE  UNCHANGED Movement!vars
BY DEF Mapped, SameOrders, Unsettled, Movement!vars

\* One that decides about an order without giving it is a Drop of Mover.
LEMMA DropMapped ==
    ASSUME Mapped' = Mapped, SameOrders, NEW g \in Get, Settles(g)
    PROVE  Movement!Next
<1>1. Movement!Drop(g)
  BY DEF Mapped, SameOrders, Settles, Movement!Drop
<1> QED
  BY <1>1 DEF Movement!Next

\* A step that gives an order and changes no table is a Begin of Mover.
LEMMA BeginMapped ==
    ASSUME IInv, Mapped' = Mapped, NEW g \in Get, Settles(g), Available(OpData(g)),
           \A h \in Get : InFlight(h)' <=> InFlight(h) \/ h = g
    PROVE  Movement!Next
<1>1. OpData(g) \in Data
  BY GetOp, OpType
<1>2. From(OpData(g)) \in Node /\ OpData(g) \in ds_kv[From(OpData(g))]
  BY <1>1, FromHolds
<1>3. OpData(g) \in dspaces[From(OpData(g))] \cap qtable[From(OpData(g))]
  BY <1>2 DEF IInv, PlaceInv, HolderHas, Stored
<1>4. Movement!Begin(g)
  BY <1>2, <1>3 DEF Movement!Begin, Mapped, Settles
<1> QED
  BY <1>4 DEF Movement!Next

\* Steps of the first kind put or list data at a site, or stutter.
LEMMA StillMapped ==
    ASSUME IInv, MoveInv, StillAction
    PROVE  MoveInv' /\ [Movement!Next]_(Movement!vars)
<1>1. MoveInv' /\ SameOrders /\ Unsettled
  BY StillActions, StillStep DEF IInv
<1> SUFFICES [Movement!Next]_(Movement!vars)
  BY <1>1
<1>2. /\ {g \in Get : InFlight(g)}' = {g \in Get : InFlight(g)}
      /\ {g \in Get : Undecided(g)}' = {g \in Get : Undecided(g)}
  BY <1>1 DEF SameOrders, Unsettled
<1>3. ASSUME Mapped' = Mapped PROVE [Movement!Next]_(Movement!vars)
  BY <1>1, <1>3, StutterMapped
<1>4. ASSUME NEW o \in Op, Start(o) PROVE [Movement!Next]_(Movement!vars)
  <2>1. CASE o \in Data
    <3>1. \A n \in Node : o \notin dspaces[n]
      BY <1>4, <2>1 DEF Start, IInv, PlaceInv, NewNowhere
    <3>2. /\ dspaces' = [dspaces EXCEPT ![OpNode(o)] = @ \cup {o}]
          /\ qtable' = qtable /\ failed' = failed
      BY <1>4, <2>1 DEF Start
    <3>3. Movement!Put(o)
      BY <1>2, <2>1, <3>1, <3>2 DEF Movement!Put
    <3> QED
      BY <2>1, <3>3 DEF Movement!Next
  <2>2. CASE o \notin Data
    BY <1>3, <1>4, <2>2 DEF Start, Mapped
  <2> QED
    BY <2>1, <2>2
<1>5. ASSUME NEW d \in Data, SlavePut(d) \/ MasterPut(d) PROVE [Movement!Next]_(Movement!vars)
  <2>1. d \in dspaces[OpNode(d)]
    BY <1>5 DEF IInv, PlaceInv, PutStored, SlavePut, MasterPut
  <2>2. /\ qtable' = [qtable EXCEPT ![OpNode(d)] = @ \cup {d}]
        /\ dspaces' = dspaces /\ failed' = failed
    BY <1>5 DEF SlavePut, MasterPut
  <2>3. Movement!List(d)
    BY <1>2, <2>1, <2>2 DEF Movement!List
  <2> QED
    BY <2>3 DEF Movement!Next
<1>6. CASE ~(\E o \in Op : Start(o)) /\ ~(\E d \in Data : SlavePut(d) \/ MasterPut(d))
  <2> USE DEF Mapped, localVars
  <2>1. ASSUME NEW o \in Op, RegWait(o) \/ RegResume(o) PROVE Mapped' = Mapped
    BY <2>1 DEF RegWait, RegResume
  <2>2. ASSUME NEW d \in Data, MasterPutSpace(d) \/ HandlePutNotification(d) PROVE Mapped' = Mapped
    BY <2>2 DEF MasterPutSpace, HandlePutNotification
  <2>3. ASSUME NEW g \in Get,
               \/ SlaveGetWait(g) \/ SlaveGetResume(g)
               \/ MasterGetBlock(g) \/ MasterGetMoveWait(g) \/ MasterGetMoved(g)
               \/ WaitForMove(g) \/ MoveWaited(g) \/ HandleMoveReply(g) \/ HandleSqueryReply(g)
        PROVE  Mapped' = Mapped
    BY <2>3 DEF SlaveGetWait, SlaveGetResume, MasterGetBlock, MasterGetMoveWait, MasterGetMoved,
                WaitForMove, MoveWaited, HandleMoveReply, HandleSqueryReply
  <2>4. ASSUME NEW a \in App, HandleRegApp(a) \/ HandleRegAppReply(a) PROVE Mapped' = Mapped
    BY <2>4 DEF HandleRegApp, HandleRegAppReply
  <2> QED
    BY <1>3, <1>6, <2>1, <2>2, <2>3, <2>4 DEF StillAction
<1> QED
  BY <1>4, <1>5, <1>6

\* A query is sent once, and its thread at the master ends without an order
\* or comes to the point where it gives one.
LEMMA QueryStep ==
    ASSUME TypeOK, MoveInv, NEW g \in Get, NEW l \in {"push", "qmiss", "bwait", "end"},
           Asked(g) \/ sq[g] \notin {"none", "end"}, ~Asked(g)',
           sq' = [sq EXCEPT ![g] = l], pc' = pc, xfer' = xfer,
           msgs' = msgs \/ msgs' = msgs \ {M("SQUERY", Master, g)}
    PROVE  MoveInv' /\ SameOrders /\ (Unsettled \/ Settles(g))
<1>1. \A n \in Node, h \in Get : Ordered(n, h)' <=> Ordered(n, h)
  BY DEF Ordered, M
<1>2. SameOrders
  BY <1>1 DEF InFlight, SameOrders
<1>0. OpNode(g) # Master /\ sq[g] # "end"
  BY DEF MoveInv, Route
<1>3. ~InFlight(g)
  BY <1>0 DEF MoveInv, Stage, Undecided, GetAtMaster
<1>7. Unsettled \/ Settles(g)
  BY <1>0 DEF TypeOK, Undecided, GetAtMaster, Unsettled, Settles
<1>4. Route'
  BY DEF TypeOK, MoveInv, Route, Asked
<1>5. Stage'
  BY <1>2, <1>3, <1>7 DEF MoveInv, Stage, SameOrders, Unsettled, Settles
<1>6. Single'
  BY <1>1 DEF MoveInv, Single
<1> QED
  BY <1>2, <1>4, <1>5, <1>6, <1>7 DEF MoveInv

\* A slave's get sends its query, or ends.
LEMMA SlaveGetMoves ==
    ASSUME TypeOK, MoveInv, NEW g \in Get, SlaveGet(g)
    PROVE  MoveInv' /\ SameOrders /\ Unsettled
<1>1. /\ pc[g] = "ready" /\ OpNode(g) # Master /\ sq' = sq /\ xfer' = xfer
      /\ \A h \in Get : h # g => pc'[h] = pc[h]
      /\ pc'[g] \in {"ok", "fail", "sqsent"}
      /\ msgs' = msgs \/ (msgs' = msgs \cup {M("SQUERY", Master, g)} /\ pc'[g] = "sqsent")
  BY GetOp DEF TypeOK, SlaveGet, Goto, Send, masterVars
<1>2. sq[g] = "none"
  BY <1>1 DEF MoveInv, Route, Queried
<1>3. \A n \in Node, h \in Get : Ordered(n, h)' <=> Ordered(n, h)
  BY <1>1 DEF Ordered, M
<1>4. SameOrders /\ Unsettled
  BY <1>1, <1>3 DEF InFlight, SameOrders, Unsettled, Undecided, GetAtMaster
<1>5. Route'
  BY <1>1, <1>2 DEF MoveInv, Route, Asked, Queried, M
<1>6. Stage'
  BY <1>4 DEF MoveInv, Stage, SameOrders, Unsettled
<1>7. Single'
  <2>1. \A n \in Node, h \in Get : M("MOVE", n, h) \in msgs' => M("MOVE", n, h) \in msgs
    BY <1>1 DEF M
  <2> QED
    BY <1>1, <1>3, <2>1 DEF MoveInv, Single
<1> QED
  BY <1>4, <1>5, <1>6, <1>7 DEF MoveInv

\* The steps of sdm_mquery that end the get or make it wait give no order.
LEMMA MasterGetStill ==
    ASSUME TypeOK, MoveInv, NEW g \in Get, OpNode(g) = Master, pc[g] \in {"ready", "bwait"},
           NEW l \in {"ok", "fail", "qmiss"}, Goto(g, l),
           msgs' = msgs, xfer' = xfer, sq' = sq
    PROVE  MoveInv' /\ SameOrders /\ (Unsettled \/ Settles(g))
<1>1. \A n \in Node, h \in Get : Ordered(n, h)' <=> Ordered(n, h)
  BY DEF Ordered
<1>2. SameOrders
  BY <1>1 DEF InFlight, SameOrders
<1>3. \A h \in Get : h # g => pc'[h] = pc[h]
  BY DEF Goto, TypeOK
<1>4. pc'[g] = l
  BY GetOp DEF Goto, TypeOK
<1>5. Unsettled \/ Settles(g)
  BY <1>3, <1>4 DEF Undecided, GetAtMaster, Unsettled, Settles
<1>6. ~InFlight(g)
  BY DEF MoveInv, Stage, Undecided, GetAtMaster
<1>7. Route'
  BY <1>3 DEF MoveInv, Route, Asked
<1>8. Stage'
  BY <1>2, <1>5, <1>6 DEF MoveInv, Stage, SameOrders, Unsettled, Settles
<1>9. Single'
  BY <1>1 DEF MoveInv, Single
<1> QED
  BY <1>2, <1>5, <1>7, <1>8, <1>9 DEF MoveInv

\* sdm_mquery with the data available ends the get or gives an order.
LEMMA MoveToMasterMoves ==
    ASSUME IInv, MoveInv, NEW g \in Get, OpNode(g) = Master, pc[g] \in {"ready", "bwait"},
           Available(OpData(g)), MoveToMaster(g),
           Mapped' = Mapped, xfer' = xfer, sq' = sq
    PROVE  MoveInv' /\ [Movement!Next]_(Movement!vars)
<1>1. From(OpData(g)) \in Node
  BY FromHolds, GetOp, OpType
<1>2. CASE From(OpData(g)) = Master
  <2>1. Goto(g, MasterGetResult(g)) /\ msgs' = msgs
    BY <1>2 DEF MoveToMaster
  <2>2. MasterGetResult(g) \in {"ok", "fail", "qmiss"}
    BY DEF MasterGetResult
  <2>3. MoveInv' /\ SameOrders /\ (Unsettled \/ Settles(g))
    BY <2>1, <2>2, MasterGetStill DEF IInv
  <2> QED
    BY <2>3, StutterMapped, DropMapped
<1>3. CASE From(OpData(g)) # Master
  <2>1. Gives(g, From(OpData(g))) /\ GivesNow(g)
    BY <1>3 DEF MoveToMaster, Gives, GivesNow, Send, Goto
  <2>2. MoveInv' /\ Settles(g) /\ \A h \in Get : InFlight(h)' <=> InFlight(h) \/ h = g
    BY <1>1, <2>1, GivesStep DEF IInv
  <2> QED
    BY <2>2, BeginMapped
<1> QED
  BY <1>2, <1>3

\* The thread of a query that finds its data gives an order.
LEMMA OrderMoveMoves ==
    ASSUME IInv, MoveInv, NEW g \in Get, sq[g] \in {"push", "bwait"},
           Available(OpData(g)), OrderMove(g),
           Mapped' = Mapped, pc' = pc, sq' = [sq EXCEPT ![g] = "end"]
    PROVE  MoveInv' /\ [Movement!Next]_(Movement!vars)
<1>1. From(OpData(g)) \in Node
  BY FromHolds, GetOp, OpType
<1>2. Gives(g, From(OpData(g))) /\ GivesNow(g)
  BY DEF OrderMove, Gives, GivesNow, Send
<1>3. MoveInv' /\ Settles(g) /\ \A h \in Get : InFlight(h)' <=> InFlight(h) \/ h = g
  BY <1>1, <1>2, GivesStep DEF IInv
<1> QED
  BY <1>3, BeginMapped

\* An order that reaches its site goes to the data mover and stays in flight.
LEMMA HandleMoveMoves ==
    ASSUME MoveInv, NEW n \in Slave, NEW g \in Get, HandleMove(n, g)
    PROVE  MoveInv' /\ SameOrders /\ Unsettled
<1>1. /\ n \in Node /\ M("MOVE", n, g) \in msgs /\ pc' = pc /\ sq' = sq
      /\ msgs' = msgs \ {M("MOVE", n, g)} /\ xfer' = xfer \cup {[from |-> n, op |-> g]}
  BY DEF HandleMove, Node, opVars, masterVars
<1>2. \A k \in Node, h \in Get : Ordered(k, h)' <=> Ordered(k, h)
  BY <1>1 DEF Ordered, M
<1>3. SameOrders /\ Unsettled
  BY <1>1, <1>2 DEF InFlight, SameOrders, Unsettled, Undecided, GetAtMaster
<1>4. Route'
  BY <1>1 DEF MoveInv, Route, Asked
<1>5. Stage'
  BY <1>3 DEF MoveInv, Stage, SameOrders, Unsettled
<1>6. Single'
  <2> SUFFICES ASSUME NEW h \in Get, NEW k \in Node, NEW l \in Node
               PROVE  /\ Ordered(k, h)' /\ Ordered(l, h)' => k = l
                      /\ ~(M("MOVE", k, h) \in msgs' /\ [from |-> k, op |-> h] \in xfer')
    BY DEF Single
  <2>1. Ordered(k, h)' /\ Ordered(l, h)' => k = l
    BY <1>2 DEF MoveInv, Single
  <2>2. ~(M("MOVE", k, h) \in msgs' /\ [from |-> k, op |-> h] \in xfer')
    BY <1>1 DEF MoveInv, Single, M
  <2> QED
    BY <2>1, <2>2
<1> QED
  BY <1>3, <1>4, <1>5, <1>6 DEF MoveInv

\* The data mover's end of an order takes that order, and only it, from those
\* in flight.
LEMMA TransferEnds ==
    ASSUME TypeOK, MoveInv, NEW x \in xfer, xfer' = xfer \ {x}, pc' = pc, sq' = sq,
           msgs' = msgs \/ msgs' = msgs \cup {M("MOVE_REPLY", Master, x.op)}
    PROVE  /\ MoveInv'
           /\ x.op \in Get /\ InFlight(x.op) /\ Unsettled
           /\ \A h \in Get : InFlight(h)' <=> InFlight(h) /\ h # x.op
<1>0. Unsettled
  BY DEF Unsettled, Undecided, GetAtMaster
<1>1. x.op \in Get /\ x.from \in Node /\ x = [from |-> x.from, op |-> x.op]
  BY DEF TypeOK
<1>2. Ordered(x.from, x.op)
  BY <1>1 DEF Ordered
<1>3. \A k \in Node, h \in Get : M("MOVE", k, h) \in msgs' <=> M("MOVE", k, h) \in msgs
  BY DEF M
<1>4. \A k \in Node : ~Ordered(k, x.op)'
  BY <1>1, <1>2, <1>3 DEF MoveInv, Single, Ordered
<1>5. \A k \in Node, h \in Get : h # x.op => (Ordered(k, h)' <=> Ordered(k, h))
  BY <1>1, <1>3 DEF Ordered
<1>6. \A h \in Get : InFlight(h)' <=> InFlight(h) /\ h # x.op
  BY <1>4, <1>5 DEF InFlight
<1>7. Route'
  BY DEF MoveInv, Route, Asked, M
<1>8. Stage'
  BY <1>0, <1>6 DEF MoveInv, Stage, Unsettled
<1>9. Single'
  BY <1>3, <1>4, <1>5 DEF MoveInv, Single
<1> QED
  BY <1>0, <1>1, <1>2, <1>6, <1>7, <1>8, <1>9 DEF MoveInv, InFlight

-----------------------------------------------------------------------------
(* The theorem.                                                             *)

\* Every step preserves MoveInv and is a step of Mover or a stutter.
LEMMA MoveStep ==
    ASSUME IInv, MoveInv, [Next]_vars
    PROVE  MoveInv' /\ [Movement!Next]_(Movement!vars)
<1> DEFINE Goal == MoveInv' /\ [Movement!Next]_(Movement!vars)
<1> USE DEF Mapped, localVars, opVars, masterVars, netVars
<1>0. ASSUME MoveInv', SameOrders, Mapped' = Mapped,
             Unsettled \/ \E g \in Get : Settles(g)
      PROVE  Goal
  BY <1>0, StutterMapped, DropMapped
<1>1. ASSUME StillAction PROVE Goal
  BY <1>1, StillMapped
<1>2. ASSUME NEW g \in Get, SlaveGet(g) PROVE Goal
  <2>1. Mapped' = Mapped
    BY <1>2 DEF SlaveGet
  <2> QED
    BY <1>0, <1>2, <2>1, SlaveGetMoves DEF IInv
<1>3. ASSUME NEW g \in Get, MasterGet(g) PROVE Goal
  <2>1. /\ Mapped' = Mapped /\ xfer' = xfer /\ sq' = sq
        /\ pc[g] \in {"ready", "bwait"} /\ OpNode(g) = Master
    BY <1>3 DEF MasterGet
  <2>2. MasterGetResult(g) \in {"ok", "fail", "qmiss"}
    BY DEF MasterGetResult
  <2>3. \/ Available(OpData(g)) /\ MoveToMaster(g)
        \/ \E l \in {"ok", "fail", "qmiss"} : Goto(g, l) /\ msgs' = msgs
    BY <1>3, <2>2 DEF MasterGet
  <2>4. CASE \E l \in {"ok", "fail", "qmiss"} : Goto(g, l) /\ msgs' = msgs
    BY <1>0, <2>1, <2>4, MasterGetStill DEF IInv
  <2> QED
    BY <2>1, <2>3, <2>4, MoveToMasterMoves
<1>4. ASSUME NEW g \in Get, MasterGetUnblock(g) PROVE Goal
  <2>1. /\ Mapped' = Mapped /\ xfer' = xfer /\ sq' = sq /\ pc[g] \in {"ready", "bwait"}
    BY <1>4 DEF MasterGetUnblock
  <2>2. OpNode(g) = Master
    BY <1>4 DEF MasterGetUnblock, IInv, PlaceInv, Sited
  <2>3. CASE Available(OpData(g))
    BY <1>4, <2>1, <2>2, <2>3, MoveToMasterMoves DEF MasterGetUnblock
  <2>4. CASE ~Available(OpData(g))
    <3>1. Goto(g, "fail") /\ msgs' = msgs
      BY <1>4, <2>4 DEF MasterGetUnblock
    <3> QED
      BY <1>0, <2>1, <2>2, <3>1, MasterGetStill DEF IInv
  <2> QED
    BY <2>3, <2>4
<1>5. ASSUME NEW g \in Get, HandleSquery(g) PROVE Goal
  <2>1. /\ Asked(g) /\ ~Asked(g)' /\ pc' = pc /\ xfer' = xfer /\ Mapped' = Mapped
        /\ msgs' = msgs \ {M("SQUERY", Master, g)}
        /\ \E l \in {"push", "end"} : sq' = [sq EXCEPT ![g] = l]
    BY <1>5 DEF HandleSquery, Asked
  <2> QED
    BY <1>0, <2>1, QueryStep DEF IInv
<1>6. ASSUME NEW g \in Get, sq[g] \in {"push", "qmiss", "bwait"}, pc' = pc, netVars' = netVars,
             Mapped' = Mapped, \E l \in {"qmiss", "bwait", "end"} : sq' = [sq EXCEPT ![g] = l]
      PROVE  Goal
  <2>1. ~Asked(g)'
    BY <1>6 DEF MoveInv, Route, Asked
  <2> QED
    BY <1>0, <1>6, <2>1, QueryStep DEF IInv
<1>7. ASSUME NEW g \in Get, SqueryPush(g) PROVE Goal
  <2>1. Mapped' = Mapped /\ pc' = pc /\ sq[g] = "push"
    BY <1>7 DEF SqueryPush
  <2>2. CASE Available(OpData(g))
    <3>1. OrderMove(g) /\ sq' = [sq EXCEPT ![g] = "end"]
      BY <1>7, <2>2 DEF SqueryPush
    <3> QED
      BY <2>1, <2>2, <3>1, OrderMoveMoves
  <2>3. CASE ~Available(OpData(g))
    <3>1. netVars' = netVars /\ \E l \in {"qmiss", "bwait", "end"} : sq' = [sq EXCEPT ![g] = l]
      BY <1>7, <2>3 DEF SqueryPush
    <3> QED
      BY <1>6, <2>1, <3>1
  <2> QED
    BY <2>2, <2>3
<1>8. ASSUME NEW g \in Get, SqueryBlock(g) PROVE Goal
  BY <1>6, <1>8 DEF SqueryBlock
<1>9. ASSUME NEW g \in Get, SqueryUnblock(g) PROVE Goal
  <2>1. Mapped' = Mapped /\ pc' = pc /\ sq[g] = "bwait" /\ sq' = [sq EXCEPT ![g] = "end"]
    BY <1>9 DEF SqueryUnblock
  <2>2. CASE Available(OpData(g))
    <3>1. OrderMove(g)
      BY <1>9, <2>2 DEF SqueryUnblock
    <3> QED
      BY <2>1, <2>2, <3>1, OrderMoveMoves
  <2>3. CASE ~Available(OpData(g))
    <3>1. netVars' = netVars
      BY <1>9, <2>3 DEF SqueryUnblock
    <3> QED
      BY <1>6, <2>1, <3>1
  <2> QED
    BY <2>2, <2>3
<1>10. ASSUME NEW n \in Slave, NEW g \in Get, HandleMove(n, g) PROVE Goal
  <2>1. Mapped' = Mapped
    BY <1>10 DEF HandleMove
  <2> QED
    BY <1>0, <1>10, <2>1, HandleMoveMoves
<1>11. ASSUME NEW x \in xfer, TransferDone(x) PROVE Goal
  <2>1. /\ xfer' = xfer \ {x} /\ pc' = pc /\ sq' = sq
        /\ msgs' = msgs \/ msgs' = msgs \cup {M("MOVE_REPLY", Master, x.op)}
    BY <1>11 DEF TransferDone, Send
  <2>2. /\ MoveInv' /\ x.op \in Get /\ InFlight(x.op) /\ Unsettled
        /\ \A h \in Get : InFlight(h)' <=> InFlight(h) /\ h # x.op
    BY <2>1, TransferEnds DEF IInv
  <2>3. Movement!Done(x.op)
    BY <1>11, <2>2 DEF TransferDone, Movement!Done, Unsettled
  <2> QED
    BY <2>2, <2>3 DEF Movement!Next
<1>12. ASSUME NEW x \in xfer, TransferFail(x) PROVE Goal
  <2>1. xfer' = xfer \ {x} /\ pc' = pc /\ sq' = sq /\ msgs' = msgs
    BY <1>12 DEF TransferFail
  <2>2. /\ MoveInv' /\ x.op \in Get /\ InFlight(x.op) /\ Unsettled
        /\ \A h \in Get : InFlight(h)' <=> InFlight(h) /\ h # x.op
    BY <2>1, TransferEnds DEF IInv
  <2>3. Movement!Fail(x.op)
    BY <1>12, <2>2 DEF TransferFail, Movement!Fail, Unsettled
  <2> QED
    BY <2>2, <2>3 DEF Movement!Next
<1>13. CASE UNCHANGED vars
  <2>1. Still /\ Mapped' = Mapped
    BY <1>13 DEF vars, Still, Asked, Undecided, GetAtMaster
  <2> QED
    BY <1>0, <2>1, StillStep
<1> QED
  BY <1>1, <1>2, <1>3, <1>4, <1>5, <1>7, <1>8, <1>9, <1>10, <1>11, <1>12, <1>13
     DEF Next, ControlStep, TransferStep, OpStep, PutStep, GetStep, SqueryStep, StillAction

\* The control plane implements Mover, whatever the sites, applications, data
\* and gets: each get's move is ordered once or never, of data a site has stored
\* and listed; a move that has ended is not ordered again; and the tables of the
\* sites change only by a datum's one put or by an order that is under way.
THEOREM MovementRefined == Spec => OrdersMoves
<1>1. Init => MoveInv /\ Movement!Init
  <2> SUFFICES ASSUME Init PROVE MoveInv /\ Movement!Init
    OBVIOUS
  <2>1. \A g \in Get : ~InFlight(g)
    BY DEF Init, InFlight, Ordered
  <2>2. MoveInv
    BY <2>1 DEF Init, MoveInv, Route, Stage, Single, Asked, Ordered
  <2>3. \A g \in Get : Undecided(g)
    BY GetOp DEF Init, Undecided, GetAtMaster
  <2>4. Movement!Init
    BY <2>1, <2>3 DEF Init, Movement!Init
  <2> QED
    BY <2>2, <2>4
<1>2. IInv /\ MoveInv /\ [Next]_vars => MoveInv' /\ [Movement!Next]_(Movement!vars)
  BY MoveStep
<1> QED
  BY <1>1, <1>2, Inductive, PTL DEF Spec, OrdersMoves, Movement!Spec
=============================================================================
