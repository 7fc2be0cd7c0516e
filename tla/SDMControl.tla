----------------------------- MODULE SDMControl -----------------------------
(***************************************************************************)
(* The control plane of a wide-area data space (SDMSlave and SDMMaster,    *)
(* dspaces_rel/sdm_control/sdm_control.cpp, as RIManager drives them): one *)
(* master and its slaves, each in front of a local DataSpaces.  A put is   *)
(* announced to the master; a get that misses locally asks the master,     *)
(* which orders the site that holds the data to move it to the asker.      *)
(*                                                                         *)
(* Every message is handled by a thread of its own (sdm_server.cpp), so    *)
(* messages are a set, taken in any order, and every handler that blocks   *)
(* is split at its waits.  The data mover behind dm_act_cb is abstract     *)
(* here: an order in xfer ends with the data stored at the destination, or *)
(* with a failure reported to it.  The master runs an MWASpace with        *)
(* w_prefetch = false: accesses only feed the predictors (see MPBuffer).   *)
(***************************************************************************)
EXTENDS Syncer, Naturals, FiniteSets

CONSTANTS
    Master, Slave,     \* the ids of the master and of the slaves
    NoNode,            \* app_id__ds_id_map has no entry
    App, Home,         \* applications and the site each one runs at
    Data, Producer,    \* the <key, ver>s that are put, and who puts each one
    Get,               \* the get requests the applications make
    GetApp, GetData,   \* who makes the request, and for what
    Blocking,          \* BLOCKING_GET or GET
    AppDs0,            \* app_id__ds_id_map when the modelled history begins
    TransFails         \* whether wa_put may fail

Node == Slave \cup {Master}

\* An operation: a put is named by its datum (each <key, ver> is put once).
Op == Data \cup Get

ASSUME ConstAssumption ==
    /\ Master \notin Slave
    /\ NoNode \notin Node
    /\ Home \in [App -> Node]
    /\ Producer \in [Data -> App]
    /\ GetApp \in [Get -> App]
    /\ GetData \in [Get -> Data]
    /\ Blocking \in [Get -> BOOLEAN]
    /\ Data \cap Get = {}
    /\ AppDs0 \in [App -> Node \cup {NoNode}]
    /\ \A d \in Data : Home[Producer[d]] = Master => AppDs0[Producer[d]] \in {Master, NoNode}
    /\ TransFails \in BOOLEAN

\* An application whose AppDs0 is its Home registered in an earlier exchange.
\* One whose AppDs0 is another site has an id that is in use there: its own
\* registration is refused.  Producers at the master have ids of their own:
\* the master goes on with a put after a refused registration, and would
\* record the other application's site as the holder.
OpApp(o)  == IF o \in Get THEN GetApp[o] ELSE Producer[o]
OpData(o) == IF o \in Get THEN GetData[o] ELSE o
OpNode(o) == Home[OpApp(o)]

VARIABLES
    dspaces,   \* dspaces[n]: the data in site n's DataSpaces (external)
    qtable,    \* qtable[n]: the keys of site n's KVTable
    failed,    \* failed[n]: RIManager::failed_remote_get_data_id_v
    reged,     \* the applications in their site's app_id_v
    pc,        \* pc[o]: where the thread serving operation o is
    ssync,     \* ssync[n]: sdm_s_syncer of site n
    app_ds,    \* app_id__ds_id_map of the master's WASpace
    ds_kv,     \* ds_id__kv_map of the master's WASpace
    moving,    \* entries of ds_id__moving_data_id_v_map, named by the get
               \* whose squery pushed them
    msync,     \* sdm_m_syncer
    sq,        \* sq[g]: the thread running handle_sdm_squery for get g
    wm,        \* wm[g]: the thread running wait_for_move for get g
    msgs,      \* control messages in flight
    xfer       \* move orders handed to dm_act_cb and not finished

localVars  == <<dspaces, qtable, failed>>
opVars     == <<reged, pc, ssync>>
spaceVars  == <<app_ds, ds_kv>>
masterVars == <<moving, msync, sq, wm>>
netVars    == <<msgs, xfer>>
vars       == <<localVars, opVars, spaceVars, masterVars, netVars>>

Thread == {"op", "sq", "wm"} \X Op
SPoint == ({"REG"} \X App) \cup ({"SQUERY"} \X Data)
MPoint == {"BQUERY", "MOVE"} \X Data

\* A message names the operation it is about (SDM_REG_APP: the application);
\* sender, data id and move destination follow from that.
MsgType == {"REG_APP", "REG_APP_REPLY", "PUT_NOTIFICATION", "SQUERY",
            "SQUERY_REPLY", "MOVE", "MOVE_REPLY"}
Msg == [type : MsgType, dst : Node, op : Op \cup App]
M(t, n, o) == [type |-> t, dst |-> n, op |-> o]

PC == {"new", "regsent", "regwait", "ready", "sqsent", "sqwait", "qmiss",
       "bwait", "mvsent", "mvwait", "wa_put", "ok", "fail"}

TypeOK ==
    /\ dspaces \in [Node -> SUBSET Data]
    /\ qtable \in [Node -> SUBSET Data]
    /\ failed \in [Node -> SUBSET Data]
    /\ reged \subseteq App
    /\ pc \in [Op -> PC]
    /\ ssync \in [Node -> SyncerType(SPoint, Thread)]
    /\ app_ds \in [App -> Node \cup {NoNode}]
    /\ ds_kv \in [Node -> SUBSET Data]
    /\ moving \subseteq Get
    /\ msync \in SyncerType(MPoint, Thread)
    /\ sq \in [Get -> {"none", "push", "qmiss", "bwait", "end"}]
    /\ wm \in [Get -> {"none", "start", "wait", "end"}]
    /\ msgs \subseteq Msg
    /\ xfer \subseteq [from : Node, op : Get]

Init ==
    /\ dspaces = [n \in Node |-> {}]
    /\ qtable = [n \in Node |-> {}]
    /\ failed = [n \in Node |-> {}]
    /\ reged = {a \in App : AppDs0[a] = Home[a]}
    /\ pc = [o \in Op |-> "new"]
    /\ ssync = [n \in Node |-> EmptySyncer]
    /\ app_ds = AppDs0
    /\ ds_kv = [n \in Node |-> {}]
    /\ moving = {}
    /\ msync = EmptySyncer
    /\ sq = [g \in Get |-> "none"]
    /\ wm = [g \in Get |-> "none"]
    /\ msgs = {}
    /\ xfer = {}

-----------------------------------------------------------------------------
(* MWASpace, as the master queries and updates it.                          *)

\* MWASpace::contains('*', kv): some site is known to hold d.
Available(d) == \E n \in Node : d \in ds_kv[n]

\* query(...)[0].  Only put adds to ds_kv, and each datum is put once, so
\* there is never a second site to choose from (OneHolder).
From(d) == CHOOSE n \in Node : d \in ds_kv[n]

\* Mutant of WaPut: every put is recorded at the master.
WaPutAtMaster(d) == ds_kv' = [ds_kv EXCEPT ![Master] = @ \cup {d}]

\* MWASpace::put for new data: an unregistered producer is refused.
WaPut(d) ==
    LET n == app_ds[Producer[d]]
    IN  ds_kv' = IF n = NoNode THEN ds_kv ELSE [ds_kv EXCEPT ![n] = @ \cup {d}]

\* MWASpace::add_access for a consumer at the master returns 1 when the
\* producer is at the master too, and when d is not registered.
AddAccessFails(d) == ~Available(d) \/ app_ds[Producer[d]] = Master

-----------------------------------------------------------------------------
(* Operations at a site: RIManager::handle_put and handle_get.              *)

Goto(o, l) == pc' = [pc EXCEPT ![o] = l]
Send(S)    == msgs' = msgs \cup S
Wait(o, n, p, l) ==
    /\ ssync' = [ssync EXCEPT ![n] = AddWait(@, p, <<"op", o>>)]
    /\ Goto(o, l)
Resumed(o, n, p) ==
    /\ <<"op", o>> \in ssync[n].woken
    /\ ssync' = [ssync EXCEPT ![n] = DelPoint(@, p, <<"op", o>>)]
NotifySite(n, p) ==
    \E s \in Notify(ssync[n], p) : ssync' = [ssync EXCEPT ![n] = s]
NotifyMaster(p) == msync' \in Notify(msync, p)

Busy(a) == \E o \in Op : OpApp(o) = a /\ pc[o] \notin {"new", "ok", "fail"}

\* Mutant of Start: a slave goes on before its registration is answered.
StartUnanswered(o) ==
    LET a == OpApp(o)
        n == OpNode(o)
    IN  /\ pc[o] = "new"
        /\ ~Busy(a)
        /\ dspaces' = IF o \in Data THEN [dspaces EXCEPT ![n] = @ \cup {o}]
                                    ELSE dspaces
        /\ reged' = reged \cup {a}
        /\ app_ds' = IF n = Master THEN [app_ds EXCEPT ![a] = Master] ELSE app_ds
        /\ msgs' = IF n = Master \/ a \in reged THEN msgs
                   ELSE msgs \cup {M("REG_APP", Master, a)}
        /\ Goto(o, "ready")
        /\ UNCHANGED <<qtable, failed, ssync, ds_kv, masterVars, xfer>>

\* The application calls put or get and its site's RIManager starts to serve
\* it.  Before a put is announced its data is in the local DataSpaces.
\* reg_app comes first: a known application goes on at once; at the master
\* the WASpace is updated in place, or refuses an id in use elsewhere, which
\* nobody looks at; at a slave SDM_REG_APP is sent.
Start(o) ==
    LET a == OpApp(o)
        n == OpNode(o)
    IN  /\ pc[o] = "new"
        /\ ~Busy(a)
        /\ dspaces' = IF o \in Data THEN [dspaces EXCEPT ![n] = @ \cup {o}]
                                    ELSE dspaces
        /\ \/ /\ a \in reged
              /\ Goto(o, "ready")
              /\ UNCHANGED <<reged, app_ds, msgs>>
           \/ /\ a \notin reged
              /\ n = Master
              /\ app_ds[a] = NoNode
              /\ reged' = reged \cup {a}
              /\ app_ds' = [app_ds EXCEPT ![a] = Master]
              /\ Goto(o, "ready")
              /\ UNCHANGED msgs
           \/ /\ a \notin reged
              /\ n = Master
              /\ app_ds[a] # NoNode
              /\ Goto(o, "ready")
              /\ UNCHANGED <<reged, app_ds, msgs>>
           \/ /\ a \notin reged
              /\ n # Master
              /\ reged' = reged \cup {a}
              /\ Send({M("REG_APP", Master, a)})
              /\ Goto(o, "regsent")
              /\ UNCHANGED app_ds
        /\ UNCHANGED <<qtable, failed, ssync, ds_kv, masterVars, xfer>>

\* SDMSlave::reg_app waits for SDM_REG_APP_REPLY.
RegWait(o) ==
    /\ pc[o] = "regsent"
    /\ Wait(o, OpNode(o), <<"REG", OpApp(o)>>, "regwait")
    /\ UNCHANGED <<localVars, reged, spaceVars, masterVars, netVars>>

RegResume(o) ==
    /\ pc[o] = "regwait"
    /\ Resumed(o, OpNode(o), <<"REG", OpApp(o)>>)
    /\ Goto(o, "ready")
    /\ UNCHANGED <<localVars, reged, spaceVars, masterVars, netVars>>

\* Mutant of SlavePut: the qtable is not updated.
SlavePutUnlisted(d) ==
    /\ pc[d] = "ready"
    /\ OpNode(d) # Master
    /\ Send({M("PUT_NOTIFICATION", Master, d)})
    /\ Goto(d, "ok")
    /\ UNCHANGED <<localVars, reged, ssync, spaceVars, masterVars, xfer>>

\* SDMSlave::put(notify = true).
SlavePut(d) ==
    LET n == OpNode(d)
    IN  /\ pc[d] = "ready"
        /\ n # Master
        /\ qtable' = [qtable EXCEPT ![n] = @ \cup {d}]
        /\ Send({M("PUT_NOTIFICATION", Master, d)})
        /\ Goto(d, "ok")
        /\ UNCHANGED <<dspaces, failed, reged, ssync, spaceVars, masterVars, xfer>>

\* SDMMaster::put wakes a blocked query before it records the datum in the
\* WASpace, in a second step.
MasterPut(d) ==
    /\ pc[d] = "ready"
    /\ OpNode(d) = Master
    /\ qtable' = [qtable EXCEPT ![Master] = @ \cup {d}]
    /\ NotifyMaster(<<"BQUERY", d>>)
    /\ Goto(d, "wa_put")
    /\ UNCHANGED <<dspaces, failed, reged, ssync, spaceVars, moving, sq, wm, netVars>>

MasterPutSpace(d) ==
    /\ pc[d] = "wa_put"
    /\ WaPut(d)
    /\ Goto(d, IF app_ds[Producer[d]] = NoNode THEN "fail" ELSE "ok")
    /\ UNCHANGED <<localVars, reged, ssync, app_ds, masterVars, netVars>>

\* handle_get refuses data whose transfer to this site failed once; otherwise
\* SDMSlave::get answers from the qtable or sends SDM_SQUERY.
SlaveGet(g) ==
    LET n == OpNode(g)
        d == OpData(g)
    IN  /\ pc[g] = "ready"
        /\ n # Master
        /\ \/ /\ d \in failed[n]
              /\ Goto(g, "fail")
              /\ UNCHANGED msgs
           \/ /\ d \notin failed[n]
              /\ d \in qtable[n]
              /\ Goto(g, "ok")
              /\ UNCHANGED msgs
           \/ /\ d \notin failed[n]
              /\ d \notin qtable[n]
              /\ Send({M("SQUERY", Master, g)})
              /\ Goto(g, "sqsent")
        /\ UNCHANGED <<localVars, reged, ssync, spaceVars, masterVars, xfer>>

SlaveGetWait(g) ==
    /\ pc[g] = "sqsent"
    /\ Wait(g, OpNode(g), <<"SQUERY", OpData(g)>>, "sqwait")
    /\ UNCHANGED <<localVars, reged, spaceVars, masterVars, netVars>>

\* Mutant of SlaveGetResume: the reply is taken for success.
SlaveGetResumeBlindly(g) ==
    /\ pc[g] = "sqwait"
    /\ Resumed(g, OpNode(g), <<"SQUERY", OpData(g)>>)
    /\ Goto(g, "ok")
    /\ UNCHANGED <<localVars, reged, spaceVars, masterVars, netVars>>

\* Back from the wait, the qtable is asked once more.
SlaveGetResume(g) ==
    /\ pc[g] = "sqwait"
    /\ Resumed(g, OpNode(g), <<"SQUERY", OpData(g)>>)
    /\ Goto(g, IF OpData(g) \in qtable[OpNode(g)] THEN "ok" ELSE "fail")
    /\ UNCHANGED <<localVars, reged, spaceVars, masterVars, netVars>>

\* How SDMMaster::get ends: the qtable decides, then add_access.
MasterGetResult(g) ==
    IF OpData(g) \in qtable[Master] /\ ~AddAccessFails(OpData(g)) THEN "ok" ELSE "fail"

\* sdm_mquery once the datum is available: nothing to do if the master holds
\* it, otherwise SDM_MOVE to the holder, to be followed by a wait.
MoveToMaster(g) ==
    LET from == From(OpData(g))
    IN  \/ /\ from = Master
           /\ Goto(g, MasterGetResult(g))
           /\ UNCHANGED msgs
        \/ /\ from # Master
           /\ Send({M("MOVE", from, g)})
           /\ Goto(g, "mvsent")

\* SDMMaster::get up to its first wait.  An application whose registration
\* was refused gets nothing.
MasterGet(g) ==
    LET d == OpData(g)
    IN  /\ pc[g] = "ready"
        /\ OpNode(g) = Master
        /\ \/ /\ d \in failed[Master] \/ OpApp(g) \notin reged
              /\ Goto(g, "fail")
              /\ UNCHANGED msgs
           \/ /\ d \notin failed[Master] /\ OpApp(g) \in reged
              /\ d \in qtable[Master] \/ ~Blocking[g]
              /\ Goto(g, MasterGetResult(g))
              /\ UNCHANGED msgs
           \/ /\ d \notin failed[Master] \cup qtable[Master] /\ OpApp(g) \in reged
              /\ Blocking[g]
              /\ Available(d)
              /\ MoveToMaster(g)
           \/ /\ d \notin failed[Master] \cup qtable[Master] /\ OpApp(g) \in reged
              /\ Blocking[g]
              /\ ~Available(d)
              /\ Goto(g, "qmiss")
              /\ UNCHANGED msgs
        /\ UNCHANGED <<localVars, reged, ssync, spaceVars, masterVars, xfer>>

MasterGetBlock(g) ==
    /\ pc[g] = "qmiss"
    /\ msync' = AddWait(msync, <<"BQUERY", OpData(g)>>, <<"op", g>>)
    /\ Goto(g, "bwait")
    /\ UNCHANGED <<localVars, reged, ssync, spaceVars, moving, sq, wm, netVars>>

MasterGetUnblock(g) ==
    /\ pc[g] = "bwait"
    /\ <<"op", g>> \in msync.woken
    /\ msync' = DelPoint(msync, <<"BQUERY", OpData(g)>>, <<"op", g>>)
    /\ IF Available(OpData(g))
       THEN MoveToMaster(g)
       ELSE Goto(g, "fail") /\ UNCHANGED msgs
    /\ UNCHANGED <<localVars, reged, ssync, spaceVars, moving, sq, wm, xfer>>

MasterGetMoveWait(g) ==
    /\ pc[g] = "mvsent"
    /\ msync' = AddWait(msync, <<"MOVE", OpData(g)>>, <<"op", g>>)
    /\ Goto(g, "mvwait")
    /\ UNCHANGED <<localVars, reged, ssync, spaceVars, moving, sq, wm, netVars>>

MasterGetMoved(g) ==
    /\ pc[g] = "mvwait"
    /\ <<"op", g>> \in msync.woken
    /\ msync' = DelPoint(msync, <<"MOVE", OpData(g)>>, <<"op", g>>)
    /\ Goto(g, MasterGetResult(g))
    /\ UNCHANGED <<localVars, reged, ssync, spaceVars, moving, sq, wm, netVars>>

-----------------------------------------------------------------------------
(* Handlers at the master.                                                  *)

\* Mutant of HandleRegApp: the application's id is stored for the site's.
HandleRegAppSwapped(a) ==
    LET m == M("REG_APP", Master, a)
    IN  /\ m \in msgs
        /\ app_ds[a] = NoNode
        /\ app_ds' = [app_ds EXCEPT ![a] = a]
        /\ msgs' = (msgs \ {m}) \cup {M("REG_APP_REPLY", Home[a], a)}
        /\ UNCHANGED <<localVars, opVars, ds_kv, masterVars, xfer>>

\* handle_sdm_reg_app: a second registration is refused and never answered.
HandleRegApp(a) ==
    LET m == M("REG_APP", Master, a)
    IN  /\ m \in msgs
        /\ \/ /\ app_ds[a] = NoNode
              /\ app_ds' = [app_ds EXCEPT ![a] = Home[a]]
              /\ msgs' = (msgs \ {m}) \cup {M("REG_APP_REPLY", Home[a], a)}
           \/ /\ app_ds[a] # NoNode
              /\ msgs' = msgs \ {m}
              /\ UNCHANGED app_ds
        /\ UNCHANGED <<localVars, opVars, ds_kv, masterVars, xfer>>

\* handle_sdm_put_notification: WASpace first, then the blocked query.
HandlePutNotification(d) ==
    LET m == M("PUT_NOTIFICATION", Master, d)
    IN  /\ m \in msgs
        /\ msgs' = msgs \ {m}
        /\ WaPut(d)
        /\ NotifyMaster(<<"BQUERY", d>>)
        /\ UNCHANGED <<localVars, opVars, app_ds, moving, sq, wm, xfer>>

\* The datum get g asks for is on its way to g's site.
IsMoving(g) == \E h \in moving : OpNode(h) = OpNode(g) /\ OpData(h) = OpData(g)

\* handle_sdm_squery: a query for data already moving to the asker is dropped.
HandleSquery(g) ==
    LET m == M("SQUERY", Master, g)
    IN  /\ m \in msgs
        /\ msgs' = msgs \ {m}
        /\ sq' = [sq EXCEPT ![g] = IF IsMoving(g) THEN "end" ELSE "push"]
        /\ UNCHANGED <<localVars, opVars, spaceVars, moving, msync, wm, xfer>>

\* The move handle_sdm_squery orders: a wait_for_move thread is started, and
\* the holder gets SDM_MOVE, or dm_act_cb is called if that is the master.
OrderMove(g) ==
    LET from == From(OpData(g))
    IN  /\ wm' = [wm EXCEPT ![g] = "start"]
        /\ IF from = Master
           THEN xfer' = xfer \cup {[from |-> Master, op |-> g]} /\ UNCHANGED msgs
           ELSE Send({M("MOVE", from, g)}) /\ UNCHANGED xfer

\* The push is not atomic with the look-up.  After it, unavailable data ends
\* a non-blocking query without an answer.
SqueryPush(g) ==
    /\ sq[g] = "push"
    /\ moving' = moving \cup {g}
    /\ \/ /\ Available(OpData(g))
          /\ OrderMove(g)
          /\ sq' = [sq EXCEPT ![g] = "end"]
       \/ /\ ~Available(OpData(g))
          /\ sq' = [sq EXCEPT ![g] = IF Blocking[g] THEN "qmiss" ELSE "end"]
          /\ UNCHANGED <<wm, netVars>>
    /\ UNCHANGED <<localVars, opVars, spaceVars, msync>>

SqueryBlock(g) ==
    /\ sq[g] = "qmiss"
    /\ msync' = AddWait(msync, <<"BQUERY", OpData(g)>>, <<"sq", g>>)
    /\ sq' = [sq EXCEPT ![g] = "bwait"]
    /\ UNCHANGED <<localVars, opVars, spaceVars, moving, wm, netVars>>

SqueryUnblock(g) ==
    /\ sq[g] = "bwait"
    /\ <<"sq", g>> \in msync.woken
    /\ msync' = DelPoint(msync, <<"BQUERY", OpData(g)>>, <<"sq", g>>)
    /\ sq' = [sq EXCEPT ![g] = "end"]
    /\ IF Available(OpData(g)) THEN OrderMove(g) ELSE UNCHANGED <<wm, netVars>>
    /\ UNCHANGED <<localVars, opVars, spaceVars, moving>>

\* wait_for_move: the point is the datum's, whatever the destination.
WaitForMove(g) ==
    /\ wm[g] = "start"
    /\ msync' = AddWait(msync, <<"MOVE", OpData(g)>>, <<"wm", g>>)
    /\ wm' = [wm EXCEPT ![g] = "wait"]
    /\ UNCHANGED <<localVars, opVars, spaceVars, moving, sq, netVars>>

\* One entry of the datum is erased and the asker, always a slave, is told.
MoveWaited(g) ==
    /\ wm[g] = "wait"
    /\ <<"wm", g>> \in msync.woken
    /\ msync' = DelPoint(msync, <<"MOVE", OpData(g)>>, <<"wm", g>>)
    /\ wm' = [wm EXCEPT ![g] = "end"]
    /\ moving' = moving \ {g}
    /\ Send({M("SQUERY_REPLY", OpNode(g), g)})
    /\ UNCHANGED <<localVars, opVars, spaceVars, sq, xfer>>

\* Mutant of HandleMoveReply: wait_for_move is not woken.
HandleMoveReplyUnheard(g) ==
    LET m == M("MOVE_REPLY", Master, g)
    IN  /\ m \in msgs
        /\ msgs' = msgs \ {m}
        /\ UNCHANGED <<localVars, opVars, spaceVars, masterVars, xfer>>

HandleMoveReply(g) ==
    LET m == M("MOVE_REPLY", Master, g)
    IN  /\ m \in msgs
        /\ msgs' = msgs \ {m}
        /\ NotifyMaster(<<"MOVE", OpData(g)>>)
        /\ UNCHANGED <<localVars, opVars, spaceVars, moving, sq, wm, xfer>>

-----------------------------------------------------------------------------
(* Handlers at a slave.                                                     *)

HandleRegAppReply(a) ==
    LET m == M("REG_APP_REPLY", Home[a], a)
    IN  /\ m \in msgs
        /\ msgs' = msgs \ {m}
        /\ NotifySite(Home[a], <<"REG", a>>)
        /\ UNCHANGED <<localVars, reged, pc, spaceVars, masterVars, xfer>>

HandleSqueryReply(g) ==
    LET m == M("SQUERY_REPLY", OpNode(g), g)
    IN  /\ m \in msgs
        /\ msgs' = msgs \ {m}
        /\ NotifySite(OpNode(g), <<"SQUERY", OpData(g)>>)
        /\ UNCHANGED <<localVars, reged, pc, spaceVars, masterVars, xfer>>

\* Mutant of HandleMove: the move is reported when it is ordered.
HandleMoveReplying(n, g) ==
    LET m == M("MOVE", n, g)
    IN  /\ m \in msgs
        /\ msgs' = (msgs \ {m}) \cup {M("MOVE_REPLY", Master, g)}
        /\ xfer' = xfer \cup {[from |-> n, op |-> g]}
        /\ UNCHANGED <<localVars, opVars, spaceVars, masterVars>>

\* SDMSlave::handle_sdm_move: the order goes to dm_act_cb.
HandleMove(n, g) ==
    LET m == M("MOVE", n, g)
    IN  /\ m \in msgs
        /\ msgs' = msgs \ {m}
        /\ xfer' = xfer \cup {[from |-> n, op |-> g]}
        /\ UNCHANGED <<localVars, opVars, spaceVars, masterVars>>

-----------------------------------------------------------------------------
(* The data mover.                                                          *)

\* RIManager::remote_get at the destination: the data is in the local
\* DataSpaces and put(notify = false, REMOTE_P_ID) is called.  A slave then
\* reports SDM_MOVE_REPLY.  At the master put wakes a blocked query, and
\* fails, since REMOTE_P_ID is registered nowhere: remote_get returns
\* without notifying anyone.
TransferDone(x) ==
    LET n == OpNode(x.op)
        d == OpData(x.op)
    IN  /\ x \in xfer
        /\ xfer' = xfer \ {x}
        /\ dspaces' = [dspaces EXCEPT ![n] = @ \cup {d}]
        /\ qtable' = [qtable EXCEPT ![n] = @ \cup {d}]
        /\ IF n = Master
           THEN NotifyMaster(<<"BQUERY", d>>) /\ UNCHANGED msgs
           ELSE Send({M("MOVE_REPLY", Master, x.op)}) /\ UNCHANGED msync
        /\ UNCHANGED <<failed, opVars, spaceVars, moving, sq, wm>>

\* Mutant of TransferFail: the failure is not remembered.
TransferFailUnmarked(x) ==
    /\ TransFails
    /\ x \in xfer
    /\ xfer' = xfer \ {x}
    /\ NotifySite(OpNode(x.op), <<"SQUERY", OpData(x.op)>>)
    /\ UNCHANGED <<localVars, reged, pc, spaceVars, masterVars, msgs>>

\* RIManager::remote_put fails and handle_fail_remote_get runs at the
\* destination: the datum is marked and stop_get wakes a waiting get.
TransferFail(x) ==
    LET n == OpNode(x.op)
        d == OpData(x.op)
    IN  /\ TransFails
        /\ x \in xfer
        /\ xfer' = xfer \ {x}
        /\ failed' = [failed EXCEPT ![n] = @ \cup {d}]
        /\ NotifySite(n, <<"SQUERY", d>>)
        /\ UNCHANGED <<dspaces, qtable, reged, pc, spaceVars, masterVars, msgs>>

-----------------------------------------------------------------------------
OpStep(o) == RegWait(o) \/ RegResume(o)

PutStep(d) == SlavePut(d) \/ MasterPut(d) \/ MasterPutSpace(d)

GetStep(g) ==
    \/ SlaveGet(g) \/ SlaveGetWait(g) \/ SlaveGetResume(g)
    \/ MasterGet(g) \/ MasterGetBlock(g) \/ MasterGetUnblock(g)
    \/ MasterGetMoveWait(g) \/ MasterGetMoved(g)

SqueryStep(g) ==
    \/ HandleSquery(g) \/ SqueryPush(g) \/ SqueryBlock(g) \/ SqueryUnblock(g)
    \/ WaitForMove(g) \/ MoveWaited(g)
    \/ HandleMoveReply(g) \/ HandleSqueryReply(g)
    \/ \E n \in Slave : HandleMove(n, g)

\* The sites and the master: everything but the applications' decisions to
\* start an operation and the data mover.
ControlStep ==
    \/ \E o \in Op : OpStep(o)
    \/ \E d \in Data : PutStep(d) \/ HandlePutNotification(d)
    \/ \E g \in Get : GetStep(g) \/ SqueryStep(g)
    \/ \E a \in App : HandleRegApp(a) \/ HandleRegAppReply(a)

TransferStep == \E x \in xfer : TransferDone(x) \/ TransferFail(x)

Next == ControlStep \/ TransferStep \/ \E o \in Op : Start(o)

Spec == Init /\ [][Next]_vars

\* Handler threads run until they block and sockets deliver.  No behaviour
\* has infinitely many steps, so fairness of ControlStep as a whole lets every
\* thread that can run finish.  A transfer may go on for ever.
ControlSpec == Spec /\ WF_vars(ControlStep)

\* The same, if every transfer ends as well.
FairSpec == Spec /\ WF_vars(ControlStep \/ TransferStep)
-----------------------------------------------------------------------------
(* Properties.                                                              *)

\* Move orders in flight: a message to the holder, or with the data mover.
Ordered(n, g) == M("MOVE", n, g) \in msgs \/ [from |-> n, op |-> g] \in xfer
InFlight(g)   == \E n \in Node : Ordered(n, g)

\* A get answered with success finds its data in the site's own DataSpaces
\* (SDMSlave::get and SDMMaster::get "return 0 if data is available in local
\* dspaces"), whatever moves, failures and other gets ran meanwhile.
GetSound == \A g \in Get : pc[g] = "ok" => OpData(g) \in dspaces[OpNode(g)]

\* The master never orders a site to send data it does not have: the holder
\* of every order in flight has the data stored and in its qtable, so
\* remote_put's read of its DataSpaces can succeed.
MoveSourceHolds ==
    \A n \in Node, g \in Get : Ordered(n, g) => OpData(g) \in dspaces[n] \cap qtable[n]

\* No put is lost on a producer the master does not know: although each
\* message has its own handler thread, SDM_PUT_NOTIFICATION never overtakes
\* the SDM_REG_APP of its producer (MWASpace::put would refuse it and the
\* slave, which got no error, would keep data nobody else can find).
ProducerKnown ==
    \A d \in Data : M("PUT_NOTIFICATION", Master, d) \in msgs \/ pc[d] = "wa_put"
                        => app_ds[Producer[d]] = Home[Producer[d]]

\* The WASpace names one holder of a datum, the site of its producer, and
\* that site has it.
OneHolder ==
    \A n \in Node : \A d \in ds_kv[n] : n = Home[Producer[d]] /\ d \in dspaces[n]

\* SDM_SQUERY_REPLY says the data was moved to the slave (sdm_control.cpp,
\* SDMSlave::get: "data is available and moved to slave's dspaces").
ReplyMeansMoved ==
    \A g \in Get : M("SQUERY_REPLY", OpNode(g), g) \in msgs
                        => OpData(g) \in qtable[OpNode(g)]

\* A blocking get does not come back empty-handed: it returns with the data
\* unless the transfer itself failed.  The get's second look at the qtable
\* relies on put-before-notify in remote_get, across three sites.
BlockingGetSucceeds ==
    \A g \in Get : Blocking[g] /\ pc[g] = "fail" => OpData(g) \in failed[OpNode(g)]

\* Get g waits for the answer to its query.  One that is neither parked nor
\* woken has lost its point to another get of the site and waits for ever.
Waits(g)    == <<<<"SQUERY", OpData(g)>>, <<"op", g>>>> \in ssync[OpNode(g)].parked
Stranded(g) == pc[g] = "sqwait" /\ ~Waits(g) /\ <<"op", g>> \notin ssync[OpNode(g)].woken

\* SDM_MOVE_REPLY is on its way for the datum get g asks for, and all that wait
\* for it at the master, and there are some, are to answer g's site.
Moved(g) ==
    LET Heard == {h \in Get : <<<<"MOVE", OpData(g)>>, <<"wm", h>>>> \in msync.parked}
    IN  /\ \E h \in Get : OpData(h) = OpData(g) /\ M("MOVE_REPLY", Master, h) \in msgs
        /\ Heard # {}
        /\ \A h \in Heard : OpNode(h) = OpNode(g)

\* The news of a move that has ended reaches a get that waits for it, over three
\* threads of two sites, each of which wakes the next: it returns, or another get
\* of its site took the answer and the point with it.  (The replies that come
\* when nobody waits yet are lost: BlockingGetReturns.)
MovedIsAnswered ==
    \A g \in Get : Moved(g) /\ Waits(g) ~> pc[g] \in {"ok", "fail"} \/ Stranded(g)

\* A blocking get is answered once its data has been put.
BlockingGetReturns ==
    \A g \in Get : Blocking[g] /\ pc[g] = "sqwait" /\ pc[OpData(g)] = "ok"
                        ~> pc[g] \in {"ok", "fail"}

\* The gets that are served at the master.
GetAtMaster == {g \in Get : OpNode(g) = Master}

\* The thread that orders get g's move, its own at the master or that of its
\* query there, has not come past the point where it does.
Undecided(g) ==
    IF g \in GetAtMaster
    THEN pc[g] \in {"new", "regsent", "regwait", "ready", "qmiss", "bwait"}
    ELSE sq[g] # "end"

Movement == INSTANCE Mover WITH Site <- Node, Order <- Get,
                                Dst <- [g \in Get |-> OpNode(g)],
                                Dat <- [g \in Get |-> OpData(g)],
                                Origin <- [d \in Data |-> OpNode(d)],
                                fresh <- {g \in Get : Undecided(g)},
                                todo <- {g \in Get : InFlight(g)}

\* The control plane keeps its side of the contract with the data mover
\* (Mover): it orders a get's move once or never, however its queries, replies
\* and moves interleave, and only of data some site has stored and listed; data
\* comes to a site by its one put or by an order that is under way, and is marked
\* as failed by an order that is under way.
OrdersMoves == Movement!Spec

\* A reply to a query is the truth when it is sent, and a blocking get that was
\* answered has the data, unless the transfer failed: what a site is told and what
\* its application gets agree, whichever thread the reply wakes.
RepliesSound == ReplyMeansMoved /\ BlockingGetSucceeds
=============================================================================
