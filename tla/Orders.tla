------------------------------- MODULE Orders -------------------------------
(***************************************************************************)
(* The master's orders when it prefetches (SDMMaster with w_prefetch, over *)
(* MWASpace; dspaces_rel/sdm_control/sdm_control.cpp and prefetch.cpp).    *)
(* Data is moved to a site for a query of the site (handle_sdm_squery) or  *)
(* because its MPBuffer expects it (handle_wa_space_data_act), both under  *)
(* moving_data_id_v, "to avoid double remote_put/get"; what is prefetched  *)
(* counts as being at the site at once, and is dropped with SDM_DEL when   *)
(* the site has accessed it.                                               *)
(*                                                                         *)
(* The predictor is any (PAlgo, MPBuffer): it may pick a datum once per    *)
(* site (MPBuffer, PrefetchOnce), after accesses to other data.  A move    *)
(* ends at the destination, or fails, in one step (RIManager).  Blocking   *)
(* gets, gets at the master and registration are in SDMControl.            *)
(***************************************************************************)
EXTENDS Syncer, Naturals, FiniteSets, SequencesExt

CONSTANTS
    Master, Slave,
    Data, Holder,     \* the data, and the site each is put at
    Get, At, Of,      \* the gets: at which slave, of which datum
    MaxKV,            \* max_num_key_ver
    Prefetched,       \* bound: the <<site, datum>>s the predictors may pick
    Scene,            \* bound: the orders that may be given together
    TransFails

Node == Slave \cup {Master}

ASSUME OrdersAssumption ==
    /\ Master \notin Slave /\ Holder \in [Data -> Node]
    /\ At \in [Get -> Slave] /\ Of \in [Get -> Data]
    /\ MaxKV \in Nat /\ TransFails \in BOOLEAN
    /\ Get \cap Prefetched = {}
    /\ Scene \subseteq SUBSET (Get \cup Prefetched)
    /\ Prefetched \subseteq {x \in Node \X Data : Holder[x[2]] # x[1]}

VARIABLES
    scene,      \* the orders of this behaviour
    sites,      \* WASpace::ds_id_v: those that have joined, in order
    placed,     \* the data in ds_id__kv_map, at its Holder
    cache,      \* cache[n]: the content of n's MPBuffer, in any order
    have,       \* have[n]: what is in n's qtable, and in its DataSpaces
    failed,     \* failed[n]: failed_remote_get_data_id_v
    pc,         \* pc[g]: the get
    ord,        \* ord[o]: the thread that gives order o
    wm,         \* wm[o]: the thread of wait_for_move
    moving,     \* the orders with an entry in ds_id__moving_data_id_v_map
    del,        \* del[x]: the thread that drops a prefetched datum
    msync, ssync, msgs,
    xfer,       \* moves under way: [from, o]
    lost,       \* history: data a notification of which was lost, or shared
    raced       \* history: data two orders of which were checked at once

vars == <<scene, sites, placed, cache, have, failed, pc, ord, wm, moving, del,
          msync, ssync, msgs, xfer, lost, raced>>

\* An order is named by the get it is for, or by the site and the datum.
Order  == Get \cup Prefetched
To(o)  == IF o \in Get THEN At[o] ELSE o[1]
Dat(o) == IF o \in Get THEN Of[o] ELSE o[2]

M(t, n, o) == [type |-> t, dst |-> n, op |-> o]

Init ==
    /\ scene \in Scene
    /\ sites = <<Master>> /\ placed = {}
    /\ cache = [n \in Node |-> {}]
    /\ have = [n \in Node |-> {}] /\ failed = [n \in Node |-> {}]
    /\ pc = [g \in Get |-> "new"]
    /\ ord = [o \in Order |-> "none"] /\ wm = [o \in Order |-> "none"]
    /\ moving = {} /\ del = [x \in Prefetched |-> "none"]
    /\ msync = EmptySyncer /\ ssync = [n \in Slave |-> EmptySyncer]
    /\ msgs = {} /\ xfer = {} /\ lost = {} /\ raced = {}

-----------------------------------------------------------------------------
(* The space.                                                               *)

\* handle_conn_up and reg_ds: the new site's buffer learns what was put so far,
\* which needs no state here.
Join(n) ==
    /\ n \notin ToSet(sites)
    /\ sites' = Append(sites, n)
    /\ UNCHANGED <<scene, placed, cache, have, failed, pc, ord, wm, moving, del, msync, ssync, msgs,
                   xfer, lost, raced>>

\* A put, and MWASpace::put at the master.
Put(d) ==
    /\ d \notin placed /\ Holder[d] \in ToSet(sites) /\ \E o \in scene : Dat(o) = d
    /\ placed' = placed \cup {d}
    /\ have' = [have EXCEPT ![Holder[d]] = @ \cup {d}]
    /\ UNCHANGED <<scene, sites, cache, failed, pc, ord, wm, moving, del, msync, ssync, msgs,
                   xfer, lost, raced>>

\* contains: a prefetched datum is at the site as soon as it is in the buffer.
contains(n, d) == (d \in placed /\ Holder[d] = n) \/ d \in cache[n]

\* query(...)[0]: the first site in the order of joining.
From(d) == sites[SelectInSeq(sites, LAMBDA n : contains(n, d))]

-----------------------------------------------------------------------------
(* Gets at a slave.                                                         *)

Goes(g, l) == pc' = [pc EXCEPT ![g] = l]

GetStart(g) ==
    LET n == At[g] IN
    /\ g \in scene /\ pc[g] = "new" /\ n \in ToSet(sites)
    /\ IF Of[g] \in have[n] \cup failed[n]
       THEN /\ Goes(g, IF Of[g] \in failed[n] THEN "fail" ELSE "ok")
            /\ UNCHANGED msgs
       ELSE /\ Goes(g, "sent")
            /\ msgs' = msgs \cup {M("SQUERY", Master, g)}
    /\ UNCHANGED <<scene, sites, placed, cache, have, failed, ord, wm, moving, del, msync, ssync,
                   xfer, lost, raced>>

GetWait(g) ==
    /\ pc[g] = "sent"
    /\ Goes(g, "wait")
    /\ ssync' = [ssync EXCEPT ![At[g]] = AddWait(@, Of[g], g)]
    /\ UNCHANGED <<scene, sites, placed, cache, have, failed, ord, wm, moving, del, msync, msgs,
                   xfer, lost, raced>>

\* A notification is lost when those who want it do not wait yet, and a waiter
\* when another one of the point deletes it.  At a site one reply is for all.
Unseen(s, p, S)   == S # {} /\ \A x \in s.parked : x[1] # p
Deserted(s, p)    == \E x \in s.parked : x[1] = p
Lost(d, b) == lost' = IF b THEN lost \cup {d} ELSE lost
Asking(n, d)  == {g \in Get : At[g] = n /\ Of[g] = d /\ pc[g] = "sent"}
NotifySite(n, d) ==
    /\ \E s \in Notify(ssync[n], d) : ssync' = [ssync EXCEPT ![n] = s]
    /\ Lost(d, Asking(n, d) # {})

GetResume(g) ==
    /\ pc[g] = "wait" /\ g \in ssync[At[g]].woken
    /\ ssync' = [ssync EXCEPT ![At[g]] = DelPoint(@, Of[g], g)]
    /\ Goes(g, IF Of[g] \in have[At[g]] THEN "ok" ELSE "fail")
    /\ Lost(Of[g], Deserted(ssync[At[g]], Of[g]))
    /\ UNCHANGED <<scene, sites, placed, cache, have, failed, ord, wm, moving, del, msync, msgs,
                   xfer, raced>>

\* handle_sdm_squery_reply.
SqueryReply(m) ==
    /\ m \in msgs /\ m.type = "SQUERY_REPLY"
    /\ msgs' = msgs \ {m}
    /\ NotifySite(m.dst, Dat(m.op))
    /\ UNCHANGED <<scene, sites, placed, cache, have, failed, pc, ord, wm, moving, del, msync, xfer, raced>>

-----------------------------------------------------------------------------
(* The master's orders to move.                                             *)

IsMoving(n, d) == \E o \in moving : To(o) = n /\ Dat(o) = d
\* Another thread has made the same check and not yet entered its order.
Checked(n, d)  == \E o \in Order : ord[o] = "checked" /\ To(o) = n /\ Dat(o) = d

\* Mutant of Check: no check.
CheckNot(o) ==
    /\ ord' = [ord EXCEPT ![o] = "checked"]
    /\ UNCHANGED raced

\* The check, for either kind of order; what is moving is not ordered again,
\* and nothing is answered.
Check(o) ==
    /\ ord' = [ord EXCEPT ![o] = IF IsMoving(To(o), Dat(o)) THEN "given" ELSE "checked"]
    /\ raced' = IF Checked(To(o), Dat(o)) THEN raced \cup {Dat(o)} ELSE raced

Squery(m) ==
    /\ m \in msgs /\ m.type = "SQUERY"
    /\ msgs' = msgs \ {m}
    /\ Check(m.op)
    /\ UNCHANGED <<scene, sites, placed, cache, have, failed, pc, wm, moving, del, msync, ssync, xfer, lost>>

\* handle_wa_space_data_act, PREFETCH.
Prefetch(x) ==
    /\ x \in scene /\ ord[x] = "none" /\ x[1] \in ToSet(sites) /\ x[2] \in placed
    /\ Check(x)
    /\ UNCHANGED <<scene, sites, placed, cache, have, failed, pc, wm, moving, del, msync, ssync, msgs, xfer, lost>>

\* The entry is made ...
Enter(o) ==
    /\ ord[o] = "checked"
    /\ moving' = moving \cup {o}
    /\ ord' = [ord EXCEPT ![o] = "entered"]
    /\ UNCHANGED <<scene, sites, placed, cache, have, failed, pc, wm, del, msync, ssync, msgs, xfer, lost, raced>>

\* ... before the space is asked: when the datum is not there the entry stays
\* and nobody is answered.  dm_act_cb at the master runs in this thread.
GiveOrder(o) ==
    LET d == Dat(o) IN
    /\ ord[o] = "entered"
    /\ ord' = [ord EXCEPT ![o] = "given"]
    /\ IF d \in placed
       THEN /\ wm' = [wm EXCEPT ![o] = "start"]
            /\ IF From(d) = Master
               THEN xfer' = xfer \cup {[from |-> Master, o |-> o]} /\ UNCHANGED msgs
               ELSE msgs' = msgs \cup {M("MOVE", From(d), o)} /\ UNCHANGED xfer
       ELSE UNCHANGED <<wm, msgs, xfer>>
    /\ UNCHANGED <<scene, sites, placed, cache, have, failed, pc, moving, del, msync, ssync, lost, raced>>

\* After PREFETCH, whatever became of it, the MPBuffer lists the datum, unless it
\* is full.
CachePush(x) ==
    /\ x \in Prefetched /\ ord[x] = "given" /\ del[x] = "none"
    /\ del' = [del EXCEPT ![x] = "pushed"]
    /\ cache' = IF Cardinality(cache[x[1]]) < MaxKV
                THEN [cache EXCEPT ![x[1]] = @ \cup {x[2]}] ELSE cache
    /\ UNCHANGED <<scene, sites, placed, have, failed, pc, ord, wm, moving, msync, ssync, msgs, xfer, lost, raced>>

\* handle_sdm_move at the holder: dm_act_cb.
SlaveMove(m) ==
    /\ m \in msgs /\ m.type = "MOVE"
    /\ msgs' = msgs \ {m}
    /\ xfer' = xfer \cup {[from |-> m.dst, o |-> m.op]}
    /\ UNCHANGED <<scene, sites, placed, cache, have, failed, pc, ord, wm, moving, del, msync, ssync, lost, raced>>

\* remote_get ends.  At the master the put is refused, for REMOTE_P_ID is not a
\* registered application, and nobody is notified.
Arrives(x) ==
    /\ x \in xfer
    /\ xfer' = xfer \ {x}
    /\ have' = [have EXCEPT ![To(x.o)] = @ \cup {Dat(x.o)}]
    /\ msgs' = IF To(x.o) = Master THEN msgs ELSE msgs \cup {M("MOVE_REPLY", Master, x.o)}
    /\ lost' = IF To(x.o) = Master THEN lost \cup {Dat(x.o)} ELSE lost
    /\ UNCHANGED <<scene, sites, placed, cache, failed, pc, ord, wm, moving, del, msync, ssync, raced>>

\* RI_FAIL_REMOTE_GET: the site stops the get; the master is not told.
Fails(x) ==
    /\ TransFails /\ x \in xfer /\ To(x.o) # Master
    /\ xfer' = xfer \ {x}
    /\ failed' = [failed EXCEPT ![To(x.o)] = @ \cup {Dat(x.o)}]
    /\ NotifySite(To(x.o), Dat(x.o))
    /\ UNCHANGED <<scene, sites, placed, cache, have, pc, ord, wm, moving, del, msync, msgs, raced>>

-----------------------------------------------------------------------------
(* wait_for_move, and the drop of what was accessed.                        *)

Movers(d) == {o \in Order : Dat(o) = d /\ wm[o] = "start"}

MoveReply(m) ==
    LET d == Dat(m.op) IN
    /\ m \in msgs /\ m.type = "MOVE_REPLY"
    /\ msgs' = msgs \ {m}
    /\ msync' \in Notify(msync, <<"MOVE", d>>)
    /\ Lost(d, Unseen(msync, <<"MOVE", d>>, Movers(d)))
    /\ UNCHANGED <<scene, sites, placed, cache, have, failed, pc, ord, wm, moving, del, ssync, xfer, raced>>

WaitForMove(o) ==
    /\ wm[o] = "start"
    /\ wm' = [wm EXCEPT ![o] = "wait"]
    /\ msync' = AddWait(msync, <<"MOVE", Dat(o)>>, <<"wm", o>>)
    /\ UNCHANGED <<scene, sites, placed, cache, have, failed, pc, ord, moving, del, ssync, msgs, xfer, lost, raced>>


\* The site is answered, whether it asked or not.
MoveDone(o) ==
    /\ wm[o] = "wait" /\ <<"wm", o>> \in msync.woken
    /\ msync' = DelPoint(msync, <<"MOVE", Dat(o)>>, <<"wm", o>>)
    /\ wm' = [wm EXCEPT ![o] = "end"]
    /\ Lost(Dat(o), Deserted(msync, <<"MOVE", Dat(o)>>))
    /\ moving' = moving \ {o}
    /\ msgs' = IF To(o) = Master THEN msgs ELSE msgs \cup {M("SQUERY_REPLY", To(o), o)}
    /\ UNCHANGED <<scene, sites, placed, cache, have, failed, pc, ord, del, ssync, xfer, raced>>

\* An access to what the buffer lists: DEL, in handle_wa_space_data_act.  At the
\* master dm_act_cb is called, at a slave it is told and waited for.
DelOrder(x) ==
    /\ del[x] = "pushed" /\ x[2] \in cache[x[1]] /\ x[2] \in have[x[1]]
    /\ IF x[1] = Master
       THEN /\ del' = [del EXCEPT ![x] = "end"]
            /\ cache' = [cache EXCEPT ![Master] = @ \ {x[2]}]
            /\ UNCHANGED msgs
       ELSE /\ del' = [del EXCEPT ![x] = "sent"]
            /\ msgs' = msgs \cup {M("DEL", x[1], x)}
            /\ UNCHANGED cache
    /\ UNCHANGED <<scene, sites, placed, have, failed, pc, ord, wm, moving, msync, ssync, xfer, lost, raced>>

DelWait(x) ==
    /\ del[x] = "sent"
    /\ del' = [del EXCEPT ![x] = "wait"]
    /\ msync' = AddWait(msync, <<"DEL", x[2]>>, <<"del", x>>)
    /\ UNCHANGED <<scene, sites, placed, cache, have, failed, pc, ord, wm, moving, ssync, msgs, xfer, lost, raced>>

\* handle_sdm_del: handle_dm_del deletes nothing ("dspaces_remove is buggy!"),
\* and the qtable keeps the datum.
SlaveDel(m) ==
    /\ m \in msgs /\ m.type = "DEL"
    /\ msgs' = (msgs \ {m}) \cup {M("DEL_REPLY", Master, m.op)}
    /\ UNCHANGED <<scene, sites, placed, cache, have, failed, pc, ord, wm, moving, del, msync, ssync,
                   xfer, lost, raced>>

Droppers(d) == {x \in Prefetched : x[2] = d /\ del[x] = "sent"}

DelReply(m) ==
    LET d == Dat(m.op) IN
    /\ m \in msgs /\ m.type = "DEL_REPLY"
    /\ msgs' = msgs \ {m}
    /\ msync' \in Notify(msync, <<"DEL", d>>)
    /\ Lost(d, Unseen(msync, <<"DEL", d>>, Droppers(d)))
    /\ UNCHANGED <<scene, sites, placed, cache, have, failed, pc, ord, wm, moving, del, ssync, xfer, raced>>

\* Only now is it dropped from the buffer.
DelDone(x) ==
    /\ del[x] = "wait" /\ <<"del", x>> \in msync.woken
    /\ msync' = DelPoint(msync, <<"DEL", x[2]>>, <<"del", x>>)
    /\ del' = [del EXCEPT ![x] = "end"]
    /\ Lost(x[2], Deserted(msync, <<"DEL", x[2]>>))
    /\ cache' = [cache EXCEPT ![x[1]] = @ \ {x[2]}]
    /\ UNCHANGED <<scene, sites, placed, have, failed, pc, ord, wm, moving, ssync, msgs, xfer, raced>>

-----------------------------------------------------------------------------
Handle(m) ==
    \/ Squery(m) \/ SqueryReply(m) \/ SlaveMove(m) \/ MoveReply(m) \/ SlaveDel(m) \/ DelReply(m)
OrderStep(o) == Enter(o) \/ GiveOrder(o) \/ WaitForMove(o) \/ MoveDone(o)
GetStep(g)   == GetWait(g) \/ GetResume(g)
DelStep(x)   == DelWait(x) \/ DelDone(x)

Work ==
    \/ \E m \in msgs : Handle(m)
    \/ \E o \in Order : OrderStep(o)
    \/ \E g \in Get : GetStep(g)
    \/ \E x \in Prefetched : DelStep(x)
    \/ \E x \in xfer : Arrives(x) \/ Fails(x)

Next ==
    \/ Work
    \/ \E n \in Slave : Join(n)
    \/ \E d \in Data : Put(d)
    \/ \E g \in Get : GetStart(g)
    \/ \E x \in Prefetched : Prefetch(x) \/ CachePush(x) \/ DelOrder(x)

\* What has begun goes on: threads run, messages are handled, moves end.  Work
\* only uses up what it finds, so one fairness condition serves them all.
Spec == Init /\ [][Next]_vars /\ WF_vars(Work)

-----------------------------------------------------------------------------
(* Properties.                                                              *)

TypeOK ==
    /\ ToSet(sites) \subseteq Node /\ IsInjective(sites)
    /\ \A n \in Node : cache[n] \subseteq placed /\ have[n] \subseteq placed
    /\ moving \subseteq Order
    /\ \A x \in xfer : x.from \in Node /\ x.o \in Order
    /\ msync \in SyncerType({"MOVE", "DEL"} \X Data, {"wm", "del"} \X Order)

\* A site is ordered to move only what it has, or what its buffer lists since a
\* prefetch: ds_id_v[0] of a query may be a site the datum has not reached.
OrderedFromHolder ==
    \A m \in msgs : m.type = "MOVE" =>
        \/ Dat(m.op) \in have[m.dst]
        \/ <<m.dst, Dat(m.op)>> \in Prefetched /\ ord[<<m.dst, Dat(m.op)>>] = "given"

\* "will check here to avoid double remote_put/get" (handle_sdm_squery): query
\* and prefetch never move one datum to one site at once, unless two threads
\* made the check before either had entered its order.
OneOrder ==
    \A o, p \in moving : o # p /\ To(o) = To(p) => Dat(o) # Dat(p) \/ Dat(o) \in raced

\* A notification of the datum was lost, or a move of it failed: threads of all
\* sites meet on one point, so one site's trouble reaches the others.
Troubled(d) == d \in lost \cup UNION {failed[n] : n \in Node}

\* An entry in moving_data_id_v, which silences every later query of its site, is
\* in the end taken out again, unless the datum was not there when it was made
\* or is troubled.
MovingEnds == <>[](\A o \in moving : wm[o] = "none" \/ Troubled(Dat(o)))

\* A query of data that has been put is in the end answered, by its own move or
\* by a prefetch's, unless the datum is troubled or an order given before the put
\* has left its entry.
GetEnds ==
    <>[](\A g \in Get : pc[g] = "wait" =>
            \/ Troubled(Of[g])
            \/ \E o \in moving : To(o) = At[g] /\ Dat(o) = Of[g] /\ wm[o] = "none")

\* A datum the site has accessed in the end leaves the buffer, unless a
\* notification of it was lost.
DropEnds ==
    <>[](\A x \in Prefetched : del[x] \in {"sent", "wait"} => x[2] \in lost)

\* The master orders a move once, and from a site that has the datum or is to have
\* it, unless two threads pass the check of moving_data_id_v together.
OrdersSound == TypeOK /\ OrderedFromHolder /\ OneOrder

=============================================================================
