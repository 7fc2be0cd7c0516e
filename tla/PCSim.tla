------------------------------- MODULE PCSim -------------------------------
(***************************************************************************)
(* The producer-consumer simulators (prefetch/sim.h, sim.cpp): a thread    *)
(* per producer puts its data into one shared WASpace, a thread per        *)
(* consumer queries it, and waits when the data is not there yet and gets  *)
(* are blocking.  MPCSim runs over MWASpace, whose put and query take      *)
(* several steps and no common lock; SPCSim over SWASpace.                 *)
(*                                                                         *)
(* Data is the pair <<producer, number>>; consumer c reads the data of the *)
(* producer with the same id.  In SPCSim every producer puts the whole     *)
(* space, Whole, and consumers read it cell by cell.  What the prefetching *)
(* buffer of a site holds is left open (it is the subject of MPBuffer).    *)
(***************************************************************************)
EXTENDS Integers, Sequences, FiniteSets, Syncer

CONSTANTS
    Id,           \* the ids of producers and, as well, of consumers
    Ds,           \* the sites
    PDs, CDs,     \* p_id__ds_id_v, c_id__ds_id_v
    Num,          \* puts of a producer and gets of a consumer
    Mode,         \* the simulators: [spatial, w_prefetch]
    Whole         \* the box [lcoor_, ucoor_)

ASSUME SimAssumption ==
    /\ PDs \in [Id -> Ds] /\ CDs \in [Id -> Ds] /\ Num \in Nat
    /\ Whole \notin Id \X Nat

VARIABLES
    mode,
    kv_v,         \* MWASpace::kv_v: the data that is in the space
    ds_kv,        \* ds_id__kv_map, for SWASpace the entries of its table
    buffer,       \* what the prefetching buffer of each site holds
    p,            \* p[i]: producer i, [pc, n]
    c,            \* c[i]: consumer i, [pc, n, found]
    get_type,     \* c_id__get_type_v_map
    sync,         \* bget_syncer, s_syncer
    late          \* history: consumers whose data came while they were
                  \* between the query and the wait

vars == <<mode, kv_v, ds_kv, buffer, p, c, get_type, sync, late>>

Data == {<<i, n>> : i \in Id, n \in 0 .. Num - 1}

Item(i) == <<i, c[i].n>>

\* What a query finds.
Covered(d, x) == x \in ds_kv[d] \/ Whole \in ds_kv[d] \/ x \in buffer[d]
InSpace(x) == x \in kv_v \/ Whole \in kv_v

Init ==
    /\ mode \in Mode
    /\ kv_v = {} /\ ds_kv = [d \in Ds |-> {}] /\ buffer = [d \in Ds |-> {}]
    /\ p = [i \in Id |-> [pc |-> "put", n |-> 0]]
    /\ c = [i \in Id |-> [pc |-> "query", n |-> 0, found |-> {}]]
    /\ get_type = [i \in Id |-> <<>>]
    /\ sync = EmptySyncer
    /\ late = {}

-----------------------------------------------------------------------------
(* sim_p.                                                                   *)

PGoes(i, pc, n) == p' = [p EXCEPT ![i] = [pc |-> pc, n |-> n]]

\* Mutant of PutSpace: the site is forgotten.
PutSpaceOnly(i) ==
    /\ ~mode.spatial /\ p[i].pc = "put" /\ p[i].n < Num
    /\ kv_v' = kv_v \cup {<<i, p[i].n>>}
    /\ PGoes(i, "notify", p[i].n)
    /\ UNCHANGED <<mode, ds_kv, buffer, c, get_type, sync, late>>

\* MWASpace::put of new data: the <key, ver> becomes known ...
PutSpace(i) ==
    /\ ~mode.spatial /\ p[i].pc = "put" /\ p[i].n < Num
    /\ kv_v' = kv_v \cup {<<i, p[i].n>>}
    /\ PGoes(i, "push", p[i].n)
    /\ UNCHANGED <<mode, ds_kv, buffer, c, get_type, sync, late>>

\* ... and then that the producer's site has it.
PutDs(i) ==
    /\ p[i].pc = "push"
    /\ ds_kv' = [ds_kv EXCEPT ![PDs[i]] = @ \cup {<<i, p[i].n>>}]
    /\ PGoes(i, "notify", p[i].n)
    /\ UNCHANGED <<mode, kv_v, buffer, c, get_type, sync, late>>

\* Consumers that have missed x and do not wait yet.
Between(x) == {i \in Id : c[i].pc = "wait" /\ Item(i) = x}

\* bget_syncer.notify, and on to the next.
NotifyGet(i) ==
    LET x == <<i, p[i].n>>
    IN  /\ p[i].pc = "notify"
        /\ sync' \in Notify(sync, x)
        /\ late' = late \cup Between(x)
        /\ PGoes(i, "put", p[i].n + 1)
        /\ UNCHANGED <<mode, kv_v, ds_kv, buffer, c, get_type>>

\* Mutant of sim_p_spatial: nothing is put.
SimPNothing(i) ==
    /\ mode.spatial /\ p[i].pc = "put" /\ p[i].n < Num
    /\ PGoes(i, "put", Num)
    /\ UNCHANGED <<mode, kv_v, ds_kv, buffer, c, get_type, sync, late>>

\* SPCSim::sim_p: one put of the whole space; s_syncer is not notified, so
\* that every consumer that has missed or waits by now is late.
sim_p_spatial(i) ==
    /\ mode.spatial /\ p[i].pc = "put" /\ p[i].n < Num
    /\ kv_v' = kv_v \cup {Whole}
    /\ ds_kv' = [ds_kv EXCEPT ![PDs[i]] = @ \cup {Whole}]
    /\ late' = late \cup {j \in Id : c[j].pc \in {"wait", "parked"}}
    /\ PGoes(i, "put", Num)
    /\ UNCHANGED <<mode, buffer, c, get_type, sync>>

-----------------------------------------------------------------------------
(* sim_c: blocking_get is w_prefetch (sim_all).                             *)

CGoes(i, pc, found) == c' = [c EXCEPT ![i] = [pc |-> pc, n |-> @.n, found |-> found]]

\* query finds that the data is not in the space: wait, or go on to the next.
Miss(i) ==
    /\ c[i].pc = "query" /\ c[i].n < Num /\ ~InSpace(Item(i))
    /\ IF mode.w_prefetch
       THEN CGoes(i, "wait", {})
       ELSE c' = [c EXCEPT ![i].n = @ + 1]
    /\ UNCHANGED <<mode, kv_v, ds_kv, buffer, p, get_type, sync, late>>

\* query finds it (contains('*', kv)); MWASpace then asks site by site.
Hit(i) ==
    /\ c[i].pc = "query" /\ c[i].n < Num /\ InSpace(Item(i))
    /\ CGoes(i, "sites", {})
    /\ UNCHANGED <<mode, kv_v, ds_kv, buffer, p, get_type, sync, late>>

QuerySites(i) ==
    /\ c[i].pc = "sites"
    /\ CGoes(i, "count", {d \in Ds : Covered(d, Item(i))})
    /\ UNCHANGED <<mode, kv_v, ds_kv, buffer, p, get_type, sync, late>>

\* The point a consumer waits on: the <key, ver>, or the box.
Wait(i) ==
    /\ c[i].pc = "wait"
    /\ sync' = AddWait(sync, Item(i), i)
    /\ CGoes(i, "parked", {})
    /\ UNCHANGED <<mode, kv_v, ds_kv, buffer, p, get_type, late>>

\* Woken: ds_id_v is still empty, so the get counts as remote.
Wake(i) ==
    /\ c[i].pc = "parked" /\ i \in sync.woken
    /\ sync' = DelPoint(sync, Item(i), i)
    /\ CGoes(i, "count", {})
    /\ UNCHANGED <<mode, kv_v, ds_kv, buffer, p, get_type, late>>

\* Local, or remote and then put at the consumer's site (MWASpace::put refuses
\* when it is there already; SPCSim puts only without prefetching); add_access
\* lets the prefetching buffer of the site change.
Count(i) ==
    LET d == CDs[i]
        local == d \in c[i].found
        puts == ~local /\ ~(mode.spatial /\ mode.w_prefetch) /\ ~Covered(d, Item(i))
    IN  /\ c[i].pc = "count"
        /\ get_type' = [get_type EXCEPT ![i] = Append(@, IF local THEN "l" ELSE "r")]
        /\ ds_kv' = [ds_kv EXCEPT ![d] = IF puts THEN @ \cup {Item(i)} ELSE @]
        /\ \E B \in SUBSET (kv_v \ {Whole}) :
              /\ B # buffer[d] => mode.w_prefetch /\ ~mode.spatial
              /\ buffer' = [buffer EXCEPT ![d] = B]
        /\ c' = [c EXCEPT ![i] = [pc |-> "query", n |-> @.n + 1, found |-> {}]]
        /\ UNCHANGED <<mode, kv_v, p, sync, late>>

sim_p(i) == PutSpace(i) \/ PutDs(i) \/ NotifyGet(i) \/ sim_p_spatial(i)
sim_c(i) == Miss(i) \/ Hit(i) \/ QuerySites(i) \/ Wait(i) \/ Wake(i) \/ Count(i)

Next == \E i \in Id : sim_p(i) \/ sim_c(i)

\* A thread that can run does.
Spec == Init /\ [][Next]_vars /\ \A i \in Id : WF_vars(sim_p(i)) /\ WF_vars(sim_c(i))

-----------------------------------------------------------------------------
TypeOK ==
    /\ kv_v \subseteq Data \cup {Whole}
    /\ ds_kv \in [Ds -> SUBSET (Data \cup {Whole})]
    /\ p \in [Id -> [pc : {"put", "push", "notify"}, n : 0 .. Num]]
    /\ c \in [Id -> [pc : {"query", "sites", "wait", "parked", "count"}, n : 0 .. Num, found : SUBSET Ds]]
    /\ sync \in SyncerType(Data, Id)
    /\ late \subseteq Id

\* A consumer waits for data that is in the space, with nobody left to notify
\* it, only if the data came between its query and its wait (or, in SPCSim,
\* after its query: there nobody notifies at all).
HangsOnlyIfLate ==
    \A i \in Id :
        (c[i].pc = "parked" /\ i \notin sync.woken /\ InSpace(Item(i)))
          => \/ i \in late
             \/ p[i].pc \in {"push", "notify"} /\ p[i].n = c[i].n

\* A query that does not miss names a site, unless the put of that data is
\* between its two steps: known to the space and not yet at a site.
EmptyOnlyWhilePut ==
    [][\A i \in Id :
         (QuerySites(i) /\ c'[i].found = {}) => p[i].pc = "push" /\ p[i].n = c[i].n]_vars

\* Every consumer comes to the end of its gets, unless it is late.
ConsumersEnd ==
    \A i \in Id : <>(c[i].n = Num \/ i \in late)

\* What a consumer sees of a put that is under way (MWASpace::put and query share
\* no lock): no site only between the put's two steps, and no wait for data that
\* is there except one begun too late.
SpaceRead == [](TypeOK /\ HangsOnlyIfLate) /\ EmptyOnlyWhilePut
=============================================================================
