----------------------------- MODULE Rendezvous -----------------------------
(***************************************************************************)
(* What the users of patch::syncer take it for: adding a point and coming  *)
(* to wait on it is one step, so is a notification, and so is returning    *)
(* from wait and deleting the point (the operators of Syncer).             *)
(***************************************************************************)
EXTENDS Syncer

CONSTANTS
    Waiter,     \* threads that wait, once each
    Handler,    \* threads that notify, once each
    PointOf     \* PointOf[x]: the point of thread x

VARIABLES
    sync,       \* the syncer
    place,      \* place[t]: where waiter t is
    told        \* the handlers that have notified

vars == <<sync, place, told>>

Init ==
    /\ sync = EmptySyncer
    /\ place = [t \in Waiter |-> "new"]
    /\ told = {}

Enter(t) ==
    /\ place[t] = "new"
    /\ sync' = AddWait(sync, PointOf[t], t)
    /\ place' = [place EXCEPT ![t] = "wait"]
    /\ UNCHANGED told

Leave(t) ==
    /\ place[t] = "wait" /\ t \in sync.woken
    /\ sync' = DelPoint(sync, PointOf[t], t)
    /\ place' = [place EXCEPT ![t] = "done"]
    /\ UNCHANGED told

Tell(h) ==
    /\ h \notin told
    /\ told' = told \cup {h}
    /\ \E s \in Notify(sync, PointOf[h]) : sync' = s
    /\ UNCHANGED place

Next == (\E t \in Waiter : Enter(t) \/ Leave(t)) \/ \E h \in Handler : Tell(h)

Spec == Init /\ [][Next]_vars
=============================================================================
