---------------------------- MODULE SyncerSteps -----------------------------
(***************************************************************************)
(* patch::syncer call by call.  A syncer is three thread_safe_maps, each   *)
(* locked for one call at a time: the condition variable, the mutex and    *)
(* the number of peers of every point.  add_sync_point, wait, notify and   *)
(* del_sync_point look into them one after the other, so that a point may  *)
(* be deleted between a thread's add and its wait (which then follows a    *)
(* null pointer: the process ends), or between a handler's look and its    *)
(* notify_one, and two threads may both add it.                            *)
(*                                                                         *)
(* This module says how far the operators of Syncer, which the other       *)
(* modules use, stand for that.                                            *)
(***************************************************************************)
EXTENDS Integers, FiniteSets

CONSTANTS
    Waiter, Handler,
    Point,
    PointOf,    \* PointOf[x]: the point thread x calls the syncer with
    Nobody      \* no entry

VARIABLES
    cv,         \* cv[p]: point_cv_map, the waiter that made the entry, or Nobody
    m,          \* m[p]: point_m_map, likewise
    num,        \* num[p]: point__num_peers_map
    wpc,        \* wpc[t]: where waiter t is
    on,         \* on[t]: the mutex and the condition variable that t waits with
    hpc,        \* hpc[h]: where handler h is
    read,       \* read[h]: the number of peers that h has read
    torn,       \* points where the next step is undefined, or a waiter is lost
    first,      \* first[p]: the first handler to find p in its present use
    met         \* points that two threads used at once, or that two handlers
                \* found in one use

maps == <<cv, m, num>>
stepsVars == <<maps, wpc, on, hpc, read, torn, first, met>>

StepsInit ==
    /\ cv = [p \in Point |-> Nobody]
    /\ m = [p \in Point |-> Nobody]
    /\ num = [p \in Point |-> Nobody]
    /\ wpc = [t \in Waiter |-> "new"]
    /\ on = [t \in Waiter |-> Nobody]
    /\ hpc = [h \in Handler |-> "new"]
    /\ read = [h \in Handler |-> 0]
    /\ torn = {}
    /\ first = [p \in Point |-> Nobody]
    /\ met = {}

Go(t, l) == wpc' = [wpc EXCEPT ![t] = l]
HGo(h, l) == hpc' = [hpc EXCEPT ![h] = l]
Tear(p)  == torn' = torn \cup {p}

InUse(p) == {t \in Waiter : PointOf[t] = p /\ wpc[t] \notin {"new", "done"}}

\* The threads notify_one may release.
Reached(p) == {t \in Waiter : PointOf[t] = p /\ wpc[t] = "parked" /\ on[t] = cv[p]}

-----------------------------------------------------------------------------
(* add_sync_point.                                                          *)

AddContains(t) ==
    LET p == PointOf[t]
    IN  /\ wpc[t] = "new"
        /\ Go(t, IF cv[p] = Nobody THEN "add_cv" ELSE "lock")
        /\ met' = IF InUse(p) = {} THEN met ELSE met \cup {p}
        /\ first' = IF InUse(p) = {} THEN [first EXCEPT ![p] = Nobody] ELSE first
        /\ UNCHANGED <<maps, on, hpc, read, torn>>

\* A second thread that found no entry replaces the first one's, and with it the
\* condition variable that thread may wait on by now.
AddCv(t) ==
    LET p == PointOf[t]
    IN  /\ wpc[t] = "add_cv"
        /\ cv' = [cv EXCEPT ![p] = t]
        /\ IF cv[p] = Nobody THEN UNCHANGED torn ELSE Tear(p)
        /\ Go(t, "add_m")
        /\ UNCHANGED <<m, num, on, hpc, read, first, met>>

AddM(t) ==
    /\ wpc[t] = "add_m"
    /\ m' = [m EXCEPT ![PointOf[t]] = t]
    /\ Go(t, "add_num")
    /\ UNCHANGED <<cv, num, on, hpc, read, torn, first, met>>

AddNum(t) ==
    /\ wpc[t] = "add_num"
    /\ num' = [num EXCEPT ![PointOf[t]] = 1]
    /\ Go(t, "lock")
    /\ UNCHANGED <<cv, m, on, hpc, read, torn, first, met>>

-----------------------------------------------------------------------------
(* wait.  It locks the point's mutex and waits on its condition variable,   *)
(* which are null if the point is gone, and undefined to go on with if      *)
(* another thread has deleted them meanwhile.                               *)

WaitLock(t) ==
    LET p == PointOf[t]
    IN  /\ wpc[t] = "lock"
        /\ IF m[p] = Nobody
           THEN Tear(p) /\ UNCHANGED <<wpc, on>>
           ELSE /\ on' = [on EXCEPT ![t] = m[p]]
                /\ Go(t, "sleep")
                /\ UNCHANGED torn
        /\ UNCHANGED <<maps, hpc, read, first, met>>

WaitSleep(t) ==
    LET p == PointOf[t]
    IN  /\ wpc[t] = "sleep"
        /\ IF cv[p] = Nobody \/ cv[p] # on[t] \/ m[p] # on[t]
           THEN Tear(p) /\ UNCHANGED wpc
           ELSE Go(t, "parked") /\ UNCHANGED torn
        /\ UNCHANGED <<maps, on, hpc, read, first, met>>

\* A released thread takes its mutex again, and del_sync_point looks for the point.
Wake(t) ==
    LET p == PointOf[t]
    IN  /\ wpc[t] = "woken"
        /\ IF m[p] # on[t]
           THEN Tear(p) /\ UNCHANGED wpc
           ELSE Go(t, IF cv[p] = Nobody THEN "done" ELSE "del_cv") /\ UNCHANGED torn
        /\ UNCHANGED <<maps, on, hpc, read, first, met>>

-----------------------------------------------------------------------------
(* The rest of del_sync_point: thread_safe_map::del erases what find finds. *)

DelCv(t) ==
    LET p == PointOf[t]
    IN  /\ wpc[t] = "del_cv"
        /\ cv' = [cv EXCEPT ![p] = Nobody]
        /\ IF cv[p] = Nobody THEN Tear(p) ELSE UNCHANGED torn
        /\ Go(t, "del_m")
        /\ UNCHANGED <<m, num, on, hpc, read, first, met>>

DelM(t) ==
    LET p == PointOf[t]
    IN  /\ wpc[t] = "del_m"
        /\ m' = [m EXCEPT ![p] = Nobody]
        /\ IF m[p] = Nobody THEN Tear(p) ELSE UNCHANGED torn
        /\ Go(t, "del_num")
        /\ UNCHANGED <<cv, num, on, hpc, read, first, met>>

DelNum(t) ==
    LET p == PointOf[t]
    IN  /\ wpc[t] = "del_num"
        /\ num' = [num EXCEPT ![p] = Nobody]
        /\ IF num[p] = Nobody THEN Tear(p) ELSE UNCHANGED torn
        /\ Go(t, "done")
        /\ UNCHANGED <<cv, m, on, hpc, read, first, met>>

-----------------------------------------------------------------------------
(* notify.                                                                  *)

\* Mutant of NotifyContains: notify does not look whether the point is there.
NotifyAlways(h) ==
    LET p == PointOf[h]
    IN  /\ hpc[h] = "new"
        /\ HGo(h, "num")
        /\ first' = IF cv[p] # Nobody /\ first[p] = Nobody THEN [first EXCEPT ![p] = h] ELSE first
        /\ met' = IF cv[p] # Nobody /\ first[p] # Nobody THEN met \cup {p} ELSE met
        /\ UNCHANGED <<maps, wpc, on, read, torn>>

NotifyContains(h) ==
    LET p == PointOf[h]
    IN  /\ hpc[h] = "new"
        /\ HGo(h, IF cv[p] = Nobody THEN "done" ELSE "num")
        /\ first' = IF cv[p] # Nobody /\ first[p] = Nobody THEN [first EXCEPT ![p] = h] ELSE first
        /\ met' = IF cv[p] # Nobody /\ first[p] # Nobody THEN met \cup {p} ELSE met
        /\ UNCHANGED <<maps, wpc, on, read, torn>>

\* operator[] makes an entry of 0 where there is none.  With another number than
\* 1 nobody is notified.
NotifyNum(h) ==
    LET p == PointOf[h]
        n == IF num[p] = Nobody THEN 0 ELSE num[p]
    IN  /\ hpc[h] = "num"
        /\ num' = [num EXCEPT ![p] = n]
        /\ read' = [read EXCEPT ![h] = n]
        /\ HGo(h, IF n = 1 THEN "notify" ELSE "store")
        /\ IF n # 1 /\ Reached(p) # {} THEN Tear(p) ELSE UNCHANGED torn
        /\ UNCHANGED <<cv, m, wpc, on, first, met>>

NotifyOne(h) ==
    LET p == PointOf[h]
    IN  /\ hpc[h] = "notify"
        /\ HGo(h, "done")
        /\ IF cv[p] = Nobody THEN Tear(p) ELSE UNCHANGED torn
        /\ IF Reached(p) = {} THEN UNCHANGED wpc
           ELSE \E t \in Reached(p) : Go(t, "woken")
        /\ UNCHANGED <<maps, on, read, first, met>>

NotifyStore(h) ==
    /\ hpc[h] = "store"
    /\ num' = [num EXCEPT ![PointOf[h]] = read[h] - 1]
    /\ HGo(h, "done")
    /\ UNCHANGED <<cv, m, wpc, on, read, torn, first, met>>

-----------------------------------------------------------------------------
WaiterStep(t) ==
    \/ AddContains(t) \/ AddCv(t) \/ AddM(t) \/ AddNum(t)
    \/ WaitLock(t) \/ WaitSleep(t) \/ Wake(t)
    \/ DelCv(t) \/ DelM(t) \/ DelNum(t)

NotifierStep(h) == NotifyContains(h) \/ NotifyNum(h) \/ NotifyOne(h) \/ NotifyStore(h)

\* What comes after a point is torn is not looked at.
StepsNext ==
    /\ torn = {}
    /\ (\E t \in Waiter : WaiterStep(t)) \/ \E h \in Handler : NotifierStep(h)

StepsSpec == StepsInit /\ [][StepsNext]_stepsVars
-----------------------------------------------------------------------------
(* Properties.                                                              *)

StepsTypeOK ==
    /\ cv \in [Point -> Waiter \cup {Nobody}]
    /\ m \in [Point -> Waiter \cup {Nobody}]
    /\ num \in [Point -> (-Cardinality(Handler) .. 1) \cup {Nobody}]
    /\ wpc \in [Waiter -> {"new", "add_cv", "add_m", "add_num", "lock", "sleep", "parked",
                           "woken", "del_cv", "del_m", "del_num", "done"}]
    /\ on \in [Waiter -> Waiter \cup {Nobody}]
    /\ hpc \in [Handler -> {"new", "num", "notify", "store", "done"}]
    /\ read \in [Handler -> -Cardinality(Handler) .. 1]
    /\ torn \subseteq Point /\ met \subseteq Point
    /\ first \in [Point -> Handler \cup {Nobody}]

\* What the syncer is in the terms of Syncer: a point counts once somebody waits
\* on it, until its condition variable is erased; a thread enters when it sleeps.
Points == {p \in Point : \E t \in Waiter : PointOf[t] = p /\ cv[p] # Nobody /\ on[t] = cv[p]
                                           /\ wpc[t] \in {"parked", "woken", "del_cv"}}
Places == [t \in Waiter |->
             IF wpc[t] \in {"parked", "woken", "del_cv"} THEN "wait"
             ELSE IF wpc[t] \in {"del_m", "del_num", "done"} THEN "done" ELSE "new"]

Merged == INSTANCE Rendezvous
    WITH sync  <- [pts    |-> Points,
                   parked |-> {x \in Point \X Waiter : x[2] \in Reached(x[1])},
                   woken  |-> {t \in Waiter : wpc[t] \in {"woken", "del_cv"}}],
         place <- Places,
         told  <- {h \in Handler : hpc[h] \in {"store", "done"}}

\* The calls of a syncer, map by map, are the steps that the other modules take
\* them for, as long as no point is torn; and a point that one thread uses at a
\* time, and that is notified once in each use, is never torn: only where threads
\* meet on a point can a null pointer be followed, what is not there be erased, or
\* a waiter or a notification be lost that the other modules do not lose.
SyncerSound ==
    /\ Merged!Init
    /\ [][UNCHANGED stepsVars \/ torn' # {} \/ Merged!Next]_(Merged!vars)
    /\ [](StepsTypeOK /\ torn \subseteq met)
=============================================================================
