------------------------------- MODULE Syncer -------------------------------
(***************************************************************************)
(* patch::syncer (patch/include/patch.h), the rendezvous every request in  *)
(* this system blocks on.  A thread that has sent a request calls          *)
(*     add_sync_point(p, 1); wait(p); del_sync_point(p);                   *)
(* and the handler of the reply calls notify(p).  Points are hashes of the *)
(* request's type and data id, so several threads can meet on one point.   *)
(*                                                                         *)
(* A syncer is a record:                                                   *)
(*   pts     the points in point_cv_map;                                   *)
(*   parked  pairs <<p, t>>: thread t is inside wait on p's condition      *)
(*           variable;                                                     *)
(*   woken   threads notify_one has released that have not run yet.        *)
(* A thread that is blocked but neither parked nor woken waits on a        *)
(* condition variable nobody can reach any more.                           *)
(*                                                                         *)
(* The calls are several look-ups each, in three maps; here they are one   *)
(* step.  SyncerSteps shows how far that is right: until, on a point that  *)
(* threads share, one follows a null pointer or replaces what another      *)
(* uses.  The process then ends as a rule, and a process that takes no     *)
(* more steps breaks no safety property; what is said of liveness is said  *)
(* of the behaviours without it.  Condition variables are taken to wake    *)
(* nobody who was not notified.                                            *)
(***************************************************************************)

EmptySyncer == [pts |-> {}, parked |-> {}, woken |-> {}]

\* The syncers over a set of points and a set of threads.
SyncerType(Point, Thread) ==
    [pts : SUBSET Point, parked : SUBSET (Point \X Thread), woken : SUBSET Thread]

\* add_sync_point, by a thread that does not come to wait.
AddPoint(s, p) == [pts |-> s.pts \cup {p}, parked |-> s.parked, woken |-> s.woken]

\* add_sync_point and wait, at the time of the wait: a notify in between finds
\* this thread not waiting, as one before does (wait has no predicate).  If the
\* point exists already, the add returns 1, which no caller looks at, and the
\* thread joins the waiters of the existing condition variable.  If it existed and
\* is deleted before the wait, the thread's process ends (see SyncerSteps).
AddWait(s, p, t) ==
    [pts    |-> s.pts \cup {p},
     parked |-> s.parked \cup {<<p, t>>},
     woken  |-> s.woken]

\* notify: the possible syncers afterwards.  Without the point, or without a
\* waiter, nothing is remembered; otherwise notify_one releases any one waiter.
\* Every point is added with num_peers = 1, so each notify reaches notify_one.
Notify(s, p) ==
    LET W == {x \in s.parked : x[1] = p}
        Release(x) == [pts    |-> s.pts,
                       parked |-> s.parked \ {x},
                       woken  |-> s.woken \cup {x[2]}]
    IN  IF p \in s.pts /\ W # {} THEN {Release(x) : x \in W} ELSE {s}

\* The released thread t runs: it returns from wait and deletes the point,
\* and with it the condition variable any other waiter is still parked on.
DelPoint(s, p, t) ==
    [pts    |-> s.pts \ {p},
     parked |-> {x \in s.parked : x[1] # p},
     woken  |-> s.woken \ {t}]

=============================================================================
