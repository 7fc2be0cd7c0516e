---------------------------- MODULE SyncerProofs ----------------------------
(***************************************************************************)
(* Lemmas about patch::syncer that the proofs of its users share: what its *)
(* operations keep, and what notify can have done.                         *)
(***************************************************************************)
EXTENDS Syncer, TLAPS

\* add_sync_point and wait keep a syncer a syncer.
LEMMA AddWaitType ==
    ASSUME NEW P, NEW T, NEW s \in SyncerType(P, T), NEW p \in P, NEW t \in T
    PROVE  AddWait(s, p, t) \in SyncerType(P, T)
BY DEF AddWait, SyncerType

\* So does notify, whichever waiter it releases.
LEMMA NotifyType ==
    ASSUME NEW P, NEW T, NEW s \in SyncerType(P, T), NEW p, NEW r \in Notify(s, p)
    PROVE  r \in SyncerType(P, T)
<1>1. CASE r = s
  BY <1>1
<1>2. CASE r # s
  <2>1. PICK x \in s.parked : r = [pts    |-> s.pts,
                                  parked |-> s.parked \ {x},
                                  woken  |-> s.woken \cup {x[2]}]
    BY <1>2 DEF Notify
  <2>2. x[2] \in T
    BY DEF SyncerType
  <2> QED
    BY <2>1, <2>2 DEF SyncerType
<1> QED
  BY <1>1, <1>2

\* And so does del_sync_point.
LEMMA DelPointType ==
    ASSUME NEW P, NEW T, NEW s \in SyncerType(P, T), NEW p, NEW t
    PROVE  DelPoint(s, p, t) \in SyncerType(P, T)
BY DEF DelPoint, SyncerType

\* A fresh syncer is a syncer.
LEMMA EmptyType ==
    ASSUME NEW P, NEW T
    PROVE  EmptySyncer \in SyncerType(P, T)
BY DEF EmptySyncer, SyncerType

\* What notify can have done.
LEMMA NotifyEffect ==
    ASSUME NEW s, NEW p, NEW r \in Notify(s, p)
    PROVE  \/ r = s
           \/ \E x \in s.parked : /\ x[1] = p
                                  /\ r.parked = s.parked \ {x}
                                  /\ r.woken = s.woken \cup {x[2]}
BY DEF Notify
=============================================================================
