------------------------------ MODULE MPBuffer ------------------------------
(***************************************************************************)
(* The prefetching buffer the master keeps for one site (MPBuffer, its     *)
(* Cache and the MWASpace calls that drive it,                             *)
(* dspaces_rel/sdm_control/prefetch).  Every <key, ver> put anywhere is    *)
(* registered with the buffer, in a queue per producer; every access the   *)
(* site makes to data of another site is fed to a predictor that picks     *)
(* producers, and the next <key, ver> of each is prefetched to the site.   *)
(*                                                                         *)
(* add_access runs in a thread of its own for every query and access       *)
(* message, and only the predictor is behind a mutex.  Its steps are the   *)
(* pieces between two points where another thread can be seen: a map or    *)
(* the cache is read or written, or a callback sends a message and waits.  *)
(* One call on a queue, map or cache is one step: that its memory is raced *)
(* on within the call is not modelled.                                     *)
(***************************************************************************)
EXTENDS Integers, FiniteSets, SequencesExt

CONSTANTS
    P,          \* the producing applications
    Local,      \* those registered at the buffer's own site
    KV, Prod,   \* the <key, ver>s and the producer of each
    NoKV,       \* a local variable that holds no <key, ver>
    Thread,     \* the threads that may be inside add_access
    MaxKV,        \* max_num_key_ver
    WPrefetch,  \* w_prefetch
    MaxStep     \* bound: no access starts when a producer's step is this high

ASSUME BufferAssumption ==
    /\ Local \subseteq P
    /\ Prod \in [KV -> P]
    /\ NoKV \notin KV
    /\ MaxKV \in Nat
    /\ WPrefetch \in BOOLEAN
    /\ MaxStep \in Nat

VARIABLES
    order,      \* order[p]: the <key, ver>s of p, as registered
                \* (kv__p_id_map; the order is a history)
    deq,        \* p_id__reged_kv_deq_map
    front,      \* p_id__front_step_in_deq_map
    acced,      \* p_id__last_acced_step_map
    cached,     \* p_id__last_cached_step_map
    cache,      \* Cache: the queue of <key, ver>s
    acc_num,    \* Cache: acc_num_map
    accessed,   \* PAlgo: acc_s
    fetched,    \* the <key, ver>s PREFETCH was called for (history)
    th,         \* th[t]: where thread t is in add_access, with its locals
    ub          \* a thread erased what is not there

queueVars == <<order, deq, front>>
stepVars  == <<acced, cached, accessed>>
cacheVars == <<cache, acc_num>>
vars      == <<queueVars, stepVars, cacheVars, fetched, th, ub>>

\* Step numbers, from -1 on, which is the first value of an entry in the step
\* maps.  Two threads that lose each other's += may lower a step, and one that
\* read it before then raises it past MaxStep: there is no other bound.
Step   == Nat \cup {-1}
Absent == -2              \* no entry in p_id__last_acced_step_map

Label == {"idle", "del", "count", "init", "read", "write", "pick", "fetch", "size", "push", "evict"}

Registered == {kv \in KV : kv \in ToSet(order[Prod[kv]])}

TypeOK ==
    /\ order \in [P -> Seq(KV)]
    /\ deq \in [P -> Seq(KV)]
    /\ front \in [P -> Nat]
    /\ acced \in [P -> Step \cup {Absent}]
    /\ cached \in [P -> Step]
    /\ cache \in Seq(KV)
    /\ acc_num \in [P -> Int]
    /\ accessed \subseteq P
    /\ fetched \subseteq KV
    /\ th \in [Thread -> [pc : Label, kv : KV \cup {NoKV}, val : Step,
                          todo : SUBSET KV, vic : KV \cup {NoKV}]]
    /\ ub \in BOOLEAN

Idle == [pc |-> "idle", kv |-> NoKV, val |-> -1, todo |-> {}, vic |-> NoKV]

Init ==
    /\ order = [p \in P |-> <<>>]
    /\ deq = [p \in P |-> <<>>]
    /\ front = [p \in P |-> 0]
    /\ acced = [p \in P |-> Absent]
    /\ cached = [p \in P |-> -1]
    /\ cache = <<>>
    /\ acc_num = [p \in P |-> 0]
    /\ accessed = {}
    /\ fetched = {}
    /\ th = [t \in Thread |-> Idle]
    /\ ub = FALSE

-----------------------------------------------------------------------------
(* MWASpace::put and Cache.                                                 *)

\* MWASpace::put and reg_key_ver: a <key, ver> that is new to the buffer goes
\* to the end of its producer's queue.
Put(kv) ==
    LET p == Prod[kv]
    IN  /\ kv \notin Registered
        /\ order' = [order EXCEPT ![p] = Append(@, kv)]
        /\ deq' = [deq EXCEPT ![p] = Append(@, kv)]
        /\ UNCHANGED <<front, stepVars, cacheVars, fetched, th, ub>>

\* The end of Cache::del, after the callback: it does not look again whether
\* the entry is still there.
CacheErase(c, kv) == RemoveFirst(c, kv)

\* Cache::push when there is room: an entry that is there is refused.
CachePush(kv) ==
    /\ cache' = IF kv \in ToSet(cache) THEN cache ELSE Append(cache, kv)
    /\ acc_num' = IF kv \in ToSet(cache) THEN acc_num
                  ELSE [acc_num EXCEPT ![Prod[kv]] = @ + 1]

\* get_cached_acc_v
CachedAcc == {p \in P : acc_num[p] > 0}

-----------------------------------------------------------------------------
(* MPBuffer::add_access, step by step.                                      *)

At(t, l)       == th[t].pc = l /\ ~ub
Goto(t, l)     == th' = [th EXCEPT ![t].pc = l]
Prefetch(t, S) == th' = [th EXCEPT ![t] = IF S = {} THEN Idle
                                          ELSE [Idle EXCEPT !.pc = "fetch", !.todo = S]]

\* MWASpace::add_access counts only data of other sites.  del looks into the
\* cache, and if the entry is there it calls back before it erases.
Access(t, kv) ==
    /\ At(t, "idle")
    /\ kv \in Registered
    /\ Prod[kv] \notin Local
    /\ acced[Prod[kv]] < MaxStep
    /\ th' = [th EXCEPT ![t].pc = IF kv \in ToSet(cache) THEN "del" ELSE "count", ![t].kv = kv]
    /\ UNCHANGED <<queueVars, stepVars, cacheVars, fetched, ub>>

\* Back from the callback (SDM_DEL and its reply).  Erasing an entry another
\* thread has erased in the meantime is undefined.
Erase(t) ==
    LET kv == th[t].kv
    IN  /\ At(t, "del")
        /\ acc_num' = [acc_num EXCEPT ![Prod[kv]] = @ - 1]
        /\ cache' = CacheErase(cache, kv)
        /\ ub' = (kv \notin ToSet(cache))
        /\ Goto(t, "count")
        /\ UNCHANGED <<queueVars, stepVars, fetched>>

\* p_id__last_acced_step_map[p_id] += 1, with no lock held: the check for the
\* entry, its first value, the read and the write are steps of their own.
Count(t) ==
    /\ At(t, "count")
    /\ Goto(t, IF acced[Prod[th[t].kv]] = Absent THEN "init" ELSE "read")
    /\ UNCHANGED <<queueVars, stepVars, cacheVars, fetched, ub>>

InitStep(t) ==
    /\ At(t, "init")
    /\ acced' = [acced EXCEPT ![Prod[th[t].kv]] = -1]
    /\ Goto(t, "read")
    /\ UNCHANGED <<queueVars, cached, accessed, cacheVars, fetched, ub>>

ReadStep(t) ==
    /\ At(t, "read")
    /\ th' = [th EXCEPT ![t].pc = "write", ![t].val = acced[Prod[th[t].kv]]]
    /\ UNCHANGED <<queueVars, stepVars, cacheVars, fetched, ub>>

WriteStep(t) ==
    /\ At(t, "write")
    /\ acced' = [acced EXCEPT ![Prod[th[t].kv]] = th[t].val + 1]
    /\ th' = [th EXCEPT ![t].pc = "pick", ![t].val = -1]
    /\ UNCHANGED <<queueVars, cached, accessed, cacheVars, fetched, ub>>

\* get_to_prefetch for one picked producer: nothing if it is ahead already;
\* otherwise the queue is advanced to the step after the last one accessed.
Ahead(p)      == cached[p] > acced[p]
LastStep(p)   == IF cached[p] < acced[p] THEN acced[p] ELSE cached[p]
StepPast(p)   == LastStep(p) + 2    \* mutant of StepTo
StepTo(p)     == LastStep(p) + 1
Drop(p)       == IF front[p] < StepTo(p)
                 THEN Min({Len(deq[p]), StepTo(p) - front[p]})
                 ELSE 0
Rest(p)       == SubSeq(deq[p], Drop(p) + 1, Len(deq[p]))
Popped(p)     == Tail(Rest(p))
Picks(S)      == {p \in S : ~Ahead(p) /\ Rest(p) # <<>>}

\* The part behind add_acc_mutex.  The predictor returns at most one producer
\* (num_app = 1), or none, of those accessed; those with nothing in the cache
\* are added.  The order in which the picks are prefetched is that of the
\* application ids, which say nothing: it is left open.
PickApps(t) ==
    LET acc == accessed \cup {Prod[th[t].kv]}
    IN  /\ At(t, "pick")
        /\ accessed' = acc
        /\ \E best \in {{}} \cup {{p} : p \in acc} :
               LET S    == best \cup (acc \ CachedAcc)
                   todo == {Head(Rest(p)) : p \in Picks(S)}
               IN  /\ cached' = [p \in P |-> IF p \in Picks(S) THEN StepTo(p)
                                             ELSE IF p \in S /\ ~Ahead(p) THEN LastStep(p)
                                             ELSE cached[p]]
                   /\ deq' = [p \in P |-> IF p \in Picks(S) THEN Popped(p)
                                          ELSE IF p \in S /\ ~Ahead(p) THEN <<>>
                                          ELSE deq[p]]
                   /\ front' = [p \in P |-> IF p \in Picks(S) THEN front[p] + Drop(p) + 1
                                            ELSE IF p \in S /\ ~Ahead(p) THEN front[p] + Drop(p)
                                            ELSE front[p]]
                   /\ Prefetch(t, IF WPrefetch THEN todo ELSE {})
        /\ UNCHANGED <<order, acced, cacheVars, fetched, ub>>

\* PREFETCH is called first, then the cache's size is looked at.
Fetch(t) ==
    /\ At(t, "fetch")
    /\ \E kv \in th[t].todo :
          /\ fetched' = fetched \cup {kv}
          /\ th' = [th EXCEPT ![t].pc = "size", ![t].kv = kv, ![t].todo = @ \ {kv}]
    /\ UNCHANGED <<queueVars, stepVars, cacheVars, ub>>

\* A full cache ends the loop: what is left in kv_v is dropped.
Size(t) ==
    /\ At(t, "size")
    /\ th' = IF Len(cache) < MaxKV THEN [th EXCEPT ![t].pc = "push"]
             ELSE [th EXCEPT ![t] = Idle]
    /\ UNCHANGED <<queueVars, stepVars, cacheVars, fetched, ub>>

\* Mutant of Push: no pop.
PushNoPop(t) ==
    /\ At(t, "push")
    /\ CachePush(th[t].kv)
    /\ Prefetch(t, th[t].todo)
    /\ UNCHANGED <<queueVars, stepVars, fetched, ub>>

\* Cache::push, unless the entry is there; when another thread has filled the
\* cache since, pop calls back for the oldest entry and waits.
Push(t) ==
    LET kv == th[t].kv
    IN  /\ At(t, "push")
        /\ \/ /\ Len(cache) = MaxKV /\ kv \notin ToSet(cache)
              /\ th' = [th EXCEPT ![t].pc = "evict", ![t].vic = Head(cache)]
              /\ UNCHANGED cacheVars
           \/ /\ Len(cache) # MaxKV \/ kv \in ToSet(cache)
              /\ CachePush(kv)
              /\ Prefetch(t, th[t].todo)
        /\ UNCHANGED <<queueVars, stepVars, fetched, ub>>

\* Back from pop's callback: the oldest entry as it was then is erased and
\* the new one appended.
Evict(t) ==
    LET kv  == th[t].kv
        vic == th[t].vic
        num == [acc_num EXCEPT ![Prod[vic]] = @ - 1]
    IN  /\ At(t, "evict")
        /\ ub' = (vic \notin ToSet(cache))
        /\ cache' = Append(CacheErase(cache, vic), kv)
        /\ acc_num' = [num EXCEPT ![Prod[kv]] = @ + 1]
        /\ Prefetch(t, th[t].todo)
        /\ UNCHANGED <<queueVars, stepVars, fetched>>

AccessStep(t) ==
    \/ Erase(t) \/ Count(t) \/ InitStep(t) \/ ReadStep(t) \/ WriteStep(t)
    \/ PickApps(t) \/ Fetch(t) \/ Size(t) \/ Push(t) \/ Evict(t)

Next ==
    \/ \E kv \in KV : Put(kv)
    \/ \E t \in Thread : AccessStep(t) \/ \E kv \in KV : Access(t, kv)

Spec == Init /\ [][Next]_vars
-----------------------------------------------------------------------------
(* Properties.                                                              *)

Pending == UNION {th[t].todo : t \in Thread}

\* The step numbers kept beside a queue stay true, although puts append to the
\* queue outside the mutex: the head of p's queue is p's front[p]-th <key,
\* ver>, and it has not been passed by the last step prefetched.
DequeSteps ==
    \A p \in P : /\ deq[p] = SubSeq(order[p], front[p] + 1, Len(order[p]))
                 /\ front[p] <= cached[p] + 1

\* No <key, ver> is prefetched twice, by whichever threads: what is queued,
\* what a thread is about to prefetch and what has been prefetched are apart,
\* and no two threads hold the same <key, ver>.
PrefetchOnce ==
    /\ \A p \in P : ToSet(deq[p]) \cap (Pending \cup fetched) = {}
    /\ Pending \cap fetched = {}
    /\ \A s, t \in Thread : s # t => th[s].todo \cap th[t].todo = {}

\* What is prefetched for p is what p registered right after the last step of
\* p the site has accessed, never something older or further ahead.
PrefetchNext ==
    [][\A t \in Thread : \A kv \in th'[t].todo \ th[t].todo :
            LET p == Prod[kv]
            IN  order[p][acced[p] + 2] = kv /\ cached'[p] = acced[p] + 1]_vars

\* The cache lists prefetched <key, ver>s, once each, and no more than its
\* capacity, and acc_num_map counts them per producer.  The capacity is tested
\* before the push and outside any lock.
CacheSound ==
    ~ub => /\ Len(cache) <= MaxKV
           /\ IsInjective(cache)
           /\ ToSet(cache) \subseteq fetched
           /\ \A p \in P : acc_num[p] = Cardinality({kv \in ToSet(cache) : Prod[kv] = p})

\* The site never prefetches, or lists as prefetched, what is put at the site
\* itself (MWASpace::to_str_end reports "INTERSECTION between ds and mpbuffer").
NoIntersection ==
    \A kv \in fetched \cup ToSet(cache) \cup Pending : Prod[kv] \notin Local

\* What a site's buffer is said to hold: within its capacity, each pair once and
\* counted for its producer, and none that the site has put itself.
BufferSound == TypeOK /\ CacheSound /\ NoIntersection

\* A producer's pairs are prefetched in their order and once, by two threads that
\* share its queue and its step numbers, which therefore stay together.
PrefetchInTurn == [](DequeSteps /\ PrefetchOnce) /\ PrefetchNext
=============================================================================
