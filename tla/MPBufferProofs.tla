--------------------------- MODULE MPBufferProofs ---------------------------
(***************************************************************************)
(* Proofs about MPBuffer, for any producers, <key, ver>s, threads and      *)
(* capacity.                                                               *)
(***************************************************************************)
EXTENDS MPBuffer, FiniteSetTheorems, SequenceTheorems, TLAPS

-----------------------------------------------------------------------------
(* The inductive invariant.                                                 *)

Early == {"del", "count", "init", "read", "write", "pick"}
Late  == {"size", "push", "evict"}

\* What a producer registers is its own, and registered once.
Orders ==
    \A p \in P : /\ \A i \in 1 .. Len(order[p]) : Prod[order[p][i]] = p
                 /\ IsInjective(order[p])

\* The queue holds what is registered and not passed.
Queues ==
    \A p \in P : /\ front[p] <= Len(order[p])
                 /\ deq[p] = SubSeq(order[p], front[p] + 1, Len(order[p]))
                 /\ front[p] <= cached[p] + 1

\* What is prefetched has been passed, and is not of the site itself.
Passed == {kv \in KV : \E i \in 1 .. front[Prod[kv]] : order[Prod[kv]][i] = kv}

Fetching ==
    /\ fetched \subseteq Passed
    /\ \A t \in Thread : th[t].todo \subseteq Passed \ fetched
    /\ \A s, t \in Thread : s # t => th[s].todo \cap th[t].todo = {}

Foreign ==
    /\ accessed \cap Local = {}
    /\ \A kv \in fetched : Prod[kv] \notin Local
    /\ \A t \in Thread : \A kv \in th[t].todo : Prod[kv] \notin Local

\* A thread's locals, by where it is.
Located(t) ==
    /\ th[t].pc \in Early => th[t].kv \in KV /\ Prod[th[t].kv] \notin Local
    /\ th[t].pc \in {"read", "write"} => acced[Prod[th[t].kv]] \in Step
    /\ th[t].pc \in Late => th[t].kv \in fetched /\ th[t].kv \notin ToSet(cache)
    /\ th[t].pc = "push" => MaxKV > 0
    /\ th[t].pc = "evict" => th[t].vic \in KV

Locals == \A t \in Thread : Located(t)

\* Two threads never push the same <key, ver>.
Apart ==
    \A s, t \in Thread :
        s # t /\ th[s].pc \in Late /\ th[t].pc \in Late => th[s].kv # th[t].kv

\* The cache; its size and its counts only as long as no thread has erased what
\* is not there.
Of(S, p)  == {kv \in S : Prod[kv] = p}
Cached(p) == Of(ToSet(cache), p)

Listed ==
    /\ IsInjective(cache)
    /\ IsFiniteSet(ToSet(cache))
    /\ ToSet(cache) \subseteq fetched
    /\ ~ub => /\ Len(cache) <= MaxKV
              /\ \A p \in P : acc_num[p] = Cardinality(Cached(p))

IInv ==
    /\ TypeOK /\ Orders /\ Queues /\ Fetching /\ Foreign
    /\ Locals /\ Apart /\ Listed

-----------------------------------------------------------------------------
(* Sequences.                                                               *)

\* What Append adds to a queue's members.
LEMMA AppendSet ==
    ASSUME NEW s \in Seq(KV), NEW e \in KV
    PROVE  ToSet(Append(s, e)) = ToSet(s) \cup {e}
<1>1. ASSUME NEW x \in ToSet(Append(s, e)) PROVE x \in ToSet(s) \cup {e}
  <2>1. PICK i \in 1 .. Len(s) + 1 : Append(s, e)[i] = x
    BY <1>1 DEF ToSet
  <2>2. CASE i = Len(s) + 1
    BY <2>1, <2>2
  <2>3. CASE i # Len(s) + 1
    BY <2>1, <2>3 DEF ToSet
  <2> QED
    BY <2>2, <2>3
<1>2. ASSUME NEW x \in ToSet(s) PROVE x \in ToSet(Append(s, e))
  <2>1. PICK i \in 1 .. Len(s) : s[i] = x
    BY <1>2 DEF ToSet
  <2>2. Append(s, e)[i] = x /\ i \in DOMAIN Append(s, e)
    BY <2>1
  <2> QED
    BY <2>2 DEF ToSet
<1>3. e \in ToSet(Append(s, e))
  <2>1. Append(s, e)[Len(s) + 1] = e /\ Len(s) + 1 \in DOMAIN Append(s, e)
    OBVIOUS
  <2> QED
    BY <2>1 DEF ToSet
<1> QED
  BY <1>1, <1>2, <1>3

\* A queue that lists each member once still does when another one is appended.
LEMMA AppendOnce ==
    ASSUME NEW s \in Seq(KV), NEW e \in KV, IsInjective(s), e \notin ToSet(s)
    PROVE  IsInjective(Append(s, e))
<1> DEFINE z == Append(s, e)
<1>1. /\ DOMAIN z = 1 .. Len(s) + 1 /\ z[Len(s) + 1] = e
      /\ \A i \in 1 .. Len(s) : z[i] = s[i]
  OBVIOUS
<1> HIDE DEF z
<1>2. \A k \in 1 .. Len(s) : s[k] # e
  BY DEF ToSet
<1>3. \A i, j \in 1 .. Len(s) : s[i] = s[j] => i = j
  BY DEF IsInjective
<1>4. \A i, j \in 1 .. Len(s) + 1 : z[i] = z[j] => i = j
  BY <1>1, <1>2, <1>3
<1>5. IsInjective(z)
  BY <1>1, <1>4 DEF IsInjective
<1> QED
  BY <1>5 DEF z

\* Erasing from the cache what it lists once takes that out and nothing else.
LEMMA EraseThere ==
    ASSUME NEW c \in Seq(KV), IsInjective(c), NEW kv \in ToSet(c)
    PROVE  /\ CacheErase(c, kv) \in Seq(KV)
           /\ Len(CacheErase(c, kv)) = Len(c) - 1
           /\ ToSet(CacheErase(c, kv)) = ToSet(c) \ {kv}
           /\ IsInjective(CacheErase(c, kv))
<1>1. PICK k \in 1 .. Len(c) : c[k] = kv
  BY DEF ToSet
<1>2. {i \in 1 .. Len(c) : c[i] = kv} = {k}
  BY <1>1 DEF IsInjective
<1>3. Min({k}) = k
  BY DEF Min
<1>4. SelectInSeq(c, LAMBDA v : v = kv) = k
  BY <1>2, <1>3 DEF SelectInSeq
<1> DEFINE r == SubSeq(c, 1, k - 1) \o SubSeq(c, k + 1, Len(c))
<1>5. CacheErase(c, kv) = r
  BY <1>1, <1>4 DEF CacheErase, RemoveFirst, RemoveAt
<1>6. /\ r \in Seq(KV) /\ Len(r) = Len(c) - 1
      /\ \A i \in 1 .. Len(r) : r[i] = IF i < k THEN c[i] ELSE c[i + 1]
  <2> DEFINE a == SubSeq(c, 1, k - 1)
             b == SubSeq(c, k + 1, Len(c))
  <2>1. a \in Seq(KV) /\ Len(a) = k - 1 /\ \A i \in 1 .. k - 1 : a[i] = c[i]
    BY <1>1
  <2>2. /\ b \in Seq(KV) /\ Len(b) = Len(c) - k
        /\ \A i \in 1 .. Len(c) - k : b[i] = c[k + i]
    BY <1>1
  <2> HIDE DEF a, b
  <2>3. /\ a \o b \in Seq(KV) /\ Len(a \o b) = Len(c) - 1
        /\ \A i \in 1 .. Len(c) - 1 :
              (a \o b)[i] = IF i < k THEN a[i] ELSE b[i - (k - 1)]
    <3>1. /\ a \o b \in Seq(KV) /\ Len(a \o b) = Len(a) + Len(b)
          /\ \A i \in 1 .. Len(a) + Len(b) :
                (a \o b)[i] = IF i <= Len(a) THEN a[i] ELSE b[i - Len(a)]
      BY <2>1, <2>2, ConcatProperties
    <3>2. Len(a) + Len(b) = Len(c) - 1 /\ \A i \in Int : i < k <=> i <= Len(a)
      BY <1>1, <2>1, <2>2
    <3> QED
      BY <3>1, <3>2, <2>1
  <2>4. ASSUME NEW i \in 1 .. Len(c) - 1, ~(i < k)
        PROVE  i - (k - 1) \in 1 .. Len(c) - k /\ k + (i - (k - 1)) = i + 1
    BY <2>4
  <2>5. \A i \in 1 .. Len(c) - 1 : ~(i < k) => b[i - (k - 1)] = c[i + 1]
    BY <2>2, <2>4
  <2>6. r = a \o b
    BY DEF a, b
  <2> QED
    <3>1. r \in Seq(KV) /\ Len(r) = Len(c) - 1
      BY <2>3, <2>6
    <3>2. ASSUME NEW i \in 1 .. Len(c) - 1
          PROVE  r[i] = IF i < k THEN c[i] ELSE c[i + 1]
      <4>1. r[i] = IF i < k THEN a[i] ELSE b[i - (k - 1)]
        BY <2>3, <2>6
      <4>2. i < k => a[i] = c[i]
        BY <2>1
      <4> QED
        BY <4>1, <4>2, <2>5
    <3> QED
      BY <3>1, <3>2
<1> HIDE DEF r
<1>7. IsInjective(r)
  <2>1. ASSUME NEW i \in 1 .. Len(r), NEW j \in 1 .. Len(r), r[i] = r[j], i < j
        PROVE  FALSE
    <3>0. \A n \in 1 .. Len(r) : (IF n < k THEN n ELSE n + 1) \in 1 .. Len(c)
      BY <1>6
    <3>1. PICK x \in 1 .. Len(c) : r[i] = c[x] /\ x = IF i < k THEN i ELSE i + 1
      BY <1>6, <3>0
    <3>2. PICK y \in 1 .. Len(c) : r[j] = c[y] /\ y = IF j < k THEN j ELSE j + 1
      BY <1>6, <3>0
    <3>3. x = y
      <4>1. \A m, n \in 1 .. Len(c) : c[m] = c[n] => m = n
        BY DEF IsInjective
      <4> QED
        BY <2>1, <3>1, <3>2, <4>1
    <3> QED
      BY <2>1, <3>1, <3>2, <3>3, <1>6
  <2>2. \A i, j \in 1 .. Len(r) : r[i] = r[j] => i = j
    BY <1>6, <2>1
  <2> QED
    BY <1>6, <2>2 DEF IsInjective
<1>8. ASSUME NEW x \in ToSet(r) PROVE x \in ToSet(c) \ {kv}
  <2>1. PICK i \in 1 .. Len(r) : r[i] = x
    BY <1>6, <1>8 DEF ToSet
  <2>2. PICK j \in 1 .. Len(c) : c[j] = x /\ j # k
    BY <1>6, <2>1
  <2> QED
    BY <2>2, <1>1 DEF ToSet, IsInjective
<1>9. ASSUME NEW x \in ToSet(c), x # kv PROVE x \in ToSet(r)
  <2>1. PICK j \in 1 .. Len(c) : c[j] = x
    BY <1>9 DEF ToSet
  <2>2. j # k
    BY <1>1, <1>9, <2>1
  <2>3. PICK i \in 1 .. Len(r) : r[i] = x
    <3>1. CASE j < k
      BY <1>6, <2>1, <3>1
    <3>2. CASE j > k
      <4>1. j - 1 \in 1 .. Len(r) /\ r[j - 1] = x
        BY <1>6, <2>1, <3>2
      <4> QED
        BY <4>1
    <3> QED
      BY <2>2, <3>1, <3>2
  <2> QED
    BY <1>6, <2>3 DEF ToSet
<1> QED
  BY <1>5, <1>6, <1>7, <1>8, <1>9

\* Erasing what is not there leaves the model's cache as it is (and sets ub).
LEMMA EraseMissing ==
    ASSUME NEW c \in Seq(KV), NEW kv, kv \notin ToSet(c)
    PROVE  CacheErase(c, kv) = c
BY DEF CacheErase, RemoveFirst, ToSet

\* A put reaches what is left of a producer's order just as it reaches the order.
LEMMA SuffixAppend ==
    ASSUME NEW s \in Seq(KV), NEW f \in Nat, f <= Len(s), NEW e \in KV
    PROVE  Append(SubSeq(s, f + 1, Len(s)), e) = SubSeq(Append(s, e), f + 1, Len(s) + 1)
OBVIOUS

\* What is left of what is left of it.
LEMMA SuffixSuffix ==
    ASSUME NEW s \in Seq(KV), NEW f \in Nat, f <= Len(s), NEW d \in Nat, d <= Len(s) - f
    PROVE  SubSeq(SubSeq(s, f + 1, Len(s)), d + 1, Len(s) - f) = SubSeq(s, f + d + 1, Len(s))
OBVIOUS

\* Its members.
LEMMA SuffixMember ==
    ASSUME NEW s \in Seq(KV), NEW f \in Nat, f <= Len(s),
           NEW i \in DOMAIN SubSeq(s, f + 1, Len(s))
    PROVE  /\ f + i \in 1 .. Len(s) /\ f + i > f
           /\ SubSeq(s, f + 1, Len(s))[i] = s[f + i]
<1>1. DOMAIN SubSeq(s, f + 1, Len(s)) = 1 .. Len(s) - f
  OBVIOUS
<1>2. i \in 1 .. Len(s) - f
  BY <1>1
<1> QED
  BY <1>2

\* Its head, and what is left behind that.
LEMMA SuffixHead ==
    ASSUME NEW s \in Seq(KV), NEW g \in Nat, g < Len(s)
    PROVE  /\ Head(SubSeq(s, g + 1, Len(s))) = s[g + 1]
           /\ Tail(SubSeq(s, g + 1, Len(s))) = SubSeq(s, g + 2, Len(s))
           /\ SubSeq(s, g + 1, Len(s)) # <<>>
<1>1. Head(SubSeq(s, g + 1, Len(s))) = s[g + 1]
  OBVIOUS
<1>2. Tail(SubSeq(s, g + 1, Len(s))) = SubSeq(s, g + 2, Len(s))
  OBVIOUS
<1>3. Len(SubSeq(s, g + 1, Len(s))) = Len(s) - g /\ Len(s) - g > 0
  OBVIOUS
<1>4. SubSeq(s, g + 1, Len(s)) # <<>>
  <2> DEFINE z == SubSeq(s, g + 1, Len(s))
  <2>1. Len(z) # 0 /\ Len(<<>>) = 0
    BY <1>3
  <2> HIDE DEF z
  <2>2. z # <<>>
    BY <2>1
  <2> QED
    BY <2>2 DEF z
<1> QED
  BY <1>1, <1>2, <1>4

\* How many pairs get_to_prefetch drops from a queue, and what is then its head.
LEMMA DropBounds ==
    ASSUME NEW p \in P, deq[p] \in Seq(KV), front[p] \in Nat, StepTo(p) \in Nat
    PROVE  /\ Drop(p) \in 0 .. Len(deq[p])
           /\ front[p] < StepTo(p) => front[p] + Drop(p) <= StepTo(p)
           /\ front[p] >= StepTo(p) => Drop(p) = 0
           /\ Drop(p) < Len(deq[p]) /\ front[p] <= StepTo(p) => front[p] + Drop(p) = StepTo(p)
<1>1. ASSUME NEW a \in Nat, NEW b \in Nat
      PROVE  Min({a, b}) = IF a <= b THEN a ELSE b
  BY <1>1 DEF Min
<1>2. CASE front[p] < StepTo(p)
  <2>1. StepTo(p) - front[p] \in Nat /\ Len(deq[p]) \in Nat
    BY <1>2
  <2>2. Drop(p) = IF Len(deq[p]) <= StepTo(p) - front[p] THEN Len(deq[p])
                  ELSE StepTo(p) - front[p]
    BY <1>1, <1>2, <2>1 DEF Drop
  <2> QED
    BY <1>2, <2>1, <2>2
<1>3. CASE ~(front[p] < StepTo(p))
  <2>1. Drop(p) = 0
    BY <1>3 DEF Drop
  <2> QED
    BY <1>3, <2>1
<1> QED
  BY <1>2, <1>3

-----------------------------------------------------------------------------
(* The initial state, and what all of add_access's steps but PickApps have  *)
(* in common.                                                               *)

ThreadState == [pc : Label, kv : KV \cup {NoKV}, val : Step, todo : SUBSET KV,
                vic : KV \cup {NoKV}]

\* Init satisfies the invariant.
LEMMA InitInv == Init => IInv
<1> SUFFICES ASSUME Init PROVE IInv
  OBVIOUS
<1>1. \A t \in Thread : th[t] = Idle
  BY DEF Init
<1>2. Idle \in ThreadState
  BY DEF Idle, ThreadState, Label, Step
<1>3. th \in [Thread -> ThreadState]
  BY <1>2 DEF Init
<1>4. /\ order \in [P -> Seq(KV)] /\ deq \in [P -> Seq(KV)] /\ front \in [P -> Nat]
      /\ acced \in [P -> Step \cup {Absent}] /\ cached \in [P -> Step]
      /\ cache \in Seq(KV) /\ acc_num \in [P -> Int]
  BY DEF Init, Step, Absent
<1>5. TypeOK
  BY <1>3, <1>4 DEF TypeOK, ThreadState, Init
<1>6. Orders /\ Queues
  <2>1. \A p \in P : order[p] = <<>> /\ deq[p] = <<>> /\ front[p] = 0 /\ cached[p] = -1
    BY DEF Init
  <2>2. SubSeq(<<>>, 1, 0) = <<>> /\ IsInjective(<<>>) /\ Len(<<>>) = 0
    BY DEF IsInjective
  <2>3. ASSUME NEW p \in P
        PROVE  /\ front[p] <= Len(order[p])
               /\ deq[p] = SubSeq(order[p], front[p] + 1, Len(order[p]))
               /\ front[p] <= cached[p] + 1
               /\ \A i \in 1 .. Len(order[p]) : Prod[order[p][i]] = p
               /\ IsInjective(order[p])
    <3>1. SubSeq(<<>>, 0 + 1, 0) = <<>> /\ 0 <= -1 + 1 /\ 1 .. 0 = {} /\ 0 <= 0
      BY <2>2
    <3> QED
      BY <2>1, <2>2, <3>1, Zenon
  <2> QED
    BY <2>3 DEF Orders, Queues
<1>7. Fetching /\ Foreign
  BY <1>1 DEF Init, Fetching, Foreign, Idle
<1>8. Locals /\ Apart
  BY <1>1 DEF Locals, Located, Apart, Idle, Early, Late
<1>9. Listed
  <2>1. ToSet(cache) = {} /\ IsInjective(cache) /\ Len(cache) = 0
    BY DEF Init, ToSet, IsInjective
  <2>2. \A p \in P : Cached(p) = {} /\ acc_num[p] = 0
    BY <2>1 DEF Init, Cached, Of
  <2>3. IsFiniteSet({}) /\ Cardinality({}) = 0 /\ 0 <= MaxKV
    BY FS_EmptySet, BufferAssumption
  <2> QED
    BY <2>1, <2>2, <2>3 DEF Listed
<1> QED
  BY <1>5, <1>6, <1>7, <1>8, <1>9 DEF IInv

\* A step that leaves the queues alone leaves alone what they say.
LEMMA QueuesKept ==
    ASSUME Orders, Queues, UNCHANGED <<queueVars, cached>>
    PROVE  Orders' /\ Queues' /\ Passed' = Passed
BY DEF Orders, Queues, Passed, queueVars

\* A step that leaves the cache alone leaves alone what is said of it.
LEMMA ListedKept ==
    ASSUME Listed, UNCHANGED <<cacheVars, fetched, ub>>
    PROVE  Listed'
<1>1. \A p \in P : Cached(p)' = Cached(p)
  BY DEF Cached, cacheVars
<1> QED
  BY <1>1 DEF Listed, cacheVars

\* What keeps the invariant over a step of thread t that leaves the queues alone:
\* t only gives up what it had to prefetch, adds to the cache only what it was
\* pushing, and turns to push only what was not prefetched before.
LEMMA ThreadStep ==
    ASSUME IInv, NEW t \in Thread,
           th'[t] \in ThreadState, th' = [th EXCEPT ![t] = th'[t]],
           UNCHANGED <<queueVars, cached, accessed>>,
           acced' \in [P -> Step \cup {Absent}],
           \A p \in P : acced[p] \in Step => acced'[p] \in Step,
           cache' \in Seq(KV), acc_num' \in [P -> Int], ub' \in BOOLEAN,
           th'[t].todo \subseteq th[t].todo,
           fetched \subseteq fetched', fetched' \ fetched \subseteq th[t].todo \ th'[t].todo,
           \A x \in ToSet(cache') : x \in ToSet(cache) \/ (th[t].pc \in Late /\ x = th[t].kv),
           Located(t)',
           th'[t].pc \in Late => \/ th[t].pc \in Late /\ th'[t].kv = th[t].kv
                                 \/ th'[t].kv \notin fetched,
           Listed'
    PROVE  IInv'
<1>1. /\ th \in [Thread -> ThreadState] /\ fetched \subseteq KV /\ accessed \subseteq P
      /\ order \in [P -> Seq(KV)] /\ deq \in [P -> Seq(KV)] /\ front \in [P -> Nat]
      /\ cached \in [P -> Step]
  BY DEF IInv, TypeOK, ThreadState
<1>2. th[t].todo \subseteq KV
  BY <1>1 DEF ThreadState
<1>3. th' \in [Thread -> ThreadState]
  BY <1>1
<1>4. \A u \in Thread : u # t => th'[u] = th[u]
  BY <1>1
<1>5. TypeOK'
  <2>1. fetched' \subseteq KV
    BY <1>1, <1>2
  <2> QED
    BY <1>1, <1>3, <2>1 DEF TypeOK, ThreadState, queueVars
<1>6. Orders' /\ Queues' /\ Passed' = Passed
  BY QueuesKept DEF IInv, queueVars
<1>7. Fetching'
  <2>1. Fetching
    BY DEF IInv
  <2>2. fetched' \subseteq Passed'
    BY <1>6, <2>1 DEF Fetching
  <2>3. ASSUME NEW u \in Thread PROVE th'[u].todo \subseteq Passed' \ fetched'
    <3>1. CASE u = t
      BY <1>6, <2>1, <3>1 DEF Fetching
    <3>2. CASE u # t
      <4>1. th'[u].todo = th[u].todo /\ th[u].todo \cap th[t].todo = {}
        BY <1>4, <2>1, <3>2 DEF Fetching
      <4> QED
        BY <1>6, <2>1, <4>1 DEF Fetching
    <3> QED
      BY <3>1, <3>2
  <2>4. ASSUME NEW u \in Thread, NEW v \in Thread, u # v
        PROVE  th'[u].todo \cap th'[v].todo = {}
    <3>1. th'[u].todo \subseteq th[u].todo /\ th'[v].todo \subseteq th[v].todo
      BY <1>4
    <3> QED
      BY <2>1, <2>4, <3>1 DEF Fetching
  <2> QED
    BY <2>2, <2>3, <2>4 DEF Fetching
<1>8. Foreign'
  <2>1. Foreign
    BY DEF IInv
  <2>2. \A u \in Thread : th'[u].todo \subseteq th[u].todo
    BY <1>4
  <2>3. fetched' \subseteq fetched \cup th[t].todo
    OBVIOUS
  <2> QED
    BY <2>1, <2>2, <2>3 DEF Foreign
<1>9. Locals'
  <2>1. ASSUME NEW u \in Thread, u # t PROVE Located(u)'
    <3>1. Located(u) /\ Located(t) /\ Apart
      BY DEF IInv, Locals
    <3>2. th'[u] = th[u]
      BY <1>4, <2>1
    <3>3. th[u].pc \in Late => th[u].kv \notin ToSet(cache')
      BY <2>1, <3>1 DEF Located, Apart
    <3>4. th[u].pc \in {"read", "write"} => acced'[Prod[th[u].kv]] \in Step
      <4>1. SUFFICES ASSUME th[u].pc \in {"read", "write"}
                     PROVE  acced'[Prod[th[u].kv]] \in Step
        OBVIOUS
      <4>2. th[u].kv \in KV /\ acced[Prod[th[u].kv]] \in Step
        BY <3>1, <4>1 DEF Located, Early
      <4> QED
        BY <4>2, BufferAssumption
    <3> QED
      BY <3>1, <3>2, <3>3, <3>4 DEF Located
  <2> QED
    BY <2>1 DEF Locals
<1>10. Apart'
  <2>1. Apart /\ Locals
    BY DEF IInv
  <2>2. ASSUME NEW u \in Thread, u # t, th'[u].pc \in Late, th'[t].pc \in Late
        PROVE  th'[u].kv # th'[t].kv
    <3>1. th'[u] = th[u]
      BY <1>4, <2>2
    <3>2. th[u].kv \in fetched
      BY <2>1, <2>2, <3>1 DEF Locals, Located
    <3> QED
      BY <2>1, <2>2, <3>1, <3>2 DEF Apart
  <2>3. ASSUME NEW u \in Thread, NEW v \in Thread, u # v,
               th'[u].pc \in Late, th'[v].pc \in Late
        PROVE  th'[u].kv # th'[v].kv
    <3>1. CASE u # t /\ v # t
      BY <1>4, <2>1, <2>3, <3>1 DEF Apart
    <3>2. CASE u = t \/ v = t
      BY <2>2, <2>3, <3>2
    <3> QED
      BY <3>1, <3>2
  <2> QED
    BY <2>3 DEF Apart
<1> QED
  BY <1>5, <1>6, <1>7, <1>8, <1>9, <1>10 DEF IInv

-----------------------------------------------------------------------------
(* The steps of add_access that only count.                                 *)

\* A step of thread t that changes at most t's place and the step numbers.
LEMMA CountStep ==
    ASSUME IInv, NEW t \in Thread,
           th'[t] \in ThreadState, th' = [th EXCEPT ![t] = th'[t]],
           UNCHANGED <<queueVars, cached, accessed, cacheVars, fetched, ub>>,
           acced' \in [P -> Step \cup {Absent}],
           \A p \in P : acced[p] \in Step => acced'[p] \in Step,
           th'[t].todo = th[t].todo, th'[t].pc \in Early, Located(t)'
    PROVE  IInv'
<1>1. cache \in Seq(KV) /\ acc_num \in [P -> Int] /\ ub \in BOOLEAN
  BY DEF IInv, TypeOK
<1>2. Listed'
  BY ListedKept DEF IInv
<1>3. th'[t].pc \notin Late
  BY DEF Early, Late
<1>4. cache' = cache /\ acc_num' = acc_num
  BY DEF cacheVars
<1> QED
  BY <1>1, <1>2, <1>3, <1>4, ThreadStep

\* MWASpace::add_access and the test in Cache::del.
LEMMA AccessInv ==
    ASSUME IInv, NEW t \in Thread, NEW kv \in KV, Access(t, kv)
    PROVE  IInv'
<1> DEFINE l == IF kv \in ToSet(cache) THEN "del" ELSE "count"
           r == [th[t] EXCEPT !.pc = l, !.kv = kv]
<1>1. th[t] \in ThreadState /\ th \in [Thread -> ThreadState]
  BY DEF IInv, TypeOK, ThreadState
<1>2. l \in {"del", "count"} /\ l \in Label /\ l \in Early
  BY DEF Label, Early
<1>3. th' = [th EXCEPT ![t] = r]
  BY <1>1 DEF Access
<1> HIDE DEF l
<1>4. r \in ThreadState /\ r.pc = l /\ r.kv = kv /\ r.todo = th[t].todo
  BY <1>1, <1>2 DEF ThreadState
<1> HIDE DEF r
<1>5. th'[t] = r /\ Prod[kv] \notin Local
  BY <1>1, <1>3 DEF Access
<1>6. Located(t)'
  BY <1>2, <1>4, <1>5, BufferAssumption DEF Located, Late, Early
<1>7. acced \in [P -> Step \cup {Absent}]
  BY DEF IInv, TypeOK
<1> QED
  BY <1>2, <1>3, <1>4, <1>5, <1>6, <1>7, CountStep DEF Access, stepVars

\* The check whether the producer has an entry among the steps.
LEMMA CountInv ==
    ASSUME IInv, NEW t \in Thread, Count(t)
    PROVE  IInv'
<1> DEFINE l == IF acced[Prod[th[t].kv]] = Absent THEN "init" ELSE "read"
           r == [th[t] EXCEPT !.pc = l]
<1>1. th[t] \in ThreadState /\ th \in [Thread -> ThreadState]
  BY DEF IInv, TypeOK, ThreadState
<1>2. l \in {"init", "read"} /\ l \in Label /\ l \in Early
  BY DEF Label, Early
<1>3. th' = [th EXCEPT ![t] = r]
  BY <1>1 DEF Count, Goto
<1>4. acced \in [P -> Step \cup {Absent}]
  BY DEF IInv, TypeOK
<1>5. th[t].kv \in KV /\ Prod[th[t].kv] \notin Local
  BY DEF IInv, Locals, Located, Count, At, Early
<1>6. l = "read" => acced[Prod[th[t].kv]] \in Step
  BY <1>4, <1>5, BufferAssumption
<1> HIDE DEF l
<1>7. r \in ThreadState /\ r.pc = l /\ r.kv = th[t].kv /\ r.todo = th[t].todo
  BY <1>1, <1>2 DEF ThreadState
<1> HIDE DEF r
<1>8. th'[t] = r
  BY <1>1, <1>3
<1>9. UNCHANGED <<queueVars, cached, accessed, cacheVars, fetched, ub>> /\ acced' = acced
  BY DEF Count, stepVars
<1>10. Located(t)'
  BY <1>2, <1>5, <1>6, <1>7, <1>8, <1>9 DEF Located, Late, Early
<1> QED
  BY <1>2, <1>3, <1>4, <1>7, <1>8, <1>9, <1>10, CountStep

\* The entry's first value.
LEMMA InitStepInv ==
    ASSUME IInv, NEW t \in Thread, InitStep(t)
    PROVE  IInv'
<1> DEFINE r == [th[t] EXCEPT !.pc = "read"]
<1>1. th[t] \in ThreadState /\ th \in [Thread -> ThreadState]
  BY DEF IInv, TypeOK, ThreadState
<1>2. th' = [th EXCEPT ![t] = r]
  BY <1>1 DEF InitStep, Goto
<1>3. acced \in [P -> Step \cup {Absent}]
  BY DEF IInv, TypeOK
<1>4. th[t].kv \in KV /\ Prod[th[t].kv] \notin Local /\ Prod[th[t].kv] \in P
  BY BufferAssumption DEF IInv, Locals, Located, InitStep, At, Early
<1>5. /\ acced' \in [P -> Step \cup {Absent}]
      /\ \A p \in P : acced[p] \in Step => acced'[p] \in Step
      /\ acced'[Prod[th[t].kv]] \in Step
  BY <1>3, <1>4 DEF InitStep, Step
<1>7. r \in ThreadState /\ r.pc = "read" /\ r.kv = th[t].kv /\ r.todo = th[t].todo
  BY <1>1 DEF ThreadState, Label
<1> HIDE DEF r
<1>8. th'[t] = r
  BY <1>1, <1>2
<1>9. UNCHANGED <<queueVars, cached, accessed, cacheVars, fetched, ub>>
  BY DEF InitStep
<1>10. Located(t)' /\ r.pc \in Early
  BY <1>4, <1>5, <1>7, <1>8, <1>9 DEF Located, Late, Early
<1> QED
  BY <1>2, <1>5, <1>7, <1>8, <1>9, <1>10, CountStep

\* The read of +=.
LEMMA ReadStepInv ==
    ASSUME IInv, NEW t \in Thread, ReadStep(t)
    PROVE  IInv'
<1> DEFINE r == [th[t] EXCEPT !.pc = "write", !.val = acced[Prod[th[t].kv]]]
<1>1. th[t] \in ThreadState /\ th \in [Thread -> ThreadState]
  BY DEF IInv, TypeOK, ThreadState
<1>2. th' = [th EXCEPT ![t] = r]
  BY <1>1 DEF ReadStep
<1>3. acced \in [P -> Step \cup {Absent}]
  BY DEF IInv, TypeOK
<1>4. /\ th[t].kv \in KV /\ Prod[th[t].kv] \notin Local /\ Prod[th[t].kv] \in P
      /\ acced[Prod[th[t].kv]] \in Step
  BY BufferAssumption DEF IInv, Locals, Located, ReadStep, At, Early
<1>7. r \in ThreadState /\ r.pc = "write" /\ r.kv = th[t].kv /\ r.todo = th[t].todo
  BY <1>1, <1>4 DEF ThreadState, Label
<1> HIDE DEF r
<1>8. th'[t] = r
  BY <1>1, <1>2
<1>9. UNCHANGED <<queueVars, cached, accessed, cacheVars, fetched, ub>> /\ acced' = acced
  BY DEF ReadStep, stepVars
<1>10. Located(t)' /\ r.pc \in Early
  BY <1>4, <1>7, <1>8, <1>9 DEF Located, Late, Early
<1> QED
  BY <1>2, <1>3, <1>7, <1>8, <1>9, <1>10, CountStep

\* The write of +=.
LEMMA WriteStepInv ==
    ASSUME IInv, NEW t \in Thread, WriteStep(t)
    PROVE  IInv'
<1> DEFINE r == [th[t] EXCEPT !.pc = "pick", !.val = -1]
<1>1. th[t] \in ThreadState /\ th \in [Thread -> ThreadState]
  BY DEF IInv, TypeOK, ThreadState
<1>2. th' = [th EXCEPT ![t] = r]
  BY <1>1 DEF WriteStep
<1>3. acced \in [P -> Step \cup {Absent}]
  BY DEF IInv, TypeOK
<1>4. th[t].kv \in KV /\ Prod[th[t].kv] \notin Local /\ Prod[th[t].kv] \in P
  BY BufferAssumption DEF IInv, Locals, Located, WriteStep, At, Early
<1>5. th[t].val + 1 \in Step
  BY <1>1 DEF ThreadState, Step
<1>6. /\ acced' \in [P -> Step \cup {Absent}]
      /\ \A p \in P : acced[p] \in Step => acced'[p] \in Step
  BY <1>3, <1>4, <1>5 DEF WriteStep
<1>7. r \in ThreadState /\ r.pc = "pick" /\ r.kv = th[t].kv /\ r.todo = th[t].todo
  BY <1>1 DEF ThreadState, Label, Step
<1> HIDE DEF r
<1>8. th'[t] = r
  BY <1>1, <1>2
<1>9. UNCHANGED <<queueVars, cached, accessed, cacheVars, fetched, ub>>
  BY DEF WriteStep
<1>10. Located(t)' /\ r.pc \in Early
  BY <1>4, <1>7, <1>8, <1>9 DEF Located, Late, Early
<1> QED
  BY <1>2, <1>6, <1>7, <1>8, <1>9, <1>10, CountStep

-----------------------------------------------------------------------------
(* The steps of add_access that prefetch and work on the cache.             *)

\* One more member of producer Prod[x] in the cache.
LEMMA CountAdd ==
    ASSUME NEW S, IsFiniteSet(S), NEW x, x \notin S, NEW p
    PROVE  /\ Cardinality(Of(S, p)) \in Nat
           /\ Cardinality(Of(S \cup {x}, p))
                = Cardinality(Of(S, p)) + (IF Prod[x] = p THEN 1 ELSE 0)
<1>1. IsFiniteSet(Of(S, p)) /\ Cardinality(Of(S, p)) \in Nat
  <2>1. Of(S, p) \in SUBSET S
    BY DEF Of
  <2>2. IsFiniteSet(Of(S, p))
    BY <2>1, FS_Subset, Zenon
  <2> QED
    BY <2>2, FS_CardinalityType, Zenon
<1>2. CASE Prod[x] = p
  <2>1. Of(S \cup {x}, p) = Of(S, p) \cup {x} /\ x \notin Of(S, p)
    BY <1>2 DEF Of
  <2>2. Cardinality(Of(S, p) \cup {x}) = Cardinality(Of(S, p)) + 1
    BY <1>1, <2>1, FS_AddElement
  <2> QED
    BY <1>1, <1>2, <2>1, <2>2
<1>3. CASE Prod[x] # p
  <2>1. Of(S \cup {x}, p) = Of(S, p)
    BY <1>3 DEF Of
  <2> QED
    BY <1>1, <1>3, <2>1
<1> QED
  BY <1>2, <1>3

\* One member of producer Prod[x] less.
LEMMA CountRemove ==
    ASSUME NEW S, IsFiniteSet(S), NEW x \in S, NEW p
    PROVE  Cardinality(Of(S \ {x}, p))
             = Cardinality(Of(S, p)) - (IF Prod[x] = p THEN 1 ELSE 0)
<1> DEFINE R == S \ {x}
<1>1. IsFiniteSet(R) /\ x \notin R /\ R \cup {x} = S
  BY FS_RemoveElement
<1> HIDE DEF R
<1>2. /\ Cardinality(Of(R, p)) \in Nat
      /\ Cardinality(Of(R \cup {x}, p)) = Cardinality(Of(R, p)) + (IF Prod[x] = p THEN 1 ELSE 0)
  BY <1>1, CountAdd
<1>3. Cardinality(Of(S, p)) = Cardinality(Of(R, p)) + (IF Prod[x] = p THEN 1 ELSE 0)
  BY <1>1, <1>2
<1>4. Cardinality(Of(R, p)) = Cardinality(Of(S, p)) - (IF Prod[x] = p THEN 1 ELSE 0)
  BY <1>2, <1>3
<1> QED
  BY <1>4 DEF R

\* Where Prefetch leaves a thread.
LEMMA PrefetchState ==
    ASSUME th \in [Thread -> ThreadState], NEW t \in Thread,
           NEW S \in SUBSET KV, Prefetch(t, S)
    PROVE  /\ th' = [th EXCEPT ![t] = th'[t]]
           /\ th'[t] \in ThreadState /\ th'[t].todo = S
           /\ th'[t].pc \in {"idle", "fetch"} /\ th'[t].pc \notin Late
           /\ th'[t].pc \notin Early
<1> DEFINE f == [Idle EXCEPT !.pc = "fetch", !.todo = S]
           r == IF S = {} THEN Idle ELSE f
<1>1. /\ Idle \in ThreadState /\ Idle.todo = {} /\ Idle.pc = "idle"
      /\ f \in ThreadState /\ f.todo = S /\ f.pc = "fetch"
  BY DEF Idle, ThreadState, Label, Step
<1>2. th' = [th EXCEPT ![t] = r]
  BY DEF Prefetch
<1> HIDE DEF f
<1>3. r \in ThreadState /\ r.todo = S /\ r.pc \in {"idle", "fetch"}
  BY <1>1
<1> HIDE DEF r
<1>4. th'[t] = r
  BY <1>2
<1> QED
  BY <1>2, <1>3, <1>4 DEF Early, Late

\* A thread that is idle or about to prefetch has nothing in its locals to say.
LEMMA NotLocated ==
    ASSUME NEW t \in Thread, th'[t].pc \in {"idle", "fetch"}
    PROVE  Located(t)'
BY DEF Located, Early, Late

\* PREFETCH for one of the picked: it was not prefetched before.
LEMMA FetchInv ==
    ASSUME IInv, NEW t \in Thread, Fetch(t)
    PROVE  IInv'
<1>1. PICK kv \in th[t].todo :
          /\ fetched' = fetched \cup {kv}
          /\ th' = [th EXCEPT ![t].pc = "size", ![t].kv = kv, ![t].todo = @ \ {kv}]
  BY DEF Fetch
<1> DEFINE r == [th[t] EXCEPT !.pc = "size", !.kv = kv, !.todo = @ \ {kv}]
<1>2. th[t] \in ThreadState /\ th \in [Thread -> ThreadState]
  BY DEF IInv, TypeOK, ThreadState
<1>3. th' = [th EXCEPT ![t] = r]
  BY <1>1, <1>2
<1>4. th[t].todo \subseteq KV /\ kv \in KV
  BY <1>2 DEF ThreadState
<1>5. r \in ThreadState /\ r.pc = "size" /\ r.kv = kv /\ r.todo = th[t].todo \ {kv}
  BY <1>2, <1>4 DEF ThreadState, Label
<1> HIDE DEF r
<1>6. th'[t] = r
  BY <1>2, <1>3
<1>7. /\ UNCHANGED <<queueVars, cached, accessed, acced, cacheVars, ub>>
      /\ cache' = cache /\ acc_num' = acc_num
  BY DEF Fetch, stepVars, cacheVars
<1>8. /\ acced \in [P -> Step \cup {Absent}] /\ cache \in Seq(KV)
      /\ acc_num \in [P -> Int] /\ ub \in BOOLEAN
  BY DEF IInv, TypeOK
<1>9. kv \notin fetched /\ kv \notin ToSet(cache)
  BY DEF IInv, Fetching, Listed
<1>10. Located(t)'
  BY <1>1, <1>5, <1>6, <1>7, <1>9 DEF Located, Early, Late
<1>11. Listed'
  <2>1. \A p \in P : Cached(p)' = Cached(p)
    BY <1>7 DEF Cached
  <2>2. Listed
    BY DEF IInv
  <2> QED
    <3>1. ToSet(cache) \subseteq fetched'
      BY <1>1, <2>2 DEF Listed
    <3>2. /\ IsInjective(cache) /\ IsFiniteSet(ToSet(cache))
          /\ ~ub => Len(cache) <= MaxKV /\ \A p \in P : acc_num[p] = Cardinality(Cached(p))
      BY <2>2 DEF Listed
    <3> QED
      BY <1>7, <2>1, <3>1, <3>2 DEF Listed
<1>12. fetched \subseteq fetched' /\ fetched' \ fetched \subseteq th[t].todo \ th'[t].todo
  BY <1>1, <1>5, <1>6
<1> QED
  BY <1>3, <1>5, <1>6, <1>7, <1>8, <1>9, <1>10, <1>11, <1>12, ThreadStep

\* The test of the cache's size.
LEMMA SizeInv ==
    ASSUME IInv, NEW t \in Thread, Size(t)
    PROVE  IInv'
<1> DEFINE q == [th[t] EXCEPT !.pc = "push"]
           r == IF Len(cache) < MaxKV THEN q ELSE Idle
<1>1. th[t] \in ThreadState /\ th \in [Thread -> ThreadState]
  BY DEF IInv, TypeOK, ThreadState
<1>2. th' = [th EXCEPT ![t] = r]
  <2>1. CASE Len(cache) < MaxKV
    BY <1>1, <2>1 DEF Size
  <2>2. CASE ~(Len(cache) < MaxKV)
    BY <1>1, <2>2 DEF Size
  <2> QED
    BY <2>1, <2>2
<1>3. /\ q \in ThreadState /\ q.pc = "push" /\ q.kv = th[t].kv /\ q.todo = th[t].todo
      /\ Idle \in ThreadState /\ Idle.pc = "idle" /\ Idle.todo = {}
  BY <1>1 DEF ThreadState, Label, Idle, Step
<1> HIDE DEF q
<1>4. /\ r \in ThreadState /\ r.pc \in {"push", "idle"} /\ r.todo \subseteq th[t].todo
      /\ r.pc = "push" => r.kv = th[t].kv /\ Len(cache) < MaxKV
  BY <1>3
<1> HIDE DEF r
<1>5. th'[t] = r
  BY <1>1, <1>2
<1>6. /\ UNCHANGED <<queueVars, cached, accessed, acced, cacheVars, fetched, ub>>
      /\ cache' = cache /\ acc_num' = acc_num
  BY DEF Size, stepVars, cacheVars
<1>7. /\ acced \in [P -> Step \cup {Absent}] /\ cache \in Seq(KV)
      /\ acc_num \in [P -> Int] /\ ub \in BOOLEAN
  BY DEF IInv, TypeOK
<1>8. th[t].pc \in Late /\ th[t].kv \in fetched /\ th[t].kv \notin ToSet(cache)
  BY DEF IInv, Locals, Located, Size, At, Late
<1>9. Len(cache) < MaxKV => MaxKV > 0
  BY <1>7, BufferAssumption
<1>10. Located(t)'
  BY <1>4, <1>5, <1>6, <1>8, <1>9 DEF Located, Early, Late
<1>11. Listed'
  BY <1>6, ListedKept DEF IInv
<1>12. th'[t].pc \in Late => th'[t].kv = th[t].kv
  BY <1>4, <1>5 DEF Late
<1> QED
  BY <1>2, <1>4, <1>5, <1>6, <1>7, <1>8, <1>10, <1>11, <1>12, ThreadStep

\* The end of Cache::del.  The counts go wrong only when the entry is gone, and
\* ub is set then.
LEMMA EraseInv ==
    ASSUME IInv, NEW t \in Thread, Erase(t)
    PROVE  IInv'
<1> DEFINE r == [th[t] EXCEPT !.pc = "count"]
           kv == th[t].kv
<1>1. th[t] \in ThreadState /\ th \in [Thread -> ThreadState]
  BY DEF IInv, TypeOK, ThreadState
<1>2. th' = [th EXCEPT ![t] = r]
  BY <1>1 DEF Erase, Goto
<1>3. r \in ThreadState /\ r.pc = "count" /\ r.kv = kv /\ r.todo = th[t].todo
  BY <1>1 DEF ThreadState, Label
<1> HIDE DEF r
<1>4. th'[t] = r
  BY <1>1, <1>2
<1>5. UNCHANGED <<queueVars, cached, accessed, acced, fetched>>
  BY DEF Erase, stepVars
<1>6. /\ acced \in [P -> Step \cup {Absent}] /\ cache \in Seq(KV)
      /\ acc_num \in [P -> Int]
  BY DEF IInv, TypeOK
<1>7. kv \in KV /\ Prod[kv] \notin Local /\ Prod[kv] \in P /\ ~ub
  BY BufferAssumption DEF IInv, Locals, Located, Erase, At, Early
<1>8. /\ acc_num' = [acc_num EXCEPT ![Prod[kv]] = @ - 1]
      /\ cache' = CacheErase(cache, kv) /\ ub' = (kv \notin ToSet(cache))
  BY DEF Erase
<1> HIDE DEF kv
<1>9. Listed
  BY DEF IInv
<1>10. acc_num' \in [P -> Int] /\ ub' \in BOOLEAN
  BY <1>6, <1>7, <1>8
<1>11. /\ Listed' /\ cache' \in Seq(KV) /\ ToSet(cache') \subseteq ToSet(cache)
  <2>1. CASE kv \notin ToSet(cache)
    <3>1. cache' = cache /\ ub'
      BY <1>6, <1>8, <2>1, EraseMissing
    <3> QED
      BY <1>5, <1>6, <1>9, <3>1 DEF Listed
  <2>2. CASE kv \in ToSet(cache)
    <3>1. /\ cache' \in Seq(KV) /\ Len(cache') = Len(cache) - 1
          /\ ToSet(cache') = ToSet(cache) \ {kv} /\ IsInjective(cache')
      BY <1>6, <1>8, <1>9, <2>2, EraseThere DEF Listed
    <3>2. IsFiniteSet(ToSet(cache)) /\ IsFiniteSet(ToSet(cache'))
      BY <1>9, <3>1, FS_RemoveElement DEF Listed
    <3>3. ASSUME NEW p \in P PROVE acc_num'[p] = Cardinality(Cached(p)')
      <4>1. acc_num[p] = Cardinality(Cached(p))
        BY <1>7, <1>9 DEF Listed
      <4>2. Cardinality(Cached(p)') = Cardinality(Cached(p)) - (IF Prod[kv] = p THEN 1 ELSE 0)
        <5>1. Cardinality(Of(ToSet(cache) \ {kv}, p))
                = Cardinality(Of(ToSet(cache), p)) - (IF Prod[kv] = p THEN 1 ELSE 0)
          BY <2>2, <3>2, CountRemove
        <5> QED
          BY <3>1, <5>1 DEF Cached
      <4>3. acc_num'[p] = acc_num[p] - (IF Prod[kv] = p THEN 1 ELSE 0)
        BY <1>6, <1>7, <1>8
      <4> QED
        BY <4>1, <4>2, <4>3
    <3>4. Len(cache') <= MaxKV
      BY <1>6, <1>7, <1>9, <3>1, BufferAssumption DEF Listed
    <3>5. ToSet(cache') \subseteq fetched'
      BY <1>5, <1>9, <3>1 DEF Listed
    <3> QED
      BY <3>1, <3>2, <3>3, <3>4, <3>5 DEF Listed
  <2> QED
    BY <2>1, <2>2
<1>12. Located(t)' /\ th'[t].pc \notin Late
  BY <1>3, <1>4, <1>7 DEF Located, Early, Late
<1> QED
  BY <1>2, <1>3, <1>4, <1>5, <1>6, <1>10, <1>11, <1>12, ThreadStep

\* What one more entry does to the cache's size, members and counts.
LEMMA ListedMore ==
    ASSUME NEW c \in Seq(KV), IsInjective(c), IsFiniteSet(ToSet(c)),
           NEW num \in [P -> Int],
           \A p \in P : num[p] = Cardinality(Of(ToSet(c), p)),
           NEW kv \in KV, kv \notin ToSet(c), Len(c) < MaxKV,
           ToSet(c) \subseteq fetched', kv \in fetched',
           cache' = Append(c, kv), acc_num' = [num EXCEPT ![Prod[kv]] = @ + 1]
    PROVE  Listed'
<1>1. ToSet(cache') = ToSet(c) \cup {kv}
  BY AppendSet
<1>2. IsInjective(cache') /\ Len(cache') <= MaxKV
  <2>1. IsInjective(Append(c, kv))
    BY AppendOnce
  <2>2. Len(Append(c, kv)) = Len(c) + 1
    OBVIOUS
  <2> QED
    BY <2>1, <2>2, BufferAssumption
<1>3. IsFiniteSet(ToSet(cache'))
  BY <1>1, FS_AddElement
<1>4. ASSUME NEW p \in P PROVE acc_num'[p] = Cardinality(Cached(p)')
  <2>1. Cardinality(Cached(p)')
          = Cardinality(Of(ToSet(c), p)) + (IF Prod[kv] = p THEN 1 ELSE 0)
    BY <1>1, CountAdd DEF Cached
  <2>2. acc_num'[p] = num[p] + (IF Prod[kv] = p THEN 1 ELSE 0)
    <3>1. num[p] \in Int /\ Prod[kv] \in P
      BY BufferAssumption
    <3> QED
      BY <3>1
  <2> QED
    BY <2>1, <2>2
<1> QED
  BY <1>1, <1>2, <1>3, <1>4 DEF Listed

\* Cache::push, with and without room.
LEMMA PushInv ==
    ASSUME IInv, NEW t \in Thread, Push(t)
    PROVE  IInv'
<1> DEFINE kv == th[t].kv
<1>1. th[t] \in ThreadState /\ th \in [Thread -> ThreadState]
  BY DEF IInv, TypeOK, ThreadState
<1>2. UNCHANGED <<queueVars, cached, accessed, acced, fetched, ub>>
  BY DEF Push, stepVars
<1>3. /\ acced \in [P -> Step \cup {Absent}] /\ cache \in Seq(KV)
      /\ acc_num \in [P -> Int] /\ ub \in BOOLEAN /\ fetched \subseteq KV
  BY DEF IInv, TypeOK
<1>4. /\ kv \in fetched /\ kv \in KV /\ kv \notin ToSet(cache) /\ MaxKV > 0 /\ ~ub
      /\ th[t].pc = "push" /\ th[t].pc \in Late
  BY <1>3 DEF IInv, Locals, Located, Push, At, Late
<1>5. Listed
  BY DEF IInv
<1>6. CASE /\ Len(cache) = MaxKV
           /\ th' = [th EXCEPT ![t].pc = "evict", ![t].vic = Head(cache)]
           /\ UNCHANGED cacheVars
  <2> DEFINE r == [th[t] EXCEPT !.pc = "evict", !.vic = Head(cache)]
  <2>1. th' = [th EXCEPT ![t] = r]
    BY <1>1, <1>6
  <2>2. Head(cache) \in KV
    <3>1. cache # <<>>
      BY <1>3, <1>4, <1>6
    <3> QED
      BY <1>3, <3>1
  <2>3. /\ r \in ThreadState /\ r.pc = "evict" /\ r.kv = kv /\ r.todo = th[t].todo
        /\ r.vic \in KV
    BY <1>1, <2>2 DEF ThreadState, Label
  <2> HIDE DEF r
  <2>4. th'[t] = r
    BY <1>1, <2>1
  <2>5. cache' = cache /\ acc_num' = acc_num
    BY <1>6 DEF cacheVars
  <2>6. Located(t)'
    BY <1>2, <1>4, <2>3, <2>4, <2>5 DEF Located, Early, Late
  <2>7. Listed'
    BY <1>2, <1>5, <1>6, ListedKept
  <2> QED
    BY <1>2, <1>3, <1>4, <2>1, <2>3, <2>4, <2>5, <2>6, <2>7, ThreadStep
<1>7. CASE /\ Len(cache) # MaxKV
           /\ CachePush(kv) /\ Prefetch(t, th[t].todo)
  <2>1. cache' = Append(cache, kv) /\ acc_num' = [acc_num EXCEPT ![Prod[kv]] = @ + 1]
    BY <1>4, <1>7 DEF CachePush
  <2>2. th[t].todo \in SUBSET KV
    BY <1>1 DEF ThreadState
  <2>3. /\ th' = [th EXCEPT ![t] = th'[t]]
        /\ th'[t] \in ThreadState /\ th'[t].todo = th[t].todo
        /\ th'[t].pc \in {"idle", "fetch"} /\ th'[t].pc \notin Late
    BY <1>1, <1>7, <2>2, PrefetchState
  <2>4. Located(t)'
    BY <2>3, NotLocated
  <2>5. /\ IsInjective(cache) /\ IsFiniteSet(ToSet(cache)) /\ ToSet(cache) \subseteq fetched'
        /\ \A p \in P : acc_num[p] = Cardinality(Of(ToSet(cache), p))
        /\ Len(cache) <= MaxKV
    BY <1>2, <1>4, <1>5 DEF Listed, Cached
  <2>6. Len(cache) < MaxKV
    BY <1>3, <1>7, <2>5, BufferAssumption
  <2>7. Listed'
    BY <1>2, <1>3, <1>4, <2>1, <2>5, <2>6, ListedMore
  <2>8. /\ cache' \in Seq(KV) /\ acc_num' \in [P -> Int]
        /\ ToSet(cache') = ToSet(cache) \cup {kv}
    <3>1. Prod[kv] \in P
      BY <1>4, BufferAssumption
    <3> QED
      BY <1>3, <1>4, <2>1, <3>1, AppendSet
  <2> QED
    BY <1>2, <1>3, <1>4, <2>3, <2>4, <2>7, <2>8, ThreadStep
<1> QED
  BY <1>4, <1>6, <1>7 DEF Push

\* The end of Cache::pop and of the push that called it.
LEMMA EvictInv ==
    ASSUME IInv, NEW t \in Thread, Evict(t)
    PROVE  IInv'
<1> DEFINE kv  == th[t].kv
           vic == th[t].vic
           c   == CacheErase(cache, vic)
           num == [acc_num EXCEPT ![Prod[vic]] = @ - 1]
<1>1. th[t] \in ThreadState /\ th \in [Thread -> ThreadState]
  BY DEF IInv, TypeOK, ThreadState
<1>2. UNCHANGED <<queueVars, cached, accessed, acced, fetched>>
  BY DEF Evict, stepVars
<1>3. /\ acced \in [P -> Step \cup {Absent}] /\ cache \in Seq(KV)
      /\ acc_num \in [P -> Int] /\ fetched \subseteq KV
  BY DEF IInv, TypeOK
<1>4. /\ kv \in fetched /\ kv \in KV /\ kv \notin ToSet(cache) /\ vic \in KV /\ ~ub
      /\ th[t].pc \in Late
  BY <1>3 DEF IInv, Locals, Located, Evict, At, Late
<1>5. Listed
  BY DEF IInv
<1>6. /\ cache' = Append(c, kv) /\ acc_num' = [num EXCEPT ![Prod[kv]] = @ + 1]
      /\ ub' = (vic \notin ToSet(cache)) /\ Prefetch(t, th[t].todo)
  BY DEF Evict
<1>7. Prod[vic] \in P /\ Prod[kv] \in P
  BY <1>4, BufferAssumption
<1>8. num \in [P -> Int] /\ acc_num' \in [P -> Int] /\ ub' \in BOOLEAN
  BY <1>3, <1>6, <1>7
<1>9. th[t].todo \in SUBSET KV
  BY <1>1 DEF ThreadState
<1> HIDE DEF kv, vic, c, num
<1>10. /\ th' = [th EXCEPT ![t] = th'[t]]
       /\ th'[t] \in ThreadState /\ th'[t].todo = th[t].todo
       /\ th'[t].pc \in {"idle", "fetch"} /\ th'[t].pc \notin Late
  BY <1>1, <1>6, <1>9, PrefetchState
<1>11. Located(t)'
  BY <1>10, NotLocated
<1>12. c \in Seq(KV) /\ ToSet(c) \subseteq ToSet(cache) /\ Listed'
  <2>1. CASE vic \notin ToSet(cache)
    <3>1. c = cache /\ ub'
      BY <1>3, <1>6, <2>1, EraseMissing DEF c
    <3>2. IsInjective(cache') /\ ToSet(cache') = ToSet(cache) \cup {kv}
      BY <1>3, <1>4, <1>5, <1>6, <3>1, AppendSet, AppendOnce DEF Listed
    <3>3. IsFiniteSet(ToSet(cache')) /\ ToSet(cache') \subseteq fetched'
      <4>1. IsFiniteSet(ToSet(cache)) /\ ToSet(cache) \subseteq fetched
        BY <1>5 DEF Listed
      <4> QED
        BY <1>2, <1>4, <3>2, <4>1, FS_AddElement
    <3> QED
      BY <1>3, <3>1, <3>2, <3>3 DEF Listed
  <2>2. CASE vic \in ToSet(cache)
    <3>1. /\ IsInjective(cache) /\ IsFiniteSet(ToSet(cache)) /\ ToSet(cache) \subseteq fetched
          /\ Len(cache) <= MaxKV
          /\ \A p \in P : acc_num[p] = Cardinality(Of(ToSet(cache), p))
      BY <1>4, <1>5 DEF Listed, Cached
    <3>2. /\ c \in Seq(KV) /\ Len(c) = Len(cache) - 1
          /\ ToSet(c) = ToSet(cache) \ {vic} /\ IsInjective(c)
      BY <1>3, <2>2, <3>1, EraseThere DEF c
    <3>3. IsFiniteSet(ToSet(c))
      BY <3>1, <3>2, FS_RemoveElement
    <3>4. ASSUME NEW p \in P
          PROVE  num[p] = Cardinality(Of(ToSet(c), p))
      <4>1. Cardinality(Of(ToSet(c), p))
              = Cardinality(Of(ToSet(cache), p)) - (IF Prod[vic] = p THEN 1 ELSE 0)
        <5>1. IsFiniteSet(ToSet(cache))
          BY <3>1
        <5>2. Cardinality(Of(ToSet(cache) \ {vic}, p))
                = Cardinality(Of(ToSet(cache), p)) - (IF Prod[vic] = p THEN 1 ELSE 0)
          BY <2>2, <5>1, CountRemove
        <5> QED
          BY <3>2, <5>2
      <4>2. num[p] = acc_num[p] - (IF Prod[vic] = p THEN 1 ELSE 0)
        BY <1>3, <1>7 DEF num
      <4> QED
        BY <3>1, <4>1, <4>2
    <3>5. Len(c) < MaxKV
      BY <1>3, <3>1, <3>2, BufferAssumption
    <3>6. kv \notin ToSet(c) /\ ToSet(c) \subseteq fetched' /\ kv \in fetched'
      BY <1>2, <1>4, <3>1, <3>2
    <3>7. Listed'
      BY <1>4, <1>6, <1>8, <3>2, <3>3, <3>4, <3>5, <3>6, ListedMore
    <3> QED
      BY <3>2, <3>7
  <2> QED
    BY <2>1, <2>2
<1>13. cache' \in Seq(KV) /\ ToSet(cache') \subseteq ToSet(cache) \cup {kv}
  <2>1. ToSet(cache') = ToSet(c) \cup {kv}
    BY <1>4, <1>6, <1>12, AppendSet
  <2> QED
    BY <1>4, <1>6, <1>12, <2>1
<1> QED
  BY <1>2, <1>3, <1>4, <1>8, <1>10, <1>11, <1>12, <1>13, ThreadStep DEF kv

-----------------------------------------------------------------------------
(* The steps on the queues.                                                 *)

\* A put goes to the end of order and queue alike, behind what was passed.
LEMMA PutInv ==
    ASSUME IInv, NEW kv \in KV, Put(kv)
    PROVE  IInv'
<1> DEFINE q == Prod[kv]
<1>1. /\ order \in [P -> Seq(KV)] /\ deq \in [P -> Seq(KV)] /\ front \in [P -> Nat]
      /\ q \in P
  BY BufferAssumption DEF IInv, TypeOK
<1>2. /\ order' = [order EXCEPT ![q] = Append(order[q], kv)]
      /\ deq' = [deq EXCEPT ![q] = Append(deq[q], kv)]
      /\ UNCHANGED <<front, acced, cached, accessed, cache, acc_num, fetched, th, ub>>
  BY DEF Put, stepVars, cacheVars
<1>3. kv \notin ToSet(order[q])
  BY DEF Put, Registered
<1> HIDE DEF q
<1>4. \A p \in P : p # q => order'[p] = order[p] /\ deq'[p] = deq[p]
  BY <1>1, <1>2
<1>5. order'[q] = Append(order[q], kv) /\ deq'[q] = Append(deq[q], kv)
  BY <1>1, <1>2
<1>6. /\ order[q] \in Seq(KV) /\ Len(order'[q]) = Len(order[q]) + 1
      /\ order'[q][Len(order[q]) + 1] = kv
      /\ \A i \in 1 .. Len(order[q]) : order'[q][i] = order[q][i]
  BY <1>1, <1>5
<1>7. TypeOK'
  <2>1. order' \in [P -> Seq(KV)] /\ deq' \in [P -> Seq(KV)]
    BY <1>1, <1>2
  <2>2. TypeOK
    BY DEF IInv
  <2> QED
    BY <1>2, <2>1, <2>2 DEF TypeOK
<1>8. Orders'
  <2>1. Orders
    BY DEF IInv
  <2>2. ASSUME NEW p \in P, p # q
        PROVE  /\ \A i \in 1 .. Len(order'[p]) : Prod[order'[p][i]] = p
               /\ IsInjective(order'[p])
    BY <1>4, <2>1, <2>2 DEF Orders
  <2>3. /\ \A i \in 1 .. Len(order'[q]) : Prod[order'[q][i]] = q
        /\ IsInjective(order'[q])
    <3>1. IsInjective(order'[q])
      BY <1>1, <1>3, <1>5, <1>6, <2>1, AppendOnce DEF Orders
    <3>2. ASSUME NEW i \in 1 .. Len(order'[q]) PROVE Prod[order'[q][i]] = q
      <4>1. CASE i = Len(order[q]) + 1
        BY <1>6, <4>1 DEF q
      <4>2. CASE i # Len(order[q]) + 1
        <5>1. i \in 1 .. Len(order[q])
          BY <1>6, <4>2
        <5>2. Prod[order[q][i]] = q
          BY <1>1, <2>1, <5>1 DEF Orders
        <5> QED
          BY <1>6, <5>1, <5>2
      <4> QED
        BY <4>1, <4>2
    <3> QED
      BY <3>1, <3>2
  <2> QED
    BY <2>2, <2>3 DEF Orders
<1>9. Queues
  BY DEF IInv
<1>10. Queues'
  <2>1. ASSUME NEW p \in P, p # q
        PROVE  /\ front'[p] <= Len(order'[p])
               /\ deq'[p] = SubSeq(order'[p], front'[p] + 1, Len(order'[p]))
               /\ front'[p] <= cached'[p] + 1
    <3>1. /\ order'[p] = order[p] /\ deq'[p] = deq[p] /\ front' = front /\ cached' = cached
      BY <1>2, <1>4, <2>1
    <3> QED
      BY <1>9, <3>1 DEF Queues
  <2>2. /\ front'[q] <= Len(order'[q])
        /\ deq'[q] = SubSeq(order'[q], front'[q] + 1, Len(order'[q]))
        /\ front'[q] <= cached'[q] + 1
    <3> DEFINE s == order[q]
               f == front[q]
    <3>1. /\ f <= Len(s) /\ deq[q] = SubSeq(s, f + 1, Len(s)) /\ f <= cached[q] + 1
          /\ f \in Nat /\ s \in Seq(KV)
      BY <1>1, <1>9 DEF Queues
    <3> HIDE DEF s, f
    <3>2. Append(SubSeq(s, f + 1, Len(s)), kv) = SubSeq(Append(s, kv), f + 1, Len(s) + 1)
      BY <3>1, SuffixAppend
    <3>3. Len(Append(s, kv)) = Len(s) + 1 /\ f <= Len(s) + 1
      BY <3>1
    <3> QED
      BY <1>2, <1>5, <3>1, <3>2, <3>3 DEF s, f
  <2> QED
    BY <2>1, <2>2 DEF Queues
<1>11. ASSUME NEW x \in KV, NEW i \in 1 .. front[Prod[x]]
       PROVE  order'[Prod[x]][i] = order[Prod[x]][i]
  <2>1. Prod[x] \in P
    BY BufferAssumption
  <2>2. front[Prod[x]] <= Len(order[Prod[x]]) /\ front[Prod[x]] \in Nat
    BY <1>1, <1>9, <2>1 DEF Queues
  <2>3. order[Prod[x]] \in Seq(KV)
    BY <1>1, <2>1
  <2>4. i \in 1 .. Len(order[Prod[x]])
    BY <2>2, <2>3
  <2> QED
    BY <1>4, <1>6, <2>1, <2>4
<1>12. Passed' = Passed
  BY <1>2, <1>11 DEF Passed
<1>13. Fetching' /\ Foreign' /\ Locals' /\ Apart'
  <2>1. Fetching /\ Foreign /\ Locals /\ Apart
    BY DEF IInv
  <2>2. Fetching'
    BY <1>2, <1>12, <2>1 DEF Fetching
  <2>3. Foreign'
    BY <1>2, <2>1 DEF Foreign
  <2>4. Locals'
    BY <1>2, <2>1 DEF Locals, Located
  <2>5. Apart'
    BY <1>2, <2>1 DEF Apart
  <2> QED
    BY <2>2, <2>3, <2>4, <2>5
<1>14. Listed'
  BY <1>2, ListedKept DEF IInv, cacheVars
<1> QED
  BY <1>7, <1>8, <1>10, <1>13, <1>14 DEF IInv

\* What get_to_prefetch finds for a producer that is not ahead: the step after the
\* last one accessed, at the head of what is left of the queue if it is there yet.
LEMMA PickOne ==
    ASSUME IInv, NEW p \in P, ~Ahead(p)
    PROVE  /\ LastStep(p) = acced[p] /\ acced[p] \in Step
           /\ StepTo(p) = acced[p] + 1 /\ StepTo(p) \in Nat
           /\ Drop(p) \in Nat /\ front[p] + Drop(p) <= StepTo(p)
           /\ Rest(p) # <<>> =>
                /\ front[p] + Drop(p) = StepTo(p)
                /\ front[p] + Drop(p) + 1 <= Len(order[p])
                /\ Head(Rest(p)) = order[p][front[p] + Drop(p) + 1]
                /\ Popped(p) = SubSeq(order[p], front[p] + Drop(p) + 2, Len(order[p]))
           /\ Rest(p) = <<>> => front[p] + Drop(p) = Len(order[p])
<1> DEFINE s == order[p]
           f == front[p]
           d == Drop(p)
<1>1. /\ acced[p] \in Step \cup {Absent} /\ cached[p] \in Step
      /\ s \in Seq(KV) /\ deq[p] \in Seq(KV) /\ f \in Nat
  BY DEF IInv, TypeOK
<1>2. f <= Len(s) /\ deq[p] = SubSeq(s, f + 1, Len(s)) /\ f <= cached[p] + 1
  BY DEF IInv, Queues
<1>3. ~(cached[p] > acced[p])
  BY DEF Ahead
<1>4. acced[p] \in Step /\ cached[p] <= acced[p]
  BY <1>1, <1>3 DEF Step, Absent
<1>5. LastStep(p) = acced[p]
  BY <1>1, <1>4 DEF LastStep, Step
<1>6. StepTo(p) = acced[p] + 1 /\ StepTo(p) \in Nat /\ f <= StepTo(p)
  BY <1>1, <1>2, <1>4, <1>5 DEF StepTo, Step
<1>7. Len(deq[p]) = Len(s) - f
  BY <1>1, <1>2
<1>8. /\ d \in 0 .. Len(deq[p])
      /\ f + d <= StepTo(p)
      /\ d < Len(deq[p]) => f + d = StepTo(p)
  BY <1>1, <1>6, DropBounds
<1> HIDE DEF s, f, d
<1>9. d \in Nat /\ d <= Len(s) - f
  BY <1>1, <1>7, <1>8
<1>10. Rest(p) = SubSeq(s, f + d + 1, Len(s))
  <2>1. Rest(p) = SubSeq(SubSeq(s, f + 1, Len(s)), d + 1, Len(s) - f)
    BY <1>2, <1>7 DEF Rest, d
  <2>2. SubSeq(SubSeq(s, f + 1, Len(s)), d + 1, Len(s) - f) = SubSeq(s, f + d + 1, Len(s))
    BY <1>1, <1>2, <1>9, SuffixSuffix
  <2> QED
    BY <2>1, <2>2
<1>11. CASE d < Len(s) - f
  <2>1. f + d = StepTo(p) /\ f + d + 1 <= Len(s) /\ f + d \in Nat
    BY <1>1, <1>7, <1>8, <1>9, <1>11
  <2>2. /\ Head(SubSeq(s, f + d + 1, Len(s))) = s[f + d + 1]
        /\ Tail(SubSeq(s, f + d + 1, Len(s))) = SubSeq(s, f + d + 2, Len(s))
        /\ SubSeq(s, f + d + 1, Len(s)) # <<>>
    <3> DEFINE g == f + d
    <3>1. g \in Nat /\ g < Len(s)
      BY <1>1, <2>1
    <3> HIDE DEF g
    <3>2. /\ Head(SubSeq(s, g + 1, Len(s))) = s[g + 1]
          /\ Tail(SubSeq(s, g + 1, Len(s))) = SubSeq(s, g + 2, Len(s))
          /\ SubSeq(s, g + 1, Len(s)) # <<>>
      BY <1>1, <3>1, SuffixHead
    <3> QED
      BY <3>2 DEF g
  <2> QED
    BY <1>4, <1>5, <1>6, <1>8, <1>9, <1>10, <2>1, <2>2 DEF Popped, s, f, d
<1>12. CASE d = Len(s) - f
  <2>1. f + d = Len(s)
    BY <1>1, <1>9, <1>12
  <2>2. SubSeq(s, Len(s) + 1, Len(s)) = <<>>
    BY <1>1
  <2>3. Rest(p) = <<>>
    BY <1>10, <2>1, <2>2
  <2> QED
    BY <1>4, <1>5, <1>6, <1>8, <1>9, <2>1, <2>3 DEF s, f, d
<1> QED
  BY <1>1, <1>9, <1>11, <1>12

\* The mutex-held part: it advances each queue past what it picks, picks nothing
\* that was passed, and what it picks is what the producer registered right after
\* the last step accessed.
LEMMA Picked ==
    ASSUME IInv, NEW t \in Thread, PickApps(t)
    PROVE  /\ Queues' /\ Passed \subseteq Passed'
           /\ deq' \in [P -> Seq(KV)] /\ front' \in [P -> Nat] /\ cached' \in [P -> Step]
           /\ accessed' \subseteq P /\ accessed' \cap Local = {}
           /\ th' = [th EXCEPT ![t] = th'[t]] /\ th'[t] \in ThreadState
           /\ th'[t].pc \in {"idle", "fetch"} /\ th'[t].pc \notin Late
           /\ \A kv \in th'[t].todo :
                 /\ kv \in Passed' \ Passed /\ Prod[kv] \notin Local
                 /\ order[Prod[kv]][acced[Prod[kv]] + 2] = kv
                 /\ cached'[Prod[kv]] = acced[Prod[kv]] + 1
<1> DEFINE acc == accessed \cup {Prod[th[t].kv]}
<1>1. /\ th \in [Thread -> ThreadState] /\ accessed \subseteq P
      /\ order \in [P -> Seq(KV)] /\ deq \in [P -> Seq(KV)] /\ front \in [P -> Nat]
      /\ cached \in [P -> Step]
  BY DEF IInv, TypeOK, ThreadState
<1>2. acc \subseteq P /\ acc \cap Local = {}
  <2>1. th[t].kv \in KV /\ Prod[th[t].kv] \notin Local
    BY DEF IInv, Locals, Located, PickApps, At, Early
  <2> QED
    BY <1>1, <2>1, BufferAssumption DEF IInv, Foreign
<1>3. PICK best \in {{}} \cup {{p} : p \in acc} :
          LET S    == best \cup (acc \ CachedAcc)
              todo == {Head(Rest(p)) : p \in Picks(S)}
          IN  /\ cached' = [p \in P |-> IF p \in Picks(S) THEN StepTo(p)
                                        ELSE IF p \in S /\ ~Ahead(p) THEN LastStep(p)
                                        ELSE cached[p]]
              /\ deq' = [p \in P |-> IF p \in Picks(S) THEN Popped(p)
                                     ELSE IF p \in S /\ ~Ahead(p) THEN <<>>
                                     ELSE deq[p]]
              /\ front' = [p \in P |-> IF p \in Picks(S) THEN front[p] + Drop(p) + 1
                                       ELSE IF p \in S /\ ~Ahead(p) THEN front[p] + Drop(p)
                                       ELSE front[p]]
              /\ Prefetch(t, IF WPrefetch THEN todo ELSE {})
  BY DEF PickApps
<1> DEFINE S    == best \cup (acc \ CachedAcc)
           todo == {Head(Rest(p)) : p \in Picks(S)}
<1>4. S \subseteq acc
  BY <1>3
<1>5. accessed' = acc /\ order' = order
  BY DEF PickApps
<1>6. Prefetch(t, IF WPrefetch THEN todo ELSE {})
  BY <1>3
<1>7. ASSUME NEW p \in P
      PROVE  /\ p \in Picks(S) => /\ cached'[p] = StepTo(p) /\ deq'[p] = Popped(p)
                                  /\ front'[p] = front[p] + Drop(p) + 1
             /\ p \notin Picks(S) /\ p \in S /\ ~Ahead(p) =>
                   cached'[p] = LastStep(p) /\ deq'[p] = <<>> /\ front'[p] = front[p] + Drop(p)
             /\ p \notin Picks(S) /\ ~(p \in S /\ ~Ahead(p)) =>
                   cached'[p] = cached[p] /\ deq'[p] = deq[p] /\ front'[p] = front[p]
  BY <1>3
<1>8. DOMAIN cached' = P /\ DOMAIN deq' = P /\ DOMAIN front' = P
  BY <1>3
<1>9. /\ cached' = [p \in P |-> cached'[p]] /\ deq' = [p \in P |-> deq'[p]]
      /\ front' = [p \in P |-> front'[p]]
  BY <1>3
<1>10. \A p \in P : /\ p \in Picks(S) => p \in S /\ ~Ahead(p) /\ Rest(p) # <<>>
                    /\ p \notin Picks(S) /\ p \in S /\ ~Ahead(p) => Rest(p) = <<>>
  BY DEF Picks
<1>11. Picks(S) \subseteq S
  BY DEF Picks
<1> HIDE DEF S, acc
\* One producer's queue and steps.
<1>12. ASSUME NEW p \in P
       PROVE  /\ front'[p] \in Nat /\ front[p] <= front'[p] /\ front'[p] <= Len(order[p])
              /\ deq'[p] \in Seq(KV) /\ cached'[p] \in Step
              /\ deq'[p] = SubSeq(order[p], front'[p] + 1, Len(order[p]))
              /\ front'[p] <= cached'[p] + 1
  <2>1. order[p] \in Seq(KV) /\ deq[p] \in Seq(KV) /\ front[p] \in Nat /\ cached[p] \in Step
    BY <1>1
  <2>2. CASE p \in Picks(S)
    <3>1. /\ cached'[p] = StepTo(p) /\ deq'[p] = Popped(p)
          /\ front'[p] = front[p] + Drop(p) + 1 /\ ~Ahead(p) /\ Rest(p) # <<>>
      BY <1>7, <1>10, <2>2
    <3>2. /\ StepTo(p) \in Nat /\ Drop(p) \in Nat /\ front[p] + Drop(p) = StepTo(p)
          /\ front[p] + Drop(p) + 1 <= Len(order[p])
          /\ Popped(p) = SubSeq(order[p], front[p] + Drop(p) + 2, Len(order[p]))
      BY <3>1, PickOne
    <3>3. /\ front'[p] \in Nat /\ front[p] <= front'[p] /\ front'[p] <= Len(order[p])
          /\ front'[p] + 1 = front[p] + Drop(p) + 2 /\ front'[p] <= cached'[p] + 1
          /\ cached'[p] \in Step
      <4> DEFINE f == front[p]
                 d == Drop(p)
                 k == StepTo(p)
                 n == Len(order[p])
      <4>1. f \in Nat /\ d \in Nat /\ k \in Nat /\ n \in Nat /\ f + d = k /\ f + d + 1 <= n
        BY <2>1, <3>2
      <4>2. front'[p] = f + d + 1 /\ cached'[p] = k
        BY <3>1
      <4> HIDE DEF f, d, k, n
      <4>3. /\ f + d + 1 \in Nat /\ f <= f + d + 1 /\ (f + d + 1) + 1 = f + d + 2
            /\ f + d + 1 <= k + 1 /\ k \in Step
        BY <4>1 DEF Step
      <4>4. /\ front'[p] \in Nat /\ f <= front'[p] /\ front'[p] <= n
            /\ front'[p] + 1 = f + d + 2 /\ front'[p] <= cached'[p] + 1
            /\ cached'[p] \in Step
        BY <4>1, <4>2, <4>3, Zenon
      <4> QED
        BY <4>4 DEF f, d, k, n
    <3>4. deq'[p] = SubSeq(order[p], front'[p] + 1, Len(order[p]))
      BY <3>1, <3>2, <3>3
    <3>5. SubSeq(order[p], front'[p] + 1, Len(order[p])) \in Seq(KV)
      BY <2>1, <3>3
    <3> QED
      BY <3>3, <3>4, <3>5
  <2>3. CASE p \notin Picks(S) /\ p \in S /\ ~Ahead(p)
    <3>1. /\ cached'[p] = LastStep(p) /\ deq'[p] = <<>>
          /\ front'[p] = front[p] + Drop(p) /\ Rest(p) = <<>>
      BY <1>7, <1>10, <2>3
    <3>2. /\ LastStep(p) = acced[p] /\ acced[p] \in Step /\ StepTo(p) = acced[p] + 1
          /\ Drop(p) \in Nat /\ front[p] + Drop(p) <= StepTo(p)
          /\ front[p] + Drop(p) = Len(order[p])
      BY <2>3, <3>1, PickOne
    <3>3. /\ front'[p] \in Nat /\ front[p] <= front'[p] /\ front'[p] = Len(order[p])
          /\ front'[p] <= cached'[p] + 1 /\ cached'[p] \in Step
      BY <2>1, <3>1, <3>2 DEF Step
    <3>4. SubSeq(order[p], Len(order[p]) + 1, Len(order[p])) = <<>> /\ <<>> \in Seq(KV)
      BY <2>1
    <3> QED
      BY <2>1, <3>1, <3>3, <3>4
  <2>4. CASE p \notin Picks(S) /\ ~(p \in S /\ ~Ahead(p))
    <3>1. cached'[p] = cached[p] /\ deq'[p] = deq[p] /\ front'[p] = front[p]
      BY <1>7, <2>4
    <3>2. /\ front[p] <= Len(order[p]) /\ front[p] <= cached[p] + 1
          /\ deq[p] = SubSeq(order[p], front[p] + 1, Len(order[p]))
      BY DEF IInv, Queues
    <3> QED
      BY <2>1, <3>1, <3>2
  <2> QED
    BY <2>2, <2>3, <2>4
<1>13. Queues'
  BY <1>5, <1>12 DEF Queues
<1>14. deq' \in [P -> Seq(KV)] /\ front' \in [P -> Nat] /\ cached' \in [P -> Step]
  BY <1>9, <1>12
<1>15. Passed \subseteq Passed'
  <2>1. ASSUME NEW kv \in Passed PROVE kv \in Passed'
    <3>1. kv \in KV /\ Prod[kv] \in P
      BY BufferAssumption DEF Passed
    <3>2. PICK i \in 1 .. front[Prod[kv]] : order[Prod[kv]][i] = kv
      BY DEF Passed
    <3>3. i \in 1 .. front'[Prod[kv]]
      BY <1>1, <1>12, <3>1
    <3> QED
      BY <1>5, <3>1, <3>2, <3>3 DEF Passed
  <2> QED
    BY <2>1
\* One pick.
<1>16. ASSUME NEW kv \in todo
       PROVE  /\ kv \in KV /\ kv \in Passed' \ Passed /\ Prod[kv] \notin Local
              /\ order[Prod[kv]][acced[Prod[kv]] + 2] = kv
              /\ cached'[Prod[kv]] = acced[Prod[kv]] + 1
  <2>1. PICK p \in Picks(S) : kv = Head(Rest(p))
    OBVIOUS
  <2>2. p \in P /\ p \notin Local /\ ~Ahead(p) /\ Rest(p) # <<>>
    BY <1>2, <1>4, <1>10, <1>11, <2>1
  <2>3. /\ StepTo(p) = acced[p] + 1 /\ acced[p] \in Step /\ Drop(p) \in Nat
        /\ front[p] + Drop(p) = StepTo(p)
        /\ front[p] + Drop(p) + 1 <= Len(order[p])
        /\ Head(Rest(p)) = order[p][front[p] + Drop(p) + 1]
    BY <2>2, PickOne
  <2> DEFINE k == front[p] + Drop(p) + 1
  <2>4. /\ k \in 1 .. Len(order[p]) /\ k = acced[p] + 2 /\ k > front[p]
        /\ order[p] \in Seq(KV) /\ front[p] \in Nat /\ order[p][k] = kv
    BY <1>1, <2>1, <2>2, <2>3 DEF Step
  <2>5. cached'[p] = acced[p] + 1 /\ front'[p] = k
    BY <1>7, <2>1, <2>2, <2>3
  <2> HIDE DEF k
  <2>6. kv \in KV
    BY <2>4
  <2>7. Prod[kv] = p
    BY <2>2, <2>4 DEF IInv, Orders
  <2>8. kv \in Passed'
    <3>1. k \in 1 .. front'[Prod[kv]] /\ order'[Prod[kv]][k] = kv
      BY <1>5, <2>4, <2>5, <2>7
    <3> QED
      BY <2>6, <3>1 DEF Passed
  <2>9. kv \notin Passed
    <3>1. IsInjective(order[p]) /\ front[p] <= Len(order[p])
      BY <2>2 DEF IInv, Orders, Queues
    <3>2. SUFFICES ASSUME NEW i \in 1 .. front[p], order[p][i] = kv PROVE FALSE
      BY <2>7 DEF Passed
    <3>3. i \in 1 .. Len(order[p]) /\ i # k
      BY <2>4, <3>1
    <3>4. i = k
      BY <2>4, <3>1, <3>2, <3>3 DEF IsInjective
    <3> QED
      BY <3>3, <3>4
  <2> QED
    BY <2>2, <2>4, <2>5, <2>6, <2>7, <2>8, <2>9
<1> DEFINE T == IF WPrefetch THEN todo ELSE {}
<1>17. T \subseteq todo /\ T \in SUBSET KV
  BY <1>16
<1> HIDE DEF todo
<1>18. /\ th' = [th EXCEPT ![t] = th'[t]] /\ th'[t] \in ThreadState
       /\ th'[t].pc \in {"idle", "fetch"} /\ th'[t].pc \notin Late /\ th'[t].todo = T
  <2>1. Prefetch(t, T)
    BY <1>6
  <2> HIDE DEF T
  <2> QED
    BY <1>1, <1>17, <2>1, PrefetchState
<1> HIDE DEF T
<1>19. accessed' \subseteq P /\ accessed' \cap Local = {}
  BY <1>2, <1>5
<1>20. \A kv \in th'[t].todo :
          /\ kv \in Passed' \ Passed /\ Prod[kv] \notin Local
          /\ order[Prod[kv]][acced[Prod[kv]] + 2] = kv
          /\ cached'[Prod[kv]] = acced[Prod[kv]] + 1
  BY <1>16, <1>17, <1>18
<1> QED
  BY <1>13, <1>14, <1>15, <1>18, <1>19, <1>20

\* The picks of two threads stay apart, since each was not passed before.
LEMMA PickInv ==
    ASSUME IInv, NEW t \in Thread, PickApps(t)
    PROVE  IInv'
<1>1. /\ Queues' /\ Passed \subseteq Passed'
      /\ deq' \in [P -> Seq(KV)] /\ front' \in [P -> Nat] /\ cached' \in [P -> Step]
      /\ accessed' \subseteq P /\ accessed' \cap Local = {}
      /\ th' = [th EXCEPT ![t] = th'[t]] /\ th'[t] \in ThreadState
      /\ th'[t].pc \in {"idle", "fetch"} /\ th'[t].pc \notin Late
      /\ \A kv \in th'[t].todo : kv \in Passed' \ Passed /\ Prod[kv] \notin Local
  BY Picked
<1>2. UNCHANGED <<order, acced, cache, acc_num, fetched, ub>>
  BY DEF PickApps, cacheVars
<1>3. th \in [Thread -> ThreadState]
  BY DEF IInv, TypeOK, ThreadState
<1>4. \A u \in Thread : u # t => th'[u] = th[u]
  BY <1>1, <1>3
<1>5. TypeOK'
  <2>1. th' \in [Thread -> ThreadState]
    BY <1>1, <1>3
  <2>2. TypeOK
    BY DEF IInv
  <2> QED
    BY <1>1, <1>2, <2>1, <2>2 DEF TypeOK, ThreadState
<1>6. Orders'
  BY <1>2 DEF IInv, Orders
<1>7. Fetching'
  <2>1. Fetching
    BY DEF IInv
  <2>2. fetched' \subseteq Passed'
    BY <1>1, <1>2, <2>1 DEF Fetching
  <2>3. th'[t].todo \subseteq Passed' \ fetched'
    BY <1>1, <1>2, <2>1 DEF Fetching
  <2>4. ASSUME NEW u \in Thread, u # t
        PROVE  th'[u].todo \subseteq Passed' \ fetched' /\ th'[u].todo \cap th'[t].todo = {}
    <3>1. th'[u].todo = th[u].todo /\ th[u].todo \subseteq Passed \ fetched
      BY <1>4, <2>1, <2>4 DEF Fetching
    <3> QED
      BY <1>1, <1>2, <3>1
  <2>5. ASSUME NEW u \in Thread, NEW v \in Thread, u # v
        PROVE  th'[u].todo \cap th'[v].todo = {}
    <3>1. CASE u # t /\ v # t
      BY <1>4, <2>1, <2>5, <3>1 DEF Fetching
    <3>2. CASE u = t \/ v = t
      BY <2>4, <2>5, <3>2
    <3> QED
      BY <3>1, <3>2
  <2> QED
    BY <2>2, <2>3, <2>4, <2>5 DEF Fetching
<1>8. Foreign'
  <2>1. Foreign
    BY DEF IInv
  <2>2. ASSUME NEW u \in Thread, NEW kv \in th'[u].todo PROVE Prod[kv] \notin Local
    BY <1>1, <1>4, <2>1 DEF Foreign
  <2> QED
    BY <1>1, <1>2, <2>1, <2>2 DEF Foreign
<1>9. Locals'
  <2>1. ASSUME NEW u \in Thread, u # t PROVE Located(u)'
    BY <1>2, <1>4, <2>1 DEF IInv, Locals, Located
  <2>2. Located(t)'
    BY <1>1, NotLocated
  <2> QED
    BY <2>1, <2>2 DEF Locals
<1>10. Apart'
  <2>1. ASSUME NEW u \in Thread, NEW v \in Thread, u # v,
               th'[u].pc \in Late, th'[v].pc \in Late
        PROVE  th'[u].kv # th'[v].kv
    BY <1>1, <1>4, <2>1 DEF IInv, Apart
  <2> QED
    BY <2>1 DEF Apart
<1>11. Listed'
  BY <1>2, ListedKept DEF IInv, cacheVars
<1> QED
  BY <1>1, <1>5, <1>6, <1>7, <1>8, <1>9, <1>10, <1>11 DEF IInv

\* Nothing changes.
LEMMA StutterInv ==
    ASSUME IInv, UNCHANGED vars
    PROVE  IInv'
<1>1. /\ UNCHANGED <<order, deq, front, acced, cached, cache, acc_num, accessed>>
      /\ UNCHANGED <<fetched, th, ub>>
  BY DEF vars, queueVars, stepVars, cacheVars
<1>2. TypeOK'
  BY <1>1 DEF IInv, TypeOK
<1>3. Orders' /\ Queues' /\ Passed' = Passed
  BY <1>1, QueuesKept DEF IInv, queueVars
<1>4. Fetching'
  BY <1>1, <1>3 DEF IInv, Fetching
<1>5. Foreign' /\ Apart'
  BY <1>1 DEF IInv, Foreign, Apart
<1>6. Locals'
  BY <1>1 DEF IInv, Locals, Located
<1>7. Listed'
  BY <1>1, ListedKept DEF IInv, cacheVars
<1> QED
  BY <1>2, <1>3, <1>4, <1>5, <1>6, <1>7 DEF IInv

-----------------------------------------------------------------------------
(* The theorems.                                                            *)

\* The invariant holds in every reachable state.
THEOREM Invariance == Spec => []IInv
<1>1. IInv /\ [Next]_vars => IInv'
  <2> SUFFICES ASSUME IInv, [Next]_vars PROVE IInv'
    OBVIOUS
  <2>1. ASSUME NEW kv \in KV, Put(kv) PROVE IInv'
    BY <2>1, PutInv
  <2>2. ASSUME NEW t \in Thread, NEW kv \in KV, Access(t, kv) PROVE IInv'
    BY <2>2, AccessInv
  <2>3. ASSUME NEW t \in Thread, AccessStep(t) PROVE IInv'
    BY <2>3, EraseInv, CountInv, InitStepInv, ReadStepInv, WriteStepInv, PickInv,
       FetchInv, SizeInv, PushInv, EvictInv DEF AccessStep
  <2>4. CASE UNCHANGED vars
    BY <2>4, StutterInv
  <2> QED
    BY <2>1, <2>2, <2>3, <2>4 DEF Next
<1> QED
  BY InitInv, <1>1, PTL DEF Spec

\* What the master says a site's buffer holds, for any number of add_access
\* threads: within max_num_key_ver, each pair once, prefetched, counted for its
\* producer in acc_num_map, and none of the site's own, up to the first erase of
\* an entry that another thread has erased during del's or pop's callback.
THEOREM BufferHolds == Spec => []BufferSound
<1>1. IInv => BufferSound
  <2> SUFFICES ASSUME IInv PROVE BufferSound
    OBVIOUS
  <2>1. CacheSound
    BY DEF IInv, Listed, Cached, Of, CacheSound
  <2>2. NoIntersection
    <3>1. \A kv \in ToSet(cache) : kv \in fetched
      BY DEF IInv, Listed
    <3>2. \A kv \in Pending : \E t \in Thread : kv \in th[t].todo
      BY DEF Pending
    <3> QED
      BY <3>1, <3>2 DEF IInv, Foreign, NoIntersection
  <2> QED
    BY <2>1, <2>2 DEF IInv, BufferSound
<1> QED
  BY <1>1, Invariance, PTL

\* A step of another action than PickApps picks nothing.
LEMMA NoPick ==
    ASSUME IInv, NEW t \in Thread, AccessStep(t), ~PickApps(t)
    PROVE  \A u \in Thread : th'[u].todo \subseteq th[u].todo
<1>1. th \in [Thread -> ThreadState]
  BY DEF IInv, TypeOK, ThreadState
<1>2. ASSUME \/ Erase(t) \/ Count(t) \/ InitStep(t) \/ ReadStep(t) \/ WriteStep(t)
      PROVE  \A u \in Thread : th'[u].todo = th[u].todo
  BY <1>1, <1>2 DEF Erase, Count, InitStep, ReadStep, WriteStep, Goto, ThreadState
<1>3. CASE Fetch(t)
  BY <1>1, <1>3 DEF Fetch, ThreadState
<1>4. CASE Size(t)
  BY <1>1, <1>4 DEF Size, ThreadState, Idle
<1>5. th[t].todo \in SUBSET KV
  BY <1>1 DEF ThreadState
<1>6. ASSUME Prefetch(t, th[t].todo)
      PROVE  \A u \in Thread : th'[u].todo \subseteq th[u].todo
  <2>1. th' = [th EXCEPT ![t] = th'[t]] /\ th'[t].todo = th[t].todo
    BY <1>1, <1>5, <1>6, PrefetchState
  <2> QED
    BY <1>1, <2>1
<1>7. CASE Push(t)
  <2>1. CASE th' = [th EXCEPT ![t].pc = "evict", ![t].vic = Head(cache)]
    BY <1>1, <2>1 DEF ThreadState
  <2> QED
    BY <1>6, <1>7, <2>1 DEF Push
<1>8. CASE Evict(t)
  BY <1>6, <1>8 DEF Evict
<1> QED
  BY <1>2, <1>3, <1>4, <1>7, <1>8 DEF AccessStep

\* The pairs of a producer are prefetched in the order it registered them, each
\* once and right after the last one accessed, however many threads share its
\* queue and lose each other's increments of the step numbers.
THEOREM PrefetchHolds == Spec => PrefetchInTurn
<1>1. IInv => DequeSteps /\ PrefetchOnce
  <2> SUFFICES ASSUME IInv PROVE DequeSteps /\ PrefetchOnce
    OBVIOUS
  <2>1. DequeSteps
    BY DEF IInv, Queues, DequeSteps
  <2>2. ASSUME NEW p \in P, NEW kv \in ToSet(deq[p]) PROVE kv \notin Passed
    <3>1. order[p] \in Seq(KV) /\ front[p] \in Nat
      BY DEF IInv, TypeOK
    <3>2. /\ deq[p] = SubSeq(order[p], front[p] + 1, Len(order[p]))
          /\ front[p] <= Len(order[p])
      BY DEF IInv, Queues
    <3>3. IsInjective(order[p]) /\ \A i \in 1 .. Len(order[p]) : Prod[order[p][i]] = p
      BY DEF IInv, Orders
    <3>4. PICK i \in DOMAIN deq[p] : deq[p][i] = kv
      BY <2>2 DEF ToSet
    <3> DEFINE k == front[p] + i
    <3>5. i \in DOMAIN SubSeq(order[p], front[p] + 1, Len(order[p]))
      BY <3>2, <3>4
    <3>6. k \in 1 .. Len(order[p]) /\ k > front[p] /\ order[p][k] = kv
      BY <3>1, <3>2, <3>4, <3>5, SuffixMember
    <3> HIDE DEF k
    <3>7. Prod[kv] = p
      BY <3>3, <3>6
    <3>8. SUFFICES ASSUME NEW j \in 1 .. front[p], order[p][j] = kv PROVE FALSE
      BY <3>7 DEF Passed
    <3>9. j \in 1 .. Len(order[p]) /\ j # k
      BY <3>1, <3>2, <3>6
    <3>10. j = k
      BY <3>1, <3>3, <3>6, <3>8, <3>9 DEF IsInjective
    <3> QED
      BY <3>9, <3>10
  <2>3. \A kv \in Pending : kv \in Passed /\ kv \notin fetched
    BY DEF IInv, Fetching, Pending
  <2>4. fetched \subseteq Passed
    BY DEF IInv, Fetching
  <2>5. PrefetchOnce
    BY <2>2, <2>3, <2>4 DEF IInv, Fetching, PrefetchOnce
  <2> QED
    BY <2>1, <2>5
<1>2. IInv /\ [Next]_vars
      => [\A t \in Thread : \A kv \in th'[t].todo \ th[t].todo :
            LET p == Prod[kv]
            IN  order[p][acced[p] + 2] = kv /\ cached'[p] = acced[p] + 1]_vars
  <2> SUFFICES ASSUME IInv, Next, NEW u \in Thread, NEW kv \in th'[u].todo \ th[u].todo
               PROVE  /\ order[Prod[kv]][acced[Prod[kv]] + 2] = kv
                      /\ cached'[Prod[kv]] = acced[Prod[kv]] + 1
    OBVIOUS
  <2>1. th \in [Thread -> ThreadState]
    BY DEF IInv, TypeOK, ThreadState
  <2>2. ASSUME NEW x \in KV, Put(x) PROVE FALSE
    BY <2>2 DEF Put
  <2>3. ASSUME NEW t \in Thread, NEW x \in KV, Access(t, x) PROVE FALSE
    BY <2>1, <2>3 DEF Access, ThreadState
  <2>4. ASSUME NEW t \in Thread, AccessStep(t), ~PickApps(t) PROVE FALSE
    BY <2>4, NoPick
  <2>5. PICK t \in Thread : PickApps(t)
    BY <2>2, <2>3, <2>4 DEF Next
  <2>6. th' = [th EXCEPT ![t] = th'[t]]
    BY <2>5, Picked
  <2>7. u = t
    BY <2>1, <2>6
  <2> QED
    BY <2>5, <2>7, Picked
<1> QED
  BY <1>1, <1>2, Invariance, PTL DEF Spec, PrefetchInTurn, PrefetchNext
=============================================================================
