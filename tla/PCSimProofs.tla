---------------------------- MODULE PCSimProofs ----------------------------
(***************************************************************************)
(* Proofs about the simulators, for any number of producers and consumers. *)
(*                                                                         *)
(* IInv is inductive.  How far a producer has come says what is in the     *)
(* space and at its site (Produced); a consumer is the only one to wait on *)
(* its point, so that the notification for its datum is its own (Parked);  *)
(* hence one that misses what has been announced was late (Missed).        *)
(***************************************************************************)
EXTENDS PCSim, SyncerProofs

\* The data of producer i up to which kv_v, and its site's list, have come.
Known(i, n)  == n < p[i].n \/ (n = p[i].n /\ p[i].pc # "put")
Stored(i, n) == n < p[i].n \/ (n = p[i].n /\ p[i].pc = "notify")

\* What is in the space, and where.
Produced ==
    /\ mode.spatial =>
          /\ kv_v \subseteq {Whole}
          /\ Whole \in kv_v => \E d \in Ds : Whole \in ds_kv[d]
          /\ \A i \in Id : p[i].pc = "put"
    /\ ~mode.spatial =>
          /\ Whole \notin kv_v
          /\ \A i \in Id : \A n \in Nat : <<i, n>> \in kv_v <=> Known(i, n)
          /\ \A i \in Id : \A n \in Nat : Stored(i, n) => <<i, n>> \in ds_kv[PDs[i]]

\* Threads inside a put or a get have one left.
InRange ==
    \A i \in Id : /\ p[i].pc # "put" => p[i].n < Num
                  /\ c[i].pc # "query" => c[i].n < Num

\* A query that goes on to the sites has found its datum in the space.
Found == \A i \in Id : c[i].pc = "sites" => InSpace(Item(i))

\* A consumer that waits is parked on the point of its datum, or was released; and
\* nobody else is on that point.
Parked ==
    /\ \A i \in Id : c[i].pc = "parked" =>
          i \in sync.woken \/ (<<Item(i), i>> \in sync.parked /\ Item(i) \in sync.pts)
    /\ \A x \in sync.parked : x[1] = Item(x[2]) /\ c[x[2]].pc = "parked"

\* One that waits for what was announced was released, or is late.
Missed ==
    \A i \in Id : c[i].pc \in {"wait", "parked"} =>
        \/ i \in late \cup sync.woken
        \/ /\ mode.spatial => Whole \notin kv_v
           /\ ~mode.spatial => c[i].n >= p[i].n

IInv == TypeOK /\ Produced /\ InRange /\ Found /\ Parked /\ Missed

-----------------------------------------------------------------------------
(* Producers.                                                               *)

\* A datum is a pair, and Whole is none.
LEMMA DataParts ==
    /\ \A i \in Id : \A n \in 0 .. Num - 1 : <<i, n>> \in Data
    /\ \A x \in Data : \E i \in Id : \E n \in 0 .. Num - 1 : x = <<i, n>>
    /\ \A i \in Id : \A n \in Nat : <<i, n>> # Whole
    /\ Num \in Nat
BY SimAssumption DEF Data

\* PutSpace makes its datum known to the space, before any site has it.
LEMMA PutSpaceKeeps ==
    ASSUME IInv, NEW i \in Id, PutSpace(i)
    PROVE  IInv'
<1> USE DEF IInv
<1>1. /\ p[i].n \in 0 .. Num - 1 /\ p[i].pc = "put" /\ p[i].n \in Nat
      /\ kv_v' = kv_v \cup {<<i, p[i].n>>}
      /\ p' = [p EXCEPT ![i] = [pc |-> "push", n |-> p[i].n]]
      /\ ~mode.spatial /\ UNCHANGED <<mode, ds_kv, buffer, c, get_type, sync, late>>
  BY DataParts DEF PutSpace, PGoes, TypeOK
<1>2. TypeOK'
  BY <1>1, DataParts DEF TypeOK
<1>3. Produced'
  BY <1>1, DataParts DEF Produced, TypeOK, Known, Stored
<1>4. InRange'
  BY <1>1, DataParts DEF InRange, TypeOK
<1>5. Found' /\ Parked'
  BY <1>1 DEF Found, Parked, InSpace, Item
<1>6. Missed'
  BY <1>1 DEF Missed, TypeOK
<1> QED
  BY <1>2, <1>3, <1>4, <1>5, <1>6

\* PutDs lists it at the producer's site.
LEMMA PutDsKeeps ==
    ASSUME IInv, NEW i \in Id, PutDs(i)
    PROVE  IInv'
<1> USE DEF IInv
<1>1. /\ p[i].n \in 0 .. Num - 1 /\ p[i].n \in Nat /\ p[i].pc = "push" /\ PDs[i] \in Ds
      /\ ds_kv' = [ds_kv EXCEPT ![PDs[i]] = @ \cup {<<i, p[i].n>>}]
      /\ p' = [p EXCEPT ![i] = [pc |-> "notify", n |-> p[i].n]]
      /\ ~mode.spatial /\ UNCHANGED <<mode, kv_v, buffer, c, get_type, sync, late>>
  <2>1. p[i].pc = "push" /\ p[i].n < Num /\ p[i].n \in 0 .. Num
    BY DEF PutDs, TypeOK, InRange
  <2>2. ~mode.spatial
    BY <2>1 DEF Produced
  <2>3. p[i].n \in 0 .. Num - 1 /\ p[i].n \in Nat
    BY <2>1, DataParts
  <2> QED
    BY <2>1, <2>2, <2>3, SimAssumption DEF PutDs, PGoes
<1>2. TypeOK'
  BY <1>1, DataParts DEF TypeOK
<1>3. Produced'
  <2>1. \A j \in Id : PDs[j] \in Ds /\ ds_kv[PDs[j]] \subseteq ds_kv'[PDs[j]]
    BY <1>1, SimAssumption DEF TypeOK
  <2>2. <<i, p[i].n>> \in ds_kv'[PDs[i]]
    BY <1>1 DEF TypeOK
  <2>3. \A j \in Id : \A n \in Nat : Stored(j, n)' => Stored(j, n) \/ (j = i /\ n = p[i].n)
    BY <1>1 DEF Stored, TypeOK
  <2>4. \A j \in Id : \A n \in Nat : Known(j, n) <=> Known(j, n)'
    BY <1>1 DEF Known, TypeOK
  <2> QED
    BY <1>1, <2>1, <2>2, <2>3, <2>4 DEF Produced
<1>4. InRange'
  BY <1>1, DataParts DEF InRange, TypeOK
<1>5. Found' /\ Parked'
  BY <1>1 DEF Found, Parked, InSpace, Item
<1>6. Missed'
  BY <1>1 DEF Missed, TypeOK
<1> QED
  BY <1>2, <1>3, <1>4, <1>5, <1>6

\* A notification for a datum releases its consumer, if that one is parked and was not
\* released before, and nobody else.
LEMMA NotifyOwn ==
    ASSUME IInv, NEW i \in Id, NEW n \in Nat, NEW s \in Notify(sync, <<i, n>>)
    PROVE  /\ s.parked \subseteq sync.parked /\ s.pts = sync.pts /\ sync.woken \subseteq s.woken
           /\ \A j \in Id : \A m \in Nat :
                 <<<<j, m>>, j>> \in sync.parked => <<<<j, m>>, j>> \in s.parked \/ j \in s.woken
           /\ c[i].pc = "parked" /\ c[i].n = n => i \in s.woken
<1> USE DEF IInv
<1> DEFINE W == {x \in sync.parked : x[1] = <<i, n>>}
<1>1. CASE <<i, n>> \in sync.pts /\ W # {}
  <2>1. PICK x \in W : s = [pts |-> sync.pts, parked |-> sync.parked \ {x}, woken |-> sync.woken \cup {x[2]}]
    BY <1>1 DEF Notify
  <2>2. x[2] \in Id /\ x[1] = <<x[2], c[x[2]].n>> /\ x[1] = <<i, n>>
    BY <2>1 DEF Parked, Item, TypeOK, SyncerType
  <2>3. x[2] = i
    BY <2>2
  <2>4. \A j \in Id : \A m \in Nat : <<<<j, m>>, j>> = x => x[2] = j
    OBVIOUS
  <2> QED
    BY <2>1, <2>3, <2>4
<1>2. CASE ~(<<i, n>> \in sync.pts /\ W # {})
  <2>1. s = sync
    BY <1>2 DEF Notify
  <2>2. ~(<<<<i, n>>, i>> \in sync.parked /\ <<i, n>> \in sync.pts)
    BY <1>2
  <2> QED
    BY <2>1, <2>2 DEF Parked, Item
<1> QED
  BY <1>1, <1>2

\* A notification leaves nobody behind who is parked: the others are between query and
\* wait, and late.
LEMMA NotifyGetKeeps ==
    ASSUME IInv, NEW i \in Id, NotifyGet(i)
    PROVE  IInv'
<1> USE DEF IInv
<1>1. /\ p[i].n \in 0 .. Num - 1 /\ p[i].n \in Nat /\ p[i].pc = "notify"
      /\ sync' \in Notify(sync, <<i, p[i].n>>) /\ late' = late \cup Between(<<i, p[i].n>>)
      /\ p' = [p EXCEPT ![i] = [pc |-> "put", n |-> p[i].n + 1]]
      /\ ~mode.spatial /\ UNCHANGED <<mode, kv_v, ds_kv, buffer, c, get_type>>
  <2>1. p[i].pc = "notify" /\ p[i].n < Num /\ p[i].n \in 0 .. Num
    BY DEF NotifyGet, TypeOK, InRange
  <2>2. ~mode.spatial
    BY <2>1 DEF Produced
  <2>3. p[i].n \in 0 .. Num - 1 /\ p[i].n \in Nat
    BY <2>1, DataParts
  <2> QED
    BY <2>1, <2>2, <2>3 DEF NotifyGet, PGoes
<1>p. /\ p'[i].pc = "put" /\ p'[i].n = p[i].n + 1 /\ \A j \in Id \ {i} : p'[j] = p[j]
      /\ p' \in [Id -> [pc : {"put", "push", "notify"}, n : 0 .. Num]]
      /\ \A j \in Id : c[j].n \in Nat /\ p[j].n \in Nat
  <2>1. [pc |-> "put", n |-> p[i].n + 1] \in [pc : {"put", "push", "notify"}, n : 0 .. Num]
    BY <1>1, DataParts
  <2> QED
    BY <1>1, <2>1, DataParts DEF TypeOK
<1>2. /\ sync'.parked \subseteq sync.parked /\ sync'.pts = sync.pts /\ sync.woken \subseteq sync'.woken
      /\ \A j \in Id : \A m \in Nat :
            <<<<j, m>>, j>> \in sync.parked => <<<<j, m>>, j>> \in sync'.parked \/ j \in sync'.woken
      /\ c[i].pc = "parked" /\ c[i].n = p[i].n => i \in sync'.woken
  BY <1>1, NotifyOwn
<1>3. TypeOK'
  <2>1. sync' \in SyncerType(Data, Id)
    BY <1>1, NotifyType DEF TypeOK
  <2>2. late' \subseteq Id
    BY <1>1 DEF TypeOK, Between
  <2> QED
    BY <1>1, <1>p, <2>1, <2>2 DEF TypeOK
<1>4. Produced'
  <2>1. \A j \in Id : \A n \in Nat : (Stored(j, n)' => Stored(j, n)) /\ (Known(j, n) <=> Known(j, n)')
    BY <1>1, <1>p DEF Stored, Known
  <2> QED
    BY <1>1, <2>1 DEF Produced
<1>5. InRange'
  BY <1>1, DataParts DEF InRange, TypeOK
<1>6. Found'
  BY <1>1 DEF Found, InSpace, Item
<1>7. Parked'
  BY <1>1, <1>2 DEF Parked, Item, TypeOK
<1>8. Missed'
  <2> SUFFICES ASSUME NEW j \in Id, c[j].pc \in {"wait", "parked"}
               PROVE  j \in late' \cup sync'.woken \/ c[j].n >= p'[j].n
    BY <1>1 DEF Missed
  <2>1. j \in late \cup sync.woken \/ c[j].n >= p[j].n
    BY <1>1 DEF Missed
  <2>2. CASE j = i /\ c[i].n = p[i].n
    BY <1>1, <1>2, <2>2 DEF Between, Item
  <2>3. CASE ~(j = i /\ c[i].n = p[i].n)
    BY <1>1, <1>2, <1>p, <2>1, <2>3
  <2> QED
    BY <2>2, <2>3
<1> QED
  BY <1>3, <1>4, <1>5, <1>6, <1>7, <1>8

\* SPCSim's producer puts the whole space at once; who waits by then is late.
LEMMA SimPSpatialKeeps ==
    ASSUME IInv, NEW i \in Id, sim_p_spatial(i)
    PROVE  IInv'
<1> USE DEF IInv
<1>1. /\ PDs[i] \in Ds /\ kv_v' = kv_v \cup {Whole}
      /\ ds_kv' = [ds_kv EXCEPT ![PDs[i]] = @ \cup {Whole}]
      /\ late' = late \cup {j \in Id : c[j].pc \in {"wait", "parked"}}
      /\ p' = [p EXCEPT ![i] = [pc |-> "put", n |-> Num]]
      /\ mode.spatial /\ UNCHANGED <<mode, buffer, c, get_type, sync>>
  BY SimAssumption DEF sim_p_spatial, PGoes
<1>2. TypeOK'
  BY <1>1, DataParts DEF TypeOK
<1>3. Produced'
  <2>1. Whole \in ds_kv'[PDs[i]]
    BY <1>1 DEF TypeOK
  <2> QED
    BY <1>1, <2>1 DEF Produced, TypeOK
<1>4. InRange'
  BY <1>1 DEF InRange, TypeOK
<1>5. Found' /\ Parked'
  BY <1>1 DEF Found, Parked, InSpace, Item
<1>6. Missed'
  BY <1>1 DEF Missed
<1> QED
  BY <1>2, <1>3, <1>4, <1>5, <1>6

-----------------------------------------------------------------------------
(* Consumers.                                                               *)

\* Steps of a consumer that is not parked, and leaves syncer and space alone, keep what
\* is known of producers and of parked consumers.
LEMMA QueryFrame ==
    ASSUME IInv, NEW i \in Id, UNCHANGED <<mode, kv_v, p, sync, late>>,
           \A d \in Ds : ds_kv[d] \subseteq ds_kv'[d],
           c[i].pc # "parked", NEW r, c' = [c EXCEPT ![i] = r], r.pc # "parked"
    PROVE  /\ Produced' /\ Parked'
           /\ \A j \in Id \ {i} : c'[j] = c[j]
           /\ c'[i] = r
<1> USE DEF IInv
<1>1. (\A j \in Id \ {i} : c'[j] = c[j]) /\ c'[i] = r
  BY DEF TypeOK
<1>2. Produced'
  BY SimAssumption DEF Produced, Known, Stored
<1>3. Parked'
  <2>1. \A x \in sync.parked : x[2] \in Id /\ x[2] # i
    BY DEF Parked, TypeOK, SyncerType
  <2> QED
    BY <1>1, <2>1 DEF Parked, Item
<1> QED
  BY <1>1, <1>2, <1>3

\* A query that misses has seen a space without its datum.
LEMMA MissKeeps ==
    ASSUME IInv, NEW i \in Id, Miss(i)
    PROVE  IInv'
<1> USE DEF IInv
<1>1. /\ c[i].pc = "query" /\ c[i].n < Num /\ c[i].n \in 0 .. Num /\ ~InSpace(Item(i))
      /\ UNCHANGED <<mode, kv_v, ds_kv, buffer, p, get_type, sync, late>>
  BY DEF Miss, TypeOK
<1>2. PICK r : /\ c' = [c EXCEPT ![i] = r]
               /\ \/ r = [pc |-> "wait", n |-> c[i].n, found |-> {}]
                  \/ r = [c[i] EXCEPT !.n = @ + 1]
  BY DEF Miss, CGoes
<1>3. /\ r \in [pc : {"query", "sites", "wait", "parked", "count"}, n : 0 .. Num, found : SUBSET Ds]
      /\ r.pc \in {"wait", "query"} /\ (r.pc = "wait" => r.n = c[i].n)
  BY <1>1, <1>2, DataParts DEF TypeOK
<1>4. Produced' /\ Parked' /\ c'[i] = r /\ \A j \in Id \ {i} : c'[j] = c[j]
  BY <1>1, <1>2, <1>3, QueryFrame
<1>5. TypeOK'
  BY <1>1, <1>2, <1>3 DEF TypeOK
<1>6. InRange' /\ Found'
  BY <1>1, <1>3, <1>4 DEF InRange, Found, InSpace, Item
<1>7. Missed'
  <2>1. mode.spatial => Whole \notin kv_v
    BY <1>1 DEF InSpace
  <2>2. ~mode.spatial => c[i].n >= p[i].n
    <3>1. ~mode.spatial /\ c[i].n < p[i].n => <<i, c[i].n>> \in kv_v
      BY <1>1, DataParts DEF Produced, Known
    <3> QED
      BY <1>1, <3>1 DEF InSpace, Item, TypeOK
  <2> QED
    BY <1>1, <1>3, <1>4, <2>1, <2>2 DEF Missed
<1> QED
  BY <1>4, <1>5, <1>6, <1>7

\* A query that hits goes on to the sites.
LEMMA HitKeeps ==
    ASSUME IInv, NEW i \in Id, Hit(i)
    PROVE  IInv'
<1> USE DEF IInv
<1> DEFINE r == [pc |-> "sites", n |-> c[i].n, found |-> {}]
<1>1. /\ c[i].pc = "query" /\ c[i].n < Num /\ c[i].n \in 0 .. Num /\ InSpace(Item(i))
      /\ c' = [c EXCEPT ![i] = r]
      /\ UNCHANGED <<mode, kv_v, ds_kv, buffer, p, get_type, sync, late>>
  BY DEF Hit, TypeOK, CGoes
<1>2. Produced' /\ Parked' /\ c'[i] = r /\ \A j \in Id \ {i} : c'[j] = c[j]
  <2>1. r.pc # "parked"
    OBVIOUS
  <2> HIDE DEF r
  <2> QED
    BY <2>1, <1>1, QueryFrame
<1>3. TypeOK'
  BY <1>1 DEF TypeOK
<1>4. InRange' /\ Found' /\ Missed'
  BY <1>1, <1>2 DEF InRange, Found, Missed, InSpace, Item
<1> QED
  BY <1>2, <1>3, <1>4

\* The sites that have it are noted.
LEMMA QuerySitesKeeps ==
    ASSUME IInv, NEW i \in Id, QuerySites(i)
    PROVE  IInv'
<1> USE DEF IInv
<1> DEFINE r == [pc |-> "count", n |-> c[i].n, found |-> {d \in Ds : Covered(d, Item(i))}]
<1>1. /\ c[i].pc = "sites" /\ c[i].n \in 0 .. Num
      /\ c' = [c EXCEPT ![i] = r]
      /\ UNCHANGED <<mode, kv_v, ds_kv, buffer, p, get_type, sync, late>>
  BY DEF QuerySites, TypeOK, CGoes
<1>2. Produced' /\ Parked' /\ c'[i] = r /\ \A j \in Id \ {i} : c'[j] = c[j]
  <2>1. r.pc # "parked"
    OBVIOUS
  <2> HIDE DEF r
  <2> QED
    BY <2>1, <1>1, QueryFrame
<1>3. TypeOK'
  <2>1. {d \in Ds : Covered(d, Item(i))} \in SUBSET Ds
    OBVIOUS
  <2> QED
    BY <1>1, <2>1 DEF TypeOK
<1>4. InRange' /\ Found' /\ Missed'
  BY <1>1, <1>2 DEF InRange, Found, Missed, InSpace, Item
<1> QED
  BY <1>2, <1>3, <1>4

\* Count puts at the consumer's site, or does not, and goes on to the next.
LEMMA CountKeeps ==
    ASSUME IInv, NEW i \in Id, Count(i)
    PROVE  IInv'
<1> USE DEF IInv
<1> DEFINE r == [pc |-> "query", n |-> c[i].n + 1, found |-> {}]
<1>1. /\ c[i].pc = "count" /\ c[i].n \in 0 .. Num /\ c[i].n < Num
      /\ c' = [c EXCEPT ![i] = r]
      /\ UNCHANGED <<mode, kv_v, p, sync, late>>
  BY DEF Count, TypeOK, InRange
<1>2. CDs[i] \in Ds /\ Item(i) \in Data
  BY <1>1, DataParts, SimAssumption DEF Item
<1>3. ds_kv' = ds_kv \/ ds_kv' = [ds_kv EXCEPT ![CDs[i]] = @ \cup {Item(i)}]
  BY DEF Count, TypeOK
<1>4. ds_kv' \in [Ds -> SUBSET (Data \cup {Whole})] /\ \A d \in Ds : ds_kv[d] \subseteq ds_kv'[d]
  BY <1>2, <1>3 DEF TypeOK
<1>5. Produced' /\ Parked' /\ c'[i] = r /\ \A j \in Id \ {i} : c'[j] = c[j]
  <2>1. r.pc # "parked"
    OBVIOUS
  <2> HIDE DEF r
  <2> QED
    BY <2>1, <1>1, <1>4, QueryFrame
<1>6. TypeOK'
  BY <1>1, <1>4, DataParts DEF TypeOK
<1>7. InRange' /\ Found' /\ Missed'
  BY <1>1, <1>5 DEF InRange, Found, Missed, InSpace, Item
<1> QED
  BY <1>5, <1>6, <1>7

\* A consumer parks on its own point.
LEMMA WaitKeeps ==
    ASSUME IInv, NEW i \in Id, Wait(i)
    PROVE  IInv'
<1> USE DEF IInv
<1> DEFINE r == [pc |-> "parked", n |-> c[i].n, found |-> {}]
<1>1. /\ c[i].pc = "wait" /\ c[i].n \in 0 .. Num /\ c[i].n < Num
      /\ c' = [c EXCEPT ![i] = r] /\ sync' = AddWait(sync, Item(i), i)
      /\ UNCHANGED <<mode, kv_v, ds_kv, buffer, p, get_type, late>>
  BY DEF Wait, TypeOK, CGoes, InRange
<1>2. c'[i] = r /\ \A j \in Id \ {i} : c'[j] = c[j]
  BY <1>1 DEF TypeOK
<1>3. /\ sync'.parked = sync.parked \cup {<<Item(i), i>>} /\ sync'.woken = sync.woken
      /\ sync'.pts = sync.pts \cup {Item(i)}
  BY <1>1 DEF AddWait
<1>4. TypeOK'
  <2>1. Item(i) \in Data
    BY <1>1, DataParts DEF Item
  <2>2. sync' \in SyncerType(Data, Id)
    BY <1>1, <2>1, AddWaitType DEF TypeOK
  <2> QED
    BY <1>1, <2>2 DEF TypeOK
<1>5. Produced' /\ InRange' /\ Found' /\ Missed'
  BY <1>1, <1>2, <1>3 DEF Produced, Known, Stored, InRange, Found, Missed, InSpace, Item
<1>6. Parked'
  <2>1. \A x \in sync.parked : x[2] \in Id
    BY DEF TypeOK, SyncerType
  <2>2. \A j \in Id : Item(j)' = Item(j)
    BY <1>2 DEF Item
  <2>3. \A x \in sync'.parked : x[1] = Item(x[2])' /\ c'[x[2]].pc = "parked"
    <3> TAKE x \in sync'.parked
    <3>1. CASE x \in sync.parked
      BY <1>2, <2>1, <2>2, <3>1 DEF Parked
    <3>2. CASE x = <<Item(i), i>>
      BY <1>2, <2>2, <3>2
    <3> QED
      BY <1>3, <3>1, <3>2
  <2> QED
    BY <1>2, <1>3, <2>2, <2>3 DEF Parked
<1> QED
  BY <1>4, <1>5, <1>6

\* One that was released deletes its point, on which nobody else is.
LEMMA WakeKeeps ==
    ASSUME IInv, NEW i \in Id, Wake(i)
    PROVE  IInv'
<1> USE DEF IInv
<1> DEFINE r == [pc |-> "count", n |-> c[i].n, found |-> {}]
<1>1. /\ c[i].pc = "parked" /\ c[i].n \in 0 .. Num /\ c[i].n < Num
      /\ c' = [c EXCEPT ![i] = r] /\ sync' = DelPoint(sync, Item(i), i)
      /\ UNCHANGED <<mode, kv_v, ds_kv, buffer, p, get_type, late>>
  BY DEF Wake, TypeOK, CGoes, InRange
<1>2. c'[i] = r /\ (\A j \in Id \ {i} : c'[j] = c[j]) /\ \A j \in Id : Item(j)' = Item(j)
  BY <1>1 DEF TypeOK, Item
<1>3. /\ sync'.parked = {x \in sync.parked : x[1] # Item(i)} /\ sync'.woken = sync.woken \ {i}
      /\ sync'.pts = sync.pts \ {Item(i)}
  BY <1>1 DEF DelPoint
<1>4. TypeOK'
  <2>1. sync' \in SyncerType(Data, Id)
    BY <1>1, DelPointType DEF TypeOK
  <2> QED
    BY <1>1, <2>1 DEF TypeOK
<1>5. Produced' /\ InRange' /\ Found' /\ Missed'
  BY <1>1, <1>2, <1>3 DEF Produced, Known, Stored, InRange, Found, Missed, InSpace, Item
<1>6. Parked'
  <2>1. \A j \in Id \ {i} : Item(j) # Item(i)
    BY DEF Item
  <2>2. \A x \in sync.parked : x[2] \in Id
    BY DEF TypeOK, SyncerType
  <2>3. \A x \in sync'.parked : x[1] = Item(x[2])' /\ c'[x[2]].pc = "parked"
    BY <1>2, <1>3, <2>2 DEF Parked
  <2>4. ASSUME NEW j \in Id, c'[j].pc = "parked"
        PROVE  j \in sync'.woken \/ (<<Item(j)', j>> \in sync'.parked /\ Item(j)' \in sync'.pts)
    <3>1. j # i /\ c[j].pc = "parked"
      BY <1>2, <2>4
    <3> QED
      BY <1>2, <1>3, <2>1, <3>1 DEF Parked
  <2> QED
    BY <2>3, <2>4 DEF Parked
<1> QED
  BY <1>4, <1>5, <1>6

-----------------------------------------------------------------------------
\* Nothing is put and nobody waits at the start.
LEMMA SimInit == ASSUME Init PROVE IInv
<1>1. TypeOK
  BY SimAssumption, EmptyType DEF Init, TypeOK
<1>2. Produced /\ InRange /\ Found /\ Missed
  BY SimAssumption DEF Init, Produced, Known, Stored, InRange, Found, Missed
<1>3. Parked
  BY DEF Init, Parked, EmptySyncer
<1> QED
  BY <1>1, <1>2, <1>3 DEF IInv

\* Every step keeps the invariant.
LEMMA SimStep == ASSUME IInv, [Next]_vars PROVE IInv'
<1>1. CASE UNCHANGED vars
  BY <1>1 DEF vars, IInv, TypeOK, Produced, Known, Stored, InRange, Found, Parked, Missed, InSpace, Item
<1>2. ASSUME NEW i \in Id, sim_p(i) PROVE IInv'
  BY <1>2, PutSpaceKeeps, PutDsKeeps, NotifyGetKeeps, SimPSpatialKeeps DEF sim_p
<1>3. ASSUME NEW i \in Id, sim_c(i) PROVE IInv'
  BY <1>3, MissKeeps, HitKeeps, QuerySitesKeeps, WaitKeeps, WakeKeeps, CountKeeps DEF sim_c
<1> QED
  BY <1>1, <1>2, <1>3 DEF Next

\* A consumer that waits for what is in the space was late, or its producer is about to
\* notify it.
LEMMA SimHangs == ASSUME IInv PROVE HangsOnlyIfLate
<1> SUFFICES ASSUME NEW i \in Id, c[i].pc = "parked", i \notin sync.woken, InSpace(Item(i)), i \notin late
             PROVE  p[i].pc \in {"push", "notify"} /\ p[i].n = c[i].n
  BY DEF HangsOnlyIfLate
<1>1. /\ mode.spatial => Whole \notin kv_v
      /\ ~mode.spatial => c[i].n >= p[i].n
  BY DEF IInv, Missed
<1>2. /\ c[i].n \in Nat /\ p[i].n \in Nat /\ p[i].pc \in {"put", "push", "notify"}
      /\ <<i, c[i].n>> # Whole
  BY DataParts DEF IInv, TypeOK
<1>3. ~mode.spatial
  BY <1>1, <1>2 DEF IInv, Produced, InSpace, Item
<1>4. <<i, c[i].n>> \in kv_v
  BY <1>3 DEF IInv, Produced, InSpace, Item
<1>5. c[i].n < p[i].n \/ (c[i].n = p[i].n /\ p[i].pc # "put")
  BY <1>2, <1>3, <1>4 DEF IInv, Produced, Known
<1> QED
  BY <1>1, <1>2, <1>3, <1>5

\* A query that names no site met a put between its two steps.
LEMMA SimEmpty ==
    ASSUME IInv, NEW i \in Id, QuerySites(i), c'[i].found = {}
    PROVE  p[i].pc = "push" /\ p[i].n = c[i].n
<1>1. c[i].pc = "sites" /\ \A d \in Ds : ~Covered(d, Item(i))
  BY DEF QuerySites, CGoes, IInv, TypeOK
<1>2. InSpace(Item(i))
  BY <1>1 DEF IInv, Found
<1>3. /\ c[i].n \in Nat /\ p[i].n \in Nat /\ p[i].pc \in {"put", "push", "notify"}
      /\ <<i, c[i].n>> # Whole /\ PDs[i] \in Ds
  BY DataParts, SimAssumption DEF IInv, TypeOK
<1>4. ~mode.spatial
  BY <1>1, <1>2, <1>3 DEF IInv, Produced, InSpace, Item, Covered
<1>5. <<i, c[i].n>> \in kv_v /\ ~Stored(i, c[i].n)
  BY <1>1, <1>2, <1>3, <1>4 DEF IInv, Produced, InSpace, Item, Covered
<1>6. c[i].n < p[i].n \/ (c[i].n = p[i].n /\ p[i].pc # "put")
  BY <1>3, <1>4, <1>5 DEF IInv, Produced, Known
<1> QED
  BY <1>3, <1>5, <1>6 DEF Stored

\* What MPCSim's and SPCSim's threads see of a put under way (MWASpace::put and query
\* take no common lock): a query names no site only between the put's two steps, and a
\* consumer waits for data that is there only if the data came between its query and its
\* wait, for any number of producers, consumers, sites and gets.
THEOREM SpaceReadHolds == Spec => SpaceRead
<1>1. Init => IInv
  BY SimInit
<1>2. IInv /\ [Next]_vars => IInv'
  BY SimStep
<1>3. IInv => TypeOK /\ HangsOnlyIfLate
  BY SimHangs DEF IInv
<1>4. IInv /\ [Next]_vars =>
         [\A i \in Id : (QuerySites(i) /\ c'[i].found = {}) => p[i].pc = "push" /\ p[i].n = c[i].n]_vars
  BY SimEmpty
<1> QED
  BY <1>1, <1>2, <1>3, <1>4, PTL DEF Spec, SpaceRead, EmptyOnlyWhilePut
=============================================================================
