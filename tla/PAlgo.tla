------------------------------- MODULE PAlgo -------------------------------
(***************************************************************************)
(* The predictors (dspaces_rel/sdm_control/prefetch/palgo.cpp): LZ, ALZ    *)
(* and PPM over a parse tree, PO by arrival rates, TA by arrival times,    *)
(* and the mixes of several: by weighted (W) or largest (M) probability,   *)
(* by the best score in a window (B), by weighted majority (MJ) and its    *)
(* randomized form (RMJ).  `mix' chooses a mix and what it is made of, and *)
(* stays as it is; the mix "1" is one predictor by itself.                 *)
(*                                                                         *)
(* Accesses are integers, as application ids are.  The normal distribution *)
(* of TA is left out: it may order its candidates in any way.              *)
(***************************************************************************)
EXTENDS ParseTree

CONSTANTS
    Acc,            \* the accesses (application ids)
    Mix,            \* the mixes to consider: [kind, of, weight, num,
                    \* max]; bound: max is the number of accesses
    Gap,            \* the possible times between two accesses
    WindowSize,     \* window_size of B
    InitialWeight,  \* INITIAL_MJ_WEIGHT
    MinWeight,      \* a weight below this (10) replenishes all
    Penalty,        \* - log2(beta)
    MaxTime         \* bound: the last time

ASSUME PAlgoAssumption ==
    /\ Acc \subseteq Nat
    /\ Gap \subseteq Nat
    /\ {WindowSize, InitialWeight, MinWeight, Penalty, MaxTime} \subseteq Nat

VARIABLES
    mix,        \* the mix
    palgo,      \* palgo_v
    now,        \* the time
    hist,       \* acc_v with times: <<time, acc, predicted, last>>; the last two
                \* (what the mix and each predictor had predicted) are history
    last,       \* palgo_id__last_predicted_acc_v_v
    predicted,  \* last_predicted_acc_v of MJ; what get_to_prefetch returned
    used,       \* the last of palgo_id_used_v
    score,      \* palgo_id__score_queue_v, newest first
    weight      \* palgo_id__weight_v

vars == <<mix, palgo, now, hist, last, predicted, used, score, weight>>

\* acc_s
Accessed == {hist[i][2] : i \in DOMAIN hist}
Ids == DOMAIN palgo
NoFun == [k \in {} |-> 0]

TypeOK ==
    /\ mix \in Mix
    /\ now \in Nat
    /\ Len(hist) <= mix.max /\ Accessed \subseteq Acc
    /\ \A i \in Ids : last[i] \in Seq(Acc)
    /\ predicted \in Seq(Acc)
    /\ used \in Ids
    /\ score \in [Ids -> Seq({0, 1})] /\ \A i \in Ids : Len(score[i]) <= WindowSize
    /\ weight \in [Ids -> Int]

\* The constructors of the predictors and MPAlgo::MPAlgo.
New(a) ==
    CASE a.malgo \in {"LZ", "ALZ", "PPM"} -> NewTree(a.malgo, a.size)
      [] a.malgo = "PO" -> [malgo |-> "PO", num |-> NoFun, last |-> NoFun, sum |-> NoFun]
      [] a.malgo = "TA" -> [malgo |-> "TA", arr |-> NoFun, mean |-> NoFun]

\* The constructors and reset of BMPAlgo and MJMPAlgo.
FreshScore(m)  == [i \in DOMAIN m.of |-> <<>>]
FreshWeight(m) == [i \in DOMAIN m.of |-> InitialWeight]

Init ==
    /\ mix \in Mix
    /\ palgo = [i \in DOMAIN mix.of |-> New(mix.of[i])]
    /\ now = 0
    /\ hist = <<>>
    /\ last = [i \in DOMAIN mix.of |-> <<>>]
    /\ predicted = <<>>
    /\ used = 1
    /\ score = FreshScore(mix)
    /\ weight = FreshWeight(mix)

-----------------------------------------------------------------------------
(* add_access.                                                              *)

\* f with k mapped to v; the value of f at k, or d.
Put(f, k, v) == [j \in DOMAIN f \cup {k} |-> IF j = k THEN v ELSE f[j]]
Val(f, k, d) == IF k \in DOMAIN f THEN f[k] ELSE d

\* ParseTree::add_access with MALGO_W_PO: the times between the arrivals of k
\* are summed up, with the wrong sign.
AddPo(a, t, k) ==
    [a EXCEPT !.num  = Put(@, k, Val(@, k, 0) + 1),
              !.sum  = IF k \in DOMAIN a.num THEN Put(@, k, Val(@, k, 0) + a.last[k] - t) ELSE @,
              !.last = Put(@, k, t)]

\* TAlgo::add_access: arr[k] has the arrivals of k and the time since the one
\* before.  A time of 0 stands for "none": the mean is left as it is then.
AddTa(a, t, k) ==
    LET seen  == Val(a.arr, k, <<>>)
        inter == IF seen = <<>> THEN 0 ELSE t - Last(seen)[1]
        now_v == Append(seen, <<t, inter>>)
        sum   == FoldLeft(LAMBDA s, e : s + e[2], 0, now_v)
    IN  [a EXCEPT !.arr = Put(@, k, now_v),
                  !.mean = IF inter = 0 THEN @ ELSE Put(@, k, <<sum, Len(now_v) - 1>>)]

AddTo(a, t, k) ==
    CASE a.malgo = "PO" -> AddPo(a, t, k)
      [] a.malgo = "TA" -> AddTa(a, t, k)
      [] OTHER          -> AddTree(a, k)

\* patch::Queue: push_front, after a pop_back when it is full.
Push(q, x) == <<x>> \o (IF Len(q) = WindowSize THEN SubSeq(q, 1, Len(q) - 1) ELSE q)

\* Mutant of Penalized: to_add is the largest of the deficits.
PenalizedMost(acc) ==
    LET w      == [i \in Ids |-> IF acc \in ToSet(last[i]) THEN weight[i] ELSE weight[i] - Penalty]
        to_add == InitialWeight - Min(ToSet(w))
    IN  IF \E i \in Ids : w[i] # weight[i] /\ w[i] < MinWeight
        THEN [i \in Ids |-> IF w[i] + to_add > InitialWeight THEN InitialWeight ELSE w[i] + to_add] ELSE w

\* MJMPAlgo::add_access: when the mix was wrong, those who were wrong lose
\* weight, and when one has lost too much all are lifted.
Penalized(acc) ==
    LET w      == [i \in Ids |-> IF acc \in ToSet(last[i]) THEN weight[i] ELSE weight[i] - Penalty]
        to_add == InitialWeight - Max(ToSet(w))
    IN  IF \E i \in Ids : w[i] # weight[i] /\ w[i] < MinWeight
        THEN [i \in Ids |-> w[i] + to_add] ELSE w

\* BMPAlgo::add_access
NewScore(acc) == [i \in Ids |-> Push(score[i], IF acc \in ToSet(last[i]) THEN 1 ELSE 0)]

\* Only PO and TA look at the time.
Timed == \E i \in Ids : palgo[i].malgo \in {"PO", "TA"}

\* add_access(time, acc) of the mix: first of PAlgo and of every predictor.
AddAccess(acc, gap) ==
    /\ Len(hist) < mix.max /\ now + gap <= MaxTime
    /\ now' = IF Timed THEN now + gap ELSE now
    /\ hist' = Append(hist, <<now', acc, IF mix.kind \in {"1", "W", "M"} THEN <<>> ELSE predicted, last>>)
    /\ palgo' = [i \in Ids |-> AddTo(palgo[i], now', acc)]
    /\ score' = IF mix.kind = "B" THEN NewScore(acc) ELSE score
    /\ weight' = IF mix.kind \in {"MJ", "RMJ"} /\ predicted # <<>> /\ acc \notin ToSet(predicted)
                 THEN Penalized(acc) ELSE weight
    /\ UNCHANGED <<mix, last, predicted, used>>

-----------------------------------------------------------------------------
(* get_to_prefetch.                                                         *)

\* get_key_prob_map_for_prefetch_w_poisson, then the sort.  The rate of a
\* producer that arrived once, or in one instant, is infinite: every other
\* probability is 0 and its own is not a number.  No two of these differ for
\* the map, so the producer with the largest id is left.
PoOrders(a, num) ==
    IF a.num = NoFun THEN {<<>>}
    ELSE IF \E k \in DOMAIN a.num : Val(a.sum, k, 0) = 0 THEN {<<Max(DOMAIN a.num)>>}
    ELSE Sorted([k \in DOMAIN a.num |-> <<a.num[k], -a.sum[k], 0>>], num)

\* TAlgo::get_to_prefetch: who has arrived within the last time unit is
\* skipped for now, who is overdue by the mean again is dropped; the skipped
\* ones fill up, the largest first.
TaOrders(a, num) ==
    LET since(k) == now - Last(a.arr[k])[1]
        skipped  == {k \in DOMAIN a.mean : since(k) < 1}
        likely   == {k \in DOMAIN a.mean \ skipped : since(k) * a.mean[k][2] <= 2 * a.mean[k][1]}
        n        == Min({Cardinality(likely), IF num = 0 THEN Cardinality(likely) ELSE num})
        fill     == SubSeq(SetToSortSeq(skipped, >), 1, Min({Cardinality(skipped), Max({0, num - n})}))
    IN  {s \o fill : s \in {f \in [1 .. n -> likely] : IsInjective(f)}}

\* get_to_prefetch of one predictor.
Orders(a, num) ==
    CASE a.malgo = "PO" -> PoOrders(a, num)
      [] a.malgo = "TA" -> TaOrders(a, num)
      [] OTHER          -> Sorted(TreeProbs(a), num)

\* What predictor i is asked for: num_acc is handed on by reference, so each
\* is asked for as many as the one before has returned.
Asks(i, num, s) == IF i = 1 THEN num ELSE Len(s[i - 1])

\* One possible prediction of every predictor.
Predictions(num) ==
    {s \in [Ids -> UNION {Orders(palgo[i], n) : i \in Ids, n \in 0 .. Max({num, Cardinality(Acc)})}] :
        \A i \in Ids : s[i] \in Orders(palgo[i], Asks(i, num, s))}

\* MAlgo and TAlgo as they are.
SinglePredict ==
    /\ mix.kind = "1"
    /\ predicted' \in Orders(palgo[1], mix.num)
    /\ UNCHANGED <<last, used>>

\* get_acc_prob_map_for_prefetch; TA's is not written yet (TODO).
Probs(a) == IF a.malgo = "TA" THEN NoFun ELSE TreeProbs(a)
ProbOf(a, k) == Val(Probs(a), k, <<0, 1, 0>>)

\* WMPAlgo::get_to_prefetch: sum of the probabilities times the weights.
Add(p, q) == <<p[1] * q[2] + q[1] * p[2], p[2] * q[2], p[3] + q[3]>>
WeightedPredict ==
    /\ mix.kind = "W"
    /\ LET part(i, k) == LET p == ProbOf(palgo[i], k)
                         IN  <<p[1] * mix.weight[i], p[2], p[3] * mix.weight[i]>>
           sum(k)     == FoldLeft(LAMBDA p, i : Add(p, part(i, k)), <<0, 1, 0>>, [i \in Ids |-> i])
       IN  predicted' \in Sorted([k \in Accessed |-> sum(k)], mix.num)
    /\ UNCHANGED <<last, used>>

\* MMPAlgo::get_to_prefetch: the largest of the probabilities.
MaxPredict ==
    /\ mix.kind = "M"
    /\ LET best(k) == LET P == {ProbOf(palgo[i], k) : i \in Ids}
                      IN  CHOOSE p \in P : \A q \in P : p[1] * q[2] >= q[1] * p[2]
       IN  predicted' \in Sorted([k \in Accessed |-> best(k)], mix.num)
    /\ UNCHANGED <<last, used>>

Sum(q)    == FoldLeft(LAMBDA s, x : s + x, 0, q)
Best(f)   == CHOOSE i \in Ids : /\ \A j \in Ids : f[j] <= f[i]
                                /\ \A j \in Ids : j < i => f[j] < f[i]

\* BMPAlgo, MJMPAlgo and RMJMPAlgo::get_to_prefetch: all predict, and the
\* prediction of one of them is taken: the first with the best score, the
\* first with the largest weight, or one drawn at random.
Choose(ids) ==
    /\ last' \in Predictions(mix.num)
    /\ used' \in ids
    /\ predicted' = last'[used']

BestPredict     == mix.kind = "B" /\ Choose({Best([i \in Ids |-> Sum(score[i])])})
MajorityPredict == mix.kind = "MJ" /\ Choose({Best(weight)})
RandomPredict   == mix.kind = "RMJ" /\ Choose(Ids)

\* eacc_v, the end of every get_to_prefetch: what is accessed and neither
\* predicted nor in the cache.
Extra(cached) == Accessed \ (cached \cup ToSet(predicted))

GetToPrefetch ==
    /\ hist # <<>>
    /\ \/ SinglePredict \/ WeightedPredict \/ MaxPredict
       \/ BestPredict \/ MajorityPredict \/ RandomPredict
    /\ UNCHANGED <<mix, palgo, now, hist, score, weight>>

\* MPAlgo::reset, with reset of every predictor and of the mix.
Reset ==
    /\ hist # <<>>
    /\ palgo' = [i \in Ids |-> New(mix.of[i])]
    /\ hist' = <<>>
    /\ last' = [i \in Ids |-> <<>>]
    /\ predicted' = <<>>
    /\ used' = 1
    /\ score' = FreshScore(mix)
    /\ weight' = FreshWeight(mix)
    /\ UNCHANGED <<mix, now>>

Next ==
    \/ Reset
    \/ \E acc \in Acc, gap \in Gap : AddAccess(acc, gap)
    \/ GetToPrefetch

Spec == Init /\ [][Next]_vars
-----------------------------------------------------------------------------
(* Properties.                                                              *)

Trees == {palgo[i] : i \in {j \in Ids : palgo[j].malgo \notin {"PO", "TA"}}}
Keys  == [i \in DOMAIN hist |-> hist[i][2]]
Times(k) == {hist[i][1] : i \in {j \in DOMAIN hist : hist[j][2] = k}}
Count(k) == Cardinality({i \in DOMAIN hist : hist[i][2] = k})

\* The phrases of LZ78: each is the shortest one that is new.
Phrases ==
    FoldLeft(LAMBDA p, k : IF Append(p.cur, k) \in ToSet(p.done)
                           THEN [p EXCEPT !.cur = Append(@, k)]
                           ELSE [done |-> Append(p.done, Append(p.cur, k)), cur |-> <<>>],
             [done |-> <<>>, cur |-> <<>>], Keys)

\* num_visit of a vertex of the LZ tree is the number of phrases of the access
\* sequence, the unfinished one included, that go through it, and the tree is
\* at the end of the unfinished phrase (add_access_w_lz builds it one access
\* at a time and moves its current vertex).
LzParses ==
    \A t \in {u \in Trees : u.malgo = "LZ"} :
        LET through(v) == Cardinality({i \in DOMAIN Phrases.done : IsPrefix(v, Phrases.done[i])})
        IN  /\ t.cur = Phrases.cur
            /\ DOMAIN t.visits = {Root} \cup UNION {{v, Append(v, Back)} : v \in ToSet(Phrases.done)}
            /\ \A v \in DOMAIN t.visits :
                  t.visits[v] = IF v = Root THEN Len(Phrases.done)
                                ELSE IF Last(v) = Back THEN 1
                                ELSE through(v) + (IF IsPrefix(v, Phrases.cur) THEN 1 ELSE 0)

\* num_visit of a vertex of the PPM tree is the number of times its path occurs
\* in the access sequence with a whole context behind it (add_access_w_ppm
\* slides its context over the sequence).
PpmCounts ==
    \A t \in {u \in Trees : u.malgo = "PPM"} :
        LET starts == 1 .. Len(Keys) - t.size
            at(v)  == {i \in starts : SubSeq(Keys, i, i + Len(v) - 1) = v}
        IN  /\ t.visits = [v \in {Root} \cup {SubSeq(Keys, i, i + n) : i \in starts, n \in 0 .. t.size}
                              |-> Cardinality(at(v))]
            /\ t.context = SubSeq(Keys, Max({1, Len(Keys) - t.size + 1}), Len(Keys))

\* The probabilities of a tree, with that of the end of the phrase, sum up to
\* one before noise is added: the totals get_key_prob_map_for_prefetch_w_lz
\* divides by (corrected by one here and there) are right at every vertex the
\* tree may be at, and never zero.
ProbsSumToOne ==
    \A t \in Trees :
        LET b == Basis(t)
        IN  Adjs(t, b.at) # {} =>
            /\ b.total > 0
            /\ MapThenSumSet(LAMBDA k : t.visits[Append(b.at, k)], Adjs(t, b.at)) = b.total

\* Nothing but accessed applications is predicted, each once: not the back
\* leaf, and not more than were asked for by those MPBuffer may be made with.
\* Whatever the cache has, every accessed application is then in the cache,
\* predicted or named in addition.  (MPBuffer!PickApps assumes just this.)
PredictsAccessed ==
    /\ \A cached \in SUBSET Accessed : cached \cup ToSet(predicted) \cup Extra(cached) = Accessed
    /\ ToSet(predicted) \subseteq Accessed
    /\ IsInjective(predicted)
    /\ mix.kind \in {"1", "M", "W"} => Len(predicted) <= mix.num

\* The score of a predictor is the number of right predictions among the last
\* WindowSize accesses (BMPAlgo).
ScoresWindow ==
    mix.kind = "B" =>
        \A i \in Ids : Sum(score[i]) = Cardinality({j \in DOMAIN hist : /\ j > Len(hist) - WindowSize
                                                                       /\ hist[j][2] \in ToSet(hist[j][4][i])})

\* How often predictor i was wrong together with the mix.
Mistakes(i) == Cardinality({j \in DOMAIN hist : /\ hist[j][3] # <<>>
                                                /\ hist[j][2] \notin ToSet(hist[j][3]) \cup ToSet(hist[j][4][i])})

\* Lifting all weights does not change who is best: weights differ by the
\* mistakes made since the start, none is above the initial one, and the best is
\* never below the limit that has all lifted.  (One that is far behind may be: all
\* are lifted by the same, up to where the best is the initial weight; MJMPAlgo,
\* RMJMPAlgo.)
FewestMistakes ==
    mix.kind \in {"MJ", "RMJ"} =>
        /\ \A i, j \in Ids : weight[i] - weight[j] = Penalty * (Mistakes(j) - Mistakes(i))
        /\ \A i \in Ids : weight[i] <= InitialWeight
        /\ \E i \in Ids : weight[i] >= MinWeight

\* The arrivals of k before the instant of its last one.
Before(k) == Cardinality({i \in DOMAIN hist : hist[i][2] = k /\ hist[i][1] < Max(Times(k))})

\* PO's sums are the (negated) times from the first to the last arrival, and
\* TA's mean is that time by the number of intervals, both as of the last arrival
\* that was not in the instant of the one before.
ArrivalTimes ==
    \A i \in Ids :
        /\ palgo[i].malgo = "PO" =>
              \A k \in Accessed : /\ palgo[i].num[k] = Count(k)
                                  /\ Val(palgo[i].sum, k, 0) = Min(Times(k)) - Max(Times(k))
        /\ palgo[i].malgo = "TA" =>
              \A k \in Accessed : /\ k \in DOMAIN palgo[i].mean <=> Min(Times(k)) < Max(Times(k))
                                  /\ k \in DOMAIN palgo[i].mean =>
                                        palgo[i].mean[k] = <<Max(Times(k)) - Min(Times(k)), Before(k)>>

\* The parse trees count what the access sequence says they count, and the
\* probabilities taken from them are those of a distribution (ParseTree).
TreesCount == LzParses /\ PpmCounts /\ ProbsSumToOne

\* Scores, weights, rates and means, kept up one access at a time, are what the
\* history of accesses and predictions defines (BMPAlgo, MJMPAlgo, RMJMPAlgo,
\* POAlgo, TAAlgo).
KeptUpToDate == TypeOK /\ ScoresWindow /\ FewestMistakes /\ ArrivalTimes
=============================================================================
