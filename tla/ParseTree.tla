----------------------------- MODULE ParseTree -----------------------------
(***************************************************************************)
(* The predictors' parse tree (Graph and ParseTree,                        *)
(* dspaces_rel/sdm_control/prefetch/include/markov.h).  A vertex is the    *)
(* sequence of keys on its path from the root; `visits' gives num_visit of *)
(* every vertex there is.  The names, levels and L/N marks of vertices are *)
(* functions of their path.                                                *)
(*                                                                         *)
(* A probability is a triple <<n, d, e>>: n/d plus a noise of at most e     *)
(* hundredths, which the code draws anew each time.                        *)
(***************************************************************************)
EXTENDS Integers, SequencesExt

\* BACK_TO_ROOT_LEAF_KEY: a phrase ended here.
Back == -1
Root == <<>>

\* ParseTree::ParseTree and reset: a tree for algorithm malgo, whose context
\* (PPM only) has `size' keys.
NewTree(malgo, size) == [malgo   |-> malgo, size |-> size, visits |-> [v \in {Root} |-> 0],
                         cur     |-> Root,  context |-> <<>>]

\* The vertices of the graph.
Vertices(t) == DOMAIN t.visits

\* The keys of v's children; does_vertex_have_key_in_adjs is membership.
Adjs(t, v) == {Last(u) : u \in {w \in Vertices(t) : Len(w) = Len(v) + 1 /\ IsPrefix(v, w)}}

\* move_cur(true, v) for each v in V that is there, create__connect_leaf for
\* the others: num_visit grows by one, or begins with one.
Visit(t, V) ==
    [t EXCEPT !.visits = [v \in DOMAIN @ \cup V |-> (IF v \in DOMAIN @ THEN @[v] ELSE 0)
                                                    + (IF v \in V THEN 1 ELSE 0)]]

\* longest_phrase_length, kept by create__connect_leaf.
LongestPhrase(t) == Max({Len(v) : v \in {w \in Vertices(t) : w = Root \/ Last(w) # Back}})

\* add_access_w_lz: go down, or add a leaf and start over at the root.
AddLz(t, key) ==
    LET v == Append(t.cur, key)
    IN  IF v \in Vertices(t) THEN [Visit(t, {v}) EXCEPT !.cur = v]
        ELSE [Visit(t, {v, Append(v, Back), Root}) EXCEPT !.cur = Root]

\* add_access_w_alz: when a phrase has ended, the window, which holds the last
\* key only, is counted as a phrase of its own.
AddAlz(t, key) ==
    LET u == AddLz(t, key)
    IN  IF LongestPhrase(u) > 1 /\ u.cur = Root
        THEN Visit(u, {Root, <<key>>, <<key, Back>>})
        ELSE u

\* add_access_w_ppm: the context, once it is full, is walked or created, then
\* the key is counted below it.
PpmPath(t, key) == {SubSeq(t.context, 1, i) : i \in 0 .. Len(t.context)} \cup {Append(t.context, key)}

AddPpm(t, key) ==
    IF Len(t.context) = t.size
    THEN [Visit(t, PpmPath(t, key)) EXCEPT !.context = Append(Tail(@), key)]
    ELSE [t EXCEPT !.context = Append(@, key)]

\* ParseTree::add_access for the algorithms that have a tree.
AddTree(t, key) ==
    CASE t.malgo = "LZ"  -> AddLz(t, key)
      [] t.malgo = "ALZ" -> AddAlz(t, key)
      [] t.malgo = "PPM" -> AddPpm(t, key)

\* The vertex to predict from: PPM walks its context as far as it can
\* (move_cur_on_context) and returns to the root afterwards.
PredictFrom(t) ==
    IF t.malgo = "PPM"
    THEN LET walked == {i \in 0 .. Len(t.context) : SubSeq(t.context, 1, i) \in Vertices(t)}
         IN  SubSeq(t.context, 1, Max(walked))
    ELSE t.cur

\* Mutant of Basis: the access that led to the vertex is counted.
BasisUncorrected(t) ==
    LET v == PredictFrom(t)
    IN  IF Adjs(t, v) \subseteq {Back} THEN [at |-> Root, total |-> t.visits[Root] + 1]
        ELSE [at |-> v, total |-> t.visits[v]]

\* Where the keys are looked for, and the total their visits are divided by.
\* Without a child but the back leaf, prediction falls back to the root.
Basis(t) ==
    LET v == PredictFrom(t)
    IN  IF Adjs(t, v) \subseteq {Back}
        THEN [at |-> Root, total |-> t.visits[Root] + 1]
        ELSE [at |-> v, total |-> IF v # Root /\ t.malgo # "PPM" THEN t.visits[v] - 1 ELSE t.visits[v]]

\* Mutant of TreeProbs: the back leaf is not erased.
TreeProbsBack(t) ==
    LET b == Basis(t)
    IN  [k \in Adjs(t, b.at) |-> <<t.visits[Append(b.at, k)], b.total, 1>>]

\* get_key_prob_map_for_prefetch_w_lz and _w_ppm, without the noise.
TreeProbs(t) ==
    LET b == Basis(t)
    IN  [k \in Adjs(t, b.at) \ {Back} |-> <<t.visits[Append(b.at, k)], b.total, 1>>]

-----------------------------------------------------------------------------
(* Sorting by probability.                                                  *)

\* p may come out at least as large as q.
MayLead(p, q) == 100 * p[1] * q[2] + p[3] * p[2] * q[2] >= 100 * q[1] * p[2]
MayTie(p, q)  == MayLead(p, q) /\ MayLead(q, p)
MustTie(p, q) == p[3] = 0 /\ q[3] = 0 /\ p[1] * q[2] = q[1] * p[2]

Limit(num, keys) == IF num = 0 THEN Cardinality(keys) ELSE num

\* ParseTree::get_to_prefetch: the keys by decreasing probability, until there
\* are num (with num = 0: all of them, since the size is compared after the
\* push).  The map from probabilities to keys keeps one key for each value,
\* the largest.
Sorted(prob, num) ==
    LET keys == DOMAIN prob
        n    == Min({Limit(num, keys), Cardinality(keys)})
        lost == {k \in keys : \E j \in keys : j > k /\ MustTie(prob[j], prob[k])}
    IN  {s \in UNION {[1 .. m -> keys \ lost] : m \in 0 .. n} :
            /\ IsInjective(s)
            /\ \A i, j \in DOMAIN s : i < j => MayLead(prob[s[i]], prob[s[j]])
            /\ \A k \in keys \ ToSet(s) :
                  \/ Len(s) = Limit(num, keys) /\ s # <<>> /\ MayLead(prob[s[Len(s)]], prob[k])
                  \/ \E i \in DOMAIN s : MayTie(prob[s[i]], prob[k])}
=============================================================================
