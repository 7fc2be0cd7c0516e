------------------------------- MODULE Space -------------------------------
(***************************************************************************)
(* Where data lies in space (dspaces_rel/sdm_control/prefetch/sfc.h,       *)
(* sfc.cpp and SWASpace of prefetch.cpp): the query tables every SDMSlave  *)
(* keeps (RTable by box for the spatial system, KVTable by <key, ver> for  *)
(* the Markov one), the spatial predictor HSAlgo, which answers an access  *)
(* to a box with the bounding box of its neighbourhood on the Hilbert      *)
(* curve, and SWASpace, the master's directory of the spatial system.      *)
(*                                                                         *)
(* A box is a pair of corners [l, u], the cells c with l <= c < u on every *)
(* axis.  A table is the sequence of its entries; the r-tree's order is    *)
(* not used.                                                               *)
(***************************************************************************)
EXTENDS Hilbert, SequencesExt

CONSTANTS
    NDim,         \* NDIM
    Setup,        \* the configurations: [kind, space, sexpand]; kind R or KV is a
                  \* directory over that table, sim the spatial simulator, acc a
                  \* predictor that is fed accesses, walk one that converts the
                  \* whole curve
    Box,          \* the boxes the callers pass, valid or not
    Key,          \* the <key, ver>s
    App, Ds,      \* applications and sites
    MaxEntry,     \* bound: entries of the table
    MaxAcc        \* bound: accesses remembered in acced and accuracy

ASSUME SpaceAssumption == NDim \in Nat \ {0} /\ {MaxEntry, MaxAcc} \subseteq Nat

VARIABLES
    setup,        \* the configuration of this behaviour
    table,        \* qtable_
    ds_of,        \* app_id__ds_id_map; 0 is not registered
    acced,        \* acced_index_interval_set_v, with the box
    accuracy,     \* accuracy_v of sim_prefetch_accuracy, with the box
    fetched,      \* [box, got]: the last answer of get_to_fetch
    walk,         \* [index, coor]: the last step of index_interval_set_to_coor_v
    live          \* history: the entries added and not deleted since

spaceVars == <<setup, table, ds_of, acced, accuracy, fetched, walk, live>>

Axis == 0 .. NDim - 1

\* IS_VALID_BOX.
Valid(b) == \A i \in Axis : b.l[i] < b.u[i]

\* boost::geometry: b lies in c, borders included.
Inside(b, c) == \A i \in Axis : c.l[i] <= b.l[i] /\ b.u[i] <= c.u[i]

Cells(b) == {c \in [Axis -> 0 .. Max({b.u[i] : i \in Axis})] :
                \A i \in Axis : b.l[i] <= c[i] /\ c[i] < b.u[i]}

-----------------------------------------------------------------------------
(* QTable: RTable and KVTable.                                              *)

Entry(k, b, v) == [at |-> IF setup.kind = "KV" THEN k ELSE b, val |-> v]

\* query: RTable finds the entries whose box contains the queried one, whatever
\* their key; KVTable those of the <key, ver>, whatever their box.
RFound(b)  == SelectSeq(table, LAMBDA e : Inside(b, e.at))
KVFound(k) == SelectSeq(table, LAMBDA e : e.at = k)

Values(t) == [i \in DOMAIN t |-> t[i].val]

Found(k, b) ==
    IF ~Valid(b) THEN <<>> ELSE Values(IF setup.kind = "KV" THEN KVFound(k) ELSE RFound(b))

\* KVTable::del erases the <key, ver>.
KVWithout(k) == SelectSeq(table, LAMBDA e : e.at # k)

\* RTable::del removes the queried box with each value found; an entry of a
\* larger box is found, and stays.
Without(k, b) ==
    IF setup.kind = "R"
    THEN FoldLeft(LAMBDA t, v : RemoveFirst(t, Entry(k, b, v)), table, Found(k, b))
    ELSE KVWithout(k)

-----------------------------------------------------------------------------
(* SAlgo and HSAlgo.                                                        *)

\* hilbert_num_bits: from the longest side, wherever the space starts.
num_bits(s) ==
    LET side == Max({s.u[i] - s.l[i] : i \in Axis})
    IN  Min({n \in 0 .. side : 2 ^ n >= side})

max_index(s) == 2 ^ (NDim * num_bits(s)) - 1

coor_to_index_interval_set(s, b) ==
    {mfa_hilbert_c2i(NDim, num_bits(s), c) : c \in Cells(b)}

\* Mutant of expand_interval_set: one side only.
ExpandDown(s, n, I) == UNION {Max({0, i - n}) .. i : i \in I}

\* The union of the expanded intervals is the union of the expanded indices;
\* both ends are clamped to the curve.
expand_interval_set(s, n, I) ==
    UNION {Max({0, i - n}) .. Min({max_index(s), i + n}) : i \in I}

index_interval_set_to_coor_v(s, I) == {mfa_hilbert_i2c(NDim, num_bits(s), i) : i \in I}

\* RTable::get_bound_lucoor over the cells, each a box of side 1.
Bounds(C) == [l |-> [i \in Axis |-> Min({c[i] : c \in C})],
              u |-> [i \in Axis |-> Max({c[i] : c \in C}) + 1]]

get_to_fetch(s, n, b) ==
    Bounds(index_interval_set_to_coor_v(s,
        expand_interval_set(s, n, coor_to_index_interval_set(s, b))))

-----------------------------------------------------------------------------
NoBox == [l |-> <<>>, u |-> <<>>]

SpaceInit ==
    /\ setup \in Setup
    /\ table = <<>>
    /\ ds_of = [a \in App |-> 0]
    /\ acced = <<>>
    /\ accuracy = <<>>
    /\ fetched = [box |-> NoBox, got |-> NoBox]
    /\ walk = [index |-> 0, coor |-> mfa_hilbert_i2c(NDim, num_bits(setup.space), 0)]
    /\ live = {}

Directory == setup.kind \in {"R", "KV"}

\* WASpace::reg_app.
reg_app(a, d) ==
    /\ Directory /\ ds_of[a] = 0
    /\ ds_of' = [ds_of EXCEPT ![a] = d]
    /\ UNCHANGED <<setup, table, acced, accuracy, fetched, walk, live>>

\* Adding to the table: an invalid box is refused.
AddEntry(k, b, v) ==
    IF Valid(b) THEN /\ table' = Append(table, Entry(k, b, v))
                     /\ live' = live \cup {Entry(k, b, v)}
                ELSE UNCHANGED <<table, live>>

\* SWASpace::put of a registered application's own data (ds_id = -1), and of
\* data fetched to a site (NULL_P_ID); QTable::add at a slave is the latter.
put(a, k, b) ==
    /\ Directory /\ Len(table) < MaxEntry
    /\ ds_of[a] # 0
    /\ AddEntry(k, b, ds_of[a])
    /\ UNCHANGED <<setup, ds_of, acced, accuracy, fetched, walk>>

put_at(d, k, b) ==
    /\ Directory /\ Len(table) < MaxEntry
    /\ AddEntry(k, b, d)
    /\ UNCHANGED <<setup, ds_of, acced, accuracy, fetched, walk>>

\* SWASpace::del: nothing is deleted when the query finds nothing.
del(k, b) ==
    /\ Directory /\ Found(k, b) # <<>>
    /\ table' = Without(k, b)
    /\ live' = {e \in live : e.at # Entry(k, b, 0).at}
    /\ UNCHANGED <<setup, ds_of, acced, accuracy, fetched, walk>>

\* SAlgo::add_access.
add_access(b) ==
    /\ setup.kind = "acc" /\ Len(acced) < MaxAcc
    /\ acced' = Append(acced, [box |-> b, set |-> coor_to_index_interval_set(setup.space, b)])
    /\ UNCHANGED <<setup, table, ds_of, accuracy, fetched, walk, live>>

\* One round of sim_prefetch_accuracy for a spatial predictor: query the table,
\* count a miss, ask what to fetch and add it to the table.
access(b) ==
    LET got == get_to_fetch(setup.space, setup.sexpand, b)
    IN  /\ setup.kind = "sim" /\ Len(accuracy) < MaxAcc
        /\ Valid(b)
        /\ accuracy' = Append(accuracy, [box |-> b, hit |-> Found(0, b) # <<>>])
        /\ fetched' = [box |-> b, got |-> got]
        /\ AddEntry(0, got, 0)
        /\ UNCHANGED <<setup, ds_of, acced, walk>>

\* The loop of index_interval_set_to_coor_v over the interval that is the whole
\* curve.
step ==
    /\ setup.kind = "walk" /\ walk.index < max_index(setup.space)
    /\ walk' = [index |-> walk.index + 1,
                coor  |-> mfa_hilbert_i2c(NDim, num_bits(setup.space), walk.index + 1)]
    /\ UNCHANGED <<setup, table, ds_of, acced, accuracy, fetched, live>>

SpaceNext ==
    \/ step
    \/ \E a \in App, d \in Ds : reg_app(a, d)
    \/ \E a \in App, k \in Key, b \in Box : put(a, k, b)
    \/ \E d \in Ds, k \in Key, b \in Box : put_at(d, k, b)
    \/ \E k \in Key, b \in Box : del(k, b)
    \/ \E b \in Box : add_access(b) \/ access(b)

-----------------------------------------------------------------------------
SpaceTypeOK ==
    /\ setup \in Setup
    /\ \A i \in DOMAIN table : table[i].val \in IF Directory THEN Ds ELSE {0}
    /\ ds_of \in [App -> Ds \cup {0}]
    /\ Len(acced) <= MaxAcc /\ Len(accuracy) <= MaxAcc

\* The table holds exactly what was added and not deleted: RTable::del, which
\* collects values from every box around the one it is given, takes away
\* neither less than all entries of that box nor any entry of another box.
TableExact == ToSet(table) = live

\* The cells of the curve: SAlgo uses coordinates as they are, not relative to
\* the space's corner.
OnCurve(s, b) == \A i \in Axis : b.u[i] <= 2 ^ num_bits(s)

\* get_to_fetch answers with a box around the accessed one and around every
\* cell at most sexpand_length steps away from it along the curve, and never
\* asks for a cell off the curve, whatever box it was given.
FetchCovers ==
    LET s == setup.space
        b == fetched.box
        index == [c \in [Axis -> 0 .. 2 ^ num_bits(s) - 1] |-> mfa_hilbert_c2i(NDim, num_bits(s), c)]
        Near(c) == \E d \in Cells(b) : index[c] - index[d] \in -setup.sexpand .. setup.sexpand
    IN  b # NoBox =>
          /\ OnCurve(s, fetched.got)
          /\ OnCurve(s, b) =>
               \A c \in DOMAIN index : Near(c) => c \in Cells(fetched.got)

\* What is fetched for a box is found for that box: in the simulator a box that
\* was accessed once is a hit ever after (off the curve it may miss again).
SecondAccessHits ==
    \A i, j \in DOMAIN accuracy :
        i < j /\ accuracy[i].box = accuracy[j].box /\ OnCurve(setup.space, accuracy[i].box)
          => accuracy[j].hit

\* An access is remembered with one index per cell of its box, all of them on
\* the curve (off the curve different cells may share an index).
IndexPerCell ==
    \A i \in DOMAIN acced :
        OnCurve(setup.space, acced[i].box) =>
          /\ acced[i].set \subseteq 0 .. max_index(setup.space)
          /\ Cardinality(acced[i].set) = Cardinality(Cells(acced[i].box))

\* i2c and c2i are inverse to each other over the whole curve ...
RoundTrip ==
    setup.kind = "walk" =>
        mfa_hilbert_c2i(NDim, num_bits(setup.space), walk.coor) = walk.index

\* ... and a step along the curve is a step to an adjacent cell, which is why
\* an interval around an index is a neighbourhood in space.
CurveIsPath ==
    [][walk' # walk =>
         \E i \in Axis : /\ walk'.coor[i] - walk.coor[i] \in {-1, 1}
                         /\ \A j \in Axis \ {i} : walk'.coor[j] = walk.coor[j]]_walk

\* Where accesses are near in space: after any adds and deletions of overlapping
\* boxes a table has what it should have (RTable, KVTable, SWASpace); what HSAlgo
\* fetches for a box surrounds it along the curve, so that the box is found ever
\* after, and the indices it remembers are those of its cells; the conversions of
\* hilbert.c are inverse to each other, and their curve is one unbroken path.
SpaceSound ==
    /\ [](SpaceTypeOK /\ TableExact)
    /\ [](FetchCovers /\ SecondAccessHits /\ IndexPerCell /\ RoundTrip)
    /\ CurveIsPath
=============================================================================
