---------------------------- MODULE MCPrediction ----------------------------
(***************************************************************************)
(* Small instances of the two ways in which a site's next accesses are     *)
(* guessed: by the applications' order (PAlgo) and by place (Space).  Each *)
(* behaviour is of one of the two; the other stands still.                 *)
(***************************************************************************)
EXTENDS PAlgo, Space, TLC

VARIABLE part

-----------------------------------------------------------------------------
(* PAlgo: three applications; every predictor by itself, and each mix.      *)

Of(a, n) == [malgo |-> a, size |-> n]
Mixed(k, s, w, m) == [kind |-> k, of |-> s, weight |-> w, num |-> 1, max |-> m]
One(a, n, m) == Mixed("1", <<Of(a, n)>>, <<>>, m)

MCMix == {One("LZ", 0, 7), One("ALZ", 0, 7), One("PPM", 1, 5), One("PPM", 2, 6), One("PO", 0, 4), One("TA", 0, 4),
          Mixed("M", <<Of("PPM", 1), Of("PPM", 2)>>, <<>>, 5),
          Mixed("W", <<Of("LZ", 0), Of("PPM", 1)>>, <<1, 2>>, 5)}
         \cup {Mixed(k, <<Of("PPM", 1), Of("LZ", 0)>>, <<>>, 4) : k \in {"B", "MJ", "RMJ"}}

-----------------------------------------------------------------------------
(* Space: three axes, as in the source.                                     *)

B(l, u) == [l |-> (0 :> l[1] @@ 1 :> l[2] @@ 2 :> l[3]), u |-> (0 :> u[1] @@ 1 :> u[2] @@ 2 :> u[3])]
Cube(l, u) == B(<<l, l, l>>, <<u, u, u>>)

\* Spaces of side 4, of sides 3, 4 and 2, and one that does not start at the
\* origin; a walk over the curves of 1, 2 and 3 bits.
Conf(kind, space, sexpand) == [kind |-> kind, space |-> space, sexpand |-> sexpand]
Setups ==
    {Conf("R", Cube(0, 4), 1), Conf("KV", Cube(0, 4), 1)}
      \cup {Conf("sim", s, n) : s \in {Cube(0, 4), B(<<0, 0, 0>>, <<3, 4, 2>>), Cube(2, 6)}, n \in {0, 2}}
      \cup {Conf("acc", Cube(0, 4), 1)}
      \cup {Conf("walk", Cube(0, n), 0) : n \in {2, 3, 5}}

\* Nested, crossing and disjoint boxes, one that is empty on an axis and one
\* off the curve of 2 bits.
Boxes == {Cube(0, 2), B(<<0, 0, 1>>, <<1, 2, 2>>), B(<<1, 1, 0>>, <<3, 2, 2>>), Cube(3, 4),
          B(<<2, 2, 2>>, <<2, 3, 3>>), B(<<4, 3, 0>>, <<6, 4, 1>>)}

-----------------------------------------------------------------------------
MCInit ==
    /\ Init /\ SpaceInit
    /\ \/ part = "order" /\ setup = CHOOSE s \in Setup : TRUE
       \/ part = "place" /\ mix = CHOOSE m \in Mix : TRUE

MCNext ==
    /\ \/ part = "order" /\ Next /\ UNCHANGED spaceVars
       \/ part = "place" /\ SpaceNext /\ UNCHANGED vars
    /\ UNCHANGED part

MCSpec == MCInit /\ [][MCNext]_<<part, vars, spaceVars>>
=============================================================================
