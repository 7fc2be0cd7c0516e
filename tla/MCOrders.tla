------------------------------ MODULE MCOrders ------------------------------
(***************************************************************************)
(* Small instances of Orders: one datum at the second slave and one at the *)
(* master; the first slave gets both, and the first of them twice.  And    *)
(* small instances of Startup.  Each behaviour is of one of the two; the   *)
(* other stands still.                                                     *)
(***************************************************************************)
EXTENDS Orders, Startup

CONSTANTS g1, g2, g3

VARIABLE part

Slaves  == {1, 2}
HolderOf == [d \in {"a", "b"} |-> IF d = "a" THEN 2 ELSE 0]
Gets    == {g1, g2, g3}
GetAt   == [g \in Gets |-> IF g = g3 THEN 2 ELSE 1]
GetOf   == [g \in Gets |-> IF g = g3 THEN "b" ELSE "a"]
Picks   == {<<1, "a">>, <<1, "b">>, <<2, "b">>, <<0, "a">>}

\* Two gets of one datum; a get with a prefetch of its datum to its site or to the
\* master, or of another to its site; and two prefetches, to one site or to two.
Scenes  == {{g1, g2}, {g1, <<1, "a">>}, {g1, <<0, "a">>}, {g1, <<1, "b">>}, {g3, <<1, "b">>},
            {<<1, "a">>, <<1, "b">>}, {<<1, "b">>, <<2, "b">>}, {<<1, "a">>, <<0, "a">>}}

\* Three sites come up; an application has two requests at a time beside one of the
\* master; the master and a site have an application of the same id.
Ask(id, site, app) == [id |-> id, site |-> site, app |-> app]
Requests  == {Ask(1, 1, "a"), Ask(2, 1, "a"), Ask(3, 0, "a"), Ask(4, 0, "b")}
Run(S, I) == [sites |-> S, requests |-> {r \in Requests : r.id \in I}]
Scenarios == {Run(0 .. 2, {}), Run(0 .. 1, {1, 2, 4}), Run(0 .. 1, {1, 3})}

MCInit ==
    /\ Init
    /\ \/ part = "orders" /\ StartupIdle
       \/ part = "startup" /\ StartupInit /\ scene = CHOOSE s \in Scene : TRUE

MCNext ==
    /\ \/ part = "orders" /\ Next /\ UNCHANGED svars
       \/ part = "startup" /\ StartupNext /\ UNCHANGED vars
    /\ UNCHANGED part

MCSpec == MCInit /\ [][MCNext]_<<part, vars, svars>> /\ WF_vars(Work) /\ StartupFair
=============================================================================
