----------------------------- MODULE MCSDMNode -----------------------------
(* Small overlays: node 0 is the master, and everyone joins it.             *)
EXTENDS SDMNode

Four   == 0 .. 3
ToZero == [n \in Four |-> 0]

\* Three sites that come up together, four one by one, and a site with three
\* applications.
Mesh     == [nodes |-> 0 .. 2, mesh |-> TRUE, onebyone |-> FALSE]
OneByOne == [nodes |-> Four, mesh |-> TRUE, onebyone |-> TRUE]
Star     == [nodes |-> Four, mesh |-> FALSE, onebyone |-> FALSE]
Overlays == {Mesh, OneByOne, Star}
=============================================================================
