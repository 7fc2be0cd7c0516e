---------------------------- MODULE MCSDMControl ----------------------------
(* Small instances of SDMControl.  A master s0 and slaves s1, s2; each      *)
(* instance below places applications, data and gets.                       *)
EXTENDS SDMControl, TLC

CONSTANTS s0, s1, s2, none, p, q, c, e, f, h, d1, d2, g1, g2, g3, g4, g5, g6

TwoSlaves == {s1, s2}
POne      == d1 :> p

\* Every application has registered at its site.
Registered == Home

\* Producers p (at s1, not registered yet) and q (at s0, the same); consumers
\* c (at s2) and e (at s0), who want the data of both; applications f, at s2,
\* and h, at s0, that run under ids in use at s1.
AllHome  == p :> s1 @@ q :> s0 @@ c :> s2 @@ e :> s0 @@ f :> s2 @@ h :> s0
AllDs0   == p :> none @@ q :> none @@ c :> s2 @@ e :> s0 @@ f :> s1 @@ h :> s1
AllProd  == d1 :> p @@ d2 :> q
AllGetA  == g1 :> c @@ g2 :> c @@ g3 :> e @@ g4 :> e @@ g5 :> f @@ g6 :> h
AllGetD  == g1 :> d1 @@ g2 :> d2 @@ g3 :> d1 @@ g4 :> d2 @@ g5 :> d1 @@ g6 :> d1
AllBlock == [g \in {g1, g2, g3, g4, g5, g6} |-> TRUE]

\* One consuming site, s2, with two applications that want the same datum,
\* put at s1; the third get comes later and does not block.
SiteHome   == p :> s1 @@ c :> s2 @@ e :> s2
SiteGetA   == g1 :> c @@ g2 :> e @@ g3 :> c
SiteGetD   == g1 :> d1 @@ g2 :> d1 @@ g3 :> d1
SiteBlock  == g1 :> TRUE @@ g2 :> TRUE @@ g3 :> FALSE

\* Two consuming sites, s1 and s2, that want one datum put at the master.
CrossedHome  == p :> s0 @@ c :> s2 @@ e :> s1
CrossedGetA  == g1 :> c @@ g2 :> e
CrossedGetD  == g1 :> d1 @@ g2 :> d1
CrossedBlock == g1 :> TRUE @@ g2 :> TRUE

\* One blocking get of a datum of the other slave.
OneHome == p :> s1 @@ c :> s2
OneGetA == g1 :> c
OneGetD == g1 :> d1
OneBlock    == g1 :> TRUE
=============================================================================
