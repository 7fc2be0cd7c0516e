----------------------------- MODULE MCMPBuffer -----------------------------
(* A small instance of MPBuffer: producers p1 and p2 put at other sites, p3  *)
(* at the buffer's own.                                                     *)
EXTENDS MPBuffer

CONSTANTS none, p1, p2, p3, k1, k2, k3, k4, k5, k6, t1, t2

ThreeProd == k1 :> p1 @@ k2 :> p1 @@ k3 :> p2 @@ k4 :> p2 @@ k5 :> p3 @@ k6 :> p3

\* The threads are alike, and so are a producer's data, and the two producers
\* at other sites together with their data.
Swap == p1 :> p2 @@ p2 :> p1 @@ k1 :> k3 @@ k3 :> k1 @@ k2 :> k4 @@ k4 :> k2
Alike == Permutations({t1, t2}) \cup Permutations({k1, k2}) \cup Permutations({k3, k4})
            \cup Permutations({k5, k6}) \cup {Swap}
=============================================================================
