------------------------------- MODULE Mover -------------------------------
(***************************************************************************)
(* What the control plane and the data plane of a wide-area data space     *)
(* promise each other about a move.  The control plane decides once about  *)
(* each order: it gives it, of data that some site holds and lists, or it  *)
(* never will.  The data plane ends an order that was given, once: it      *)
(* lists the data, complete, at the destination, or marks it failed there. *)
(* Apart from that, data comes to be where its producer puts it, once, and *)
(* nothing is stored or listed at another site.                            *)
(***************************************************************************)
EXTENDS Naturals

CONSTANTS
    Site, Data, Order,
    Dst, Dat,     \* the site and the data an order is about
    Origin        \* the site where each datum is put

VARIABLES
    dspaces,    \* dspaces[n]: the data, complete, in site n's DataSpaces
    qtable,     \* qtable[n]: the data site n's RIManager lists as local
    failed,     \* failed[n]: the data whose transfer to site n failed
    fresh,      \* the orders not decided yet
    todo        \* the orders given and not ended

vars == <<dspaces, qtable, failed, fresh, todo>>

Init ==
    /\ dspaces \in [Site -> SUBSET Data]
    /\ qtable \in [Site -> SUBSET Data]
    /\ \A n \in Site : qtable[n] \subseteq dspaces[n]
    /\ failed = [n \in Site |-> {}]
    /\ fresh = Order
    /\ todo = {}

\* An application puts d where d is put, and the site lists it.
Put(d) ==
    /\ \A n \in Site : d \notin dspaces[n]
    /\ dspaces' = [dspaces EXCEPT ![Origin[d]] = @ \cup {d}]
    /\ UNCHANGED <<qtable, failed, fresh, todo>>

List(d) ==
    /\ d \in dspaces[Origin[d]]
    /\ qtable' = [qtable EXCEPT ![Origin[d]] = @ \cup {d}]
    /\ UNCHANGED <<dspaces, failed, fresh, todo>>

\* An order is decided: it is given, or it never will be.
Begin(x) ==
    /\ x \in fresh
    /\ \E n \in Site : Dat[x] \in dspaces[n] \cap qtable[n]
    /\ fresh' = fresh \ {x}
    /\ todo' = todo \cup {x}
    /\ UNCHANGED <<dspaces, qtable, failed>>

Drop(x) ==
    /\ x \in fresh
    /\ fresh' = fresh \ {x}
    /\ UNCHANGED <<dspaces, qtable, failed, todo>>

\* The data of a given order is all there, before it is listed.
Arrive(x) ==
    /\ x \in todo
    /\ dspaces' = [dspaces EXCEPT ![Dst[x]] = @ \cup {Dat[x]}]
    /\ UNCHANGED <<qtable, failed, fresh, todo>>

\* A given order ends.
Done(x) ==
    /\ x \in todo
    /\ dspaces' = [dspaces EXCEPT ![Dst[x]] = @ \cup {Dat[x]}]
    /\ qtable' = [qtable EXCEPT ![Dst[x]] = @ \cup {Dat[x]}]
    /\ todo' = todo \ {x}
    /\ UNCHANGED <<failed, fresh>>

Fail(x) ==
    /\ x \in todo
    /\ failed' = [failed EXCEPT ![Dst[x]] = @ \cup {Dat[x]}]
    /\ todo' = todo \ {x}
    /\ UNCHANGED <<dspaces, qtable, fresh>>

Next ==
    \/ \E d \in Data : Put(d) \/ List(d)
    \/ \E x \in Order : Begin(x) \/ Drop(x) \/ Arrive(x) \/ Done(x) \/ Fail(x)

Spec == Init /\ [][Next]_vars
=============================================================================
