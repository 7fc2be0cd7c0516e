---------------------------- MODULE MCRIManager ----------------------------
(***************************************************************************)
(* Small instances of RIManager; and one of SyncerSteps, the syncers its   *)
(* threads wait with: three threads and two notifications that meet on one *)
(* point (points share nothing).  Each behaviour is of one of the two; the *)
(* other stands still.                                                     *)
(***************************************************************************)
EXTENDS RIManager, SyncerSteps

CONSTANTS s0, s1, s2, d1, d2, p1

VARIABLE part

OnePoint == [x \in Waiter \cup Handler |-> p1]

\* d1 goes from s1 to s2, perhaps twice (the master may order a move twice), and
\* to the master as well; d2 from the master to s2.  The get is at s2.
X(i, from, to, d) == [id |-> i, src |-> from, dst |-> to, dat |-> d]
ToS2   == X(1, s1, s2, d1)
Again  == X(2, s1, s2, d1)
ToS0   == X(1, s1, s0, d1)
D2ToS2 == X(1, s0, s2, d2)
Orders == {ToS2, Again, ToS0, D2ToS2}
Gets   == {[id |-> 1, site |-> s2, dat |-> d1]}

Ib(orders, late, gets, list, chunks, fails) ==
    [orders |-> orders, late |-> late, gets |-> gets, protocol |-> "INFINIBAND",
     ports |-> list, chunks |-> chunks, fails |-> fails]
Tcp(orders, chunks) ==
    [orders |-> orders, late |-> {}, gets |-> Gets, protocol |-> "TCP",
     ports |-> {}, chunks |-> chunks, fails |-> TRUE]

\* Over InfiniBand: two transfers for one port; for a port each; one datum to
\* two sites, and meanwhile the same and then another datum to one of them; the
\* same order twice.
IbOnePort  == Ib({ToS2, D2ToS2}, {}, Gets, {5001}, 2, TRUE)
IbTwoPorts == Ib({ToS2, D2ToS2}, {}, Gets, {5001, 5002}, 2, TRUE)
IbTwoSites == Ib({ToS2, ToS0}, {}, Gets, {5001}, 1, TRUE)
IbStale    == Ib({ToS2, ToS0, D2ToS2}, {D2ToS2}, {}, {5001}, 1, FALSE)
IbAgain    == Ib({ToS2, Again}, {}, {}, {5001, 5002}, 1, TRUE)

\* Over TCP: one transfer; the same one twice.
TcpOne   == Tcp({ToS2}, 3)
TcpAgain == Tcp({ToS2, Again}, 1)

Transfers == {IbOnePort, IbTwoPorts, IbTwoSites, IbStale, IbAgain, TcpOne, TcpAgain}

MCInit ==
    /\ Init /\ StepsInit
    /\ \/ part = "transfer"
       \/ part = "syncer" /\ config = TcpAgain

MCNext ==
    /\ \/ part = "transfer" /\ Next /\ UNCHANGED stepsVars
       \/ part = "syncer" /\ StepsNext /\ UNCHANGED vars
    /\ UNCHANGED part

MCSpec == MCInit /\ [][MCNext]_<<part, vars, stepsVars>>
=============================================================================
