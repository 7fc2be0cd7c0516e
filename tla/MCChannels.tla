----------------------------- MODULE MCChannels -----------------------------
(***************************************************************************)
(* Instances of what carries messages, names and data between nodes: one   *)
(* InfiniBand transfer, one GridFTP transfer, one control connection, the  *)
(* parity of some chunks, or two names.  Each behaviour is of one of them; *)
(* the others stand still.                                                 *)
(***************************************************************************)
EXTENDS IBChannel, DataId, GridFTP, Wire, Xor, TcpStream

VARIABLE channel

chVars == <<channel, vars, named, gvars, wvars, xvars, tvars>>

MCKeyText == UNION {[1 .. n -> {49, 95, 97}] : n \in 1 .. 2}

\* One message is cut in a value, one fits, and one is cut after a key.
MCText == [t \in WThread |-> IF t = CHOOSE u \in WThread : TRUE
                             THEN <<[lead |-> 1, fields |-> 1], [lead |-> 0, fields |-> 1]>>
                             ELSE <<[lead |-> 2, fields |-> 1]>>]

MCTransfer ==
    [idlen : {2}, type : {"char"}, length : 0 .. 5]
    \cup [idlen : {2}, type : {"float", "double", "none"}, length : {1, 2}]
    \cup [idlen : {3, 4}, type : {"char"}, length : {1, 4}]

Others(c) ==
    /\ c = "name" \/ NameIdle
    /\ c = "gftp" \/ GftpIdle
    /\ c = "wire" \/ WireIdle
    /\ c = "xor"  \/ XorIdle
    /\ c = "tcp"  \/ TcpIdle

MCInit ==
    /\ Init
    /\ \/ channel = "ib"
       \/ channel = "name" /\ NameInit
       \/ channel = "gftp" /\ GftpInit
       \/ channel = "wire" /\ WireInit
       \/ channel = "xor"  /\ XorInit
       \/ channel = "tcp"  /\ TcpInit
    /\ Others(channel)

MCNext ==
    /\ \/ channel = "ib"   /\ Next     /\ UNCHANGED <<gvars, wvars, xvars, tvars>>
       \/ channel = "gftp" /\ GftpNext /\ UNCHANGED <<vars, wvars, xvars, tvars>>
       \/ channel = "wire" /\ WireNext /\ UNCHANGED <<vars, gvars, xvars, tvars>>
       \/ channel = "xor"  /\ XorNext  /\ UNCHANGED <<vars, gvars, wvars, tvars>>
       \/ channel = "tcp"  /\ TcpNext  /\ UNCHANGED <<vars, gvars, wvars, xvars>>
    /\ UNCHANGED <<channel, named>>

MCSpec == MCInit /\ [][MCNext]_chVars /\ WireFair /\ TcpFair

\* What was sent arrives: a control message that was sent whole is handled by
\* SDMServer, and a TCP put that has returned wakes its waiter, unless the
\* connection breaks, an end is closed or something does not fit.
SentArrives == AllHandled /\ TcpPutArrives
=============================================================================
