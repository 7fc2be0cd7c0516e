-------------------------------- MODULE Xor --------------------------------
(***************************************************************************)
(* Parity of chunks (resilience/xor.cpp): XORER::parallel_xor cuts the     *)
(* chunks into words of chunk_size / num_thread bytes, starts a thread for *)
(* every word, which clears its part of the result and adds the chunks one *)
(* after the other, and joins them.                                        *)
(***************************************************************************)
EXTENDS Integers, Sequences, FiniteSets, Folds, Bitwise

CONSTANTS
    NumChunk,      \* num_chunk
    MaxChunkSize,  \* bound on chunk_size
    MaxXorThread,  \* bound on num_thread
    XByte          \* the bytes there are

ASSUME XorAssumption == NumChunk \in Nat \ {0} /\ MaxChunkSize \in Nat /\ MaxXorThread \in Nat \ {0}

VARIABLES
    xsize,    \* chunk_size
    xnum,     \* num_thread
    xchunk,   \* chunk__
    xr,       \* r_
    xstep,    \* xstep[i]: what thread i does next; -1 before it is started
    xret      \* parallel_xor has returned

xvars == <<xsize, xnum, xchunk, xr, xstep, xret>>

Garbage == 99

XorInit ==
    /\ xsize \in 0 .. MaxChunkSize /\ xnum \in 1 .. MaxXorThread
    /\ xchunk \in [1 .. NumChunk -> [1 .. xsize -> XByte]]
    /\ xr = [j \in 1 .. xsize |-> Garbage]
    /\ xstep = [i \in 0 .. xnum - 1 |-> -1] /\ xret = FALSE

XorIdle ==
    /\ xsize = 0 /\ xnum = 1 /\ xchunk = [c \in 1 .. NumChunk |-> <<>>]
    /\ xr = <<>> /\ xstep = [i \in {0} |-> -1] /\ xret = FALSE

\* Mutant of WordSize: the rest of the division is nobody's.
WordSizeEven(i) == xsize \div xnum

\* The last thread takes the rest of the division.
WordSize(i) ==
    IF i < xnum - 1 THEN xsize \div xnum
    ELSE (xsize \div xnum) + xsize - xnum * (xsize \div xnum)

\* The bytes of thread i: the pointers have moved by the words before.
Word(i) == LET o == i * (xsize \div xnum) IN o + 1 .. o + WordSize(i)

StartThread(i) ==
    /\ xstep[i] = -1 /\ (i > 0 => xstep[i - 1] # -1)
    /\ xstep' = [xstep EXCEPT ![i] = 0]
    /\ UNCHANGED <<xsize, xnum, xchunk, xr, xret>>

\* _xor of a thread: step 0 clears, step w adds chunk w.
XorStep(i) ==
    /\ xstep[i] \in 0 .. NumChunk
    /\ xr' = [j \in 1 .. xsize |->
                IF j \notin Word(i) THEN xr[j]
                ELSE IF xstep[i] = 0 THEN 0 ELSE xr[j] ^^ xchunk[xstep[i]][j]]
    /\ xstep' = [xstep EXCEPT ![i] = @ + 1]
    /\ UNCHANGED <<xsize, xnum, xchunk, xret>>

JoinAll ==
    /\ ~xret /\ \A i \in DOMAIN xstep : xstep[i] = NumChunk + 1
    /\ xret' = TRUE
    /\ UNCHANGED <<xsize, xnum, xchunk, xr, xstep>>

XorNext == JoinAll \/ \E i \in DOMAIN xstep : StartThread(i) \/ XorStep(i)

\* _xor of two chunks: the shorter is filled up with 0.
XorTwo(a, b) ==
    LET At(s, i) == IF i <= Len(s) THEN s[i] ELSE 0
    IN  [i \in 1 .. (IF Len(a) < Len(b) THEN Len(b) ELSE Len(a)) |-> At(a, i) ^^ At(b, i)]

-----------------------------------------------------------------------------
(* Properties.                                                              *)

\* Whatever the number of threads and the order they run in, also with more
\* threads than bytes, the result has with any chunk that is lost what is needed
\* to get it back from the others.
ParityRecovers ==
    xret => \A lost \in 1 .. NumChunk : \A j \in 1 .. xsize :
        xchunk[lost][j] =
            MapThenFoldSet(^^, xr[j], LAMBDA c : xchunk[c][j], LAMBDA S : CHOOSE c \in S : TRUE,
                           (1 .. NumChunk) \ {lost})

\* The parity of two chunks of different sizes gives back either one, followed by
\* zeros.
PairRecovers ==
    \A n \in 0 .. xsize :
        LET a == xchunk[1]
            b == SubSeq(xchunk[NumChunk], 1, n)
            p == XorTwo(a, b)
            F(s) == s \o [i \in 1 .. Len(p) - Len(s) |-> 0]
        IN  XorTwo(p, b) = F(a) /\ XorTwo(p, a) = F(b)

\* Any lost chunk can be recovered from the others and the parity, however the
\* work is divided (XORER::parallel_xor) and whatever the sizes of two chunks.
ParitySound == ParityRecovers /\ PairRecovers
=============================================================================
