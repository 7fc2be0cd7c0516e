------------------------------ MODULE Hilbert ------------------------------
(***************************************************************************)
(* The Hilbert curve of prefetch/hilbert.c: mfa_hilbert_c2i turns a cell   *)
(* into its position on the curve, mfa_hilbert_i2c turns a position into   *)
(* its cell.  nD is the number of axes, nB the bits per axis.              *)
(*                                                                         *)
(* A word (bitmask_t, halfmask_t) is the set of its bits that are set:     *)
(* or is union, exclusive or is SymDiff, a mask is an intersection and a   *)
(* shift adds to every member.                                             *)
(***************************************************************************)
EXTENDS Integers, Sequences, FiniteSets, FiniteSetsExt

\* The word of a number and the number of a word.
Bits(w)   == {k \in 0 .. 16 : (w \div 2 ^ k) % 2 = 1}
Number(B) == MapThenSumSet(LAMBDA k : 2 ^ k, B)

Shl(B, n) == {b + n : b \in B}
Shr(B, n) == {b - n : b \in {c \in B : c >= n}}
Odd(B)    == Cardinality(B) % 2 = 1

\* The loops  for (d = s; d < n; d *= 2)  w ^= w >> d.
Fold(B, s, n) == {k \in 0 .. n - 1 : Odd({b \in B : b >= k /\ (b - k) % s = 0})}

rotateRight(B, r, nD) == {(d - r + nD) % nD : d \in B}
rotateLeft(B, r, nD)  == {(d + r) % nD : d \in B}

\* adjust_rotation: past the lowest set bit, unless that is the top one.
adjust_rotation(r, B, nD) ==
    LET skip == IF B = {} \/ Min(B) = nD - 1 THEN 0 ELSE Min(B) + 1
    IN  (r + skip + 1) % nD

(***************************************************************************)
(* bitTranspose, the DLOGB_BIT_TRANSPOSE version: nD fields of nB bits     *)
(* become nB fields of nD bits, by halving the fields.  One round:         *)
(* ends are the lowest bits of the pieces of a field that are done; the    *)
(* odd top bits of the pieces are moved to their final place in coords.    *)
(***************************************************************************)
Halve(s, nD) ==
    LET ut    == s.inB \div 2
        shift == (nD - 1) * ut
        ends  == s.ends \cup Shl(s.ends, shift + ut)
        mask  == {e + i : e \in ends, i \in 0 .. ut - 1}
        starts == IF s.inB % 2 = 1 THEN Shl(s.ends, s.inB - 1) ELSE {}
        in(d)  == Shr(s.in, d * s.inB) \cap s.mask
        rest(d) == (in(d) \ starts) \cup Shl(in(d) \ starts, shift)
    IN  [inB |-> ut, ends |-> ends, mask |-> mask,
         in     |-> UNION {Shl(rest(d) \cap mask, d * ut) : d \in 0 .. nD - 1},
         coords |-> s.coords \cup
                    UNION {Shl(in(d) \cap starts, 2 * shift + d) : d \in 0 .. nD - 1}]

bitTranspose(nD, nB, inCoords) ==
    LET run[k \in 0 .. nB] ==
            IF k = 0
            THEN [inB |-> nB, ends |-> {0}, mask |-> 0 .. nB - 1,
                  in |-> inCoords, coords |-> {}]
            ELSE IF run[k - 1].inB \div 2 = 0 THEN run[k - 1] ELSE Halve(run[k - 1], nD)
    IN  run[nB].coords \cup run[nB].in

(***************************************************************************)
(* The walk both directions share, from the top digit (nD bits) down.  The *)
(* rotation and the flipped bit in force at a digit come from the index    *)
(* bits of the digits above it.                                            *)
(***************************************************************************)
Digit(B, k, nD) == Shr(B, k * nD) \cap (0 .. nD - 1)

Step(s, digit, bits, nD) ==
    [rotation |-> adjust_rotation(s.rotation, bits, nD),
     flip     |-> {s.rotation},
     out      |-> Shl(s.out, nD) \cup digit]

Start == [rotation |-> 0, flip |-> {}, out |-> {}]

nthbits(nD, nB) == {k * nD : k \in 0 .. nB - 1}

\* Every coordinate is ORed in at its own offset: the bits of a coordinate of
\* more than nB bits land in the fields of the next axes.
Packed(nD, nB, coord) == UNION {Shl(Bits(coord[d]), d * nB) : d \in 0 .. nD - 1}

mfa_hilbert_c2i(nD, nB, coord) ==
    LET packed == Packed(nD, nB, coord)
        coords == bitTranspose(nD, nB, packed)
        gray   == SymDiff(coords, Shr(coords, nD))
        walk[k \in 0 .. nB] ==
            IF k = 0 THEN Start
            ELSE LET s    == walk[k - 1]
                     bits == rotateRight(SymDiff(s.flip, Digit(gray, nB - k, nD)),
                                         s.rotation, nD)
                 IN  Step(s, bits, bits, nD)
        index == SymDiff(walk[nB].out, Shr(nthbits(nD, nB), 1))
    IN  Number(Fold(IF nB > 1 THEN index ELSE packed, 1, 17))

mfa_hilbert_i2c(nD, nB, index) ==
    LET x    == Bits(index)
        gray == SymDiff(x, Shr(SymDiff(x, nthbits(nD, nB)), 1))
        walk[k \in 0 .. nB] ==
            IF k = 0 THEN Start
            ELSE LET s    == walk[k - 1]
                     bits == Digit(gray, nB - k, nD)
                 IN  Step(s, SymDiff(rotateLeft(bits, s.rotation, nD), s.flip), bits, nD)
        coords == IF nB > 1
                  THEN bitTranspose(nB, nD, Fold(walk[nB].out, nD, nD * nB))
                  ELSE SymDiff(x, Shr(x, 1))
    IN  [d \in 0 .. nD - 1 |-> Number(Shr(coords, d * nB) \cap (0 .. nB - 1))]

=============================================================================
