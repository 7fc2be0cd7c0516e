------------------------------- MODULE DataId -------------------------------
(***************************************************************************)
(* Names of data (dspaces_rel/sdm_control/patch_sdm.cpp).  A datum is      *)
(* known by its data id, the text get_data_id makes of its key and version *)
(* or of its box; sync points and tables use hash_str of it.  MsgCoder     *)
(* puts the parts of the name into a message and reads them back.          *)
(*                                                                         *)
(* Texts are sequences of character codes.  unsigned int arithmetic is     *)
(* kept to its low Width bits: * and ^ let no bit move to a lower place,   *)
(* so names that differ there differ in all 32.                            *)
(***************************************************************************)
EXTENDS Integers, SequencesExt, Bitwise

CONSTANTS
    Width,       \* bound: the bits of a hash that are looked at
    KeyText,     \* the keys
    MaxVer,      \* bound on versions
    Coordinate   \* the coordinates a box may have

ASSUME DataIdAssumption == Width \in 7 .. 14 /\ MaxVer \in 0 .. 99

VARIABLE named    \* two data that are named: <<kv, kv>> or <<box, box>>

Underscore == 95
Comma      == 44

\* lexical_cast<std::string> of a number below 100.
Digits(v) == IF v < 10 THEN <<48 + v>> ELSE <<48 + (v \div 10), 48 + (v % 10)>>

\* lexical_cast back.
Number(t) == FoldLeft(LAMBDA n, c : 10 * n + (c - 48), 0, t)

\* patch::arr_to_str.
arr_to_str(a) ==
    FlattenSeq([i \in 1 .. Len(a) |-> Digits(a[i]) \o (IF i < Len(a) THEN <<Comma>> ELSE <<>>)])

\* boost::tokenizer with the separator ",": empty tokens are dropped.
Tokens(t) ==
    SelectSeq(
        FoldLeft(LAMBDA ts, c : IF c = Comma THEN Append(ts, <<>>)
                                ELSE [ts EXCEPT ![Len(ts)] = Append(@, c)], << <<>> >>, t),
        LAMBDA s : s # <<>>)

\* get_data_id, KV_DATA_ID and LUCOOR_DATA_ID.
get_data_id(d) ==
    IF "key" \in DOMAIN d
    THEN d.key \o <<Underscore>> \o Digits(d.ver)
    ELSE arr_to_str(d.lb) \o <<Underscore>> \o arr_to_str(d.ub)

\* MsgCoder::encode_msg_map: the parts of the message.
encode_msg_map(d) ==
    IF "key" \in DOMAIN d
    THEN [key |-> d.key, ver |-> Digits(d.ver)]
    ELSE [lb_ |-> arr_to_str(d.lb), ub_ |-> arr_to_str(d.ub)]

\* MsgCoder::decode_msg_map.
decode_msg_map(m) ==
    LET Coors(t) == [i \in 1 .. Len(Tokens(t)) |-> Number(Tokens(t)[i])] IN
    IF "key" \in DOMAIN m
    THEN [key |-> m.key, ver |-> Number(m.ver)]
    ELSE [lb |-> Coors(m.lb_), ub |-> Coors(m.ub_)]

\* get_data_id of a message.
get_data_id_of_map(m) ==
    IF "key" \in DOMAIN m
    THEN m.key \o <<Underscore>> \o m.ver
    ELSE m.lb_ \o <<Underscore>> \o m.ub_

Low(n) == n % 2^Width

\* The loop of hash_str from h on: h = (h * HASH_PRIME) ^ (c * HASH_PRIME_2).
hash_from(h, t) == FoldLeft(LAMBDA g, c : Low(g * Low(54059)) ^^ Low(c * Low(76963)), h, t)

\* Mutant of hash_str: an even multiplier.
HashEven(t) == FoldLeft(LAMBDA h, c : Low(h * Low(54058)) ^^ Low(c * Low(76963)), 31, t)

\* hash_str, from 31.
hash_str(t) == hash_from(Low(31), t)

KeyVer == [key : KeyText, ver : 0 .. MaxVer]
Box    == [lb : Coordinate \X Coordinate, ub : Coordinate \X Coordinate]

NameInit == named \in (KeyVer \X KeyVer) \cup (Box \X Box)
NameIdle == named = LET d == CHOOSE d \in KeyVer : TRUE IN <<d, d>>

-----------------------------------------------------------------------------
(* Properties.                                                              *)

\* Two data have one id only if they are one: a version has no underscore, so
\* keys may.
IdsDistinct ==
    get_data_id(named[1]) = get_data_id(named[2]) => named[1] = named[2]

\* What a message says of a datum is read back as it was, and names it as the
\* sender does: the two get_data_ids agree, for the waiter hashes the one and the
\* handler that notifies it the other.
IdsAgree ==
    \A i \in 1 .. 2 : LET m == encode_msg_map(named[i]) IN
        /\ decode_msg_map(m) = named[i]
        /\ get_data_id_of_map(m) = get_data_id(named[i])

\* Ids of one length that differ in one character never share a sync point or a
\* table entry.  (Others may.)
HashOneApart ==
    LET s == get_data_id(named[1])
        t == get_data_id(named[2])
        D == {i \in 1 .. Len(s) : s[i] # t[i]}
    IN  Len(s) = Len(t) /\ (\E i \in 1 .. Len(s) : D = {i}) => hash_str(s) # hash_str(t)

\* Nor do a step of a series below 100 and the next one, whatever the key: not 9
\* and 10, which differ in length, nor 19 and 20, in two characters.  hash_str of
\* an id goes on from that of its key, which may be any number.  (Steps further
\* apart may share one.)
SeriesApart ==
    \A h \in 0 .. 2^Width - 1, v \in 0 .. 98 :
        hash_from(h, <<Underscore>> \o Digits(v)) # hash_from(h, <<Underscore>> \o Digits(v + 1))

\* Data that differ have different ids, ids survive a message, and neither ids one
\* character apart nor a step of a series and the next share a sync point
\* (get_data_id, MsgCoder, hash_str).
NamesSound == IdsDistinct /\ IdsAgree /\ HashOneApart /\ SeriesApart
=============================================================================
