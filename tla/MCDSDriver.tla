----------------------------- MODULE MCDSDriver -----------------------------
(* Small instances of DSDriver.                                             *)
EXTENDS DSDriver

Calls == 1 .. 14
Kinds == <<"reg", "reg", "reg", "reg", "timed", "timed", "put", "send", "send", "wput", "wget", "wget", "reg", "send">>
Dats  == <<"a", "b", "a", "c", "a", "b", "c", "c", "d", "a", "a", "b", "d", "b">>
B(l, u) == [l |-> l, u |-> u]
Boxes == [o \in Calls |-> CASE o = 2 -> B(<<1, 1>>, <<3, 2>>)
                            [] o = 4 -> B(<<2, 0>>, <<1, 2>>)
                            [] o = 13 -> B(<<0, 0>>, <<4, 1>>)
                            [] OTHER -> B(<<0, 0>>, <<1, 2>>)]
Sizes == [o \in Calls |-> CASE o = 8 -> 4 [] o = 14 -> 3 [] OTHER -> 5]

\* Two gets of different data, two of the same data, one that is refused for its
\* bounds beside one up to the dimension itself; two timed_gets; a put and
\* messages above, at and below the size limit; an application that puts a datum
\* while it gets it and another, or gets two; and no call but locks.
Sets == {{1, 2}, {1, 3}, {4, 13}, {5, 6}, {7, 8}, {7, 9, 14}, {10, 11, 12}, {11, 12}, {}}

Times == {[s |-> s, u |-> u] : s \in 0 .. 2, u \in 0 .. 2}
Dims  == <<4, 4>>
=============================================================================
