---------------------------- MODULE MCMessageStream ----------------------------
(***************************************************************************)
(* An instance of MessageStream for TLC: two clients; names whose length   *)
(* is the number of a request type (2, 8), so that the rest of a request   *)
(* passes for one; lists that need 127 bytes, the most a length byte       *)
(* holds, and 128.                                                         *)
(***************************************************************************)
EXTENDS MessageStream, TLC

CONSTANTS c1, c2

Letters(n) == [i \in 1 .. n |-> 96 + i]
Digits(n)  == [i \in 1 .. n |-> 48 + i]

UserTexts  == {Letters(2), Letters(8)}
PassTexts  == {Digits(1)}
GroupTexts == {Letters(5)}
GroupPlace == {<<Digits(9), Digits(4)>>}

(* Nine names of 12 and 13 letters, long of them of 13.                    *)
Nine(long) == [i \in 1 .. 9 |-> Letters(IF i <= long THEN 13 ELSE 12)]
Lists      == {Nine(6), Nine(7)}

(* The clients are interchangeable.                                        *)
Symmetry == Permutations({c1, c2})
=============================================================================
