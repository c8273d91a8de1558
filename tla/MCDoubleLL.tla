------------------------------- MODULE MCDoubleLL -------------------------------
(***************************************************************************)
(* An instance of DoubleLL for TLC: up to four nodes, so that a range      *)
(* may begin and end inside; two elements and two iterators.               *)
(***************************************************************************)
EXTENDS DoubleLL, TLC

CONSTANTS n1, n2, n3, n4, d1, d2, i1, i2

(* Addresses, elements and iterators are interchangeable.                  *)
Symmetry ==
    Permutations({n1, n2, n3, n4}) \union Permutations({d1, d2}) \union Permutations({i1, i2})
=============================================================================
