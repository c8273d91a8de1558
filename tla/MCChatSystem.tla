----------------------------- MODULE MCChatSystem -----------------------------
(***************************************************************************)
(* An instance of ChatSystem for TLC: two programs and two accounts either *)
(* may log in to, one group and two addresses it may be at, one chat that  *)
(* a program may open.                                                     *)
(***************************************************************************)
EXTENDS ChatSystem, TLC

CONSTANTS ann, bob, p1, g1, c1, c2

AccountsBefore == <<ann, p1, bob, p1>>

(* The programs are interchangeable.                                       *)
Symmetry == Permutations({c1, c2})
=============================================================================
