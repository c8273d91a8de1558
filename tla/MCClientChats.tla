----------------------------- MODULE MCClientChats -----------------------------
(***************************************************************************)
(* An instance of ClientChats for TLC: a group, another whose name starts  *)
(* with the first one's, and two chats, of one group or of both, of one    *)
(* program or of two.                                                      *)
(***************************************************************************)
EXTENDS ClientChats

CONSTANTS g1, g1b

NamePairs == {<<g1, g1b>>}
=============================================================================
