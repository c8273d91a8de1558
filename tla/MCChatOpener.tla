----------------------------- MODULE MCChatOpener -----------------------------
(***************************************************************************)
(* An instance of ChatOpener for TLC: a group, another whose name starts   *)
(* with the first one's, and two chats, of one group or of both: a file    *)
(* holds a line before or after the one that is deleted.                   *)
(***************************************************************************)
EXTENDS ChatOpener

CONSTANTS g1, g1b

NamePairs == {<<g1, g1b>>}
=============================================================================
