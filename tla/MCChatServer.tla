----------------------------- MODULE MCChatServer -----------------------------
(***************************************************************************)
(* Instances of ChatServer for TLC: two clients at a time and three        *)
(* descriptors, so that one client can leave and come back while the other *)
(* stays and a third is turned away; one user, who may be on both          *)
(* connections, and one group.                                             *)
(***************************************************************************)
EXTENDS ChatServer

(* The part of ChatServerSpec that safety needs.                           *)
SafeSpec == ChatServerInit /\ [][ChatServerNext]_serverVars
=============================================================================
