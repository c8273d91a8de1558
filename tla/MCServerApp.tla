----------------------------- MODULE MCServerApp -----------------------------
(***************************************************************************)
(* An instance of ServerApp for TLC: two connections and two users, so that*)
(* one user can be on both and both users on one; two fit group names, so  *)
(* that a logout has more than one group to leave; a pool that both fill.  *)
(* No symmetry: one of the properties is about liveness.                   *)
(***************************************************************************)
EXTENDS ServerApp
=============================================================================
