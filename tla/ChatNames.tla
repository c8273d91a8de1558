------------------------------- MODULE ChatNames -------------------------------
(***************************************************************************)
(* What the group manager and the user manager both call a group by.       *)
(***************************************************************************)

CONSTANT GroupName      \* group names a request may carry
=============================================================================
