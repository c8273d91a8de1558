------------------------------ MODULE ChatAccounts ------------------------------
(***************************************************************************)
(* What the user manager and the client programs call a user by.           *)
(***************************************************************************)

CONSTANTS
    UserName,       \* user names a request may carry
    Password        \* passwords a request may carry
=============================================================================
