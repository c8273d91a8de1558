------------------------------ MODULE Descriptors ------------------------------
(***************************************************************************)
(* What the TCP server and the application both call a client by.          *)
(***************************************************************************)

CONSTANT ClientID       \* socket descriptors accept() may give out
=============================================================================
