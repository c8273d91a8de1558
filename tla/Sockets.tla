-------------------------------- MODULE Sockets --------------------------------
(***************************************************************************)
(* The kernel's side of the server's sockets, as server.c uses it: which   *)
(* descriptors are open, which connections wait to be accepted, and what   *)
(* has arrived on each.  The listening socket is open all the time.        *)
(***************************************************************************)
EXTENDS Descriptors, Integers, FiniteSets

CONSTANTS
    ListenSock,     \* m_listenSock
    BackLog         \* m_backLogSize

ASSUME SocketsAssumption ==
    /\ ClientID \subseteq Nat /\ IsFiniteSet(ClientID)
    /\ ListenSock \notin ClientID
    /\ BackLog \in Nat \ {0}

(* open: client descriptors in use; waiting: connections to accept;        *)
(* msgs[fd]: messages to receive; fin[fd]: the client has closed.          *)
Kernel(open, waiting, msgs, fin) ==
    [open |-> open, waiting |-> waiting, msgs |-> msgs, fin |-> fin]

KernelBoot == Kernel({}, 0, [fd \in ClientID |-> 0], [fd \in ClientID |-> FALSE])

(* What select() reports as readable.                                      *)
Readable(kernel, fd) == kernel.msgs[fd] > 0 \/ kernel.fin[fd]

(* The lowest descriptor that is not open.                                 *)
FreeFd(kernel) ==
    CHOOSE fd \in ClientID \ kernel.open :
        \A other \in ClientID \ kernel.open : fd <= other

CanAccept(kernel) == kernel.waiting > 0 /\ ClientID \ kernel.open # {}

(* accept(): a fresh connection on the lowest descriptor.                  *)
Accepted(kernel) ==
    LET fd == FreeFd(kernel)
    IN  Kernel(kernel.open \union {fd}, kernel.waiting - 1,
               [kernel.msgs EXCEPT ![fd] = 0], [kernel.fin EXCEPT ![fd] = FALSE])

(* accept() and close() of what it returned.                               *)
Declined(kernel) ==
    Kernel(kernel.open, kernel.waiting - 1, kernel.msgs, kernel.fin)

(* close(): what was still to be received is lost.                         *)
Closed(kernel, fd) ==
    Kernel(kernel.open \ {fd}, kernel.waiting,
           [kernel.msgs EXCEPT ![fd] = 0], [kernel.fin EXCEPT ![fd] = FALSE])

(* recv() with k messages in the stream: they come as one buffer.          *)
Received(kernel, fd, k) ==
    Kernel(kernel.open, kernel.waiting, [kernel.msgs EXCEPT ![fd] = @ - k],
           kernel.fin)

(* What the clients do: connect, send, close.                              *)
Connecting(kernel) ==
    Kernel(kernel.open, kernel.waiting + 1, kernel.msgs, kernel.fin)

Sending(kernel, fd) ==
    Kernel(kernel.open, kernel.waiting, [kernel.msgs EXCEPT ![fd] = @ + 1],
           kernel.fin)

Closing(kernel, fd) ==
    Kernel(kernel.open, kernel.waiting, kernel.msgs,
           [kernel.fin EXCEPT ![fd] = TRUE])
=============================================================================
