------------------------------ MODULE MCTcpServer ------------------------------
(***************************************************************************)
(* Instance of TcpServer for TLC: room for three clients, a descriptor for *)
(* the one that finds the server full, two messages in a stream.           *)
(***************************************************************************)
EXTENDS TcpServer

CONSTANT MaxMsgs        \* bound: messages TLC lets wait on a connection

BoundedSends(fd) == kernel.msgs[fd] < MaxMsgs /\ ClientSends(fd)

BoundedClientStep ==
    /\ ClientConnects \/ \E fd \in ClientID : BoundedSends(fd) \/ ClientCloses(fd)
    /\ UNCHANGED <<pc, bookVars, readySockets, currentItr, toldToStop>>

MCNext == OwnStep \/ CallbackStep \/ BoundedClientStep

MCSpec == Listening /\ [][MCNext]_netVars /\ WF_netVars(OwnStep \/ CallbackStep)
=============================================================================
