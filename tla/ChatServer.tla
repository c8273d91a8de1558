------------------------------ MODULE ChatServer ------------------------------
(***************************************************************************)
(* The server process: TcpServer with ServerApp for its application, as    *)
(* CreateFunc (serverApp.c) ties them together.                            *)
(*                                                                         *)
(* A callback is made and answered in one step of both, except that a loop *)
(* over a user's groups keeps the thread (doing # Idle) until it ends.     *)
(***************************************************************************)
EXTENDS TcpServer, ServerApp

serverVars == <<netVars, appVars>>

ChatServerInit == Listening /\ ServerAppInit

(* The rounds of ServerRun that call the application for nothing but       *)
(* FailFunc, which has no return statement and so answers anything.        *)
NetAlone ==
    /\ doing = Idle
    /\ OwnStep
    /\ UNCHANGED appVars

NewClientCalled(fd) ==
    \/ AcceptClient(fd, TRUE)  /\ NewClient(fd)
    \/ AcceptClient(fd, FALSE) /\ RejectClient(fd)

GotMessageCalled(fd) == ReceiveMessage(fd) /\ GotMessage(fd)

(* From the loop of a client whose user is in groups CloseClientFunc does  *)
(* not return, so the client is never removed.                             *)
CloseClientCalled(fd) ==
    \/ ReceiveClose(fd) /\ CloseClient(fd)
    \/ /\ CloseArrives(fd) /\ CloseClientInGroups(fd)
       /\ NextClient
       /\ UNCHANGED <<kernel, bookVars, readySockets, toldToStop>>

(* The thread goes on with its loop, and with nothing else.                *)
AppAlone == Turn /\ UNCHANGED netVars

(* A client waits for the answer before it sends its next request.         *)
ClientAlone ==
    /\ \/ ClientConnects
       \/ \E fd \in ClientID :
            \/ kernel.msgs[fd] = 0 /\ ClientSends(fd)
            \/ ClientCloses(fd)
    /\ UNCHANGED <<pc, bookVars, readySockets, currentItr, toldToStop, appVars>>

(* The process ends, or is killed, and main() runs again.                  *)
RestartServer ==
    /\ Restart
    /\ kernel' = KernelBoot
    /\ pc' = "select"
    /\ mClients' = << >>
    /\ numOfClients' = 0
    /\ connectedSockets' = {ListenSock}
    /\ readySockets' = {}
    /\ currentItr' = << >>
    /\ toldToStop' = FALSE

Thread ==
    \/ NetAlone \/ AppAlone
    \/ \E fd \in ClientID :
            NewClientCalled(fd) \/ GotMessageCalled(fd) \/ CloseClientCalled(fd)

ChatServerNext == Thread \/ ClientAlone \/ RestartServer

(* The thread is scheduled as long as it has something to do: it is the    *)
(* only one of its process and waits for nothing but select().  Nobody     *)
(* promises that a client sends, or that the server is started again.      *)
ChatServerSpec ==
    ChatServerInit /\ [][ChatServerNext]_serverVars /\ WF_serverVars(Thread)
-----------------------------------------------------------------------------
(* Properties *)

(* The application has a ConnectedClient in memory for exactly the         *)
(* descriptors that are open, though it never takes a key out of its map:  *)
(* no callback is made about a client that was freed, and none that is in  *)
(* the map twice is let in.                                                *)
ClientsKnownToBoth == Live = kernel.open

(* ServerRun returns for two reasons only: FailFunc has answered STOP, or a*)
(* descriptor was used a second time, whose key CloseClientFunc had left   *)
(* in the map; NewClientFunc then closed a socket select() is asked about. *)
StopsForKnownReason ==
    pc = "stopped" =>
        \/ toldToStop
        \/ \E fd \in Elements(mClients) : fd \in DOMAIN clients \ Live

(* server.h: "Runs as long no stop sign given from app FAIL function".     *)
StopsOnlyWhenTold == pc = "stopped" => toldToStop
=============================================================================
