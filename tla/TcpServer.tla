------------------------------- MODULE TcpServer -------------------------------
(***************************************************************************)
(* The TCP server (server.c): one thread that waits in select(), accepts   *)
(* at most one client per round, then walks the list of clients and calls  *)
(* the application for each that is ready.                                 *)
(*                                                                         *)
(* A callback is part of the step that makes it.  Here the application may *)
(* answer anything; ChatServer puts ServerApp in its place.  Memory is     *)
(* always there to be allocated, and accept() and recv() fail only as a    *)
(* reset connection makes them, which takes the path of a closed one.      *)
(***************************************************************************)
EXTENDS Sockets, Containers

CONSTANT MaxClients     \* m_maxNumOfClients

(* The process may have more descriptors open than it lets clients in, so  *)
(* accept() never lacks one.                                               *)
ASSUME TcpServerAssumption == MaxClients \in 1 .. (Cardinality(ClientID) - 1)

VARIABLES
    kernel,             \* the sockets
    pc,                 \* where ServerRun is
    mClients,           \* m_clients: descriptors, newest first
    numOfClients,       \* m_numOfClients
    connectedSockets,   \* m_connectedSockets
    readySockets,       \* m_readySockets
    currentItr,         \* what HandleClients has yet to visit of mClients
    toldToStop          \* history: m_failFunc has answered SERVER_RUN_STOP to a
                        \* full server, or to the select() that failed

netVars == <<kernel, pc, mClients, numOfClients, connectedSockets, readySockets,
             currentItr, toldToStop>>
bookVars == <<mClients, numOfClients, connectedSockets>>

-----------------------------------------------------------------------------
(* ServerCreate *)

Listening ==
    /\ kernel = KernelBoot
    /\ pc = "select"
    /\ mClients = << >>
    /\ numOfClients = 0
    /\ connectedSockets = {ListenSock}
    /\ readySockets = {}
    /\ currentItr = << >>
    /\ toldToStop = FALSE

-----------------------------------------------------------------------------
(* PrepServer *)

(* Bug variant: the snapshot of m_connectedSockets is taken for the answer *)
(* of select().                                                            *)
BugReadyIsConnected == connectedSockets

Ready ==
    {s \in connectedSockets :
        IF s = ListenSock THEN kernel.waiting > 0 ELSE Readable(kernel, s)}

(* select() blocks until some socket is ready.                             *)
Select ==
    /\ pc = "select"
    /\ connectedSockets \ {ListenSock} \subseteq kernel.open
    /\ Ready # {}
    /\ readySockets' = Ready
    /\ pc' = "accept"
    /\ UNCHANGED <<kernel, bookVars, currentItr, toldToStop>>

(* select() fails (EBADF) when a descriptor of the set is not open; the    *)
(* answer of m_failFunc is not looked at.                                  *)
SelectFails ==
    /\ pc = "select"
    /\ ~(connectedSockets \ {ListenSock} \subseteq kernel.open)
    /\ readySockets' = connectedSockets
    /\ pc' = "stopped"
    /\ toldToStop' \in {toldToStop, TRUE}
    /\ UNCHANGED <<kernel, bookVars, currentItr>>

-----------------------------------------------------------------------------
(* CheckForNewClient and AddNewClient *)

(* HandleClients starts at the head of the list.                           *)
StartHandling(list) == pc' = "handle" /\ currentItr' = list

NoNewClient ==
    /\ pc = "accept" /\ ListenSock \notin readySockets
    /\ StartHandling(mClients)
    /\ UNCHANGED <<kernel, bookVars, readySockets, toldToStop>>

(* Bug variant: one client too many is let in.                             *)
BugOneTooMany == numOfClients > MaxClients

Full == numOfClients >= MaxClients

(* Bug variant: the connection is not closed.                              *)
BugDeclineLeaks == Accepted(kernel)

DeclineConnection == Declined(kernel)

(* The server is full, and m_failFunc decides what to do.                  *)
DeclineClient(stop) ==
    /\ pc = "accept" /\ ListenSock \in readySockets
    /\ CanAccept(kernel) /\ Full
    /\ kernel' = DeclineConnection
    /\ toldToStop' = (toldToStop \/ stop)
    /\ UNCHANGED <<bookVars, readySockets>>
    /\ IF stop THEN pc' = "stopped" /\ UNCHANGED currentItr ELSE StartHandling(mClients)

(* Bug variant: the connection m_newClientFunc turned away stays open.     *)
BugRejectLeavesOpen(fd, kept) == Accepted(kernel)

(* The new client is on the books before m_newClientFunc is called, which  *)
(* may close it with ServerClientClose: a bare close().                    *)
Introduced(fd, kept) ==
    IF kept THEN Accepted(kernel) ELSE Closed(Accepted(kernel), fd)

AcceptClient(fd, kept) ==
    /\ pc = "accept" /\ ListenSock \in readySockets
    /\ CanAccept(kernel) /\ ~Full /\ fd = FreeFd(kernel)
    /\ mClients' = <<fd>> \o mClients
    /\ connectedSockets' = connectedSockets \union {fd}
    /\ numOfClients' = numOfClients + 1
    /\ kernel' = Introduced(fd, kept)
    /\ StartHandling(<<fd>> \o mClients)
    /\ UNCHANGED <<readySockets, toldToStop>>

-----------------------------------------------------------------------------
(* HandleClients *)

AtClient(fd) == pc = "handle" /\ currentItr # << >> /\ fd = Head(currentItr)

(* Bug variant: the walk ends at the first client that was served.         *)
BugServeOne == pc' = "select" /\ currentItr' = << >>

NextClient == currentItr' = Tail(currentItr) /\ UNCHANGED pc

SkipClient(fd) ==
    /\ AtClient(fd) /\ fd \notin readySockets
    /\ currentItr' = Tail(currentItr)
    /\ UNCHANGED <<kernel, pc, bookVars, readySockets, toldToStop>>

(* recv() returns what has come so far, one message or several, and        *)
(* m_gotNewMessageFunc is called once.                                     *)
ReceiveMessage(fd) ==
    /\ AtClient(fd) /\ fd \in readySockets
    /\ kernel.msgs[fd] > 0
    /\ \E k \in 1 .. kernel.msgs[fd] : kernel' = Received(kernel, fd, k)
    /\ NextClient
    /\ UNCHANGED <<bookVars, readySockets, toldToStop>>

(* The place in m_clients of the node the iterator is at.                  *)
ItrPlace == Len(mClients) - Len(currentItr) + 1

(* Bug variant: the descriptor stays in the set.                           *)
BugNoFdClr(place) ==
    /\ mClients' = ListRemoveAt(mClients, place)
    /\ numOfClients' = numOfClients - 1
    /\ UNCHANGED connectedSockets

(* Bug variant: the node removed is the one the iterator moved on to.      *)
BugRemoveNext(place) ==
    LET next == IF place < Len(mClients) THEN place + 1 ELSE place
    IN  /\ mClients' = ListRemoveAt(mClients, next)
        /\ numOfClients' = numOfClients - 1
        /\ connectedSockets' = connectedSockets \ {mClients[next]}

RemoveClient(place) ==
    /\ mClients' = ListRemoveAt(mClients, place)
    /\ numOfClients' = numOfClients - 1
    /\ connectedSockets' = connectedSockets \ {mClients[place]}

(* recv() returns 0, or fails.                                             *)
CloseArrives(fd) ==
    /\ AtClient(fd) /\ fd \in readySockets
    /\ kernel.msgs[fd] = 0 /\ kernel.fin[fd]

(* The iterator moves on, m_closeClientFunc is called, and when it returns *)
(* the client is removed.  What m_failFunc answers to a recv() that failed *)
(* is not looked at.                                                       *)
ReceiveClose(fd) ==
    /\ CloseArrives(fd)
    /\ RemoveClient(ItrPlace)
    /\ kernel' = Closed(kernel, fd)
    /\ NextClient
    /\ UNCHANGED <<readySockets, toldToStop>>

RoundEnds ==
    /\ pc = "handle" /\ currentItr = << >>
    /\ pc' = "select"
    /\ UNCHANGED <<kernel, bookVars, readySockets, currentItr, toldToStop>>

-----------------------------------------------------------------------------
(* The clients *)

ClientConnects ==
    /\ kernel.waiting < BackLog
    /\ kernel' = Connecting(kernel)

ClientSends(fd) ==
    /\ fd \in kernel.open /\ ~kernel.fin[fd]
    /\ kernel' = Sending(kernel, fd)

ClientCloses(fd) ==
    /\ fd \in kernel.open /\ ~kernel.fin[fd]
    /\ kernel' = Closing(kernel, fd)

-----------------------------------------------------------------------------
(* The server with any application *)

(* The parts of a round that call no function of the application but       *)
(* m_failFunc, whose answer is anything.                                   *)
OwnStep ==
    \/ Select \/ SelectFails \/ NoNewClient \/ RoundEnds
    \/ \E stop \in BOOLEAN : DeclineClient(stop)
    \/ \E fd \in ClientID : SkipClient(fd)

CallbackStep ==
    \E fd \in ClientID :
        \/ \E kept \in BOOLEAN : AcceptClient(fd, kept)
        \/ ReceiveMessage(fd)
        \/ ReceiveClose(fd)

ClientStep ==
    /\ ClientConnects \/ \E fd \in ClientID : ClientSends(fd) \/ ClientCloses(fd)
    /\ UNCHANGED <<pc, bookVars, readySockets, currentItr, toldToStop>>

TcpServerNext == OwnStep \/ CallbackStep \/ ClientStep

(* The thread is scheduled as long as it has something to do: it is the    *)
(* only one of its process and waits for nothing but select().  Nobody     *)
(* promises that a client does anything.                                   *)
TcpServerSpec ==
    Listening /\ [][TcpServerNext]_netVars /\ WF_netVars(OwnStep \/ CallbackStep)

-----------------------------------------------------------------------------
(* Properties *)

(* Type invariant.                                                         *)
TcpServerTypeOK ==
    /\ kernel.open \in SUBSET ClientID /\ kernel.waiting \in 0 .. BackLog
    /\ kernel.msgs \in [ClientID -> Nat] /\ kernel.fin \in [ClientID -> BOOLEAN]
    /\ pc \in {"select", "accept", "handle", "stopped"}
    /\ mClients \in Seq(ClientID) /\ currentItr \in Seq(ClientID)
    /\ numOfClients \in 0 .. MaxClients
    /\ connectedSockets \in SUBSET (ClientID \union {ListenSock})
    /\ readySockets \in SUBSET (ClientID \union {ListenSock})
    /\ toldToStop \in BOOLEAN

(* The list, the counter and the set of AddNewClient and RemoveClient tell *)
(* of the same clients, so TCP_SERVER_FULL means what it says and select() *)
(* is asked about every client.                                            *)
BooksAgree ==
    /\ numOfClients = Len(mClients)
    /\ Cardinality(Elements(mClients)) = Len(mClients)
    /\ connectedSockets = Elements(mClients) \union {ListenSock}

(* A descriptor the process has open is one of a client on the list: none  *)
(* leaks when the server is full or a client leaves.                       *)
NoDescriptorLeaks == kernel.open \subseteq Elements(mClients)

(* HandleClients walks a list from which it removes: what the iterator has *)
(* yet to visit is still the end of the list.                              *)
IteratorValid ==
    pc = "handle" =>
        \E k \in 0 .. Len(mClients) :
            currentItr = SubSeq(mClients, k + 1, Len(mClients))

(* recv() is called only where it returns at once: a client whose bit is   *)
(* set in m_readySockets still has something to be read when its turn      *)
(* comes, though clients were accepted and removed since select() was      *)
(* asked, and descriptors used again.  Else one client would block all.    *)
NeverBlocksInRecv ==
    \A fd \in ClientID :
        AtClient(fd) /\ fd \in readySockets => fd \in kernel.open /\ Readable(kernel, fd)

(* server.h: ServerRun "treats the connected clients" while it runs: as    *)
(* long as requests of a client wait they are received again and again,    *)
(* unless the server stops; no other client's traffic and no order of      *)
(* arrivals keeps them waiting.  It holds for callbacks that return; in    *)
(* ChatServer one of them does not.                                        *)
RequestsTreated ==
    \A fd \in ClientID :
        []<>(kernel.msgs[fd] = 0 \/ pc = "stopped")
            \/ []<><<ReceiveMessage(fd)>>_netVars
=============================================================================
