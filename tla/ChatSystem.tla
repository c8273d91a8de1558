------------------------------ MODULE ChatSystem ------------------------------
(***************************************************************************)
(* Client programs and the server application, with the connections        *)
(* between them: what a user is told against what the server knows.        *)
(*                                                                         *)
(* TcpServer stands between the two: it calls the application for one      *)
(* client at a time, with what has come of its requests so far, of which   *)
(* GotMessageFunc treats the first.  A descriptor is used for one client,  *)
(* and the server is not started again.                                    *)
(***************************************************************************)
EXTENDS ChatClient, ServerApp

CONSTANTS
    SavedBefore,    \* the words of savedUsers.txt the server is started with
    NoClient

(* The file is one an earlier run has written: lines of a name and a       *)
(* password.  << >> is no name: a program keeps it while nobody is logged  *)
(* in.                                                                     *)
ASSUME ChatSystemAssumption ==
    /\ SavedBefore \in Seq(Word) /\ Len(SavedBefore) % 2 = 0
    /\ \A i \in Line(SavedBefore) : /\ LineName(SavedBefore, i) \in UserName
                                    /\ LinePass(SavedBefore, i) \in Password
    /\ << >> \notin UserName
    /\ NoClient \notin ClientID
    /\ MaxJoins \in Nat /\ MaxUnread \in Nat

VARIABLE caller     \* the client whose logout the server is at

systemVars == <<clientVars, appVars, caller>>

ChatSystemInit ==
    /\ ChatClientInit
    /\ savedUsers = SavedBefore
    /\ Booted(savedUsers)
    /\ caller = NoClient

ProgramAlone ==
    /\ \E p \in ClientID : ProgramStep(p)
    /\ sent' = << >>
    /\ UNCHANGED <<managerVars, clients, doing, caller>>

(* connect() and NewClientFunc.                                            *)
ConnectClient(p) ==
    /\ Connect(p) /\ NewClient(p)
    /\ UNCHANGED caller

(* What the handler has sent is what the client will receive: the list is  *)
(* one message, and a group's address goes with a success.                 *)
Answers(request) ==
    [i \in DOMAIN sent' |->
        IF request[1] = "GROUP_LIST_REQ" /\ Len(sent') = 1
        THEN Answer("GROUP_LIST_SUCCESS", NoAddress)
        ELSE Answer(sent'[i][2],
                    IF sent'[i][2] \in {"GROUP_CREATED", "GROUP_JOINED"}
                    THEN groupMng'.groups[request[2]].addr ELSE NoAddress)]

(* ServerSend to a program that has ended reaches nobody.                  *)
Delivered(p, answers) == IF Running(p) THEN answers ELSE << >>

(* TreatMsg, by the type of the request.                                   *)
TreatMsg(p, request) ==
    \/ request[1] = "REG_REQ"   /\ RegisterUser(p, request[2], request[3])
    \/ request[1] = "LOGIN_REQ" /\ LoginUser(p, request[2], request[3])
    \/ request[1] = "LOGOUT_REQ" /\ LogoutUser(p)
    \/ request[1] = "GROUP_CREATE_REQ" /\ CreateGroup(p, request[2])
    \/ request[1] = "GROUP_JOIN_REQ"   /\ JoinGroup(p, request[2])
    \/ request[1] = "GROUP_LEAVE_REQ"  /\ LeaveGroup(p, request[2])
    \/ request[1] = "GROUP_LIST_REQ"   /\ SendGroupList(p)

Serve(p) ==
    LET request == Head(wire[p].requests)
    IN  /\ wire[p].requests # << >>
        /\ TreatMsg(p, request)
        /\ \E k \in 1 .. Len(wire[p].requests) :
                wire' = [wire EXCEPT
                            ![p].requests = SubSeq(@, k + 1, Len(@)),
                            ![p].answers  = @ \o Delivered(p, Answers(request))]
        /\ caller' = IF doing' = Idle THEN NoClient ELSE p
        /\ programs' = IF Running(p) /\ request[1] = "GROUP_LIST_REQ" /\ Len(sent') > 1
                       THEN [programs EXCEPT ![p].doubled = TRUE] ELSE programs

(* The server goes on with a loop; the end of a logout is its answer.      *)
ServerTurn ==
    /\ Turn
    /\ wire' = IF caller = NoClient THEN wire
               ELSE [wire EXCEPT ![caller].answers =
                        @ \o Delivered(caller, Answers(<<"LOGOUT_REQ">>))]
    /\ caller' = IF doing' = Idle THEN NoClient ELSE caller
    /\ UNCHANGED programs

(* recv() on the server returns 0 when all requests have been received.    *)
DisconnectClient(p) ==
    /\ programs[p].at \in {"gone", "crashed"} /\ wire[p].requests = << >>
    /\ CloseClient(p) \/ CloseClientInGroups(p)
    /\ UNCHANGED <<clientVars, caller>>

ChatSystemNext ==
    \/ ProgramAlone \/ ServerTurn
    \/ \E p \in ClientID : ConnectClient(p) \/ Serve(p) \/ DisconnectClient(p)

ChatSystemSpec == ChatSystemInit /\ [][ChatSystemNext]_systemVars

-----------------------------------------------------------------------------
(* Properties *)

(* Type invariant.                                                         *)
ChatSystemTypeOK ==
    /\ ServerAppTypeOK
    /\ caller \in ClientID \union {NoClient}
    /\ \A p \in ClientID :
        /\ programs[p].at \in {"off", "start", "menu", "join", "wait", "gone", "crashed"}
        /\ programs[p].at = "wait" => programs[p].asked \in Request
        /\ programs[p].groups \in Seq(GroupName)
        /\ programs[p].numOfGroups \in Len(programs[p].groups) .. MaxJoins
        /\ wire[p].requests \in Seq(Request)

(* Messages of a client that are still to be received, by either side.     *)
UnderWay(p) ==
    Len(wire[p].requests) + Len(wire[p].answers) + (IF caller = p THEN 1 ELSE 0)

(* A program never waits in vain: when it is in recv(), its request is on  *)
(* the way, is being served, or has been answered, for every path of every *)
(* handler answers, and requests that are lost are lost next to one that   *)
(* is treated.  The client has no timeout.                                 *)
NeverWaitsInVain ==
    \A p \in ClientID : programs[p].at = "wait" => UnderWay(p) > 0

(* Requests and answers are in step until the list of an empty server was  *)
(* answered twice: a program that waits has one message under way, one     *)
(* that does not has none, so an answer is to the request before it.       *)
AnswersInStep ==
    \A p \in ClientID :
        Running(p) /\ ~programs[p].doubled
            => UnderWay(p) = IF programs[p].at = "wait" THEN 1 ELSE 0

(* A program past the start menu, until it logs out, has the session the   *)
(* server knows: its name is connected, on this connection, whatever other *)
(* programs try with that name or leave behind.                            *)
SessionAgrees ==
    \A p \in ClientID :
        Running(p) /\ programs[p].name # << >> /\ programs[p].asked # <<"LOGOUT_REQ">>
            => /\ NameOf(p) = programs[p].name
               /\ users[programs[p].name].active

(* While requests and answers are in step, the chat a program opens is at  *)
(* the address the server leases to the group, and the user is listed in   *)
(* the group: no other program's step between the answer and recv() takes  *)
(* that away.  Once a closing connection loops, nothing is promised.       *)
OpensWhereServerSays ==
    [][\A p \in ClientID :
        programs'[p].numOfGroups > programs[p].numOfGroups
            /\ ~programs[p].doubled /\ doing.loop # "close"
            => LET g == programs'[p].groups[Len(programs'[p].groups)]
               IN  /\ IsOpen(groupMng, g)
                   /\ groupMng.groups[g].addr = Head(wire[p].answers).addr
                   /\ g \in users[programs[p].name].groups]_systemVars
=============================================================================
