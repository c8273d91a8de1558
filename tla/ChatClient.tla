------------------------------ MODULE ChatClient ------------------------------
(***************************************************************************)
(* The client programs (clientMainUI.c, clientApp.c, clientNet.c), each on *)
(* a connection of its own.  The user picks an entry of a menu; the program*)
(* sends one request, blocks in recv(), and takes what comes next on the   *)
(* connection for the answer.                                              *)
(*                                                                         *)
(* The chat windows are ChatOpener's: here closeChat finds the pid files,  *)
(* or does not.  The connection stays up while both ends do, send() does   *)
(* not fail, and memory is always there to be allocated.                   *)
(***************************************************************************)
EXTENDS ChatNames, ChatAccounts, Descriptors, ConnectedGroups, Integers

CONSTANTS
    MaxJoins,       \* bound: chats a program opens
    MaxUnread       \* bound: messages under way when another request is sent

VARIABLES
    programs,       \* descriptor -> the state of the program on it
    wire            \* descriptor -> requests and answers not yet received

clientVars == <<programs, wire>>

-----------------------------------------------------------------------------
(* at: where main() is.  asked: the request it waits for an answer to.     *)
(* groups: m_connectedGroups, their names.  doubled is history: the server *)
(* has answered a request of the program twice, and since then there was   *)
(* always something of it, or of what came after, under way.               *)

Request ==
    ({"REG_REQ", "LOGIN_REQ"} \X UserName \X Password)
        \union ({"GROUP_CREATE_REQ", "GROUP_JOIN_REQ", "GROUP_LEAVE_REQ"} \X GroupName)
        \union {<<"GROUP_LIST_REQ">>, <<"LOGOUT_REQ">>}

Program(at) ==
    [at |-> at, name |-> << >>, asked |-> << >>, groups |-> << >>,
     numOfGroups |-> 0, doubled |-> FALSE]

Answer(response, addr) == [response |-> response, addr |-> addr]

ChatClientInit ==
    /\ programs = [p \in ClientID |-> Program("off")]
    /\ wire = [p \in ClientID |-> [requests |-> << >>, answers |-> << >>]]

(* createClientConnection: the start menu.                                 *)
Connect(p) ==
    /\ programs[p].at = "off"
    /\ programs' = [programs EXCEPT ![p] = Program("start")]
    /\ UNCHANGED wire

-----------------------------------------------------------------------------
(* Requests *)

(* sendMsg, then recvMsg, which blocks.                                    *)
Send(p, request, program) ==
    /\ Len(wire[p].requests) + Len(wire[p].answers) < MaxUnread
    /\ programs' = [programs EXCEPT ![p] =
                        [program EXCEPT !.at = "wait", !.asked = request]]
    /\ wire' = [wire EXCEPT ![p].requests = Append(@, request)]

(* The loop of the start menu.                                             *)
AskToEnter(p) ==
    /\ programs[p].at = "start"
    /\ \E type \in {"REG_REQ", "LOGIN_REQ"}, name \in UserName, pass \in Password :
            Send(p, <<type, name, pass>>, programs[p])

(* createGroup, up to recvMsg.                                             *)
AskToCreate(p, g) ==
    /\ programs[p].at = "menu" /\ programs[p].numOfGroups < MaxJoins
    /\ Send(p, <<"GROUP_CREATE_REQ", g>>, programs[p])

(* getGroups, up to recvMsg.                                               *)
AskForList(p) ==
    /\ programs[p].at = "menu"
    /\ Send(p, <<"GROUP_LIST_REQ">>, programs[p])

(* joinGroup, once the list has been shown, up to recvMsg.                 *)
AskToJoin(p, g) ==
    /\ programs[p].at = "join" /\ programs[p].numOfGroups < MaxJoins
    /\ Send(p, <<"GROUP_JOIN_REQ", g>>, programs[p])

(* closeTheChat, whatever closeChat answered.                              *)
AfterClosing(program, closed) ==
    IF closed THEN [program EXCEPT !.groups = RemoveGroup(@)] ELSE program

(* Bug variant: the answer is not waited for.                              *)
BugLeaveUnread(p, g) ==
    /\ programs[p].at = "menu"
    /\ Len(wire[p].requests) + Len(wire[p].answers) < MaxUnread
    /\ wire' = [wire EXCEPT ![p].requests = Append(@, <<"GROUP_LEAVE_REQ", g>>)]
    /\ programs' = [programs EXCEPT ![p].groups = RemoveGroup(@)]

(* leaveGroup, up to recvMsg: the chat is closed before anybody is asked.  *)
AskToLeave(p, g) ==
    /\ programs[p].at = "menu"
    /\ \E closed \in BOOLEAN :
            Send(p, <<"GROUP_LEAVE_REQ", g>>, AfterClosing(programs[p], closed))

(* LogOutClient, up to recvMsg.                                            *)
AskToLogout(p) ==
    /\ programs[p].at = "menu"
    /\ Send(p, <<"LOGOUT_REQ">>, programs[p])

-----------------------------------------------------------------------------
(* Answers *)

(* Bug variant: a user who is connected already passes for connected.      *)
BugAlreadyConnectedGood ==
    {"USER_CREATED", "USER_CONNECTED", "USER_ALREADY_CONNECTED", "GROUP_LEFT",
     "USER_DISCONNECTED"}

(* treatServerResponse: every other answer is BAD.                         *)
Good == {"USER_CREATED", "USER_CONNECTED", "GROUP_LEFT", "USER_DISCONNECTED"}

(* closeAllChats runs m_numOfGroups times; past the end of the list        *)
(* getFirstGroupName has no group, and strlen() of its name crashes, if    *)
(* the calls before found their files.                                     *)
LogoutEnds(program) ==
    {Program("gone")}
        \union IF program.numOfGroups > Len(program.groups) THEN {Program("crashed")} ELSE {}

(* Bug variant: who is in the group already has joined it.                 *)
BugInGroupAlready ==
    [type \in {"GROUP_CREATE_REQ", "GROUP_JOIN_REQ"} |->
        IF type = "GROUP_CREATE_REQ" THEN "GROUP_CREATED" ELSE "GROUP_USER_CONNECTED"]

(* The answer a request about a group must have to be acted on.            *)
Expected ==
    [type \in {"GROUP_CREATE_REQ", "GROUP_JOIN_REQ"} |->
        IF type = "GROUP_CREATE_REQ" THEN "GROUP_CREATED" ELSE "GROUP_JOINED"]

(* What may become of the program once recvMsg has returned, by request.   *)
Treated(program, answer) ==
    LET type == program.asked[1]
        menu == [program EXCEPT !.at = "menu"]
    IN  CASE type = "REG_REQ"   -> {[program EXCEPT !.at = "start"]}
          [] type = "LOGIN_REQ" ->
                IF answer.response \in Good
                THEN {[menu EXCEPT !.name = program.asked[2]]}
                ELSE {[program EXCEPT !.at = "start"]}
          [] type \in DOMAIN Expected ->
                IF answer.response = Expected[type]
                THEN {AddGroup(menu, program.asked[2])}
                ELSE {menu}
          [] type = "GROUP_LIST_REQ" ->
                IF answer.response = "GROUP_LIST_SUCCESS"
                THEN {[program EXCEPT !.at = "join"]}
                ELSE {menu}
          [] type = "GROUP_LEAVE_REQ" -> {menu}
          [] type = "LOGOUT_REQ" ->
                IF answer.response \in Good THEN LogoutEnds(program) ELSE {Program("gone")}

(* recv() returns some of what has come, and the first message in it is    *)
(* the answer; the others are lost.                                        *)
Receive(p) ==
    /\ programs[p].at = "wait"
    /\ \E k \in 1 .. Len(wire[p].answers) :
            wire' = [wire EXCEPT ![p].answers = SubSeq(@, k + 1, Len(@))]
    /\ \E program \in Treated(programs[p], Head(wire[p].answers)) :
            programs' = [programs EXCEPT ![p] =
                            [program EXCEPT
                                !.asked = << >>,
                                !.doubled = @ /\ (wire'[p].answers # << >>
                                                   \/ wire[p].requests # << >>)]]

-----------------------------------------------------------------------------
(* The user may leave the start menu by "exit", and may end the program    *)
(* anywhere else by other means.  Its memory is gone, and its connection   *)
(* closed: what it has sent still arrives, what was sent to it does not.   *)
Running(p) == programs[p].at \notin {"off", "gone", "crashed"}

End(p) ==
    /\ Running(p)
    /\ programs' = [programs EXCEPT ![p] = Program("gone")]
    /\ wire' = [wire EXCEPT ![p].answers = << >>]

(* What a program does on its own account while it is connected.           *)
ProgramStep(p) ==
    \/ AskToEnter(p) \/ AskForList(p) \/ AskToLogout(p)
    \/ \E g \in GroupName : AskToCreate(p, g) \/ AskToJoin(p, g) \/ AskToLeave(p, g)
    \/ Receive(p)
    \/ End(p)
=============================================================================
