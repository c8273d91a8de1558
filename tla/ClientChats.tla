------------------------------ MODULE ClientChats ------------------------------
(***************************************************************************)
(* A client program and its chats: clientApp.c, which opens a chat for a   *)
(* group it is in, closes it before it leaves, and all of them at logout,  *)
(* over the windows and files of ChatOpener.  closeAllChats counts to      *)
(* m_numOfGroups and each time closes the chat of the group that is first  *)
(* in the list.                                                            *)
(*                                                                         *)
(* Programs come one after the other, each with an empty list; windows and *)
(* files stay.  The server lets nobody join a group twice, and its answers *)
(* to a leave do not matter; memory is there to be allocated.              *)
(***************************************************************************)
EXTENDS ChatOpener, ConnectedGroups

VARIABLE
    program         \* the program that runs now, or the last one

chatsVars == <<openerVars, program>>

-----------------------------------------------------------------------------
(* at: its menu, a call of leaveGroup or LogOutClient in closeTheChat, or  *)
(* how it ended.  member: the groups the server has it in; round: i of     *)
(* closeAllChats; since: its first chat.  History: left, a leave closed a  *)
(* chat and took a group off the list; missed, closeChat failed.           *)
NewProgram(first) ==
    [at |-> "menu", groups |-> << >>, numOfGroups |-> 0, member |-> {}, round |-> 0,
     since |-> first, left |-> FALSE, missed |-> FALSE]

ClientChatsInit == ChatOpenerInit /\ program = NewProgram(1)

(* createGroup and joinGroup, once the server has agreed.                  *)
JoinGroup(g) ==
    /\ program.at = "menu" /\ g \notin program.member
    /\ OpenChat(g)
    /\ program' = [AddGroup(program, g) EXCEPT !.member = @ \union {g}]

(* closeChat finds no file, and fails at once.                             *)
CloseFails == pidFile["listener"] = NoFile /\ UNCHANGED openerVars

(* leaveGroup: any name may be typed in.                                   *)
LeaveGroup(g) ==
    /\ program.at = "menu"
    /\ LET asked == [program EXCEPT !.member = @ \ {g}]
       IN  \/ CloseChat(g) /\ program' = [asked EXCEPT !.at = "leave"]
           \/ CloseFails /\ program' = [asked EXCEPT !.missed = TRUE]

(* LogOutClient, once the server has answered; unless it was disconnected, *)
(* main() exits right away.                                                *)
LogOutClient ==
    /\ program.at = "menu"
    /\ \E at \in {"logout", "gone"} : program' = [program EXCEPT !.at = at]
    /\ UNCHANGED openerVars

(* Bug variant: the loop runs over the list.                               *)
BugRoundsOfList == program.groups # << >>

(* Bug variant: one round less.                                            *)
BugOneRoundLess == program.round + 1 < program.numOfGroups

MoreRounds == program.round < program.numOfGroups

(* A round of closeAllChats up to closeChat, or its end.  When the list is *)
(* empty the name is an address near 0, which strlen() does not survive.   *)
CloseAllChats ==
    /\ program.at = "logout" /\ closing.at = "returned"
    /\ \/ /\ ~MoreRounds
          /\ program' = [program EXCEPT !.at = "out"] /\ UNCHANGED openerVars
       \/ /\ MoreRounds /\ CloseFails
          /\ program' = [program EXCEPT !.round = @ + 1, !.missed = TRUE]
       \/ /\ MoreRounds /\ program.groups = << >> /\ pidFile["listener"] # NoFile
          /\ program' = [program EXCEPT !.at = "crashed"] /\ UNCHANGED openerVars
       \/ /\ MoreRounds /\ program.groups # << >>
          /\ CloseChat(program.groups[1]) /\ UNCHANGED program

(* What the caller of closeTheChat goes on with.                           *)
Continued(p) ==
    IF p.at = "leave" THEN [p EXCEPT !.at = "menu"] ELSE [p EXCEPT !.round = @ + 1]

(* The rest of closeTheChat: the group goes off the list when closeChat    *)
(* has come to its end.                                                    *)
CloseTheChat ==
    \/ (RewritePidFile \/ CloseSecond) /\ closing'.at # "returned" /\ UNCHANGED program
    \/ /\ CloseSecond /\ closing'.at = "returned"
       /\ program' = Continued([program EXCEPT !.missed = TRUE])
    \/ /\ KillBoth
       /\ program' = Continued([program EXCEPT
                        !.groups = RemoveGroup(@),
                        !.left = @ \/ (program.at = "leave" /\ program.groups # << >>)])

(* The program is killed, or its connection fails; then there is another.  *)
Running == program.at \in {"menu", "leave", "logout"}

ProgramKilled ==
    /\ Running
    /\ ProgramEnds \/ (closing.at = "returned" /\ UNCHANGED openerVars)
    /\ program' = [program EXCEPT !.at = "gone"]

Restart ==
    /\ ~Running
    /\ program' = NewProgram(Len(chatGroup) + 1)
    /\ UNCHANGED openerVars

ClientChatsNext ==
    \/ \E g \in GroupName : JoinGroup(g) \/ LeaveGroup(g)
    \/ LogOutClient \/ CloseAllChats \/ CloseTheChat \/ ProgramKilled \/ Restart
    \/ /\ \E kind \in Kind, c \in Chat : SavePid(kind, c) \/ WindowEnds(kind, c)
       /\ UNCHANGED program

ClientChatsSpec == ClientChatsInit /\ [][ClientChatsNext]_chatsVars

-----------------------------------------------------------------------------
(* Properties *)

(* Type invariant, with that of the windows and files.                     *)
ClientChatsTypeOK ==
    /\ ChatOpenerTypeOK
    /\ program.at \in {"menu", "leave", "logout", "out", "gone", "crashed"}
    /\ closing.at # "returned" => program.at \in {"leave", "logout"}
    /\ program.groups \in Seq(GroupName)
    /\ Len(program.groups) <= program.numOfGroups
    /\ program.numOfGroups <= Len(chatGroup) + 1 - program.since
    /\ program.round \in 0 .. program.numOfGroups

(* A program that has left a group never gets through its logout, and no   *)
(* other one crashes there: m_numOfGroups has stayed when the list became  *)
(* shorter, and the last rounds have no group; whatever else happened to   *)
(* its windows and the files.                                              *)
CrashTellsLeave ==
    /\ program.at = "crashed" => program.left
    /\ program.at = "out" => ~program.left

(* Logout closes all windows of the program: if closeChat failed for none, *)
(* and under the conditions of FilesTellWindows, each group having been    *)
(* opened but once.                                                        *)
LogoutClosesChats ==
    program.at = "out" /\ ~spoilt /\ ~program.missed
        => \A c \in program.since .. Len(chatGroup), kind \in Kind :
                OpenedOnce(chatGroup[c]) => window[kind][c] \notin {"starting", "running"}
=============================================================================
