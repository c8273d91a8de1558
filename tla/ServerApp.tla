------------------------------ MODULE ServerApp ------------------------------
(***************************************************************************)
(* The server application (serverApp.c): it keeps the connected clients,   *)
(* owns one user manager and one group manager, and serves the requests    *)
(* TCPServer hands it, one at a time, on one thread.                       *)
(*                                                                         *)
(* A request that calls each manager a fixed number of times is one step.  *)
(* The two loops over a user's groups are a step per turn: the one of a    *)
(* logout, and the one of a connection that closes, whose iterator never   *)
(* moves.  While a loop runs nothing else is served.                       *)
(*                                                                         *)
(* Messages are well formed: the only failure the unpacking functions know *)
(* is a NULL argument.  So is memory always there to be allocated.         *)
(***************************************************************************)
EXTENDS Descriptors, GroupMng, UserMng

VARIABLES
    groupMng,       \* m_groupMng
    users,          \* m_userMng
    savedUsers,     \* the words of savedUsers.txt
    clients,        \* m_connectedClients: descriptor -> ConnectedClient
    doing,          \* the loop the thread is in
    sent            \* what the last step sent to the client it served

managerVars == <<groupMng, users, savedUsers>>
appVars == <<groupMng, users, savedUsers, clients, doing, sent>>

-----------------------------------------------------------------------------
(* Connected clients *)

(* live is FALSE once the struct is freed: CloseClientFunc does not remove *)
(* the key, so the map keeps a pointer to freed memory.                    *)
ConnectedClient == [live : BOOLEAN, userName : UserName]

Client(userName) == [live |-> TRUE, userName |-> userName]

(* Descriptors the TCP server may call the application about.              *)
Live == {fd \in DOMAIN clients : clients[fd].live}

(* GetClientUsername                                                       *)
NameOf(fd) == clients[fd].userName

(* AssignclientUsername                                                    *)
Assigned(fd, name) == [clients EXCEPT ![fd] = Client(name)]

(* ConnClientDestroy: what is in the freed struct nobody reads.            *)
Freed(fd) == [clients EXCEPT ![fd] = [live |-> FALSE, userName |-> EmptyString]]

-----------------------------------------------------------------------------
(* The loops *)

NoUser == EmptyString

Idle == [loop |-> "none", name |-> NoUser, todo |-> {}]

(* LeaveAllUserGroups: todo are the groups the iterator has yet to reach.  *)
LoggingOut(name, todo) == [loop |-> "logout", name |-> name, todo |-> todo]

(* DisconnectClientGroups: todo is the one group the iterator stays at.    *)
Draining(name, g) == [loop |-> "close", name |-> name, todo |-> {g}]

(* SendAppResp                                                             *)
Resp(type, response) == <<<<type, response>>>>

-----------------------------------------------------------------------------
(* Life of the server and of a connection *)

(* A new process: the managers are created, the file is read.              *)
Booted(file) ==
    /\ groupMng = GroupMngCreate
    /\ users = UserMngCreate(file)
    /\ clients = EmptyMap
    /\ doing = Idle
    /\ sent = << >>

ServerAppInit ==
    /\ savedUsers = << >>
    /\ Booted(savedUsers)

(* The process ends, at any point of any handler, and is started again.    *)
Restart ==
    /\ groupMng' = GroupMngCreate
    /\ users' = UserMngCreate(savedUsers)
    /\ clients' = EmptyMap
    /\ doing' = Idle
    /\ sent' = << >>
    /\ UNCHANGED savedUsers

(* NewClientFunc.  ConnClientCreate leaves userName as malloc found it, so *)
(* it may hold any text; a zeroed one is the EmptyString.                  *)
NewClient(fd) ==
    /\ doing = Idle
    /\ fd \notin DOMAIN clients
    /\ \E garbage \in UserName :
            clients' = HashMapInsert(clients, fd, Client(garbage))
    /\ sent' = << >>
    /\ UNCHANGED <<managerVars, doing>>

(* The key of a client that left is still there: HashMapInsert refuses,    *)
(* and the connection is closed behind the back of the TCP server.         *)
RejectClient(fd) ==
    /\ doing = Idle
    /\ fd \in DOMAIN clients \ Live
    /\ sent' = << >>
    /\ UNCHANGED <<managerVars, clients, doing>>

(* CloseClientFunc of a client whose user has no list, or an empty one.    *)
CloseClient(fd) ==
    /\ doing = Idle /\ fd \in Live
    /\ NameOf(fd) \in DOMAIN users => users[NameOf(fd)].groups = {}
    /\ clients' = Freed(fd)
    /\ sent' = << >>
    /\ UNCHANGED <<managerVars, doing>>

(* CloseClientFunc of a client whose user is in groups: the loop starts at *)
(* the first of them ...                                                   *)
CloseClientInGroups(fd) ==
    /\ doing = Idle /\ fd \in Live
    /\ NameOf(fd) \in DOMAIN users
    /\ \E g \in users[NameOf(fd)].groups : doing' = Draining(NameOf(fd), g)
    /\ sent' = << >>
    /\ UNCHANGED <<managerVars, clients>>

(* ... and leaves that group again and again, for ever.                    *)
LeaveSameGroup ==
    /\ doing.loop = "close"
    /\ \E g \in doing.todo : groupMng' = GroupMngLeave(groupMng, g)
    /\ sent' = << >>
    /\ UNCHANGED <<users, savedUsers, clients, doing>>

-----------------------------------------------------------------------------
(* Requests about users (TreatMsg) *)

Serving(fd) == doing = Idle /\ fd \in Live

RegisterResp ==
    [err \in {"USER_MNG_CREATE_FAIL", "USER_MNG_USER_EXISTS",
              "USER_MNG_USER_ADDED"} |->
        CASE err = "USER_MNG_USER_EXISTS" -> "USER_EXISTS"
          [] err = "USER_MNG_USER_ADDED"  -> "USER_CREATED"
          [] OTHER                        -> "GEN_ERROR"]

RegisterUser(fd, name, pass) ==
    /\ Serving(fd)
    /\ users' = UserAdd(users, name, pass)
    /\ savedUsers' \in SavedAfterAdd(users, savedUsers, name, pass)
    /\ sent' = Resp("REG_REC", RegisterResp[UserMngAddErr(users, name, pass)])
    /\ UNCHANGED <<groupMng, clients, doing>>

LoginResp ==
    [err \in {"USER_MNG_USER_NOT_FOUND", "USER_MNG_PASS_INCORRECT",
              "USER_MNG_ALREADY_CONNECT", "USER_MNG_SUCCESS"} |->
        CASE err = "USER_MNG_USER_NOT_FOUND"  -> "USER_NOT_FOUND"
          [] err = "USER_MNG_PASS_INCORRECT"  -> "PASS_INCORRECT"
          [] err = "USER_MNG_ALREADY_CONNECT" -> "USER_ALREADY_CONNECTED"
          [] OTHER                            -> "USER_CONNECTED"]

LoginUser(fd, name, pass) ==
    LET err == UserMngConnectErr(users, name, pass)
    IN  /\ Serving(fd)
        /\ users' = UserMngConnect(users, name, pass)
        /\ clients' = IF err = "USER_MNG_SUCCESS" THEN Assigned(fd, name) ELSE clients
        /\ sent' = Resp("LOGIN_REC", LoginResp[err])
        /\ UNCHANGED <<groupMng, savedUsers, doing>>

(* LogoutUser, up to LeaveAllUserGroups: the name is the connection's, not *)
(* the message's.                                                          *)
LogoutUser(fd) ==
    /\ Serving(fd)
    /\ IF NameOf(fd) \in DOMAIN users
       THEN /\ doing' = LoggingOut(NameOf(fd), users[NameOf(fd)].groups)
            /\ sent' = << >>
       ELSE /\ doing' = Idle
            /\ sent' = Resp("LOGOUT_REC", "GEN_ERROR")
    /\ UNCHANGED <<managerVars, clients>>

(* Bug variant: the iterator of the logout loop does not move either.      *)
BugLeaveWithoutNext(g) ==
    IF IsOpen(groupMng, g)
    THEN doing' = doing /\ sent' = << >>
    ELSE doing' = Idle  /\ sent' = Resp("LOGOUT_REC", "GEN_ERROR")

(* What a turn of the loop leaves to be done; a group the manager does not *)
(* know ends the logout with an error.                                     *)
AfterLeaving(g) ==
    IF IsOpen(groupMng, g)
    THEN /\ doing' = LoggingOut(doing.name, doing.todo \ {g})
         /\ sent' = << >>
    ELSE /\ doing' = Idle
         /\ sent' = Resp("LOGOUT_REC", "GEN_ERROR")

LeaveNextGroup ==
    /\ doing.loop = "logout"
    /\ \E g \in doing.todo :
            /\ groupMng' = GroupMngLeave(groupMng, g)
            /\ AfterLeaving(g)
    /\ UNCHANGED <<users, savedUsers, clients>>

(* The rest of LogoutUser.  The connection keeps the name.                 *)
FinishLogout ==
    /\ doing.loop = "logout" /\ doing.todo = {}
    /\ users' = UserMngDisconnect(users, doing.name)
    /\ doing' = Idle
    /\ sent' = Resp("LOGOUT_REC", "USER_DISCONNECTED")
    /\ UNCHANGED <<groupMng, savedUsers, clients>>

-----------------------------------------------------------------------------
(* Requests about groups *)

(* Bug variant: the seat the manager gave is not given back.               *)
BugNoRollback(mng, g) == mng

(* The seat taken for a user who then could not be told of the group.      *)
Rollback(mng, g) == GroupMngLeave(mng, g)

(* CreateGroup: the group is opened first, then the user is told of it.    *)
CreateGroup(fd, g) ==
    LET name   == NameOf(fd)
        opened == GroupMngAdd(groupMng, g)
        ok     == UserMngGroupJoinedErr(users, name, g) = "USER_MNG_SUCCESS"
    IN  /\ Serving(fd)
        /\ IF GroupMngAddErr(groupMng, g) # "GROUP_MNG_SUCCESS"
           THEN /\ groupMng' = opened
                /\ sent' = Resp("GROUP_CREATE_REC", "GROUP_CREATE_FAIL")
                /\ UNCHANGED users
           ELSE /\ groupMng' = IF ok THEN opened ELSE Rollback(opened, g)
                /\ users' = UserMngGroupJoined(users, name, g)
                /\ sent' = IF ok THEN Resp("GROUP_CREATE_REC", "GROUP_CREATED")
                                 ELSE Resp("GROUP_JOIN_REC", "GEN_ERROR")
        /\ UNCHANGED <<savedUsers, clients, doing>>

(* JoinGroup: SendGroupDetails answers with the type of a creation.        *)
JoinGroup(fd, g) ==
    LET name == NameOf(fd)
        ok   == UserMngGroupJoinedErr(users, name, g) = "USER_MNG_SUCCESS"
    IN  /\ Serving(fd)
        /\ IF UserMngIsUserInGrp(users, name, g)
           THEN /\ sent' = Resp("GROUP_JOIN_REC", "GROUP_USER_CONNECTED")
                /\ UNCHANGED <<groupMng, users>>
           ELSE IF ~IsOpen(groupMng, g)
           THEN /\ sent' = Resp("GROUP_JOIN_REC", "GEN_ERROR")
                /\ UNCHANGED <<groupMng, users>>
           ELSE /\ groupMng' = IF ok THEN GroupMngJoin(groupMng, g)
                               ELSE Rollback(GroupMngJoin(groupMng, g), g)
                /\ users' = UserMngGroupJoined(users, name, g)
                /\ sent' = IF ok THEN Resp("GROUP_CREATE_REC", "GROUP_JOINED")
                                 ELSE Resp("GROUP_JOIN_REC", "GEN_ERROR")
        /\ UNCHANGED <<savedUsers, clients, doing>>

(* Bug variant: the group is left by one who is not in it.                 *)
BugLeaveUnlisted(fd, g) ==
    /\ Serving(fd)
    /\ users' = UserMngGroupLeft(users, NameOf(fd), g)
    /\ groupMng' = GroupMngLeave(groupMng, g)
    /\ sent' = IF IsOpen(groupMng, g) THEN Resp("GROUP_LEAVE_REC", "GROUP_LEFT")
                                      ELSE Resp("GROUP_LEAVE_REC", "GEN_ERROR")
    /\ UNCHANGED <<savedUsers, clients, doing>>

(* LeaveGroup: the user's list first, then the group manager.              *)
LeaveGroup(fd, g) ==
    /\ Serving(fd)
    /\ users' = UserMngGroupLeft(users, NameOf(fd), g)
    /\ IF UserMngGroupLeftErr(users, NameOf(fd), g) # "USER_MNG_SUCCESS"
       THEN /\ sent' = Resp("GROUP_LEAVE_REC", "GEN_ERROR")
            /\ UNCHANGED groupMng
       ELSE /\ groupMng' = GroupMngLeave(groupMng, g)
            /\ sent' = IF IsOpen(groupMng, g)
                       THEN Resp("GROUP_LEAVE_REC", "GROUP_LEFT")
                       ELSE Resp("GROUP_LEAVE_REC", "GEN_ERROR")
    /\ UNCHANGED <<savedUsers, clients, doing>>

(* Bug variant: there is nothing to answer for an empty list.              *)
BugEmptyListUnanswered(fd) ==
    /\ Serving(fd)
    /\ sent' = IF GroupMngListErr(groupMng) = "GROUP_MNG_EMPTY" THEN << >>
               ELSE Resp("GROUP_LIST_REC", DOMAIN groupMng.groups)
    /\ UNCHANGED <<managerVars, clients, doing>>

(* SendGroupList does not return after answering for an empty list, and    *)
(* SendAppGroupList then answers for the vector that was destroyed.        *)
SendGroupList(fd) ==
    /\ Serving(fd)
    /\ sent' = IF GroupMngListErr(groupMng) = "GROUP_MNG_EMPTY"
               THEN Resp("GROUP_LIST_REC", "GROUP_LIST_EMPTY")
                    \o Resp("GROUP_LIST_REC", "GROUP_LIST_FAIL")
               ELSE Resp("GROUP_LIST_REC", DOMAIN groupMng.groups)
    /\ UNCHANGED <<managerVars, clients, doing>>

(* TreatMsg's default.                                                     *)
UnknownMessage(fd) ==
    /\ Serving(fd)
    /\ sent' = Resp("MSG_TYPE_ERR", "GEN_ERROR")
    /\ UNCHANGED <<managerVars, clients, doing>>

-----------------------------------------------------------------------------
(* Specification *)

(* GotMessageFunc: any request the client may have sent.                   *)
GotMessage(fd) ==
    \/ \E name \in UserName, pass \in Password :
            RegisterUser(fd, name, pass) \/ LoginUser(fd, name, pass)
    \/ LogoutUser(fd)
    \/ \E g \in GroupName : CreateGroup(fd, g) \/ JoinGroup(fd, g) \/ LeaveGroup(fd, g)
    \/ SendGroupList(fd)
    \/ UnknownMessage(fd)

(* The turns of the thread's own loops.                                    *)
Turn == LeaveNextGroup \/ FinishLogout \/ LeaveSameGroup

ServerAppNext ==
    \/ \E fd \in ClientID :
        \/ NewClient(fd) \/ RejectClient(fd)
        \/ CloseClient(fd) \/ CloseClientInGroups(fd)
        \/ GotMessage(fd)
    \/ Turn
    \/ Restart

(* A handler that runs is scheduled by the operating system until it ends; *)
(* that a request arrives, or a process is started again, nobody promises. *)
ServerAppSpec ==
    ServerAppInit /\ [][ServerAppNext]_appVars /\ WF_appVars(Turn)

-----------------------------------------------------------------------------
(* Properties *)

(* Type invariant: the managers are well-formed, the map has descriptors   *)
(* for keys, and the loop is over groups of a known user.                  *)
ServerAppTypeOK ==
    /\ GroupMngType(groupMng)
    /\ UserMngType(users)
    /\ savedUsers \in Seq(Word)
    /\ DOMAIN clients \in SUBSET ClientID
    /\ clients \in [DOMAIN clients -> ConnectedClient]
    /\ \/ doing = Idle
       \/ /\ doing.loop \in {"logout", "close"}
          /\ doing.name \in DOMAIN users
          /\ doing.todo \in SUBSET users[doing.name].groups
    /\ DOMAIN sent \in {{}, {1}, {1, 2}}

(* The seats of g in the group manager, 0 when it has no such group.       *)
SeatsOf(g) == IF IsOpen(groupMng, g) THEN groupMng.groups[g].users ELSE 0

(* The users whose list names g; one that is logging out and has left g    *)
(* already keeps it in the list till the end of the loop.                  *)
ListedIn(g) ==
    {n \in DOMAIN users :
        /\ g \in users[n].groups
        /\ ~(doing.loop = "logout" /\ doing.name = n /\ g \notin doing.todo)}

(* The two managers agree: m_numOfUsers of every group is the number of    *)
(* users whose list names it, through rollbacks, logouts from whichever    *)
(* connection, and restarts; so no group is there without members, and     *)
(* nobody is in a group that is gone.  Only the group a closing connection *)
(* loops on is exempt: there DisconnectClientGroups leaves again and again,*)
(* and gives up the seats of the other members too.                        *)
SeatsMatchLists ==
    \A g \in GroupName :
        ~(doing.loop = "close" /\ g \in doing.todo)
            => SeatsOf(g) = Cardinality(ListedIn(g))

(* A logout that has begun ends with the user disconnected, by FinishLogout*)
(* or because the server was started again; it never fails half way.       *)
LogoutDisconnects ==
    \A n \in UserName :
        (doing.loop = "logout" /\ doing.name = n)
            ~> (n \notin DOMAIN users \/ ~users[n].active)

-----------------------------------------------------------------------------
(* ServerApp implements ChatMembership: the relation is read off the lists *)
(* of the user manager, and a group is open in the one exactly when the    *)
(* other has an entry for it.                                              *)
Accounts == [n \in DOMAIN users |-> users[n].pass]
Online == {n \in DOMAIN users : users[n].active}
Members == {m \in (DOMAIN users) \X GroupName : m[2] \in users[m[1]].groups}

Membership == INSTANCE ChatMembership WITH
    User <- UserName, Pass <- Password, Group <- GroupName,
    Fits <- UserFits, Fit <- FitName,   MaxOpen <- MaxGroups,
    accounts <- Accounts, online <- Online, members <- Members, answer <- sent

(* Every request is answered as the membership relation says, refused only *)
(* for a reason that relation shows, and changes what its answer says: two *)
(* managers, a rollback and a loop look like one relation.                 *)
ImplementsMembership == Membership!ChatSpec
=============================================================================
