----------------------------- MODULE UserMngCalls -----------------------------
(***************************************************************************)
(* The user manager on its own: any caller may make any call of userMng.h, *)
(* and the process may end and start again at any time.                    *)
(***************************************************************************)
EXTENDS UserMng

VARIABLES
    users,          \* m_users: name -> struct User
    savedUsers,     \* the words of savedUsers.txt
    userReply,      \* what the last call returned
    removed         \* history: names UserMngRemove has removed

userVars == <<users, savedUsers, userReply, removed>>

UserMngInit ==
    /\ savedUsers = << >>
    /\ users = UserMngCreate(savedUsers)
    /\ userReply = "USER_MNG_SUCCESS"
    /\ removed = {}

AddUser(name, pass) ==
    /\ users' = UserAdd(users, name, pass)
    /\ savedUsers' \in SavedAfterAdd(users, savedUsers, name, pass)
    /\ userReply' = UserMngAddErr(users, name, pass)
    /\ UNCHANGED removed

RemoveUser(name) ==
    /\ users' = UserMngRemove(users, name)
    /\ userReply' = FindUserErr(users, name)
    /\ removed' = removed \union ({name} \intersect DOMAIN users)
    /\ UNCHANGED savedUsers

Connect(name, pass) ==
    /\ users' = UserMngConnect(users, name, pass)
    /\ userReply' = UserMngConnectErr(users, name, pass)
    /\ UNCHANGED <<savedUsers, removed>>

Disconnect(name) ==
    /\ users' = UserMngDisconnect(users, name)
    /\ userReply' = FindUserErr(users, name)
    /\ UNCHANGED <<savedUsers, removed>>

GroupJoined(name, g) ==
    /\ users' = UserMngGroupJoined(users, name, g)
    /\ userReply' = UserMngGroupJoinedErr(users, name, g)
    /\ UNCHANGED <<savedUsers, removed>>

GroupLeft(name, g) ==
    /\ users' = UserMngGroupLeft(users, name, g)
    /\ userReply' = UserMngGroupLeftErr(users, name, g)
    /\ UNCHANGED <<savedUsers, removed>>

(* The process ends, or is killed, and a new one reads the file.           *)
RestartUserMng ==
    /\ users' = UserMngCreate(savedUsers)
    /\ userReply' = "USER_MNG_SUCCESS"
    /\ UNCHANGED <<savedUsers, removed>>

UserMngNext ==
    \/ \E name \in UserName :
        \/ \E pass \in Password : AddUser(name, pass) \/ Connect(name, pass)
        \/ RemoveUser(name) \/ Disconnect(name)
        \/ \E g \in GroupName : GroupJoined(name, g) \/ GroupLeft(name, g)
    \/ RestartUserMng

UserMngSpec == UserMngInit /\ [][UserMngNext]_userVars

-----------------------------------------------------------------------------
(* Properties *)

(* Type invariant: users have records of struct User, the file is made of  *)
(* words, a reply is a code of USER_MNG_ERR.                               *)
UserMngTypeOK ==
    /\ UserMngType(users)
    /\ savedUsers \in Seq(Word)
    /\ userReply \in UserMngErr
    /\ removed \in SUBSET UserName

(* Only a connected user is in groups: UserConnect starts with an empty    *)
(* list, UserDisconnect and a restart leave none behind, and the paths of  *)
(* UserMngGroupJoined that refuse do not make one.                         *)
NoGroupsWithoutSession == ListsNeedSession(users)

(* Whatever calls were refused, writes failed or restarts happened, the    *)
(* lines of savedUsers.txt are whole, and a restart now would bring back   *)
(* no account but those of users, with their passwords; a removed name is  *)
(* exempt, for UserMngRemove does not take it out of the file.             *)
FileMatchesAccounts == FileAgrees(savedUsers, users, UserName \ removed)

(* An account that is in the file stays there with its password for ever:  *)
(* the file only grows, and ReadUsers lets the first line of a name win.   *)
SavedAccountsStable ==
    [][\A n \in DOMAIN ReadUsers(savedUsers) :
            /\ n \in DOMAIN ReadUsers(savedUsers')
            /\ ReadUsers(savedUsers')[n] = ReadUsers(savedUsers)[n]]_userVars
=============================================================================
