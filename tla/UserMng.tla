------------------------------- MODULE UserMng -------------------------------
(***************************************************************************)
(* The user manager (userMng.c) and its users (userStruct.c): the accounts,*)
(* who is connected, and the groups each connected user is in.             *)
(*                                                                         *)
(* Accounts are appended to savedUsers.txt as "name pass" and read back    *)
(* when the manager is created.  The file is modelled as the sequence of   *)
(* words fscanf("%s %s") finds in it, so that what a line says depends on  *)
(* where its words fall.                                                   *)
(*                                                                         *)
(* m_groups, a list of names without repetition, is kept as the set of its *)
(* names; an inactive user's list is NULL, here {}.                        *)
(***************************************************************************)
EXTENDS ChatNames, ChatAccounts, Containers, FiniteSets

CONSTANT EmptyString    \* the text of length 0, a name and a password

ASSUME UserMngAssumption == EmptyString \in UserName \intersect Password

-----------------------------------------------------------------------------
(* A user.  UserCreate wants a name and a password of at least 1 character.*)

(* Bug variant: only the name is measured.                                 *)
BugNameMeasured(name, pass) == name # EmptyString

UserFits(name, pass) == name # EmptyString /\ pass # EmptyString

UserStruct(pass, active, groups) ==
    [pass |-> pass, active |-> active, groups |-> groups]

(* Inactive, and without a list.                                           *)
UserCreate(pass) == UserStruct(pass, FALSE, {})

(* A manager after one of its users became another.                        *)
WithUser(users, name, user) == [users EXCEPT ![name] = user]

-----------------------------------------------------------------------------
(* savedUsers.txt *)

(* The words fscanf finds in what fprintf("%s") wrote of a text.           *)
Words(text) == IF text = EmptyString THEN << >> ELSE <<text>>

WriteUser(file, name, pass) == file \o Words(name) \o Words(pass)

Line(file) == 1 .. Len(file) \div 2
LineName(file, i) == file[2 * i - 1]
LinePass(file, i) == file[2 * i]

(* The line that makes the account: UserAdd refuses a name it has seen.    *)
FirstLine(file, name) ==
    CHOOSE i \in Line(file) :
        /\ LineName(file, i) = name
        /\ \A j \in Line(file) : LineName(file, j) = name => i <= j

(* Bug variant: a later line overwrites the account.                       *)
BugReadLastLine(file) ==
    [name \in {LineName(file, i) : i \in Line(file)} |->
        UserCreate(LinePass(file,
            CHOOSE i \in Line(file) :
                /\ LineName(file, i) = name
                /\ \A j \in Line(file) : LineName(file, j) = name => j <= i))]

ReadUsers(file) ==
    [name \in {LineName(file, i) : i \in Line(file)} |->
        UserCreate(LinePass(file, FirstLine(file, name)))]

-----------------------------------------------------------------------------
(* Accounts *)

UserMngCreate(file) == ReadUsers(file)

UserMngAddErr(users, name, pass) ==
    IF ~UserFits(name, pass)        THEN "USER_MNG_CREATE_FAIL"
    ELSE IF name \in DOMAIN users   THEN "USER_MNG_USER_EXISTS"
    ELSE "USER_MNG_USER_ADDED"

UserAdd(users, name, pass) ==
    IF UserMngAddErr(users, name, pass) = "USER_MNG_USER_ADDED"
    THEN HashMapInsert(users, name, UserCreate(pass))
    ELSE users

(* Bug variant: the file is written whatever UserAdd answered.             *)
BugSaveRefused(users, file, name, pass) ==
    {file, WriteUser(file, name, pass)}

(* The file after UserMngAdd: a user that was added is written, unless the *)
(* file cannot be opened, which WriteUser tells nobody.                    *)
SavedAfterAdd(users, file, name, pass) ==
    IF UserMngAddErr(users, name, pass) = "USER_MNG_USER_ADDED"
    THEN {file, WriteUser(file, name, pass)}
    ELSE {file}

(* UserMngRemove leaves the file alone.                                    *)
UserMngRemove(users, name) == HashMapRemove(users, name)

-----------------------------------------------------------------------------
(* Sessions *)

FindUserErr(users, name) ==
    IF name \in DOMAIN users THEN "USER_MNG_SUCCESS" ELSE "USER_MNG_USER_NOT_FOUND"

(* The password is looked at before m_isActive.                            *)
UserMngConnectErr(users, name, pass) ==
    IF name \notin DOMAIN users      THEN "USER_MNG_USER_NOT_FOUND"
    ELSE IF users[name].pass # pass  THEN "USER_MNG_PASS_INCORRECT"
    ELSE IF users[name].active       THEN "USER_MNG_ALREADY_CONNECT"
    ELSE "USER_MNG_SUCCESS"

UserMngConnect(users, name, pass) ==
    IF UserMngConnectErr(users, name, pass) = "USER_MNG_SUCCESS"
    THEN WithUser(users, name, UserStruct(pass, TRUE, {}))
    ELSE users

(* Bug variant: the list of groups survives the session.                   *)
BugDisconnectKeepsGroups(users, name) ==
    IF name \notin DOMAIN users THEN users
    ELSE WithUser(users, name, UserStruct(users[name].pass, FALSE, users[name].groups))

(* A user that is not active is disconnected all the same.                 *)
UserMngDisconnect(users, name) ==
    IF name \notin DOMAIN users THEN users
    ELSE WithUser(users, name, UserStruct(users[name].pass, FALSE, {}))

-----------------------------------------------------------------------------
(* Groups *)

UserMngIsUserInGrp(users, name, g) ==
    name \in DOMAIN users /\ g \in users[name].groups

(* ListPushTail has no list to push to when the user is not active.        *)
UserMngGroupJoinedErr(users, name, g) ==
    IF name \notin DOMAIN users         THEN "USER_MNG_USER_NOT_FOUND"
    ELSE IF g \in users[name].groups    THEN "USER_MNG_IN_GRP"
    ELSE IF ~users[name].active         THEN "USER_MNG_GRP_JOIN_FAIL"
    ELSE "USER_MNG_SUCCESS"

UserMngGroupJoined(users, name, g) ==
    IF UserMngGroupJoinedErr(users, name, g) = "USER_MNG_SUCCESS"
    THEN WithUser(users, name,
                  UserStruct(users[name].pass, TRUE, users[name].groups \union {g}))
    ELSE users

UserMngGroupLeftErr(users, name, g) ==
    IF name \notin DOMAIN users             THEN "USER_MNG_USER_NOT_FOUND"
    ELSE IF g \notin users[name].groups     THEN "USER_MNG_GRP_LEAVE_FAIL"
    ELSE "USER_MNG_SUCCESS"

UserMngGroupLeft(users, name, g) ==
    IF UserMngGroupLeftErr(users, name, g) = "USER_MNG_SUCCESS"
    THEN WithUser(users, name,
                  UserStruct(users[name].pass, users[name].active,
                       users[name].groups \ {g}))
    ELSE users

-----------------------------------------------------------------------------
(* Value invariants *)

UserMngErr == {"USER_MNG_SUCCESS", "USER_MNG_CREATE_FAIL",
               "USER_MNG_USER_EXISTS", "USER_MNG_USER_ADDED",
               "USER_MNG_USER_NOT_FOUND", "USER_MNG_PASS_INCORRECT",
               "USER_MNG_ALREADY_CONNECT", "USER_MNG_GRP_JOIN_FAIL",
               "USER_MNG_IN_GRP", "USER_MNG_GRP_LEAVE_FAIL"}

Word == (UserName \union Password) \ {EmptyString}

UserRecord ==
    [pass : Password \ {EmptyString}, active : BOOLEAN, groups : SUBSET GroupName]

UserMngType(users) ==
    /\ DOMAIN users \in SUBSET (UserName \ {EmptyString})
    /\ users \in [DOMAIN users -> UserRecord]

(* A list of groups exists only while its user is active.                  *)
ListsNeedSession(users) ==
    \A n \in DOMAIN users : users[n].groups # {} => users[n].active

(* Each line of the file is a name and the password that goes with it in   *)
(* users, for the names in kept.                                           *)
FileAgrees(file, users, kept) ==
    /\ file \in Seq(Word)
    /\ Len(file) % 2 = 0
    /\ \A n \in kept \intersect DOMAIN ReadUsers(file) :
            n \in DOMAIN users /\ ReadUsers(file)[n].pass = users[n].pass
=============================================================================
