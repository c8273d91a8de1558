---------------------------- MODULE ServerAppProofs ----------------------------
(***************************************************************************)
(* What holds of the server application for any number of connections,     *)
(* accounts and groups: its two managers agree about who is in which group,*)
(* and together they look like the one relation of ChatMembership.         *)
(***************************************************************************)
EXTENDS ServerApp, ManagerLemmas, SequenceTheorems

-----------------------------------------------------------------------------
(* Seats: SeatsOf for a manager that is not groupMng.                      *)
Seats(mng, g) == IF IsOpen(mng, g) THEN mng.groups[g].users ELSE 0

SameSeatsBut(mng, new, g) ==
    \A h \in GroupName \ {g} : Seats(new, h) = Seats(mng, h)

(* A group is open exactly when a seat in it is taken.                     *)
LEMMA OpenHasSeats ==
    ASSUME NEW mng, GroupMngOK(mng), NEW g
    PROVE  /\ Seats(mng, g) \in Nat
           /\ IsOpen(mng, g) <=> Seats(mng, g) # 0
           /\ IsOpen(mng, g) => Seats(mng, g) \in Nat \ {0}
BY DEF GroupMngOK, GroupMngType, Group, Seats, IsOpen

(* What GiveBack, TakeAddress and the counter do to the seats: nothing.    *)
LEMMA AddSeats ==
    ASSUME NEW mng, GroupMngOK(mng), NEW g
    PROVE  LET new == GroupMngAdd(mng, g)
           IN  IF GroupMngAddErr(mng, g) = "GROUP_MNG_SUCCESS"
               THEN /\ ~IsOpen(mng, g) /\ g \in FitName
                    /\ IsOpen(new, g) /\ Seats(new, g) = 1
                    /\ SameSeatsBut(mng, new, g)
                    /\ mng.num # MaxGroups
               ELSE /\ new.groups = mng.groups
                    /\ \A h : Seats(new, h) = Seats(mng, h)
<1> DEFINE new == GroupMngAdd(mng, g)
           ok  == GroupMngAddErr(mng, g) = "GROUP_MNG_SUCCESS"
<1>1. CASE ok
  <2>1. ~IsOpen(mng, g) /\ g \in FitName /\ mng.num # MaxGroups
    BY <1>1 DEF GroupMngAddErr
  <2>2. new.groups = HashMapInsert(mng.groups, g, GroupStruct(Head(mng.freeAddr), 1))
    BY <1>1 DEF GroupMngAdd, Manager, TakeAddress, GroupCreate
  <2> HIDE DEF new
  <2>3. /\ DOMAIN new.groups = DOMAIN mng.groups \union {g}
        /\ new.groups[g] = GroupStruct(Head(mng.freeAddr), 1)
        /\ \A h \in DOMAIN mng.groups : new.groups[h] = mng.groups[h]
    BY <2>1, <2>2 DEF HashMapInsert, IsOpen
  <2>4. IsOpen(new, g) /\ Seats(new, g) = 1
    BY <2>3 DEF IsOpen, Seats, GroupStruct
  <2>5. SameSeatsBut(mng, new, g)
    BY <2>3 DEF IsOpen, Seats, SameSeatsBut
  <2> QED
    BY <1>1, <2>1, <2>4, <2>5 DEF new
<1>2. CASE ~ok
  <2>1. new.groups = mng.groups
    BY <1>2 DEF GroupMngAdd, GiveBack, TakeAddress, Manager
  <2> QED
    BY <1>2, <2>1 DEF Seats, IsOpen
<1> QED
  BY <1>1, <1>2

(* Counting seats of an open group.                                        *)
LEMMA WithUsersSeats ==
    ASSUME NEW mng, GroupMngType(mng), NEW g, IsOpen(mng, g), NEW n
    PROVE  /\ IsOpen(WithUsers(mng, g, n), g)
           /\ DOMAIN WithUsers(mng, g, n).groups = DOMAIN mng.groups
           /\ Seats(WithUsers(mng, g, n), g) = n
           /\ WithUsers(mng, g, n).groups[g].users = n
           /\ SameSeatsBut(mng, WithUsers(mng, g, n), g)
<1> DEFINE new == WithUsers(mng, g, n)
<1>1. mng.groups = [h \in DOMAIN mng.groups |-> mng.groups[h]]
  BY DEF GroupMngType
<1>2. new.groups = [mng.groups EXCEPT ![g] = GroupStruct(mng.groups[g].addr, n)]
  BY DEF WithUsers, Manager
<1> HIDE DEF new
<1>3. /\ DOMAIN new.groups = DOMAIN mng.groups
      /\ new.groups[g] = GroupStruct(mng.groups[g].addr, n)
      /\ \A h \in DOMAIN mng.groups : h # g => new.groups[h] = mng.groups[h]
  BY <1>1, <1>2 DEF IsOpen
<1> QED
  BY <1>3 DEF Seats, IsOpen, SameSeatsBut, GroupStruct, new

(* GroupMngJoin takes a seat.                                              *)
LEMMA JoinSeats ==
    ASSUME NEW mng, GroupMngOK(mng), NEW g, IsOpen(mng, g)
    PROVE  /\ Seats(GroupMngJoin(mng, g), g) = Seats(mng, g) + 1
           /\ SameSeatsBut(mng, GroupMngJoin(mng, g), g)
<1>1. GroupMngJoin(mng, g) = WithUsers(mng, g, mng.groups[g].users + 1)
  BY DEF GroupMngJoin, GroupConnect
<1> QED
  BY <1>1, WithUsersSeats DEF GroupMngOK, Seats

(* GroupMngLeave gives one up; the last one closes the group.              *)
LEMMA LeaveSeats ==
    ASSUME NEW mng, GroupMngOK(mng), NEW g, IsOpen(mng, g)
    PROVE  /\ Seats(GroupMngLeave(mng, g), g) = Seats(mng, g) - 1
           /\ SameSeatsBut(mng, GroupMngLeave(mng, g), g)
<1> DEFINE left == GroupDisconnect(mng, g)
           new  == GroupMngLeave(mng, g)
           n    == mng.groups[g].users
<1>1. n \in Nat \ {0} /\ Seats(mng, g) = n
  BY DEF GroupMngOK, GroupMngType, Group, Seats, IsOpen
<1>2. /\ DOMAIN left.groups = DOMAIN mng.groups
      /\ left.groups[g].users = n - 1
      /\ Seats(left, g) = n - 1
      /\ SameSeatsBut(mng, left, g)
  BY WithUsersSeats DEF GroupMngOK, GroupDisconnect
<1>3. CASE n = 1
  <2>1. new = GroupMngRemove(left, g)
    BY <1>2, <1>3 DEF GroupMngLeave
  <2>2. new.groups = HashMapRemove(left.groups, g)
    BY <2>1 DEF GroupMngRemove, GiveBack, Manager
  <2> HIDE DEF new, left
  <2>3. /\ DOMAIN new.groups = DOMAIN mng.groups \ {g}
        /\ \A h \in DOMAIN new.groups : new.groups[h] = left.groups[h]
    BY <1>2, <2>2 DEF HashMapRemove
  <2>4. Seats(new, g) = 0
    BY <2>3 DEF Seats, IsOpen
  <2>5. ASSUME NEW h \in GroupName \ {g}
        PROVE  Seats(new, h) = Seats(left, h)
    BY <1>2, <2>3 DEF Seats, IsOpen
  <2> QED
    BY <1>1, <1>2, <1>3, <2>4, <2>5 DEF SameSeatsBut, new
<1>4. CASE n # 1
  <2>1. new = left
    BY <1>1, <1>2, <1>4 DEF GroupMngLeave
  <2> QED
    BY <1>1, <1>2, <2>1
<1> QED
  BY <1>1, <1>3, <1>4

(* A rollback takes back the seat that was just given.                     *)
LEMMA RollbackSeats ==
    ASSUME NEW mng, GroupMngOK(mng), NEW g, IsOpen(mng, g)
    PROVE  /\ GroupMngOK(Rollback(mng, g))
           /\ Seats(Rollback(mng, g), g) = Seats(mng, g) - 1
           /\ SameSeatsBut(mng, Rollback(mng, g), g)
BY LeaveOK, LeaveSeats DEF Rollback

-----------------------------------------------------------------------------
(* Lists: ListedIn for a user manager and a loop that are not the current  *)
(* ones.                                                                   *)
Listed(us, loop, g) ==
    {n \in DOMAIN us :
        /\ g \in us[n].groups
        /\ ~(loop.loop = "logout" /\ loop.name = n /\ g \notin loop.todo)}

Exempt(loop, g) == loop.loop = "close" /\ g \in loop.todo

SeatsMatch(mng, us, loop) ==
    \A g \in GroupName :
        ~Exempt(loop, g) => Seats(mng, g) = Cardinality(Listed(us, loop, g))

(* This is what SeatsMatchLists says.                                      *)
LEMMA SeatsMatchIs == SeatsMatchLists <=> SeatsMatch(groupMng, users, doing)
BY DEF SeatsMatchLists, SeatsMatch, SeatsOf, Seats, ListedIn, Listed, Exempt

(* The loop that is running, or Idle.                                      *)
LoopOK(us, loop) ==
    \/ loop = Idle
    \/ /\ loop.loop \in {"logout", "close"}
       /\ loop.name \in DOMAIN us
       /\ loop.todo \in SUBSET us[loop.name].groups

(* Managers whose seats and lists are the same agree as before.            *)
LEMMA SameSeatsMatch ==
    ASSUME NEW mng, NEW us, NEW loop, SeatsMatch(mng, us, loop),
           NEW mng2, \A g \in GroupName : Seats(mng2, g) = Seats(mng, g),
           NEW us2, NEW loop2,
           \A g \in GroupName : Listed(us2, loop2, g) = Listed(us, loop, g),
           \A g \in GroupName : Exempt(loop, g) => Exempt(loop2, g)
    PROVE  SeatsMatch(mng2, us2, loop2)
BY DEF SeatsMatch

(* One more seat in g, and one more user that lists it.                    *)
LEMMA OneMoreMatches ==
    ASSUME NEW mng, NEW us, NEW loop, SeatsMatch(mng, us, loop),
           IsFiniteSet(DOMAIN us), NEW g \in GroupName, ~Exempt(loop, g),
           NEW mng2, Seats(mng2, g) = Seats(mng, g) + 1, SameSeatsBut(mng, mng2, g),
           NEW us2, NEW loop2,
           NEW n \in DOMAIN us, n \notin Listed(us, loop, g),
           Listed(us2, loop2, g) = Listed(us, loop, g) \union {n},
           \A h \in GroupName \ {g} : Listed(us2, loop2, h) = Listed(us, loop, h),
           \A h \in GroupName : Exempt(loop, h) => Exempt(loop2, h)
    PROVE  SeatsMatch(mng2, us2, loop2)
<1>1. IsFiniteSet(Listed(us, loop, g))
  BY FS_Subset DEF Listed
<1>2. Cardinality(Listed(us2, loop2, g)) = Cardinality(Listed(us, loop, g)) + 1
  BY <1>1, FS_AddElement
<1>3. Seats(mng2, g) = Cardinality(Listed(us2, loop2, g))
  BY <1>2 DEF SeatsMatch
<1> QED
  BY <1>3 DEF SeatsMatch, SameSeatsBut

(* One seat less in g, and one user less that lists it.                    *)
LEMMA OneLessMatches ==
    ASSUME NEW mng, NEW us, NEW loop, SeatsMatch(mng, us, loop),
           IsFiniteSet(DOMAIN us), NEW g \in GroupName, ~Exempt(loop, g),
           NEW mng2, Seats(mng2, g) = Seats(mng, g) - 1, SameSeatsBut(mng, mng2, g),
           NEW us2, NEW loop2, NEW n \in Listed(us, loop, g),
           Listed(us2, loop2, g) = Listed(us, loop, g) \ {n},
           \A h \in GroupName \ {g} : Listed(us2, loop2, h) = Listed(us, loop, h),
           \A h \in GroupName : Exempt(loop, h) => Exempt(loop2, h)
    PROVE  SeatsMatch(mng2, us2, loop2)
<1>1. IsFiniteSet(Listed(us, loop, g))
  BY FS_Subset DEF Listed
<1>2. Cardinality(Listed(us2, loop2, g)) = Cardinality(Listed(us, loop, g)) - 1
  BY <1>1, FS_RemoveElement
<1>3. Seats(mng2, g) = Cardinality(Listed(us2, loop2, g))
  BY <1>2 DEF SeatsMatch
<1> QED
  BY <1>3 DEF SeatsMatch, SameSeatsBut

(* A group is open exactly when somebody lists it.                         *)
LEMMA OpenIsListed ==
    ASSUME NEW mng, GroupMngOK(mng), NEW us, IsFiniteSet(DOMAIN us), NEW loop,
           SeatsMatch(mng, us, loop), NEW g \in GroupName, ~Exempt(loop, g)
    PROVE  IsOpen(mng, g) <=> Listed(us, loop, g) # {}
<1>1. IsFiniteSet(Listed(us, loop, g))
  BY FS_Subset DEF Listed
<1>2. Cardinality(Listed(us, loop, g)) = 0 <=> Listed(us, loop, g) = {}
  BY <1>1, FS_EmptySet
<1> QED
  BY <1>2, OpenHasSeats DEF SeatsMatch

(* What a user that has another struct does to the lists.                  *)
LEMMA WithUserListed ==
    ASSUME NEW us, UserMngOK(us), NEW n \in DOMAIN us, NEW user, NEW loop
    PROVE  \A g : Listed(WithUser(us, n, user), loop, g) =
                    IF /\ g \in user.groups
                       /\ ~(loop.loop = "logout" /\ loop.name = n /\ g \notin loop.todo)
                    THEN Listed(us, loop, g) \union {n}
                    ELSE Listed(us, loop, g) \ {n}
<1> DEFINE new == WithUser(us, n, user)
<1>1. /\ DOMAIN new = DOMAIN us
      /\ new[n] = user
      /\ \A k \in DOMAIN us : k # n => new[k] = us[k]
  BY WithUserIs DEF UserMngOK
<1> HIDE DEF new
<1>2. \A g : Listed(new, loop, g) =
                IF /\ g \in user.groups
                   /\ ~(loop.loop = "logout" /\ loop.name = n /\ g \notin loop.todo)
                THEN Listed(us, loop, g) \union {n}
                ELSE Listed(us, loop, g) \ {n}
  BY <1>1 DEF Listed
<1> QED
  BY <1>2 DEF new

-----------------------------------------------------------------------------
(* The inductive invariant: beside the two managers agreeing, the groups   *)
(* must be finitely many users' (each count is of a finite set), and what  *)
(* a restart reads must be accounts of users.                              *)
ServerAppInv ==
    /\ GroupMngOK(groupMng)
    /\ UserMngOK(users) /\ IsFiniteSet(DOMAIN users)
    /\ FileOK(savedUsers) /\ FileAgrees(savedUsers, users, UserName)
    /\ DOMAIN clients \in SUBSET ClientID
    /\ clients \in [DOMAIN clients -> ConnectedClient]
    /\ LoopOK(users, doing)
    /\ SeatsMatch(groupMng, users, doing)
    /\ DOMAIN sent \in {{}, {1}, {1, 2}}

(* The messages of a step.                                                 *)
LEMMA SentOne ==
    ASSUME NEW type, NEW response
    PROVE  DOMAIN Resp(type, response) \in {{}, {1}, {1, 2}}
BY DEF Resp

(* A step that sends nothing.                                              *)
LEMMA SentNone == DOMAIN << >> \in {{}, {1}, {1, 2}}
OBVIOUS

(* The name of a connection is a name, if nobody's.                        *)
LEMMA NameOfLive ==
    ASSUME ServerAppInv, NEW fd \in Live
    PROVE  NameOf(fd) \in UserName /\ fd \in ClientID
BY DEF ServerAppInv, Live, NameOf, ConnectedClient

(* A map of clients with one entry more or another.                        *)
LEMMA ClientsOK ==
    ASSUME ServerAppInv, NEW fd \in ClientID, NEW name \in UserName
    PROVE  /\ DOMAIN HashMapInsert(clients, fd, Client(name)) \in SUBSET ClientID
           /\ HashMapInsert(clients, fd, Client(name)) \in
                [DOMAIN HashMapInsert(clients, fd, Client(name)) -> ConnectedClient]
           /\ DOMAIN Assigned(fd, name) \in SUBSET ClientID
           /\ Assigned(fd, name) \in [DOMAIN Assigned(fd, name) -> ConnectedClient]
           /\ DOMAIN Freed(fd) \in SUBSET ClientID
           /\ Freed(fd) \in [DOMAIN Freed(fd) -> ConnectedClient]
<1>1. /\ DOMAIN clients \in SUBSET ClientID
      /\ clients \in [DOMAIN clients -> ConnectedClient]
  BY DEF ServerAppInv
<1>2. Client(name) \in ConnectedClient
  BY DEF Client, ConnectedClient
<1>3. [live |-> FALSE, userName |-> EmptyString] \in ConnectedClient
  BY UserMngAssumption DEF ConnectedClient
<1>4. /\ DOMAIN HashMapInsert(clients, fd, Client(name)) \in SUBSET ClientID
      /\ HashMapInsert(clients, fd, Client(name)) \in
            [DOMAIN HashMapInsert(clients, fd, Client(name)) -> ConnectedClient]
  BY <1>1, <1>2 DEF HashMapInsert
<1>5. /\ DOMAIN Assigned(fd, name) \in SUBSET ClientID
      /\ Assigned(fd, name) \in [DOMAIN Assigned(fd, name) -> ConnectedClient]
  BY <1>1, <1>2 DEF Assigned
<1>6. /\ DOMAIN Freed(fd) \in SUBSET ClientID
      /\ Freed(fd) \in [DOMAIN Freed(fd) -> ConnectedClient]
  BY <1>1, <1>3 DEF Freed
<1> QED
  BY <1>4, <1>5, <1>6

(* A new process has no sessions, groups or connections.                   *)
LEMMA BootedInv ==
    ASSUME NEW file, FileOK(file), IsFiniteSet(DOMAIN UserMngCreate(file))
    PROVE  /\ GroupMngOK(GroupMngCreate)
           /\ UserMngOK(UserMngCreate(file))
           /\ FileAgrees(file, UserMngCreate(file), UserName)
           /\ DOMAIN EmptyMap \in SUBSET ClientID
           /\ EmptyMap \in [DOMAIN EmptyMap -> ConnectedClient]
           /\ LoopOK(UserMngCreate(file), Idle)
           /\ SeatsMatch(GroupMngCreate, UserMngCreate(file), Idle)
<1> DEFINE us == UserMngCreate(file)
<1>1. UserMngOK(us) /\ \A n \in DOMAIN us : us[n].active = FALSE
  BY UserMngCreateOK
<1>2. GroupMngOK(GroupMngCreate)
  BY CreateOK
<1>3. FileAgrees(file, us, UserName)
  BY FileAgreesWithItself
<1>4. DOMAIN EmptyMap = {} /\ EmptyMap \in [DOMAIN EmptyMap -> ConnectedClient]
  BY DEF EmptyMap
<1> HIDE DEF us
<1>5. \A g \in GroupName : Listed(us, Idle, g) = {}
  BY <1>1 DEF UserMngOK, ListsNeedSession, Listed
<1>6. \A g \in GroupName : Seats(GroupMngCreate, g) = 0
  BY DEF Seats, IsOpen, GroupMngCreate, Manager, EmptyMap
<1>7. SeatsMatch(GroupMngCreate, us, Idle)
  BY <1>5, <1>6, FS_EmptySet DEF SeatsMatch
<1> QED
  BY <1>1, <1>2, <1>3, <1>4, <1>7 DEF LoopOK, us

(* Nothing is saved at first.                                              *)
LEMMA ServerAppInitInv == ServerAppInit => ServerAppInv
<1> SUFFICES ASSUME ServerAppInit
             PROVE  ServerAppInv
  OBVIOUS
<1>1. /\ savedUsers = << >>
      /\ groupMng = GroupMngCreate /\ users = UserMngCreate(savedUsers)
      /\ clients = EmptyMap /\ doing = Idle /\ sent = << >>
  BY DEF ServerAppInit, Booted
<1>2. FileOK(savedUsers) /\ Named(savedUsers) = {}
  BY <1>1 DEF FileOK, Line, Named
<1>3. IsFiniteSet(DOMAIN UserMngCreate(savedUsers))
  BY <1>2, ReadUsersIs, FS_EmptySet DEF UserMngCreate
<1> QED
  BY <1>1, <1>2, <1>3, BootedInv, SentNone DEF ServerAppInv

(* The process starts again, wherever it was.                              *)
LEMMA RestartKeepsInv ==
    ASSUME ServerAppInv, Restart
    PROVE  ServerAppInv'
<1>1. /\ FileOK(savedUsers) /\ FileAgrees(savedUsers, users, UserName)
      /\ IsFiniteSet(DOMAIN users) /\ UserMngOK(users)
  BY DEF ServerAppInv
<1>2. DOMAIN UserMngCreate(savedUsers) \subseteq UserName
  BY <1>1, UserMngCreateOK DEF UserMngOK, UserMngType
<1>3. DOMAIN UserMngCreate(savedUsers) \subseteq DOMAIN users
  BY <1>1, <1>2 DEF FileAgrees, UserMngCreate
<1>4. IsFiniteSet(DOMAIN UserMngCreate(savedUsers))
  BY <1>1, <1>3, FS_Subset
<1>5. /\ savedUsers' = savedUsers
      /\ groupMng' = GroupMngCreate /\ users' = UserMngCreate(savedUsers)
      /\ clients' = EmptyMap /\ doing' = Idle /\ sent' = << >>
  BY DEF Restart
<1> QED
  BY <1>1, <1>4, <1>5, BootedInv, SentNone DEF ServerAppInv

-----------------------------------------------------------------------------
(* Connections *)

(* A step that leaves the managers alone, and starts no loop or the one    *)
(* that closes a connection.                                               *)
LEMMA ManagersAloneInv ==
    ASSUME ServerAppInv, UNCHANGED managerVars,
           DOMAIN clients' \in SUBSET ClientID,
           clients' \in [DOMAIN clients' -> ConnectedClient],
           LoopOK(users, doing'),
           \A g \in GroupName : Listed(users, doing', g) = Listed(users, doing, g),
           \A g \in GroupName : Exempt(doing, g) => Exempt(doing', g),
           DOMAIN sent' \in {{}, {1}, {1, 2}}
    PROVE  ServerAppInv'
<1>1. groupMng' = groupMng /\ users' = users /\ savedUsers' = savedUsers
  BY DEF managerVars
<1>2. SeatsMatch(groupMng, users, doing')
  BY SameSeatsMatch DEF ServerAppInv
<1> QED
  BY <1>1, <1>2 DEF ServerAppInv

(* The connection callbacks.                                               *)
LEMMA ConnectionInv ==
    ASSUME ServerAppInv, NEW fd \in ClientID,
           \/ NewClient(fd) \/ RejectClient(fd)
           \/ CloseClient(fd) \/ CloseClientInGroups(fd)
    PROVE  ServerAppInv'
<1>1. /\ DOMAIN clients \in SUBSET ClientID
      /\ clients \in [DOMAIN clients -> ConnectedClient]
      /\ LoopOK(users, doing)
  BY DEF ServerAppInv
<1>2. sent' = << >> /\ UNCHANGED managerVars /\ doing = Idle
  BY DEF NewClient, RejectClient, CloseClient, CloseClientInGroups
<1>3. CASE NewClient(fd)
  <2>1. PICK name \in UserName : clients' = HashMapInsert(clients, fd, Client(name))
    BY <1>3 DEF NewClient
  <2>2. doing' = doing
    BY <1>3 DEF NewClient
  <2> QED
    BY <1>1, <1>2, <2>1, <2>2, ClientsOK, ManagersAloneInv, SentNone
<1>4. CASE RejectClient(fd)
  BY <1>1, <1>2, <1>4, ManagersAloneInv, SentNone DEF RejectClient
<1>5. CASE CloseClient(fd)
  <2>1. clients' = Freed(fd) /\ doing' = doing
    BY <1>5 DEF CloseClient
  <2>2. EmptyString \in UserName
    BY UserMngAssumption
  <2> QED
    BY <1>1, <1>2, <2>1, <2>2, ClientsOK, ManagersAloneInv, SentNone
<1>6. CASE CloseClientInGroups(fd)
  <2> DEFINE n == NameOf(fd)
  <2>1. PICK g \in users[n].groups : doing' = Draining(n, g)
    BY <1>6 DEF CloseClientInGroups
  <2>2. n \in DOMAIN users /\ clients' = clients
    BY <1>6 DEF CloseClientInGroups
  <2> HIDE DEF n
  <2>3. doing'.loop = "close" /\ doing'.name = n /\ doing'.todo = {g}
    BY <2>1 DEF Draining
  <2>4. LoopOK(users, doing')
    BY <2>1, <2>2, <2>3 DEF LoopOK
  <2>5. \A h \in GroupName : Listed(users, doing', h) = Listed(users, doing, h)
    BY <1>2, <2>3 DEF Listed, Idle
  <2>6. \A h \in GroupName : ~Exempt(doing, h)
    BY <1>2 DEF Exempt, Idle
  <2> QED
    BY <1>1, <1>2, <2>2, <2>4, <2>5, <2>6, ManagersAloneInv, SentNone
<1> QED
  BY <1>3, <1>4, <1>5, <1>6

-----------------------------------------------------------------------------
(* Users *)

(* A new account is in no list.                                            *)
LEMMA RegisterUserInv ==
    ASSUME ServerAppInv, NEW fd \in ClientID, NEW name \in UserName,
           NEW pass \in Password, RegisterUser(fd, name, pass)
    PROVE  ServerAppInv'
<1> DEFINE added == UserMngAddErr(users, name, pass) = "USER_MNG_USER_ADDED"
           more  == UserAdd(users, name, pass)
<1>1. /\ UserMngOK(users) /\ IsFiniteSet(DOMAIN users)
      /\ FileOK(savedUsers) /\ FileAgrees(savedUsers, users, UserName)
      /\ SeatsMatch(groupMng, users, doing)
  BY DEF ServerAppInv
<1>2. /\ doing = Idle /\ doing' = doing
      /\ users' = more
      /\ savedUsers' \in SavedAfterAdd(users, savedUsers, name, pass)
      /\ groupMng' = groupMng /\ clients' = clients
      /\ sent' = Resp("REG_REC", RegisterResp[UserMngAddErr(users, name, pass)])
  BY DEF RegisterUser, Serving
<1>3. FileOK(savedUsers') /\ FileAgrees(savedUsers', more, UserName)
  BY <1>1, <1>2, SavedAfterAddOK
<1>4. /\ UserMngOK(more)
      /\ \A n \in DOMAIN users : n \in DOMAIN more /\ more[n] = users[n]
      /\ added => /\ name \notin DOMAIN users
                  /\ DOMAIN more = DOMAIN users \union {name}
                  /\ more[name] = UserCreate(pass)
      /\ ~added => more = users
  BY <1>1, UserAddOK
<1> HIDE DEF more, added
<1>5. IsFiniteSet(DOMAIN more)
  BY <1>1, <1>4, FS_AddElement
<1>6. \A g : Listed(more, doing, g) = Listed(users, doing, g)
  <2>1. CASE ~added
    BY <1>4, <2>1
  <2>2. CASE added
    <3>1. more[name].groups = {}
      BY <1>4, <2>2 DEF UserCreate, UserStruct
    <3> QED
      BY <1>4, <2>2, <3>1 DEF Listed
  <2> QED
    BY <2>1, <2>2
<1>7. SeatsMatch(groupMng, more, doing)
  BY <1>1, <1>6, SameSeatsMatch
<1> QED
  BY <1>2, <1>3, <1>4, <1>5, <1>7, SentOne DEF ServerAppInv, LoopOK

(* A user that logs in has no list, and a connection gets its name.        *)
LEMMA LoginUserInv ==
    ASSUME ServerAppInv, NEW fd \in ClientID, NEW name \in UserName,
           NEW pass \in Password, LoginUser(fd, name, pass)
    PROVE  ServerAppInv'
<1> DEFINE ok  == UserMngConnectErr(users, name, pass) = "USER_MNG_SUCCESS"
           new == UserMngConnect(users, name, pass)
<1>1. /\ UserMngOK(users) /\ IsFiniteSet(DOMAIN users)
      /\ FileAgrees(savedUsers, users, UserName)
      /\ SeatsMatch(groupMng, users, doing)
      /\ DOMAIN clients \in SUBSET ClientID
      /\ clients \in [DOMAIN clients -> ConnectedClient]
  BY DEF ServerAppInv
<1>2. /\ doing = Idle /\ doing' = doing
      /\ users' = new /\ savedUsers' = savedUsers /\ groupMng' = groupMng
      /\ clients' \in {Assigned(fd, name), clients}
      /\ sent' = Resp("LOGIN_REC", LoginResp[UserMngConnectErr(users, name, pass)])
  BY DEF LoginUser, Serving
<1>3. /\ DOMAIN clients' \in SUBSET ClientID
      /\ clients' \in [DOMAIN clients' -> ConnectedClient]
  BY <1>1, <1>2, ClientsOK
<1>4. UserMngOK(new) /\ SameAccounts(users, new)
  BY <1>1, SessionCallOK
<1>5. \A g : Listed(new, doing, g) = Listed(users, doing, g)
  <2>1. CASE ~ok
    BY <2>1, ConnectIs
  <2>2. CASE ok
    <3>1. /\ name \in DOMAIN users /\ ~users[name].active
          /\ new = WithUser(users, name, UserStruct(pass, TRUE, {}))
      BY <2>2, ConnectIs
    <3>2. users[name].groups = {}
      BY <1>1, <3>1 DEF UserMngOK, ListsNeedSession
    <3>3. \A g : name \notin Listed(users, doing, g)
      BY <3>2 DEF Listed
    <3> DEFINE user == UserStruct(pass, TRUE, {})
    <3>4. user.groups = {}
      BY DEF UserStruct
    <3> HIDE DEF user
    <3>5. \A g : Listed(WithUser(users, name, user), doing, g) =
                    Listed(users, doing, g) \ {name}
      BY <1>1, <3>1, <3>4, WithUserListed
    <3> QED
      BY <3>1, <3>3, <3>5 DEF user
  <2> QED
    BY <2>1, <2>2
<1> HIDE DEF new
<1>6. SeatsMatch(groupMng, new, doing)
  BY <1>1, <1>5, SameSeatsMatch
<1>7. FileAgrees(savedUsers, new, UserName)
  BY <1>1, <1>4, SameFileAgrees DEF SameAccounts
<1>8. IsFiniteSet(DOMAIN new)
  BY <1>1, <1>4 DEF SameAccounts
<1> QED
  BY <1>2, <1>3, <1>4, <1>6, <1>7, <1>8, SentOne DEF ServerAppInv, LoopOK

(* A logout begins with all the groups of its user to be left.             *)
LEMMA LogoutUserInv ==
    ASSUME ServerAppInv, NEW fd \in ClientID, LogoutUser(fd)
    PROVE  ServerAppInv'
<1> DEFINE n == NameOf(fd)
<1>1. doing = Idle /\ UNCHANGED managerVars /\ clients' = clients
  BY DEF LogoutUser, Serving
<1>2. /\ DOMAIN clients \in SUBSET ClientID
      /\ clients \in [DOMAIN clients -> ConnectedClient]
  BY DEF ServerAppInv
<1>3. \A g \in GroupName : ~Exempt(doing, g)
  BY <1>1 DEF Exempt, Idle
<1>4. CASE n \in DOMAIN users
  <2>1. doing' = LoggingOut(n, users[n].groups) /\ sent' = << >>
    BY <1>4 DEF LogoutUser
  <2> HIDE DEF n
  <2>2. doing'.loop = "logout" /\ doing'.name = n /\ doing'.todo = users[n].groups
    BY <2>1 DEF LoggingOut
  <2>3. LoopOK(users, doing')
    BY <1>4, <2>2 DEF LoopOK
  <2>4. \A g \in GroupName : Listed(users, doing', g) = Listed(users, doing, g)
    BY <1>1, <2>2 DEF Listed, Idle
  <2> QED
    BY <1>1, <1>2, <1>3, <2>1, <2>3, <2>4, ManagersAloneInv, SentNone
<1>5. CASE n \notin DOMAIN users
  <2>1. doing' = Idle /\ sent' = Resp("LOGOUT_REC", "GEN_ERROR")
    BY <1>5 DEF LogoutUser
  <2> QED
    BY <1>1, <1>2, <2>1, ManagersAloneInv, SentOne DEF LoopOK
<1> QED
  BY <1>4, <1>5

-----------------------------------------------------------------------------
(* The loops *)

(* Each turn of a logout gives up one seat, and the user is out of one     *)
(* list: the group is open, since the user that is leaving is listed.      *)
LEMMA LeaveNextGroupInv ==
    ASSUME ServerAppInv, LeaveNextGroup
    PROVE  ServerAppInv' /\ sent' = << >>
<1> DEFINE n == doing.name
<1>1. /\ GroupMngOK(groupMng) /\ UserMngOK(users) /\ IsFiniteSet(DOMAIN users)
      /\ LoopOK(users, doing) /\ SeatsMatch(groupMng, users, doing)
  BY DEF ServerAppInv
<1>2. doing.loop = "logout"
  BY DEF LeaveNextGroup
<1>3. n \in DOMAIN users /\ doing.todo \subseteq users[n].groups
  BY <1>1, <1>2 DEF LoopOK, Idle
<1>4. PICK g \in doing.todo :
            groupMng' = GroupMngLeave(groupMng, g) /\ AfterLeaving(g)
  BY DEF LeaveNextGroup
<1>5. users' = users /\ savedUsers' = savedUsers /\ clients' = clients
  BY DEF LeaveNextGroup
<1>6. g \in GroupName
  BY <1>1, <1>3, UserFields DEF UserMngOK
<1>7. n \in Listed(users, doing, g)
  BY <1>3 DEF Listed
<1>8. \A h \in GroupName : ~Exempt(doing, h)
  BY <1>2 DEF Exempt
<1>9. IsOpen(groupMng, g)
  BY <1>1, <1>6, <1>7, <1>8, OpenIsListed
<1>10. doing' = LoggingOut(n, doing.todo \ {g}) /\ sent' = << >>
  BY <1>4, <1>9 DEF AfterLeaving
<1>11. doing'.loop = "logout" /\ doing'.name = n /\ doing'.todo = doing.todo \ {g}
  BY <1>10 DEF LoggingOut
<1>12. LoopOK(users, doing')
  BY <1>3, <1>11 DEF LoopOK
<1>13. /\ Listed(users, doing', g) = Listed(users, doing, g) \ {n}
       /\ \A h \in GroupName \ {g} : Listed(users, doing', h) = Listed(users, doing, h)
  BY <1>2, <1>11 DEF Listed
<1>14. /\ GroupMngOK(groupMng')
       /\ Seats(groupMng', g) = Seats(groupMng, g) - 1
       /\ SameSeatsBut(groupMng, groupMng', g)
  BY <1>1, <1>4, <1>9, LeaveOK, LeaveSeats
<1> HIDE DEF n
<1>15. SeatsMatch(groupMng', users, doing')
  BY <1>1, <1>6, <1>7, <1>8, <1>13, <1>14, OneLessMatches
<1> QED
  BY <1>5, <1>10, <1>12, <1>14, <1>15, SentNone DEF ServerAppInv

(* At the end of the loop the list, by now of nobody's seats, goes with    *)
(* the session.                                                            *)
LEMMA FinishLogoutInv ==
    ASSUME ServerAppInv, FinishLogout
    PROVE  ServerAppInv'
<1> DEFINE n    == doing.name
           user == UserStruct(users[n].pass, FALSE, {})
           new  == WithUser(users, n, user)
<1>1. /\ UserMngOK(users) /\ IsFiniteSet(DOMAIN users)
      /\ FileAgrees(savedUsers, users, UserName)
      /\ LoopOK(users, doing) /\ SeatsMatch(groupMng, users, doing)
  BY DEF ServerAppInv
<1>2. /\ doing.loop = "logout" /\ doing.todo = {}
      /\ users' = UserMngDisconnect(users, n) /\ doing' = Idle
      /\ sent' = Resp("LOGOUT_REC", "USER_DISCONNECTED")
      /\ groupMng' = groupMng /\ savedUsers' = savedUsers /\ clients' = clients
  BY DEF FinishLogout
<1>3. n \in DOMAIN users
  BY <1>1, <1>2 DEF LoopOK, Idle
<1>4. users' = new
  BY <1>2, <1>3, DisconnectIs
<1>5. UserMngOK(users') /\ SameAccounts(users, users')
  BY <1>1, <1>2, SessionCallOK
<1>6. user.groups = {}
  BY DEF UserStruct
<1> HIDE DEF n, user
<1>7. \A g : Listed(new, Idle, g) = Listed(users, Idle, g) \ {n}
  BY <1>1, <1>3, <1>6, WithUserListed
<1> HIDE DEF new
<1>8. \A g : Listed(users, doing, g) = Listed(users, Idle, g) \ {n}
  BY <1>2 DEF Listed, Idle, n
<1>9. \A g \in GroupName : ~Exempt(doing, g)
  BY <1>2 DEF Exempt
<1>10. SeatsMatch(groupMng', users', doing')
  <2>1. \A g \in GroupName : Listed(users', doing', g) = Listed(users, doing, g)
    BY <1>2, <1>4, <1>7, <1>8
  <2>2. \A g \in GroupName : Exempt(doing, g) => Exempt(doing', g)
    BY <1>9
  <2>3. \A g \in GroupName : Seats(groupMng', g) = Seats(groupMng, g)
    BY <1>2
  <2> QED
    BY <1>1, <2>1, <2>2, <2>3, SameSeatsMatch
<1>11. FileAgrees(savedUsers, users', UserName)
  BY <1>1, <1>5, SameFileAgrees DEF SameAccounts
<1>12. IsFiniteSet(DOMAIN users')
  BY <1>1, <1>5 DEF SameAccounts
<1> QED
  BY <1>2, <1>5, <1>10, <1>11, <1>12, SentOne DEF ServerAppInv, LoopOK

(* The loop of a connection that closes touches no group but its own.      *)
LEMMA LeaveSameGroupInv ==
    ASSUME ServerAppInv, LeaveSameGroup
    PROVE  ServerAppInv' /\ sent' = << >>
<1>1. /\ GroupMngOK(groupMng) /\ SeatsMatch(groupMng, users, doing)
  BY DEF ServerAppInv
<1>2. PICK g \in doing.todo : groupMng' = GroupMngLeave(groupMng, g)
  BY DEF LeaveSameGroup
<1>3. /\ doing.loop = "close" /\ doing' = doing /\ sent' = << >>
      /\ users' = users /\ savedUsers' = savedUsers /\ clients' = clients
  BY DEF LeaveSameGroup
<1>4. SameSeatsBut(groupMng, groupMng', g)
  <2>1. CASE IsOpen(groupMng, g)
    BY <1>1, <1>2, <2>1, LeaveSeats
  <2>2. CASE ~IsOpen(groupMng, g)
    BY <1>2, <2>2 DEF GroupMngLeave, SameSeatsBut
  <2> QED
    BY <2>1, <2>2
<1>5. Exempt(doing, g)
  BY <1>2, <1>3 DEF Exempt
<1>6. SeatsMatch(groupMng', users, doing)
  BY <1>1, <1>4, <1>5 DEF SeatsMatch, SameSeatsBut
<1>7. GroupMngOK(groupMng')
  BY <1>1, <1>2, LeaveOK
<1> QED
  BY <1>3, <1>6, <1>7, SentNone DEF ServerAppInv

-----------------------------------------------------------------------------
(* Groups *)

(* A user told of a group is in its list, and in no other it was not in.   *)
LEMMA JoinedListed ==
    ASSUME NEW us, UserMngOK(us), NEW n, NEW g, NEW loop, loop.loop # "logout",
           UserMngGroupJoinedErr(us, n, g) = "USER_MNG_SUCCESS"
    PROVE  /\ n \in DOMAIN us /\ n \notin Listed(us, loop, g)
           /\ Listed(UserMngGroupJoined(us, n, g), loop, g) =
                Listed(us, loop, g) \union {n}
           /\ \A h : h # g => Listed(UserMngGroupJoined(us, n, g), loop, h) =
                                Listed(us, loop, h)
<1> DEFINE user == UserStruct(us[n].pass, TRUE, us[n].groups \union {g})
           new  == WithUser(us, n, user)
<1>1. /\ n \in DOMAIN us /\ g \notin us[n].groups
      /\ UserMngGroupJoined(us, n, g) = new
  BY GroupJoinedIs
<1>2. user.groups = us[n].groups \union {g}
  BY DEF UserStruct
<1> HIDE DEF user
<1>3. \A h : Listed(new, loop, h) = IF h \in user.groups
                                    THEN Listed(us, loop, h) \union {n}
                                    ELSE Listed(us, loop, h) \ {n}
  BY <1>1, WithUserListed
<1> HIDE DEF new
<1>4. \A h : n \in Listed(us, loop, h) <=> h \in us[n].groups
  BY <1>1 DEF Listed
<1>5. Listed(new, loop, g) = Listed(us, loop, g) \union {n}
  BY <1>2, <1>3
<1>6. ASSUME NEW h, h # g
      PROVE  Listed(new, loop, h) = Listed(us, loop, h)
  <2>1. h \in user.groups <=> n \in Listed(us, loop, h)
    BY <1>2, <1>4, <1>6
  <2> QED
    BY <1>3, <2>1
<1> QED
  BY <1>1, <1>4, <1>5, <1>6

(* A user that left a group is in its list no more.                        *)
LEMMA LeftListed ==
    ASSUME NEW us, UserMngOK(us), NEW n, NEW g, NEW loop, loop.loop # "logout",
           UserMngGroupLeftErr(us, n, g) = "USER_MNG_SUCCESS"
    PROVE  /\ n \in DOMAIN us /\ n \in Listed(us, loop, g)
           /\ Listed(UserMngGroupLeft(us, n, g), loop, g) =
                Listed(us, loop, g) \ {n}
           /\ \A h : h # g => Listed(UserMngGroupLeft(us, n, g), loop, h) =
                                Listed(us, loop, h)
<1> DEFINE user == UserStruct(us[n].pass, us[n].active, us[n].groups \ {g})
           new  == WithUser(us, n, user)
<1>1. /\ n \in DOMAIN us /\ g \in us[n].groups
      /\ UserMngGroupLeft(us, n, g) = new
  BY GroupLeftIs
<1>2. user.groups = us[n].groups \ {g}
  BY DEF UserStruct
<1> HIDE DEF user
<1>3. \A h : Listed(new, loop, h) = IF h \in user.groups
                                    THEN Listed(us, loop, h) \union {n}
                                    ELSE Listed(us, loop, h) \ {n}
  BY <1>1, WithUserListed
<1> HIDE DEF new
<1>4. \A h : n \in Listed(us, loop, h) <=> h \in us[n].groups
  BY <1>1 DEF Listed
<1> QED
  BY <1>1, <1>2, <1>3, <1>4

(* A request about a group: what is left to show when the seats and the    *)
(* lists are known to agree again.                                         *)
LEMMA GroupRequestInv ==
    ASSUME ServerAppInv, NEW name, NEW g \in GroupName,
           \/ users' = UserMngGroupJoined(users, name, g)
           \/ users' = UserMngGroupLeft(users, name, g)
           \/ users' = users,
           GroupMngOK(groupMng'), SeatsMatch(groupMng', users', doing),
           doing = Idle, UNCHANGED <<savedUsers, clients, doing>>,
           DOMAIN sent' \in {{}, {1}, {1, 2}}
    PROVE  ServerAppInv'
<1>1. /\ UserMngOK(users) /\ IsFiniteSet(DOMAIN users)
      /\ FileAgrees(savedUsers, users, UserName)
  BY DEF ServerAppInv
<1>2. UserMngOK(users') /\ SameAccounts(users, users')
  <2>1. CASE users' = users
    BY <1>1, <2>1 DEF SameAccounts
  <2>2. CASE users' = UserMngGroupJoined(users, name, g)
    BY <1>1, <2>2, SessionCallOK
  <2>3. CASE users' = UserMngGroupLeft(users, name, g)
    BY <1>1, <2>3, SessionCallOK
  <2> QED
    BY <2>1, <2>2, <2>3
<1>3. FileAgrees(savedUsers, users', UserName)
  BY <1>1, <1>2, SameFileAgrees DEF SameAccounts
<1>4. IsFiniteSet(DOMAIN users')
  BY <1>1, <1>2 DEF SameAccounts
<1> QED
  BY <1>2, <1>3, <1>4 DEF ServerAppInv, LoopOK

(* A group is opened with one seat for its one member, or not at all.      *)
LEMMA CreateGroupInv ==
    ASSUME ServerAppInv, NEW fd \in ClientID, NEW g \in GroupName, CreateGroup(fd, g)
    PROVE  ServerAppInv'
<1> DEFINE n      == NameOf(fd)
           opened == GroupMngAdd(groupMng, g)
           new    == UserMngGroupJoined(users, n, g)
           ok     == UserMngGroupJoinedErr(users, n, g) = "USER_MNG_SUCCESS"
           free   == GroupMngAddErr(groupMng, g) = "GROUP_MNG_SUCCESS"
<1>1. /\ GroupMngOK(groupMng) /\ UserMngOK(users) /\ IsFiniteSet(DOMAIN users)
      /\ SeatsMatch(groupMng, users, doing)
  BY DEF ServerAppInv
<1>2. /\ doing = Idle /\ UNCHANGED <<savedUsers, clients, doing>>
      /\ doing.loop # "logout" /\ \A h \in GroupName : ~Exempt(doing, h)
  BY DEF CreateGroup, Serving, Idle, Exempt
<1>3. /\ DOMAIN sent' \in {{}, {1}, {1, 2}}
      /\ ~free => groupMng' = opened /\ users' = users
      /\ free => users' = new
      /\ free /\ ok => groupMng' = opened
      /\ free /\ ~ok => groupMng' = Rollback(opened, g)
  BY SentOne DEF CreateGroup
<1>4. GroupMngOK(opened)
  BY <1>1, AddOK
<1>5. /\ free => /\ ~IsOpen(groupMng, g) /\ IsOpen(opened, g)
                 /\ Seats(opened, g) = 1 /\ SameSeatsBut(groupMng, opened, g)
      /\ ~free => \A h : Seats(opened, h) = Seats(groupMng, h)
  BY <1>1, AddSeats
<1>6. ~IsOpen(groupMng, g) => Seats(groupMng, g) = 0
  BY DEF Seats
<1>7. ~ok => new = users
  BY GroupJoinedIs
<1> HIDE DEF opened, free
<1>8. CASE ~free
  <2>1. SeatsMatch(groupMng', users', doing)
    BY <1>1, <1>3, <1>5, <1>8, SameSeatsMatch
  <2> QED
    BY <1>2, <1>3, <1>4, <1>8, <2>1, GroupRequestInv
<1>9. CASE free /\ ~ok
  <2>1. /\ GroupMngOK(groupMng')
        /\ Seats(groupMng', g) = Seats(opened, g) - 1
        /\ SameSeatsBut(opened, groupMng', g)
    BY <1>3, <1>4, <1>5, <1>9, RollbackSeats
  <2>2. \A h \in GroupName : Seats(groupMng', h) = Seats(groupMng, h)
    BY <1>5, <1>6, <1>9, <2>1 DEF SameSeatsBut
  <2>3. users' = users
    BY <1>3, <1>7, <1>9
  <2>4. SeatsMatch(groupMng', users', doing)
    BY <1>1, <2>2, <2>3, SameSeatsMatch
  <2> QED
    BY <1>2, <1>3, <2>1, <2>3, <2>4, GroupRequestInv
<1>10. CASE free /\ ok
  <2> HIDE DEF n
  <2>1. /\ n \in DOMAIN users /\ n \notin Listed(users, doing, g)
        /\ Listed(new, doing, g) = Listed(users, doing, g) \union {n}
        /\ \A h : h # g => Listed(new, doing, h) = Listed(users, doing, h)
    <3>1. UserMngOK(users) /\ doing.loop # "logout"
      BY <1>1, <1>2
    <3>2. UserMngGroupJoinedErr(users, n, g) = "USER_MNG_SUCCESS"
      BY <1>10
    <3> HIDE DEF ok
    <3> QED
      BY <3>1, <3>2, JoinedListed
  <2> HIDE DEF new, ok
  <2>2. Seats(opened, g) = Seats(groupMng, g) + 1
    BY <1>5, <1>6, <1>10
  <2>3. SeatsMatch(opened, new, doing)
    BY <1>1, <1>2, <1>5, <1>10, <2>1, <2>2, OneMoreMatches
  <2> QED
    BY <1>2, <1>3, <1>4, <1>10, <2>3, GroupRequestInv DEF new
<1> QED
  BY <1>8, <1>9, <1>10

(* A seat is taken for a user that is told, or given back.                 *)
LEMMA JoinGroupInv ==
    ASSUME ServerAppInv, NEW fd \in ClientID, NEW g \in GroupName, JoinGroup(fd, g)
    PROVE  ServerAppInv'
<1> DEFINE n      == NameOf(fd)
           joined == GroupMngJoin(groupMng, g)
           new    == UserMngGroupJoined(users, n, g)
           ok     == UserMngGroupJoinedErr(users, n, g) = "USER_MNG_SUCCESS"
           goes   == ~UserMngIsUserInGrp(users, n, g) /\ IsOpen(groupMng, g)
<1>1. /\ GroupMngOK(groupMng) /\ UserMngOK(users) /\ IsFiniteSet(DOMAIN users)
      /\ SeatsMatch(groupMng, users, doing)
  BY DEF ServerAppInv
<1>2. /\ doing = Idle /\ UNCHANGED <<savedUsers, clients, doing>>
      /\ doing.loop # "logout" /\ \A h \in GroupName : ~Exempt(doing, h)
  BY DEF JoinGroup, Serving, Idle, Exempt
<1>3. /\ DOMAIN sent' \in {{}, {1}, {1, 2}}
      /\ ~goes => groupMng' = groupMng /\ users' = users
      /\ goes => users' = new
      /\ goes /\ ok => groupMng' = joined
      /\ goes /\ ~ok => groupMng' = Rollback(joined, g)
  BY SentOne DEF JoinGroup
<1>4. GroupMngOK(joined)
  BY <1>1, JoinOK
<1>5. goes => /\ Seats(joined, g) = Seats(groupMng, g) + 1
              /\ SameSeatsBut(groupMng, joined, g)
              /\ IsOpen(joined, g)
  BY <1>1, JoinSeats, WithUsersSeats DEF GroupMngJoin, GroupConnect, GroupMngOK
<1>6. Seats(groupMng, g) \in Nat
  BY <1>1, OpenHasSeats
<1>7. ~ok => new = users
  BY GroupJoinedIs
<1> HIDE DEF joined, goes
<1>8. CASE ~goes
  BY <1>1, <1>2, <1>3, <1>8, GroupRequestInv
<1>9. CASE goes /\ ~ok
  <2>1. /\ GroupMngOK(groupMng')
        /\ Seats(groupMng', g) = Seats(joined, g) - 1
        /\ SameSeatsBut(joined, groupMng', g)
    BY <1>3, <1>4, <1>5, <1>9, RollbackSeats
  <2>2. \A h \in GroupName : Seats(groupMng', h) = Seats(groupMng, h)
    BY <1>5, <1>6, <1>9, <2>1 DEF SameSeatsBut
  <2>3. users' = users
    BY <1>3, <1>7, <1>9
  <2>4. SeatsMatch(groupMng', users', doing)
    BY <1>1, <2>2, <2>3, SameSeatsMatch
  <2> QED
    BY <1>2, <1>3, <2>1, <2>3, <2>4, GroupRequestInv
<1>10. CASE goes /\ ok
  <2> HIDE DEF n
  <2>1. /\ n \in DOMAIN users /\ n \notin Listed(users, doing, g)
        /\ Listed(new, doing, g) = Listed(users, doing, g) \union {n}
        /\ \A h : h # g => Listed(new, doing, h) = Listed(users, doing, h)
    <3>1. UserMngOK(users) /\ doing.loop # "logout"
      BY <1>1, <1>2
    <3>2. UserMngGroupJoinedErr(users, n, g) = "USER_MNG_SUCCESS"
      BY <1>10
    <3> HIDE DEF ok
    <3> QED
      BY <3>1, <3>2, JoinedListed
  <2> HIDE DEF new, ok
  <2>2. SeatsMatch(joined, new, doing)
    BY <1>1, <1>2, <1>5, <1>10, <2>1, OneMoreMatches
  <2> QED
    BY <1>2, <1>3, <1>4, <1>10, <2>2, GroupRequestInv DEF new
<1> QED
  BY <1>8, <1>9, <1>10

(* A user that leaves is in the list, so the group is open to be left.     *)
LEMMA LeaveGroupInv ==
    ASSUME ServerAppInv, NEW fd \in ClientID, NEW g \in GroupName, LeaveGroup(fd, g)
    PROVE  ServerAppInv'
<1> DEFINE n   == NameOf(fd)
           new == UserMngGroupLeft(users, n, g)
           ok  == UserMngGroupLeftErr(users, n, g) = "USER_MNG_SUCCESS"
<1>1. /\ GroupMngOK(groupMng) /\ UserMngOK(users) /\ IsFiniteSet(DOMAIN users)
      /\ SeatsMatch(groupMng, users, doing)
  BY DEF ServerAppInv
<1>2. /\ doing = Idle /\ UNCHANGED <<savedUsers, clients, doing>>
      /\ doing.loop # "logout" /\ \A h \in GroupName : ~Exempt(doing, h)
  BY DEF LeaveGroup, Serving, Idle, Exempt
<1>3. /\ DOMAIN sent' \in {{}, {1}, {1, 2}}
      /\ users' = new
      /\ ok => groupMng' = GroupMngLeave(groupMng, g)
      /\ ~ok => groupMng' = groupMng
  BY SentOne DEF LeaveGroup
<1>4. CASE ~ok
  <2>1. new = users
    BY <1>4, GroupLeftIs
  <2> QED
    BY <1>1, <1>2, <1>3, <1>4, <2>1, GroupRequestInv
<1>5. CASE ok
  <2> HIDE DEF n
  <2>1. /\ n \in DOMAIN users /\ n \in Listed(users, doing, g)
        /\ Listed(new, doing, g) = Listed(users, doing, g) \ {n}
        /\ \A h : h # g => Listed(new, doing, h) = Listed(users, doing, h)
    <3>1. UserMngOK(users) /\ doing.loop # "logout"
      BY <1>1, <1>2
    <3>2. UserMngGroupLeftErr(users, n, g) = "USER_MNG_SUCCESS"
      BY <1>5
    <3> HIDE DEF ok
    <3> QED
      BY <3>1, <3>2, LeftListed
  <2> HIDE DEF new, ok
  <2>2. IsOpen(groupMng, g)
    BY <1>1, <1>2, <2>1, OpenIsListed
  <2>3. /\ GroupMngOK(groupMng')
        /\ Seats(groupMng', g) = Seats(groupMng, g) - 1
        /\ SameSeatsBut(groupMng, groupMng', g)
    BY <1>1, <1>3, <1>5, <2>2, LeaveOK, LeaveSeats
  <2>4. SeatsMatch(groupMng', new, doing)
    BY <1>1, <1>2, <2>1, <2>3, OneLessMatches
  <2> QED
    BY <1>2, <1>3, <2>3, <2>4, GroupRequestInv DEF new
<1> QED
  BY <1>4, <1>5

(* Requests that change nothing.                                           *)
LEMMA LookupInv ==
    ASSUME ServerAppInv, NEW fd \in ClientID, SendGroupList(fd) \/ UnknownMessage(fd)
    PROVE  ServerAppInv'
<1>1. UNCHANGED managerVars /\ clients' = clients /\ doing' = doing
  BY DEF SendGroupList, UnknownMessage
<1>2. DOMAIN sent' \in {{}, {1}, {1, 2}}
  BY DEF SendGroupList, UnknownMessage, Resp
<1> QED
  BY <1>1, <1>2, ManagersAloneInv DEF ServerAppInv

-----------------------------------------------------------------------------
(* Every step keeps the invariant *)

(* One step of Next after the other.                                       *)
LEMMA ServerAppStepInv ==
    ServerAppInv /\ [ServerAppNext]_appVars => ServerAppInv'
<1> SUFFICES ASSUME ServerAppInv, [ServerAppNext]_appVars
             PROVE  ServerAppInv'
  OBVIOUS
<1>1. ASSUME NEW fd \in ClientID,
             \/ NewClient(fd) \/ RejectClient(fd)
             \/ CloseClient(fd) \/ CloseClientInGroups(fd)
      PROVE  ServerAppInv'
  BY <1>1, ConnectionInv
<1>2. ASSUME NEW fd \in ClientID, GotMessage(fd)
      PROVE  ServerAppInv'
  <2>1. ASSUME NEW name \in UserName, NEW pass \in Password,
               RegisterUser(fd, name, pass)
        PROVE  ServerAppInv'
    BY <2>1, RegisterUserInv
  <2>2. ASSUME NEW name \in UserName, NEW pass \in Password,
               LoginUser(fd, name, pass)
        PROVE  ServerAppInv'
    BY <2>2, LoginUserInv
  <2>3. CASE LogoutUser(fd)
    BY <2>3, LogoutUserInv
  <2>4. ASSUME NEW g \in GroupName, CreateGroup(fd, g)
        PROVE  ServerAppInv'
    BY <2>4, CreateGroupInv
  <2>5. ASSUME NEW g \in GroupName, JoinGroup(fd, g)
        PROVE  ServerAppInv'
    BY <2>5, JoinGroupInv
  <2>6. ASSUME NEW g \in GroupName, LeaveGroup(fd, g)
        PROVE  ServerAppInv'
    BY <2>6, LeaveGroupInv
  <2>7. CASE SendGroupList(fd) \/ UnknownMessage(fd)
    BY <2>7, LookupInv
  <2> QED
    BY <1>2, <2>1, <2>2, <2>3, <2>4, <2>5, <2>6, <2>7 DEF GotMessage
<1>3. CASE Turn
  BY <1>3, LeaveNextGroupInv, FinishLogoutInv, LeaveSameGroupInv DEF Turn
<1>4. CASE Restart
  BY <1>4, RestartKeepsInv
<1>5. CASE UNCHANGED appVars
  BY <1>5 DEF appVars, ServerAppInv
<1> QED
  BY <1>1, <1>2, <1>3, <1>4, <1>5 DEF ServerAppNext

(* The inductive invariant of the server application.                      *)
THEOREM ServerAppAlwaysInv == ServerAppSpec => []ServerAppInv
<1> QED
  BY ServerAppInitInv, ServerAppStepInv, PTL DEF ServerAppSpec

(* The managers stay well formed, the map of clients has descriptors for   *)
(* keys, and the loops are over groups of a user there is.                 *)
THEOREM ServerAppTypeCorrect == ServerAppSpec => []ServerAppTypeOK
<1>1. ServerAppInv => ServerAppTypeOK
  BY DEF ServerAppInv, ServerAppTypeOK, GroupMngOK, UserMngOK, FileOK, LoopOK
<1> QED
  BY <1>1, ServerAppAlwaysInv, PTL

(* The two managers agree about every group, but for the one a closing     *)
(* connection leaves for ever: its seats are the users that list it.       *)
THEOREM ManagersAlwaysAgree == ServerAppSpec => []SeatsMatchLists
<1>1. ServerAppInv => SeatsMatchLists
  BY SeatsMatchIs DEF ServerAppInv
<1> QED
  BY <1>1, ServerAppAlwaysInv, PTL

-----------------------------------------------------------------------------
(* The relation ChatMembership speaks of, for a user manager that is not   *)
(* the current one.                                                        *)
AccountsOf(us) == [n \in DOMAIN us |-> us[n].pass]
OnlineOf(us) == {n \in DOMAIN us : us[n].active}
MembersOf(us) == {m \in (DOMAIN us) \X GroupName : m[2] \in us[m[1]].groups}

(* What Members says of two names.                                         *)
LEMMA RelationOf ==
    /\ Accounts = AccountsOf(users)
    /\ Online = OnlineOf(users)
    /\ Members = MembersOf(users)
BY DEF Accounts, Online, Members, AccountsOf, OnlineOf, MembersOf

(* Who is a member, pair by pair.                                          *)
LEMMA MembersAre ==
    ASSUME NEW us
    PROVE  /\ \A n, g : <<n, g>> \in MembersOf(us) <=>
                /\ n \in DOMAIN us /\ g \in GroupName /\ g \in us[n].groups
           /\ \A m \in MembersOf(us) : m = <<m[1], m[2]>>
BY DEF MembersOf

(* A user that goes on or off line, and loses the list or has none.        *)
LEMMA SessionRelation ==
    ASSUME NEW us, UserMngOK(us), NEW n \in DOMAIN us, NEW active \in BOOLEAN
    PROVE  LET new == WithUser(us, n, UserStruct(us[n].pass, active, {}))
           IN  /\ AccountsOf(new) = AccountsOf(us)
               /\ OnlineOf(new) = IF active THEN OnlineOf(us) \union {n}
                                            ELSE OnlineOf(us) \ {n}
               /\ MembersOf(new) = {m \in MembersOf(us) : m[1] # n}
<1> DEFINE user == UserStruct(us[n].pass, active, {})
           new  == WithUser(us, n, user)
<1>1. user.pass = us[n].pass /\ user.active = active /\ user.groups = {}
  BY DEF UserStruct
<1> HIDE DEF user
<1>2. /\ DOMAIN new = DOMAIN us
      /\ new[n] = user
      /\ \A k \in DOMAIN us : k # n => new[k] = us[k]
  BY WithUserIs DEF UserMngOK
<1> HIDE DEF new
<1>3. AccountsOf(new) = AccountsOf(us)
  BY <1>1, <1>2 DEF AccountsOf
<1>4. OnlineOf(new) = IF active THEN OnlineOf(us) \union {n} ELSE OnlineOf(us) \ {n}
  BY <1>1, <1>2 DEF OnlineOf
<1>5. MembersOf(new) = {m \in MembersOf(us) : m[1] # n}
  BY <1>1, <1>2 DEF MembersOf
<1> QED
  BY <1>3, <1>4, <1>5 DEF new, user

(* A user that is told of one group more.                                  *)
LEMMA JoinedRelation ==
    ASSUME NEW us, UserMngOK(us), NEW n, NEW g \in GroupName,
           UserMngGroupJoinedErr(us, n, g) = "USER_MNG_SUCCESS"
    PROVE  LET new == UserMngGroupJoined(us, n, g)
           IN  /\ n \in OnlineOf(us) /\ <<n, g>> \notin MembersOf(us)
               /\ AccountsOf(new) = AccountsOf(us)
               /\ OnlineOf(new) = OnlineOf(us)
               /\ MembersOf(new) = MembersOf(us) \union {<<n, g>>}
<1> DEFINE user == UserStruct(us[n].pass, TRUE, us[n].groups \union {g})
           new  == WithUser(us, n, user)
<1>1. /\ n \in DOMAIN us /\ us[n].active /\ g \notin us[n].groups
      /\ UserMngGroupJoined(us, n, g) = new
  BY GroupJoinedIs
<1>2. /\ user.pass = us[n].pass /\ user.active = TRUE
      /\ user.groups = us[n].groups \union {g}
  BY DEF UserStruct
<1> HIDE DEF user
<1>3. /\ DOMAIN new = DOMAIN us
      /\ new[n] = user
      /\ \A k \in DOMAIN us : k # n => new[k] = us[k]
  BY <1>1, WithUserIs DEF UserMngOK
<1> HIDE DEF new
<1>4. AccountsOf(new) = AccountsOf(us)
  BY <1>2, <1>3 DEF AccountsOf
<1>5. OnlineOf(new) = OnlineOf(us) /\ n \in OnlineOf(us)
  BY <1>1, <1>2, <1>3 DEF OnlineOf
<1>6. MembersOf(new) = MembersOf(us) \union {<<n, g>>}
  BY <1>1, <1>2, <1>3 DEF MembersOf
<1>7. <<n, g>> \notin MembersOf(us)
  BY <1>1, MembersAre
<1> QED
  BY <1>1, <1>4, <1>5, <1>6, <1>7

(* A user that leaves one group.                                           *)
LEMMA LeftRelation ==
    ASSUME NEW us, UserMngOK(us), NEW n, NEW g \in GroupName,
           UserMngGroupLeftErr(us, n, g) = "USER_MNG_SUCCESS"
    PROVE  LET new == UserMngGroupLeft(us, n, g)
           IN  /\ <<n, g>> \in MembersOf(us)
               /\ AccountsOf(new) = AccountsOf(us)
               /\ OnlineOf(new) = OnlineOf(us)
               /\ MembersOf(new) = MembersOf(us) \ {<<n, g>>}
<1> DEFINE user == UserStruct(us[n].pass, us[n].active, us[n].groups \ {g})
           new  == WithUser(us, n, user)
<1>1. /\ n \in DOMAIN us /\ g \in us[n].groups
      /\ UserMngGroupLeft(us, n, g) = new
  BY GroupLeftIs
<1>2. /\ user.pass = us[n].pass /\ user.active = us[n].active
      /\ user.groups = us[n].groups \ {g}
  BY DEF UserStruct
<1> HIDE DEF user
<1>3. /\ DOMAIN new = DOMAIN us
      /\ new[n] = user
      /\ \A k \in DOMAIN us : k # n => new[k] = us[k]
  BY <1>1, WithUserIs DEF UserMngOK
<1> HIDE DEF new
<1>4. AccountsOf(new) = AccountsOf(us)
  BY <1>2, <1>3 DEF AccountsOf
<1>5. OnlineOf(new) = OnlineOf(us)
  BY <1>1, <1>2, <1>3 DEF OnlineOf
<1>6. MembersOf(new) = MembersOf(us) \ {<<n, g>>}
  BY <1>1, <1>2, <1>3 DEF MembersOf
<1>7. <<n, g>> \in MembersOf(us)
  BY <1>1, MembersAre
<1> QED
  BY <1>1, <1>4, <1>5, <1>6, <1>7

(* Between requests a group is open exactly when it has a member, and the  *)
(* counter of the group manager counts the open groups.                    *)
LEMMA OpenedIs ==
    ASSUME ServerAppInv, doing = Idle
    PROVE  /\ Membership!Opened = DOMAIN groupMng.groups
           /\ Membership!Cardinality(Membership!Opened) = groupMng.num
<1>1. /\ GroupMngOK(groupMng) /\ IsFiniteSet(DOMAIN users)
      /\ SeatsMatch(groupMng, users, doing)
  BY DEF ServerAppInv
<1>2. DOMAIN groupMng.groups \subseteq GroupName
  BY <1>1, GroupMngAssumption DEF GroupMngOK, GroupMngType
<1>3. \A g \in GroupName : IsOpen(groupMng, g) <=> Listed(users, doing, g) # {}
  BY <1>1, OpenIsListed DEF Exempt, Idle
<1>4. \A g : Listed(users, doing, g) = {n \in DOMAIN users : g \in users[n].groups}
  BY DEF Listed, Idle
<1>5. Membership!Opened = {m[2] : m \in MembersOf(users)}
  BY RelationOf DEF Membership!Opened
<1>6. ASSUME NEW g \in Membership!Opened
      PROVE  g \in DOMAIN groupMng.groups
  <2>1. PICK m \in MembersOf(users) : g = m[2]
    BY <1>5
  <2>2. /\ m[1] \in DOMAIN users /\ g \in GroupName
        /\ g \in users[m[1]].groups
    BY <2>1 DEF MembersOf
  <2>3. Listed(users, doing, g) # {}
    BY <1>4, <2>2
  <2> QED
    BY <1>3, <2>2, <2>3 DEF IsOpen
<1>7. ASSUME NEW g \in DOMAIN groupMng.groups
      PROVE  g \in Membership!Opened
  <2>1. g \in GroupName /\ Listed(users, doing, g) # {}
    BY <1>2, <1>3 DEF IsOpen
  <2>2. PICK n \in DOMAIN users : g \in users[n].groups
    BY <1>4, <2>1
  <2>3. <<n, g>> \in MembersOf(users)
    BY <2>1, <2>2, MembersAre
  <2> QED
    BY <1>5, <2>3
<1>8. Membership!Opened = DOMAIN groupMng.groups
  BY <1>6, <1>7
<1>9. Membership!Cardinality(Membership!Opened) = Cardinality(Membership!Opened)
  BY DEF Membership!Cardinality, Cardinality
<1> QED
  BY <1>1, <1>8, <1>9 DEF GroupMngOK, CountsAgree

-----------------------------------------------------------------------------
(* The server application implements ChatMembership *)

(* The server starts with nobody in a group.                               *)
LEMMA MembershipInit == ServerAppInit => Membership!ChatInit
<1> SUFFICES ASSUME ServerAppInit
             PROVE  Membership!ChatInit
  OBVIOUS
<1>1. savedUsers = << >> /\ users = UserMngCreate(savedUsers) /\ sent = << >>
  BY DEF ServerAppInit, Booted
<1>2. Named(savedUsers) = {}
  BY <1>1 DEF Line, Named
<1>3. DOMAIN users = {}
  BY <1>1, <1>2, ReadUsersIs DEF UserMngCreate
<1> QED
  BY <1>1, <1>3 DEF Membership!ChatInit, Accounts, Online, Members

(* The relation stays as it is as long as the user manager does.           *)
LEMMA SameRelation ==
    ASSUME users' = users
    PROVE  /\ Accounts' = Accounts /\ Online' = Online /\ Members' = Members
BY DEF Accounts, Online, Members

(* A step that answers nothing and leaves the users alone.                 *)
LEMMA QuietStep ==
    ASSUME users' = users, sent' = << >>
    PROVE  Membership!Refused
BY SameRelation DEF Membership!Refused, Membership!Quiet

(* Whoever registers is in no group.                                       *)
LEMMA RegisterImplements ==
    ASSUME ServerAppInv, NEW fd \in ClientID, NEW name \in UserName,
           NEW pass \in Password, RegisterUser(fd, name, pass)
    PROVE  Membership!Register(name, pass) \/ Membership!Refused
<1> DEFINE err == UserMngAddErr(users, name, pass)
           new == UserAdd(users, name, pass)
<1>1. UserMngOK(users)
  BY DEF ServerAppInv
<1>2. users' = new /\ sent' = Resp("REG_REC", RegisterResp[err])
  BY DEF RegisterUser
<1>3. DOMAIN Accounts = DOMAIN users
  BY DEF Accounts
<1>4. CASE err = "USER_MNG_USER_ADDED"
  <2>1. /\ UserFits(name, pass) /\ name \notin DOMAIN users
        /\ new = HashMapInsert(users, name, UserCreate(pass))
    BY <1>4 DEF UserAdd, UserMngAddErr
  <2>2. UserCreate(pass) = UserStruct(pass, FALSE, {})
    BY DEF UserCreate
  <2>3. /\ DOMAIN users' = DOMAIN users \union {name}
        /\ users'[name].pass = pass /\ users'[name].active = FALSE
        /\ users'[name].groups = {}
        /\ \A n \in DOMAIN users : users'[n] = users[n]
    BY <1>2, <2>1, <2>2 DEF HashMapInsert, UserStruct
  <2>4. Accounts' = [n \in DOMAIN Accounts \union {name} |->
                        IF n = name THEN pass ELSE Accounts[n]]
    BY <2>1, <2>3 DEF Accounts
  <2>5. Online' = Online /\ Members' = Members
    BY <2>1, <2>3 DEF Online, Members
  <2>6. sent' = <<<<"REG_REC", "USER_CREATED">>>>
    BY <1>2, <1>4 DEF Resp, RegisterResp
  <2> QED
    BY <1>3, <2>1, <2>4, <2>5, <2>6 DEF Membership!Register, Membership!Answers
<1>5. CASE err # "USER_MNG_USER_ADDED"
  <2>1. users' = users
    BY <1>2, <1>5 DEF UserAdd
  <2>2. CASE ~UserFits(name, pass)
    <3>1. sent' = <<<<"REG_REC", "GEN_ERROR">>>>
      BY <1>2, <2>2 DEF Resp, RegisterResp, UserMngAddErr
    <3>2. Membership!RefuseRegister(name, pass)
      BY <2>2, <3>1 DEF Membership!RefuseRegister, Membership!Answers
    <3> QED
      BY <2>1, <3>2, SameRelation DEF Membership!Refused
  <2>3. CASE UserFits(name, pass)
    <3>1. name \in DOMAIN users /\ err = "USER_MNG_USER_EXISTS"
      BY <1>5, <2>3 DEF UserMngAddErr
    <3>2. sent' = <<<<"REG_REC", "USER_EXISTS">>>>
      BY <1>2, <3>1 DEF Resp, RegisterResp
    <3>3. Membership!RefuseRegister(name, pass)
      BY <1>3, <3>1, <3>2 DEF Membership!RefuseRegister, Membership!Answers
    <3> QED
      BY <2>1, <3>3, SameRelation DEF Membership!Refused
  <2> QED
    BY <2>2, <2>3
<1> QED
  BY <1>4, <1>5

(* Whoever logs in is in no group.                                         *)
LEMMA LoginImplements ==
    ASSUME ServerAppInv, NEW fd \in ClientID, NEW name \in UserName,
           NEW pass \in Password, LoginUser(fd, name, pass)
    PROVE  Membership!Login(name, pass) \/ Membership!Refused
<1> DEFINE err == UserMngConnectErr(users, name, pass)
           new == UserMngConnect(users, name, pass)
<1>1. UserMngOK(users)
  BY DEF ServerAppInv
<1>2. users' = new /\ sent' = Resp("LOGIN_REC", LoginResp[err])
  BY DEF LoginUser
<1>3. /\ DOMAIN Accounts = DOMAIN users
      /\ name \in DOMAIN users => Accounts[name] = users[name].pass
      /\ name \in Online <=> name \in DOMAIN users /\ users[name].active
  BY DEF Accounts, Online
<1>4. CASE err = "USER_MNG_SUCCESS"
  <2>1. /\ name \in DOMAIN users /\ users[name].pass = pass /\ ~users[name].active
        /\ new = WithUser(users, name, UserStruct(pass, TRUE, {}))
    BY <1>4, ConnectIs
  <2>2. /\ AccountsOf(users') = AccountsOf(users)
        /\ OnlineOf(users') = OnlineOf(users) \union {name}
        /\ MembersOf(users') = {m \in MembersOf(users) : m[1] # name}
    <3>1. LET w == WithUser(users, name, UserStruct(users[name].pass, TRUE, {}))
          IN  /\ AccountsOf(w) = AccountsOf(users)
              /\ OnlineOf(w) = IF TRUE THEN OnlineOf(users) \union {name}
                                       ELSE OnlineOf(users) \ {name}
              /\ MembersOf(w) = {m \in MembersOf(users) : m[1] # name}
      BY <1>1, <2>1, SessionRelation
    <3> QED
      BY <1>2, <2>1, <3>1
  <2>3. users[name].groups = {}
    BY <1>1, <2>1 DEF UserMngOK, ListsNeedSession
  <2>4. {m \in MembersOf(users) : m[1] # name} = MembersOf(users)
    BY <2>3, MembersAre DEF MembersOf
  <2>5. /\ Accounts' = Accounts /\ Online' = Online \union {name}
        /\ Members' = Members
    BY <2>2, <2>4 DEF Accounts, Online, Members, AccountsOf, OnlineOf, MembersOf
  <2>6. sent' = <<<<"LOGIN_REC", "USER_CONNECTED">>>>
    BY <1>2, <1>4 DEF Resp, LoginResp
  <2> QED
    BY <1>3, <2>1, <2>5, <2>6 DEF Membership!Login, Membership!Answers
<1>5. CASE err # "USER_MNG_SUCCESS"
  <2>1. users' = users
    BY <1>2, <1>5, ConnectIs
  <2>2. Membership!RefuseLogin(name, pass)
    <3>1. CASE name \notin DOMAIN users
      <4>1. sent' = <<<<"LOGIN_REC", "USER_NOT_FOUND">>>>
        BY <1>2, <3>1 DEF Resp, LoginResp, UserMngConnectErr
      <4> QED
        BY <1>3, <3>1, <4>1 DEF Membership!RefuseLogin, Membership!Answers
    <3>2. CASE name \in DOMAIN users /\ users[name].pass # pass
      <4>1. sent' = <<<<"LOGIN_REC", "PASS_INCORRECT">>>>
        BY <1>2, <3>2 DEF Resp, LoginResp, UserMngConnectErr
      <4> QED
        BY <1>3, <3>2, <4>1 DEF Membership!RefuseLogin, Membership!Answers
    <3>3. CASE name \in DOMAIN users /\ users[name].pass = pass
      <4>1. users[name].active /\ err = "USER_MNG_ALREADY_CONNECT"
        BY <1>5, <3>3 DEF UserMngConnectErr
      <4>2. sent' = <<<<"LOGIN_REC", "USER_ALREADY_CONNECTED">>>>
        BY <1>2, <4>1 DEF Resp, LoginResp
      <4> QED
        BY <1>3, <3>3, <4>1, <4>2 DEF Membership!RefuseLogin, Membership!Answers
    <3> QED
      BY <3>1, <3>2, <3>3
  <2> QED
    BY <2>1, <2>2, SameRelation DEF Membership!Refused
<1> QED
  BY <1>4, <1>5

(* A logout that begins says nothing yet; one of no user is refused.       *)
LEMMA LogoutImplements ==
    ASSUME ServerAppInv, NEW fd \in ClientID, LogoutUser(fd)
    PROVE  Membership!Refused
<1>1. users' = users
  BY DEF LogoutUser, managerVars
<1>2. CASE NameOf(fd) \in DOMAIN users
  BY <1>1, <1>2, QuietStep DEF LogoutUser
<1>3. CASE NameOf(fd) \notin DOMAIN users
  <2>1. sent' = <<<<"LOGOUT_REC", "GEN_ERROR">>>>
    BY <1>3 DEF LogoutUser, Resp
  <2>2. NameOf(fd) \in UserName
    BY NameOfLive DEF LogoutUser, Serving
  <2>3. Membership!RefuseLogout(NameOf(fd))
    BY <1>3, <2>1 DEF Membership!RefuseLogout, Membership!Answers, Accounts
  <2> QED
    BY <1>1, <2>2, <2>3, SameRelation DEF Membership!Refused
<1> QED
  BY <1>2, <1>3

(* The end of its loop is the moment a user has logged out.                *)
LEMMA FinishImplements ==
    ASSUME ServerAppInv, FinishLogout
    PROVE  \E n \in UserName : Membership!Logout(n)
<1> DEFINE n == doing.name
<1>1. UserMngOK(users) /\ LoopOK(users, doing)
  BY DEF ServerAppInv
<1>2. /\ doing.loop = "logout" /\ users' = UserMngDisconnect(users, n)
      /\ sent' = <<<<"LOGOUT_REC", "USER_DISCONNECTED">>>>
  BY DEF FinishLogout, Resp
<1>3. n \in DOMAIN users
  BY <1>1, <1>2 DEF LoopOK, Idle
<1>4. n \in UserName
  BY <1>1, <1>3 DEF UserMngOK, UserMngType
<1>5. users' = WithUser(users, n, UserStruct(users[n].pass, FALSE, {}))
  BY <1>2, <1>3, DisconnectIs
<1> HIDE DEF n
<1>6. LET w == WithUser(users, n, UserStruct(users[n].pass, FALSE, {}))
      IN  /\ AccountsOf(w) = AccountsOf(users)
          /\ OnlineOf(w) = IF FALSE THEN OnlineOf(users) \union {n}
                                    ELSE OnlineOf(users) \ {n}
          /\ MembersOf(w) = {m \in MembersOf(users) : m[1] # n}
  BY <1>1, <1>3, SessionRelation
<1>7. /\ AccountsOf(users') = AccountsOf(users)
      /\ OnlineOf(users') = OnlineOf(users) \ {n}
      /\ MembersOf(users') = {m \in MembersOf(users) : m[1] # n}
  BY <1>5, <1>6
<1>8. /\ Accounts' = Accounts /\ Online' = Online \ {n}
      /\ Members' = {m \in Members : m[1] # n}
  BY <1>7 DEF Accounts, Online, Members, AccountsOf, OnlineOf, MembersOf
<1>9. n \in DOMAIN Accounts
  BY <1>3 DEF Accounts
<1> QED
  BY <1>2, <1>4, <1>8, <1>9 DEF Membership!Logout, Membership!Answers

(* A refused request about a group.                                        *)
LEMMA RefusedGroup ==
    ASSUME ServerAppInv, NEW fd \in Live, NEW g \in GroupName, users' = users,
           \/ Membership!RefuseCreate(NameOf(fd), g)
           \/ Membership!RefuseEnter(NameOf(fd), g)
           \/ Membership!RefuseQuit(NameOf(fd), g)
    PROVE  Membership!Refused
<1>1. NameOf(fd) \in UserName
  BY NameOfLive
<1> QED
  BY <1>1, SameRelation DEF Membership!Refused

(* A group is created for a user that is online and told of it; what is    *)
(* rolled back was never there.                                            *)
LEMMA CreateImplements ==
    ASSUME ServerAppInv, NEW fd \in ClientID, NEW g \in GroupName, CreateGroup(fd, g)
    PROVE  Membership!Create(NameOf(fd), g) \/ Membership!Refused
<1> DEFINE n    == NameOf(fd)
           err  == GroupMngAddErr(groupMng, g)
           ok   == UserMngGroupJoinedErr(users, n, g) = "USER_MNG_SUCCESS"
           free == err = "GROUP_MNG_SUCCESS"
           new  == UserMngGroupJoined(users, n, g)
<1>0. fd \in Live
  BY DEF CreateGroup, Serving
<1>1. UserMngOK(users) /\ GroupMngOK(groupMng)
  BY DEF ServerAppInv
<1>2. doing = Idle
  BY DEF CreateGroup, Serving
<1>3. /\ Membership!Opened = DOMAIN groupMng.groups
      /\ Membership!Cardinality(Membership!Opened) = groupMng.num
  BY <1>2, OpenedIs
<1>4. groupMng.num \in 0 .. MaxGroups /\ MaxGroups \in Nat
  BY <1>1, GroupMngAssumption DEF GroupMngOK, GroupMngType
<1>5. CASE ~free
  <2>1. /\ users' = users
        /\ sent' = <<<<"GROUP_CREATE_REC", "GROUP_CREATE_FAIL">>>>
    BY <1>5 DEF CreateGroup, Resp
  <2>2. err # "GROUP_MNG_GET_ADDR_ERR"
    BY <1>1, QueueNeverFoundEmpty
  <2>3. \/ groupMng.num = MaxGroups \/ g \notin FitName
        \/ g \in DOMAIN groupMng.groups
    BY <1>5, <2>2 DEF GroupMngAddErr, IsOpen
  <2>4. Membership!RefuseCreate(n, g)
    BY <1>3, <2>1, <2>3 DEF Membership!RefuseCreate, Membership!Answers
  <2> QED
    BY <1>0, <2>1, <2>4, RefusedGroup
<1>6. CASE free /\ ~ok
  <2>1. users' = users /\ sent' = <<<<"GROUP_JOIN_REC", "GEN_ERROR">>>>
    BY <1>6, GroupJoinedIs DEF CreateGroup, Resp
  <2>2. g \notin DOMAIN groupMng.groups
    BY <1>6 DEF GroupMngAddErr, IsOpen
  <2>3. n \notin Online
    <3>1. n \in DOMAIN users /\ users[n].active => g \in users[n].groups
      BY <1>6 DEF UserMngGroupJoinedErr
    <3>2. n \in DOMAIN users /\ g \in users[n].groups => <<n, g>> \in MembersOf(users)
      BY MembersAre
    <3>3. <<n, g>> \notin MembersOf(users)
      BY <1>3, <2>2, RelationOf DEF Membership!Opened
    <3> QED
      BY <3>1, <3>2, <3>3 DEF Online
  <2>4. Membership!RefuseCreate(n, g)
    BY <2>1, <2>3 DEF Membership!RefuseCreate, Membership!Answers
  <2> QED
    BY <1>0, <2>1, <2>4, RefusedGroup
<1>7. CASE free /\ ok
  <2>1. users' = new /\ sent' = <<<<"GROUP_CREATE_REC", "GROUP_CREATED">>>>
    BY <1>7 DEF CreateGroup, Resp
  <2>2. /\ g \notin DOMAIN groupMng.groups /\ g \in FitName
        /\ groupMng.num # MaxGroups
    BY <1>7 DEF GroupMngAddErr, IsOpen
  <2>3. /\ n \in OnlineOf(users) /\ AccountsOf(new) = AccountsOf(users)
        /\ OnlineOf(new) = OnlineOf(users)
        /\ MembersOf(new) = MembersOf(users) \union {<<n, g>>}
    <3>1. UserMngGroupJoinedErr(users, n, g) = "USER_MNG_SUCCESS"
      BY <1>7
    <3> HIDE DEF ok, n
    <3> QED
      BY <1>1, <3>1, JoinedRelation
  <2> HIDE DEF n, new
  <2>4. /\ n \in Online /\ Accounts' = Accounts /\ Online' = Online
        /\ Members' = Members \union {<<n, g>>}
    BY <2>1, <2>3 DEF Accounts, Online, Members, AccountsOf, OnlineOf, MembersOf
  <2>5. Membership!Cardinality(Membership!Opened) < MaxGroups
    BY <1>3, <1>4, <2>2
  <2> QED
    BY <1>3, <2>1, <2>2, <2>4, <2>5 DEF Membership!Create, Membership!Answers, n
<1> QED
  BY <1>5, <1>6, <1>7

(* A join is refused to members, to users that are not online, and for     *)
(* groups that are not open.                                               *)
LEMMA JoinImplements ==
    ASSUME ServerAppInv, NEW fd \in ClientID, NEW g \in GroupName, JoinGroup(fd, g)
    PROVE  Membership!Enter(NameOf(fd), g) \/ Membership!Refused
<1> DEFINE n   == NameOf(fd)
           ok  == UserMngGroupJoinedErr(users, n, g) = "USER_MNG_SUCCESS"
           in  == UserMngIsUserInGrp(users, n, g)
           new == UserMngGroupJoined(users, n, g)
<1>0. fd \in Live
  BY DEF JoinGroup, Serving
<1>1. UserMngOK(users)
  BY DEF ServerAppInv
<1>2. doing = Idle
  BY DEF JoinGroup, Serving
<1>3. Membership!Opened = DOMAIN groupMng.groups
  BY <1>2, OpenedIs
<1>4. <<n, g>> \in Members <=> in
  BY RelationOf, MembersAre DEF UserMngIsUserInGrp
<1>5. CASE in
  <2>1. /\ users' = users
        /\ sent' = <<<<"GROUP_JOIN_REC", "GROUP_USER_CONNECTED">>>>
    BY <1>5 DEF JoinGroup, Resp
  <2>2. Membership!RefuseEnter(n, g)
    BY <1>4, <1>5, <2>1 DEF Membership!RefuseEnter, Membership!Answers
  <2> QED
    BY <1>0, <2>1, <2>2, RefusedGroup
<1>6. CASE ~in /\ ~IsOpen(groupMng, g)
  <2>1. users' = users /\ sent' = <<<<"GROUP_JOIN_REC", "GEN_ERROR">>>>
    BY <1>6 DEF JoinGroup, Resp
  <2>2. Membership!RefuseEnter(n, g)
    BY <1>3, <1>6, <2>1 DEF Membership!RefuseEnter, Membership!Answers, IsOpen
  <2> QED
    BY <1>0, <2>1, <2>2, RefusedGroup
<1>7. CASE ~in /\ IsOpen(groupMng, g) /\ ~ok
  <2>1. users' = users /\ sent' = <<<<"GROUP_JOIN_REC", "GEN_ERROR">>>>
    BY <1>7, GroupJoinedIs DEF JoinGroup, Resp
  <2>2. n \notin Online
    BY <1>7 DEF UserMngGroupJoinedErr, UserMngIsUserInGrp, Online
  <2>3. Membership!RefuseEnter(n, g)
    BY <2>1, <2>2 DEF Membership!RefuseEnter, Membership!Answers
  <2> QED
    BY <1>0, <2>1, <2>3, RefusedGroup
<1>8. CASE ~in /\ IsOpen(groupMng, g) /\ ok
  <2>1. users' = new /\ sent' = <<<<"GROUP_CREATE_REC", "GROUP_JOINED">>>>
    BY <1>8 DEF JoinGroup, Resp
  <2>2. /\ n \in OnlineOf(users) /\ AccountsOf(new) = AccountsOf(users)
        /\ OnlineOf(new) = OnlineOf(users)
        /\ MembersOf(new) = MembersOf(users) \union {<<n, g>>}
    <3>1. UserMngGroupJoinedErr(users, n, g) = "USER_MNG_SUCCESS"
      BY <1>8
    <3> HIDE DEF ok, n
    <3> QED
      BY <1>1, <3>1, JoinedRelation
  <2>3. g \in Membership!Opened /\ <<n, g>> \notin Members
    BY <1>3, <1>4, <1>8 DEF IsOpen
  <2> HIDE DEF n, new
  <2>4. /\ n \in Online /\ Accounts' = Accounts /\ Online' = Online
        /\ Members' = Members \union {<<n, g>>}
    BY <2>1, <2>2 DEF Accounts, Online, Members, AccountsOf, OnlineOf, MembersOf
  <2> QED
    BY <2>1, <2>3, <2>4 DEF Membership!Enter, Membership!Answers, n
<1> QED
  BY <1>5, <1>6, <1>7, <1>8

(* A leave is answered with success exactly when there was a member.       *)
LEMMA LeaveImplements ==
    ASSUME ServerAppInv, NEW fd \in ClientID, NEW g \in GroupName, LeaveGroup(fd, g)
    PROVE  Membership!Quit(NameOf(fd), g) \/ Membership!Refused
<1> DEFINE n   == NameOf(fd)
           ok  == UserMngGroupLeftErr(users, n, g) = "USER_MNG_SUCCESS"
           new == UserMngGroupLeft(users, n, g)
<1>0. fd \in Live
  BY DEF LeaveGroup, Serving
<1>1. UserMngOK(users)
  BY DEF ServerAppInv
<1>2. doing = Idle /\ users' = new
  BY DEF LeaveGroup, Serving
<1>3. Membership!Opened = DOMAIN groupMng.groups
  BY <1>2, OpenedIs
<1>4. CASE ~ok
  <2>1. users' = users /\ sent' = <<<<"GROUP_LEAVE_REC", "GEN_ERROR">>>>
    BY <1>4, GroupLeftIs DEF LeaveGroup, Resp
  <2>2. ~(n \in DOMAIN users /\ g \in users[n].groups)
    BY <1>4 DEF UserMngGroupLeftErr
  <2>3. <<n, g>> \notin Members
    BY <2>2, RelationOf, MembersAre
  <2>4. Membership!RefuseQuit(n, g)
    BY <2>1, <2>3 DEF Membership!RefuseQuit, Membership!Answers
  <2> QED
    BY <1>0, <2>1, <2>4, RefusedGroup
<1>5. CASE ok
  <2>1. /\ <<n, g>> \in MembersOf(users) /\ AccountsOf(new) = AccountsOf(users)
        /\ OnlineOf(new) = OnlineOf(users)
        /\ MembersOf(new) = MembersOf(users) \ {<<n, g>>}
    <3>1. UserMngGroupLeftErr(users, n, g) = "USER_MNG_SUCCESS"
      BY <1>5
    <3> HIDE DEF ok, n
    <3> QED
      BY <1>1, <3>1, LeftRelation
  <2>2. g \in Membership!Opened
    BY <2>1, RelationOf DEF Membership!Opened
  <2>3. sent' = <<<<"GROUP_LEAVE_REC", "GROUP_LEFT">>>>
    BY <1>3, <1>5, <2>2 DEF LeaveGroup, Resp, IsOpen
  <2> HIDE DEF n, new
  <2>4. /\ <<n, g>> \in Members /\ Accounts' = Accounts /\ Online' = Online
        /\ Members' = Members \ {<<n, g>>}
    BY <1>2, <2>1 DEF Accounts, Online, Members, AccountsOf, OnlineOf, MembersOf
  <2> QED
    BY <2>3, <2>4 DEF Membership!Quit, Membership!Answers, n
<1> QED
  BY <1>4, <1>5

(* Two answers, one after the other.                                       *)
LEMMA TwoAnswers ==
    ASSUME NEW a, NEW b
    PROVE  <<a>> \o <<b>> = <<a, b>>
<1> DEFINE s == <<a>>
           r == Append(s, b)
<1>1. s \in Seq({a, b}) /\ b \in {a, b} /\ Len(s) = 1 /\ s[1] = a
  OBVIOUS
<1> HIDE DEF s
<1>2. r = s \o <<b>>
  BY <1>1, AppendIsConcat
<1>3. r \in Seq({a, b}) /\ Len(r) = 2 /\ r[1] = a /\ r[2] = b
  <2>1. r \in Seq({a, b}) /\ Len(r) = Len(s) + 1
    BY <1>1, AppendProperties
  <2>2. (\A i \in 1 .. Len(s) : r[i] = s[i]) /\ r[Len(s) + 1] = b
    BY <1>1, AppendProperties
  <2> HIDE DEF r
  <2>3. r[1] = s[1]
    BY <1>1, <2>2
  <2>4. r[2] = b
    BY <1>1, <2>2
  <2> QED
    BY <1>1, <2>1, <2>3, <2>4
<1> HIDE DEF r
<1>4. r = <<a, b>>
  BY <1>3
<1> QED
  BY <1>2, <1>4 DEF s

(* The list of groups is the list of the groups that have members.         *)
LEMMA ListImplements ==
    ASSUME ServerAppInv, NEW fd \in ClientID, SendGroupList(fd)
    PROVE  Membership!Refused
<1>1. doing = Idle /\ users' = users
  BY DEF SendGroupList, Serving, managerVars
<1>2. Membership!Opened = DOMAIN groupMng.groups
  BY <1>1, OpenedIs
<1>3. groupMng.num = 0 <=> DOMAIN groupMng.groups = {}
  <2>1. /\ IsFiniteSet(DOMAIN groupMng.groups)
        /\ groupMng.num = Cardinality(DOMAIN groupMng.groups)
    BY DEF ServerAppInv, GroupMngOK, CountsAgree
  <2> QED
    BY <2>1, FS_EmptySet
<1>4. CASE groupMng.num = 0
  <2>1. sent' = <<<<"GROUP_LIST_REC", "GROUP_LIST_EMPTY">>,
                  <<"GROUP_LIST_REC", "GROUP_LIST_FAIL">>>>
    BY <1>4, TwoAnswers DEF SendGroupList, GroupMngListErr, Resp
  <2>2. Membership!List
    BY <1>2, <1>3, <1>4, <2>1 DEF Membership!List
  <2> QED
    BY <1>1, <2>2, SameRelation DEF Membership!Refused
<1>5. CASE groupMng.num # 0
  <2>1. sent' = <<<<"GROUP_LIST_REC", DOMAIN groupMng.groups>>>>
    BY <1>5 DEF SendGroupList, GroupMngListErr, Resp
  <2>2. Membership!List
    BY <1>2, <1>3, <1>5, <2>1 DEF Membership!List, Membership!Answers
  <2> QED
    BY <1>1, <2>2, SameRelation DEF Membership!Refused
<1> QED
  BY <1>4, <1>5

(* A server that starts again knows the accounts that reached the file.    *)
LEMMA RestartImplements ==
    ASSUME ServerAppInv, Restart
    PROVE  Membership!StartOver
<1> DEFINE new == UserMngCreate(savedUsers)
<1>1. /\ FileOK(savedUsers) /\ FileAgrees(savedUsers, users, UserName)
  BY DEF ServerAppInv
<1>2. users' = new /\ sent' = << >>
  BY DEF Restart
<1>3. UserMngOK(new) /\ \A n \in DOMAIN new : new[n].active = FALSE
  BY <1>1, UserMngCreateOK
<1>4. \A n \in DOMAIN new : n \in DOMAIN users /\ new[n].pass = users[n].pass
  BY <1>1, <1>3 DEF FileAgrees, UserMngCreate, UserMngOK, UserMngType
<1> HIDE DEF new
<1>5. \A n \in DOMAIN new : new[n].groups = {}
  BY <1>3 DEF UserMngOK, ListsNeedSession
<1>6. Online' = {} /\ Members' = {}
  BY <1>2, <1>3, <1>5 DEF Online, Members
<1>7. /\ DOMAIN new \in SUBSET DOMAIN Accounts
      /\ Accounts' = [n \in DOMAIN new |-> Accounts[n]]
  BY <1>2, <1>4 DEF Accounts
<1> QED
  BY <1>2, <1>6, <1>7 DEF Membership!StartOver, Membership!Quiet

(* Every step of the application, seen through the relation, is one of     *)
(* ChatMembership or changes nothing there.                                *)
LEMMA MembershipStep ==
    ServerAppInv /\ [ServerAppNext]_appVars
        => [Membership!ChatNext]_(Membership!chatVars)
<1> SUFFICES ASSUME ServerAppInv, [ServerAppNext]_appVars
             PROVE  [Membership!ChatNext]_(Membership!chatVars)
  OBVIOUS
<1>1. ASSUME NEW fd \in ClientID,
             \/ NewClient(fd) \/ RejectClient(fd)
             \/ CloseClient(fd) \/ CloseClientInGroups(fd)
      PROVE  Membership!ChatNext
  <2>1. users' = users /\ sent' = << >>
    BY <1>1 DEF NewClient, RejectClient, CloseClient, CloseClientInGroups, managerVars
  <2> QED
    BY <2>1, QuietStep DEF Membership!ChatNext
<1>2. ASSUME NEW fd \in ClientID, GotMessage(fd)
      PROVE  Membership!ChatNext
  <2>1. ASSUME NEW name \in UserName, NEW pass \in Password,
               RegisterUser(fd, name, pass)
        PROVE  Membership!ChatNext
    BY <2>1, RegisterImplements DEF Membership!ChatNext
  <2>2. ASSUME NEW name \in UserName, NEW pass \in Password,
               LoginUser(fd, name, pass)
        PROVE  Membership!ChatNext
    BY <2>2, LoginImplements DEF Membership!ChatNext
  <2>3. CASE LogoutUser(fd)
    BY <2>3, LogoutImplements DEF Membership!ChatNext
  <2>4. ASSUME NEW g \in GroupName, CreateGroup(fd, g)
        PROVE  Membership!ChatNext
    <3>1. NameOf(fd) \in UserName
      BY <2>4, NameOfLive DEF CreateGroup, Serving
    <3> QED
      BY <2>4, <3>1, CreateImplements DEF Membership!ChatNext
  <2>5. ASSUME NEW g \in GroupName, JoinGroup(fd, g)
        PROVE  Membership!ChatNext
    <3>1. NameOf(fd) \in UserName
      BY <2>5, NameOfLive DEF JoinGroup, Serving
    <3> QED
      BY <2>5, <3>1, JoinImplements DEF Membership!ChatNext
  <2>6. ASSUME NEW g \in GroupName, LeaveGroup(fd, g)
        PROVE  Membership!ChatNext
    <3>1. NameOf(fd) \in UserName
      BY <2>6, NameOfLive DEF LeaveGroup, Serving
    <3> QED
      BY <2>6, <3>1, LeaveImplements DEF Membership!ChatNext
  <2>7. CASE SendGroupList(fd)
    BY <2>7, ListImplements DEF Membership!ChatNext
  <2>8. CASE UnknownMessage(fd)
    <3>1. users' = users /\ sent' = <<<<"MSG_TYPE_ERR", "GEN_ERROR">>>>
      BY <2>8 DEF UnknownMessage, Resp, managerVars
    <3>2. Membership!Refused
      BY <3>1, SameRelation
      DEF Membership!Refused, Membership!Unknown, Membership!Answers
    <3> QED
      BY <3>2 DEF Membership!ChatNext
  <2> QED
    BY <1>2, <2>1, <2>2, <2>3, <2>4, <2>5, <2>6, <2>7, <2>8 DEF GotMessage
<1>3. CASE Turn
  <2>1. CASE LeaveNextGroup
    <3>1. users' = users /\ sent' = << >>
      BY <2>1, LeaveNextGroupInv DEF LeaveNextGroup
    <3> QED
      BY <3>1, QuietStep DEF Membership!ChatNext
  <2>2. CASE LeaveSameGroup
    <3>1. users' = users /\ sent' = << >>
      BY <2>2 DEF LeaveSameGroup
    <3> QED
      BY <3>1, QuietStep DEF Membership!ChatNext
  <2>3. CASE FinishLogout
    BY <2>3, FinishImplements DEF Membership!ChatNext
  <2> QED
    BY <1>3, <2>1, <2>2, <2>3 DEF Turn
<1>4. CASE Restart
  BY <1>4, RestartImplements DEF Membership!ChatNext
<1>5. CASE UNCHANGED appVars
  BY <1>5, SameRelation DEF appVars, Membership!chatVars
<1> QED
  BY <1>1, <1>2, <1>3, <1>4, <1>5 DEF ServerAppNext

(* Two managers, a rollback and a loop look like one relation: each answer *)
(* is what ChatMembership allows, each refusal has its reason there.       *)
THEOREM ServerAppImplementsMembership == ServerAppSpec => ImplementsMembership
<1> QED
  BY MembershipInit, MembershipStep, ServerAppAlwaysInv, PTL
  DEF ServerAppSpec, ImplementsMembership, Membership!ChatSpec
=============================================================================
