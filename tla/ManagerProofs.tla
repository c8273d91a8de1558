--------------------------- MODULE ManagerProofs ----------------------------
(***************************************************************************)
(* Theorems about each manager under any series of calls: whatever calls   *)
(* are made, refused or lost by a file that cannot be written, and, of the *)
(* user manager, whenever the process starts again.                        *)
(***************************************************************************)
EXTENDS GroupMngCalls, UserMngCalls, ManagerLemmas

-----------------------------------------------------------------------------
(* The group manager: the invariant *)

(* What every call preserves.  The four parts of GroupMngOK need each      *)
(* other: GroupMngLeave finds room in the queue because the counts agree,  *)
(* and frees no address twice because none is leased twice.                *)
GroupMngInv ==
    /\ GroupMngOK(groupMng)
    /\ groupReply \in [err  : GroupMngErr \ {"GROUP_MNG_GET_ADDR_ERR"},
                       addr : GroupAddress \union {NoAddress}]

(* GroupMngCreate establishes the invariant.                               *)
LEMMA GroupMngInvInit == GroupMngInit => GroupMngInv
<1> SUFFICES ASSUME GroupMngInit PROVE GroupMngInv
  OBVIOUS
<1> QED
  BY CreateOK DEF GroupMngInit, GroupMngInv, GroupMngErr

(* Every call of groupMng.h preserves the invariant.                       *)
LEMMA GroupMngInvNext == GroupMngInv /\ [GroupMngNext]_groupVars => GroupMngInv'
<1> SUFFICES ASSUME GroupMngInv, [GroupMngNext]_groupVars
             PROVE  GroupMngInv'
  OBVIOUS
<1>1. \A g : IsOpen(groupMng, g) => groupMng.groups[g].addr \in GroupAddress
  BY DEF GroupMngInv, GroupMngOK, GroupMngType, IsOpen, Group
<1>2. ASSUME NEW g \in GroupName, Add(g)
      PROVE  GroupMngInv'
  <2>1. GroupMngOK(groupMng')
    BY <1>2, AddOK DEF GroupMngInv, Add
  <2>2. GroupMngAddErr(groupMng, g) \in GroupMngErr \ {"GROUP_MNG_GET_ADDR_ERR"}
    BY QueueNeverFoundEmpty DEF GroupMngInv
  <2>3. GroupMngAddErr(groupMng, g) = "GROUP_MNG_SUCCESS"
          => groupMng'.groups[g].addr \in GroupAddress
    <3>1. GroupMngAddErr(groupMng, g) = "GROUP_MNG_SUCCESS" => g \in DOMAIN groupMng'.groups
      BY <1>2 DEF Add, GroupMngAdd, Manager, HashMapInsert
    <3> QED
      BY <2>1, <3>1 DEF GroupMngOK, GroupMngType, Group
  <2> QED
    BY <1>2, <2>1, <2>2, <2>3 DEF GroupMngInv, Add
<1>3. ASSUME NEW g \in GroupName, Join(g)
      PROVE  GroupMngInv'
  <2>1. GroupMngOK(groupMng')
    BY <1>3, JoinOK DEF GroupMngInv, Join
  <2> QED
    BY <1>1, <1>3, <2>1 DEF GroupMngInv, Join, GroupMngFindErr, GroupMngErr
<1>4. ASSUME NEW g \in GroupName, Leave(g)
      PROVE  GroupMngInv'
  <2>1. GroupMngOK(groupMng')
    BY <1>4, LeaveOK DEF GroupMngInv, Leave
  <2> QED
    BY <1>4, <2>1 DEF GroupMngInv, Leave, GroupMngFindErr, GroupMngErr
<1>5. ASSUME NEW g \in GroupName, GroupRemove(g)
      PROVE  GroupMngInv'
  <2>1. GroupMngOK(groupMng')
    BY <1>5, RemoveOK DEF GroupMngInv, GroupRemove
  <2> QED
    BY <1>5, <2>1 DEF GroupMngInv, GroupRemove, GroupMngFindErr, GroupMngErr
<1>6. CASE GetGroupList
  BY <1>6 DEF GroupMngInv, GetGroupList, GroupMngListErr, GroupMngErr
<1>7. CASE UNCHANGED groupVars
  BY <1>7 DEF GroupMngInv, groupVars
<1> QED
  BY <1>2, <1>3, <1>4, <1>5, <1>6, <1>7 DEF GroupMngNext

(* The invariant holds after any series of calls.                          *)
THEOREM GroupMngInvariant == GroupMngSpec => []GroupMngInv
<1> QED
  BY GroupMngInvInit, GroupMngInvNext, PTL DEF GroupMngSpec

(* The manager and its replies are well-formed after any series of calls,  *)
(* for every pool size and every set of names.                             *)
THEOREM GroupMngTypeCorrect == GroupMngSpec => []GroupMngTypeOK
<1>1. GroupMngInv => GroupMngTypeOK
  BY DEF GroupMngInv, GroupMngOK, GroupMngTypeOK
<1> QED
  BY <1>1, GroupMngInvariant, PTL

(* No address of the pool is shared or lost, whatever GroupMngAdd rolls    *)
(* back.                                                                   *)
THEOREM AddressPoolStaysIntact == GroupMngSpec => []AddressPoolIntact
<1>1. GroupMngInv => AddressPoolIntact
  BY DEF GroupMngInv, GroupMngOK, AddressPoolIntact
<1> QED
  BY <1>1, GroupMngInvariant, PTL

(* m_currentNumOfGroups is the number of addresses out, so the error       *)
(* GROUP_MNG_GET_ADDR_ERR of GroupMngAdd is dead code.                     *)
THEOREM CounterAlwaysGuardsQueue == GroupMngSpec => []CounterGuardsQueue
<1>1. GroupMngInv => CounterGuardsQueue
  BY DEF GroupMngInv, GroupMngOK, CounterGuardsQueue
<1> QED
  BY <1>1, GroupMngInvariant, PTL

-----------------------------------------------------------------------------
(* GroupMng implements GroupDirectory *)

(* The directory's used addresses are the ones the map's groups hold.      *)
LEMMA UsedIsLeased == Directory!Used = Leased(groupMng)
BY DEF Directory!Used, Leases, Leased

(* A manager just created is an empty directory.                           *)
LEMMA DirectoryInit == GroupMngInit => Directory!DirInit
BY DEF GroupMngInit, GroupMngCreate, Manager, EmptyMap, Directory!DirInit,
       Leases, Seats

(* A creation that succeeds opens the group at an address nobody holds;    *)
(* one that fails changes nothing the directory shows, for a reason the    *)
(* directory knows.                                                        *)
LEMMA AddImplements ==
    ASSUME NEW g \in GroupName, GroupMngInv, Add(g)
    PROVE  Directory!Open(g) \/ Directory!RefuseOpen(g)
<1> DEFINE err   == GroupMngAddErr(groupMng, g)
           addr  == Head(groupMng.freeAddr)
<1> USE GroupMngAssumption
<1>1. err # "GROUP_MNG_GET_ADDR_ERR"
  BY QueueNeverFoundEmpty DEF GroupMngInv
<1>2. CASE err = "GROUP_MNG_SUCCESS"
  <2>1. /\ groupMng.freeAddr # << >> /\ groupMng.num # MaxGroups
        /\ g \in FitName /\ g \notin DOMAIN groupMng.groups
    BY <1>2 DEF GroupMngAddErr, IsOpen
  <2>2. groupMng'.groups = HashMapInsert(groupMng.groups, g, GroupCreate(addr))
    BY <1>2 DEF Add, GroupMngAdd, TakeAddress, Manager
  <2>3. /\ DOMAIN groupMng'.groups = DOMAIN groupMng.groups \union {g}
        /\ \A h \in DOMAIN groupMng.groups : groupMng'.groups[h] = groupMng.groups[h]
        /\ groupMng'.groups[g] = [addr |-> addr, users |-> 1]
    BY <2>1, <2>2 DEF HashMapInsert, GroupCreate, GroupStruct
  <2>4. addr \in GroupAddress \ Directory!Used
    <3>1. Short(TakeAddress(groupMng), addr)
      BY <2>1, TakenIsShort DEF GroupMngInv
    <3>2. TakeAddress(groupMng).groups = groupMng.groups
      BY DEF TakeAddress, Manager
    <3> QED
      BY <3>1, <3>2, UsedIsLeased DEF Short, Leased
  <2>5. Leases' = Directory!Extended(Leases, g, addr)
    BY <2>1, <2>3 DEF Leases, Directory!Extended
  <2>6. Seats' = Directory!Extended(Seats, g, 1)
    BY <2>1, <2>3 DEF Seats, Directory!Extended
  <2>7. groupReply' = [err |-> "GROUP_MNG_SUCCESS", addr |-> addr]
    BY <1>2, <2>3 DEF Add
  <2>8. g \in FitName \ DOMAIN Leases
    BY <2>1 DEF Leases
  <2> QED
    BY <2>4, <2>5, <2>6, <2>7, <2>8 DEF Directory!Open
<1>3. CASE err # "GROUP_MNG_SUCCESS"
  <2>1. groupMng'.groups = groupMng.groups
    BY <1>3 DEF Add, GroupMngAdd, GiveBack, TakeAddress, Manager
  <2>2. Leases' = Leases /\ Seats' = Seats
    BY <2>1 DEF Leases, Seats
  <2>3. groupReply' = [err |-> err, addr |-> NoAddress]
    BY <1>3 DEF Add
  <2>4. CASE err = "GROUP_MNG_OVERFLOW"
    <3>1. groupMng.num = MaxGroups
      BY <2>4 DEF GroupMngAddErr
    <3>2. Elements(groupMng.freeAddr) = {}
      <4>1. groupMng.freeAddr \in Seq(GroupAddress) /\ Len(groupMng.freeAddr) = 0
        BY <3>1 DEF GroupMngInv, GroupMngOK, GroupMngType, CountsAgree
      <4>2. DOMAIN groupMng.freeAddr = {}
        BY <4>1
      <4> QED
        BY <4>2 DEF Elements
    <3>3. Directory!Used = GroupAddress
      BY <3>2, UsedIsLeased DEF GroupMngInv, GroupMngOK, NoAddressLost
    <3> QED
      BY <2>2, <2>3, <2>4, <3>3 DEF Directory!RefuseOpen
  <2>5. CASE err = "GROUP_MNG_CREATE_ERR"
    BY <2>2, <2>3, <2>5 DEF Directory!RefuseOpen, GroupMngAddErr
  <2>6. CASE err = "GROUP_MNG_ADD_ERR"
    <3>1. g \in DOMAIN Leases
      BY <2>6 DEF GroupMngAddErr, IsOpen, Leases
    <3> QED
      BY <2>2, <2>3, <2>6, <3>1 DEF Directory!RefuseOpen
  <2> QED
    BY <1>1, <1>3, <2>4, <2>5, <2>6 DEF GroupMngAddErr
<1> QED
  BY <1>2, <1>3

(* A call of GroupMngJoin is a join of the directory, or its refusal.      *)
LEMMA JoinImplements ==
    ASSUME NEW g \in GroupName, GroupMngInv, Join(g)
    PROVE  Directory!TakeSeat(g) \/ Directory!NoSuchGroup(g)
<1>1. CASE IsOpen(groupMng, g)
  <2>1. g \in DOMAIN groupMng.groups
    BY <1>1 DEF IsOpen
  <2>2. groupMng'.groups =
          [groupMng.groups EXCEPT ![g] =
              GroupStruct(groupMng.groups[g].addr, groupMng.groups[g].users + 1)]
    BY <1>1 DEF Join, GroupMngJoin, GroupConnect, WithUsers, Manager
  <2>3. groupMng.groups = [h \in DOMAIN groupMng.groups |-> groupMng.groups[h]]
    BY DEF GroupMngInv, GroupMngOK, GroupMngType
  <2>4. /\ DOMAIN groupMng'.groups = DOMAIN groupMng.groups
        /\ \A h \in DOMAIN groupMng.groups : h # g => groupMng'.groups[h] = groupMng.groups[h]
        /\ groupMng'.groups[g].addr = groupMng.groups[g].addr
        /\ groupMng'.groups[g].users = groupMng.groups[g].users + 1
    BY <2>1, <2>2, <2>3 DEF GroupStruct
  <2>5. Leases' = Leases
    BY <2>1, <2>4 DEF Leases
  <2>6. Seats' = [Seats EXCEPT ![g] = @ + 1]
    BY <2>1, <2>4 DEF Seats
  <2>7. groupReply' = [err |-> "GROUP_MNG_SUCCESS", addr |-> Leases[g]]
    BY <1>1, <2>1 DEF Join, GroupMngFindErr, Leases
  <2>8. g \in DOMAIN Leases
    BY <2>1 DEF Leases
  <2> QED
    BY <2>5, <2>6, <2>7, <2>8 DEF Directory!TakeSeat
<1>2. CASE ~IsOpen(groupMng, g)
  BY <1>2 DEF Join, GroupMngJoin, GroupMngFindErr, IsOpen, Leases, Seats,
              Directory!NoSuchGroup
<1> QED
  BY <1>1, <1>2

(* A call of GroupMngLeave is a leave of the directory or its refusal; the *)
(* last seat given up closes the group there too.                          *)
LEMMA LeaveImplements ==
    ASSUME NEW g \in GroupName, GroupMngInv, Leave(g)
    PROVE  Directory!LeaveSeat(g) \/ Directory!NoSuchGroup(g)
<1> DEFINE left == GroupDisconnect(groupMng, g)
           n    == groupMng.groups[g].users
<1>1. CASE IsOpen(groupMng, g)
  <2>1. g \in DOMAIN groupMng.groups /\ n \in Nat \ {0}
    BY <1>1 DEF IsOpen, GroupMngInv, GroupMngOK, GroupMngType, Group
  <2>2. groupMng.groups = [h \in DOMAIN groupMng.groups |-> groupMng.groups[h]]
    BY DEF GroupMngInv, GroupMngOK, GroupMngType
  <2>3. left.groups = [groupMng.groups EXCEPT ![g] =
                          GroupStruct(groupMng.groups[g].addr, n - 1)]
    BY DEF GroupDisconnect, WithUsers, Manager
  <2>4. /\ DOMAIN left.groups = DOMAIN groupMng.groups
        /\ left.groups[g].addr = groupMng.groups[g].addr
        /\ left.groups[g].users = n - 1
        /\ \A h \in DOMAIN groupMng.groups : h # g => left.groups[h] = groupMng.groups[h]
    BY <2>1, <2>2, <2>3 DEF GroupStruct
  <2>5. groupReply' = [err |-> "GROUP_MNG_SUCCESS", addr |-> NoAddress]
    BY <1>1 DEF Leave, GroupMngFindErr
  <2>6. g \in DOMAIN Leases /\ Seats[g] = n
    BY <2>1 DEF Leases, Seats
  <2>7. CASE n = 1
    <3>1. left.groups[g].users = 0
      BY <2>4, <2>7
    <3>2. groupMng'.groups = HashMapRemove(left.groups, g)
      BY <1>1, <3>1 DEF Leave, GroupMngLeave, GroupMngRemove, GiveBack, Manager
    <3> HIDE DEF left
    <3>3. Leases' = Directory!Without(Leases, g)
      BY <2>4, <3>2 DEF Leases, HashMapRemove, Directory!Without
    <3>4. Seats' = Directory!Without(Seats, g)
      BY <2>4, <3>2 DEF Seats, HashMapRemove, Directory!Without
    <3> QED
      BY <2>5, <2>6, <2>7, <3>3, <3>4 DEF Directory!LeaveSeat
  <2>8. CASE n # 1
    <3>1. left.groups[g].users # 0
      BY <2>1, <2>4, <2>8
    <3>2. groupMng'.groups = left.groups
      BY <1>1, <3>1 DEF Leave, GroupMngLeave
    <3> HIDE DEF left
    <3>3. Leases' = Leases
      BY <2>1, <2>4, <3>2 DEF Leases
    <3>4. Seats' = [Seats EXCEPT ![g] = @ - 1]
      BY <2>1, <2>4, <3>2 DEF Seats
    <3> QED
      BY <2>5, <2>6, <2>8, <3>3, <3>4 DEF Directory!LeaveSeat
  <2> QED
    BY <2>7, <2>8
<1>2. CASE ~IsOpen(groupMng, g)
  BY <1>2 DEF Leave, GroupMngLeave, GroupMngFindErr, IsOpen, Leases, Seats,
              Directory!NoSuchGroup
<1> QED
  BY <1>1, <1>2

(* A call of GroupMngRemove closes the group of the directory, or is       *)
(* refused.                                                                *)
LEMMA RemoveImplements ==
    ASSUME NEW g \in GroupName, GroupMngInv, GroupRemove(g)
    PROVE  Directory!Close(g) \/ Directory!NoSuchGroup(g)
<1>1. CASE IsOpen(groupMng, g)
  <2>1. g \in DOMAIN Leases
    BY <1>1 DEF IsOpen, Leases
  <2>2. groupMng'.groups = HashMapRemove(groupMng.groups, g)
    BY <1>1 DEF GroupRemove, GroupMngRemove, GiveBack, Manager
  <2>3. Leases' = Directory!Without(Leases, g)
    BY <2>2 DEF Leases, HashMapRemove, Directory!Without
  <2>4. Seats' = Directory!Without(Seats, g)
    BY <2>2 DEF Seats, HashMapRemove, Directory!Without
  <2>5. groupReply' = [err |-> "GROUP_MNG_SUCCESS", addr |-> NoAddress]
    BY <1>1 DEF GroupRemove, GroupMngFindErr
  <2> QED
    BY <2>1, <2>3, <2>4, <2>5 DEF Directory!Close
<1>2. CASE ~IsOpen(groupMng, g)
  BY <1>2 DEF GroupRemove, GroupMngFindErr, IsOpen, Leases, Seats, Directory!NoSuchGroup
<1> QED
  BY <1>1, <1>2

(* The count is zero exactly when the map is empty.                        *)
LEMMA ListImplements ==
    ASSUME GroupMngInv, GetGroupList
    PROVE  Directory!List
<1>1. groupMng.num = 0 <=> DOMAIN groupMng.groups = {}
  <2>1. /\ IsFiniteSet(DOMAIN groupMng.groups)
        /\ groupMng.num = Cardinality(DOMAIN groupMng.groups)
    BY DEF GroupMngInv, GroupMngOK, CountsAgree
  <2> QED
    BY <2>1, FS_EmptySet
<1>2. DOMAIN Leases = DOMAIN groupMng.groups
  BY DEF Leases
<1>3. Leases' = Leases /\ Seats' = Seats
  BY DEF GetGroupList, Leases, Seats
<1> QED
  BY <1>1, <1>2, <1>3 DEF GetGroupList, GroupMngListErr, Directory!List

(* Every call of the manager is a step of the directory.                   *)
LEMMA DirectoryStep ==
    GroupMngInv /\ [GroupMngNext]_groupVars => [Directory!DirNext]_(Directory!dirVars)
<1> SUFFICES ASSUME GroupMngInv, [GroupMngNext]_groupVars
             PROVE  [Directory!DirNext]_(Directory!dirVars)
  OBVIOUS
<1>1. ASSUME NEW g \in GroupName, Add(g)
      PROVE  Directory!DirNext
  BY <1>1, AddImplements DEF Directory!DirNext
<1>2. ASSUME NEW g \in GroupName, Join(g)
      PROVE  Directory!DirNext
  BY <1>2, JoinImplements DEF Directory!DirNext
<1>3. ASSUME NEW g \in GroupName, Leave(g)
      PROVE  Directory!DirNext
  BY <1>3, LeaveImplements DEF Directory!DirNext
<1>4. ASSUME NEW g \in GroupName, GroupRemove(g)
      PROVE  Directory!DirNext
  BY <1>4, RemoveImplements DEF Directory!DirNext
<1>5. CASE GetGroupList
  BY <1>5, ListImplements DEF Directory!DirNext
<1>6. CASE UNCHANGED groupVars
  BY <1>6 DEF groupVars, Directory!dirVars, Leases, Seats
<1> QED
  BY <1>1, <1>2, <1>3, <1>4, <1>5, <1>6 DEF GroupMngNext

(* Every behaviour of the manager, with its queue, counter and map, is one *)
(* the directory of groupMng.h allows.                                     *)
THEOREM GroupMngImplementsDirectory == GroupMngSpec => ImplementsDirectory
<1> QED
  BY DirectoryInit, DirectoryStep, GroupMngInvariant, PTL
  DEF GroupMngSpec, ImplementsDirectory, Directory!DirSpec

-----------------------------------------------------------------------------
(* The user manager: the invariant *)

(* FileMatchesAccounts does not say which of a line's words is the name,   *)
(* which a restart relies on: FileOK does.                                 *)
UserMngInv ==
    /\ UserMngOK(users)
    /\ FileOK(savedUsers)
    /\ FileAgrees(savedUsers, users, UserName \ removed)
    /\ userReply \in UserMngErr
    /\ removed \in SUBSET UserName

-----------------------------------------------------------------------------
(* An empty file is whole and has no lines.                                *)
LEMMA UserMngInitInv == UserMngInit => UserMngInv
<1> SUFFICES ASSUME UserMngInit
             PROVE  UserMngInv
  OBVIOUS
<1>1. savedUsers = << >> /\ userReply \in UserMngErr /\ removed = {}
  BY DEF UserMngInit, UserMngErr
<1>2. FileOK(savedUsers)
  BY <1>1 DEF FileOK, Line
<1>3. UserMngOK(users)
  BY <1>2, UserMngCreateOK DEF UserMngInit
<1>4. FileAgrees(savedUsers, users, UserName \ removed)
  BY <1>2, FileAgreesWithItself DEF UserMngInit
<1> QED
  BY <1>1, <1>2, <1>3, <1>4 DEF UserMngInv

(* Adding a user, or refusing to.                                          *)
LEMMA AddUserInv ==
    ASSUME UserMngInv, NEW name \in UserName, NEW pass \in Password,
           AddUser(name, pass)
    PROVE  UserMngInv'
<1>1. /\ UserMngOK(users) /\ FileOK(savedUsers)
      /\ FileAgrees(savedUsers, users, UserName \ removed)
      /\ removed \in SUBSET UserName
  BY DEF UserMngInv
<1>2. /\ users' = UserAdd(users, name, pass)
      /\ savedUsers' \in SavedAfterAdd(users, savedUsers, name, pass)
      /\ removed' = removed
  BY DEF AddUser
<1>3. UserMngOK(UserAdd(users, name, pass))
  BY <1>1, UserAddOK
<1>4. /\ FileOK(savedUsers')
      /\ FileAgrees(savedUsers', UserAdd(users, name, pass), UserName \ removed)
  BY <1>1, <1>2, SavedAfterAddOK
<1>5. userReply' \in UserMngErr
  BY DEF AddUser, UserMngAddErr, UserMngErr
<1> QED
  BY <1>1, <1>2, <1>3, <1>4, <1>5 DEF UserMngInv

(* Removing a user: the file still has the name, which joins removed.      *)
LEMMA RemoveUserInv ==
    ASSUME UserMngInv, NEW name \in UserName, RemoveUser(name)
    PROVE  UserMngInv'
<1>1. /\ UserMngOK(users) /\ FileOK(savedUsers)
      /\ FileAgrees(savedUsers, users, UserName \ removed)
      /\ removed \in SUBSET UserName
  BY DEF UserMngInv
<1>2. /\ users' = UserMngRemove(users, name)
      /\ savedUsers' = savedUsers
      /\ removed' = removed \union ({name} \intersect DOMAIN users)
  BY DEF RemoveUser
<1>3. /\ UserMngOK(users')
      /\ DOMAIN users' = DOMAIN users \ {name}
      /\ \A n \in DOMAIN users \ {name} : users'[n] = users[n]
  BY <1>1, <1>2, UserMngRemoveOK
<1>4. userReply' \in UserMngErr
  BY DEF RemoveUser, FindUserErr, UserMngErr
<1>5. /\ removed' \in SUBSET UserName
      /\ UserName \ removed' \subseteq UserName \ removed
      /\ name \in DOMAIN users => name \notin UserName \ removed'
  BY <1>1, <1>2
<1>6. \A n \in (UserName \ removed') \intersect DOMAIN users :
            n \in DOMAIN users' /\ users'[n].pass = users[n].pass
  BY <1>3, <1>5
<1>7. FileAgrees(savedUsers', users', UserName \ removed')
  BY <1>1, <1>2, <1>5, <1>6, SameFileAgrees
<1> QED
  BY <1>1, <1>2, <1>3, <1>4, <1>5, <1>7 DEF UserMngInv

(* Logging in and out, joining and leaving: the file and the accounts stay.*)
LEMMA SessionCallInv ==
    ASSUME UserMngInv, NEW name, NEW pass, NEW g,
           \/ Connect(name, pass) \/ Disconnect(name)
           \/ g \in GroupName /\ (GroupJoined(name, g) \/ GroupLeft(name, g))
    PROVE  UserMngInv'
<1>1. /\ UserMngOK(users) /\ FileOK(savedUsers)
      /\ FileAgrees(savedUsers, users, UserName \ removed)
      /\ removed \in SUBSET UserName
  BY DEF UserMngInv
<1>2. savedUsers' = savedUsers /\ removed' = removed
  BY DEF Connect, Disconnect, GroupJoined, GroupLeft
<1>3. userReply' \in UserMngErr
  BY DEF Connect, Disconnect, GroupJoined, GroupLeft, UserMngErr, FindUserErr,
         UserMngConnectErr, UserMngGroupJoinedErr, UserMngGroupLeftErr
<1>4. UserMngOK(users') /\ SameAccounts(users, users')
  BY <1>1, SessionCallOK DEF Connect, Disconnect, GroupJoined, GroupLeft
<1>5. FileAgrees(savedUsers', users', UserName \ removed')
  BY <1>1, <1>2, <1>4, SameFileAgrees DEF SameAccounts
<1> QED
  BY <1>1, <1>2, <1>3, <1>4, <1>5 DEF UserMngInv

(* A restart brings back what the file says, and nobody is connected.      *)
LEMMA RestartInv ==
    ASSUME UserMngInv, RestartUserMng
    PROVE  UserMngInv'
<1>1. FileOK(savedUsers) /\ removed \in SUBSET UserName
  BY DEF UserMngInv
<1>2. /\ users' = UserMngCreate(savedUsers)
      /\ savedUsers' = savedUsers /\ removed' = removed
      /\ userReply' \in UserMngErr
  BY DEF RestartUserMng, UserMngErr
<1>3. UserMngOK(users')
  BY <1>1, <1>2, UserMngCreateOK
<1>4. FileAgrees(savedUsers', users', UserName \ removed')
  BY <1>1, <1>2, FileAgreesWithItself
<1> QED
  BY <1>1, <1>2, <1>3, <1>4 DEF UserMngInv

(* Every step of the user manager keeps the invariant.                     *)
LEMMA UserMngStepInv == UserMngInv /\ [UserMngNext]_userVars => UserMngInv'
<1> SUFFICES ASSUME UserMngInv, [UserMngNext]_userVars
             PROVE  UserMngInv'
  OBVIOUS
<1>1. ASSUME NEW name \in UserName, NEW pass \in Password, AddUser(name, pass)
      PROVE  UserMngInv'
  BY <1>1, AddUserInv
<1>2. ASSUME NEW name \in UserName, RemoveUser(name)
      PROVE  UserMngInv'
  BY <1>2, RemoveUserInv
<1>3. ASSUME NEW name, NEW pass, NEW g,
             \/ Connect(name, pass) \/ Disconnect(name)
             \/ g \in GroupName /\ (GroupJoined(name, g) \/ GroupLeft(name, g))
      PROVE  UserMngInv'
  BY <1>3, SessionCallInv
<1>4. CASE RestartUserMng
  BY <1>4, RestartInv
<1>5. CASE UNCHANGED userVars
  BY <1>5 DEF userVars, UserMngInv
<1> QED
  BY <1>1, <1>2, <1>3, <1>4, <1>5 DEF UserMngNext

(* The invariant holds for every set of names, passwords and groups.       *)
THEOREM UserMngAlwaysInv == UserMngSpec => []UserMngInv
<1>1. UserMngInit => UserMngInv
  BY UserMngInitInv
<1>2. UserMngInv /\ [UserMngNext]_userVars => UserMngInv'
  BY UserMngStepInv
<1> QED
  BY <1>1, <1>2, PTL DEF UserMngSpec

(* Users, file and replies are well-formed after any series of calls.      *)
THEOREM UserMngTypeCorrect == UserMngSpec => []UserMngTypeOK
<1>1. UserMngInv => UserMngTypeOK
  BY DEF UserMngInv, UserMngOK, FileOK, UserMngTypeOK
<1> QED
  BY <1>1, UserMngAlwaysInv, PTL

(* Nobody is in a group without a session.                                 *)
THEOREM GroupsNeedSession == UserMngSpec => []NoGroupsWithoutSession
<1>1. UserMngInv => NoGroupsWithoutSession
  BY DEF UserMngInv, UserMngOK, NoGroupsWithoutSession
<1> QED
  BY <1>1, UserMngAlwaysInv, PTL

(* A restart at any moment brings back no account but those of users that  *)
(* were never removed, with their passwords.                               *)
THEOREM FileAlwaysMatches == UserMngSpec => []FileMatchesAccounts
<1>1. UserMngInv => FileMatchesAccounts
  BY DEF UserMngInv, FileMatchesAccounts
<1> QED
  BY <1>1, UserMngAlwaysInv, PTL

-----------------------------------------------------------------------------
(* No call and no restart takes an account out of the file or changes the  *)
(* password that is read back for it: the only write is a whole line at    *)
(* the end, and a later line of a name is not the first.                   *)
THEOREM SavedAccountsStay == UserMngSpec => SavedAccountsStable
<1> DEFINE Stable ==
        \A n \in DOMAIN ReadUsers(savedUsers) :
            /\ n \in DOMAIN ReadUsers(savedUsers')
            /\ ReadUsers(savedUsers')[n] = ReadUsers(savedUsers)[n]
<1>1. ASSUME UserMngInv, [UserMngNext]_userVars
      PROVE  Stable
  <2>1. CASE savedUsers' = savedUsers
    BY <2>1
  <2>2. ASSUME NEW name \in UserName, NEW pass \in Password, AddUser(name, pass),
               savedUsers' # savedUsers
        PROVE  Stable
    <3>1. /\ savedUsers' = WriteUser(savedUsers, name, pass)
          /\ UserFits(name, pass)
      BY <2>2 DEF AddUser, SavedAfterAdd, UserMngAddErr
    <3>2. FileOK(savedUsers)
      BY <1>1 DEF UserMngInv
    <3>3. LET old == ReadUsers(savedUsers)
              new == ReadUsers(WriteUser(savedUsers, name, pass))
          IN  /\ DOMAIN new = DOMAIN old \union {name}
              /\ \A n \in DOMAIN old : new[n] = old[n]
      BY <3>1, <3>2, WriteUserReads
    <3> QED
      BY <3>1, <3>3
  <2>3. \/ savedUsers' = savedUsers
        \/ \E name \in UserName, pass \in Password : AddUser(name, pass)
    BY <1>1 DEF UserMngNext, userVars, RemoveUser, Connect, Disconnect,
                GroupJoined, GroupLeft, RestartUserMng
  <2> QED
    BY <2>1, <2>2, <2>3
<1>2. UserMngInv /\ [UserMngNext]_userVars => [Stable]_userVars
  BY <1>1
<1> QED
  BY <1>2, UserMngAlwaysInv, PTL DEF UserMngSpec, SavedAccountsStable
=============================================================================
