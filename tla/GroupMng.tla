------------------------------- MODULE GroupMng -------------------------------
(***************************************************************************)
(* The group manager (groupMng.c) and the groups it owns (group.c).        *)
(*                                                                         *)
(* A manager hands one multicast address of a fixed pool to every open     *)
(* group, counts the seats taken in it (m_numOfUsers), and destroys the    *)
(* group when its last seat is given up.  Addresses that are not leased    *)
(* wait in a FIFO queue, m_freeAddr; a creation that fails half way puts   *)
(* the address it took back at the tail.                                   *)
(*                                                                         *)
(* The operations are operators on a manager value: GroupMngCalls makes    *)
(* one call per step, a handler of ServerApp may make two.                 *)
(***************************************************************************)
EXTENDS ChatNames, Containers, FiniteSets

CONSTANTS
    FitName,        \* names whose length GroupCreate accepts (5 to 20)
    MaxGroups       \* GROUPS_MAX: size of the address pool

ASSUME GroupMngAssumption ==
    /\ FitName \subseteq GroupName
    /\ MaxGroups \in Nat \ {0}      \* MIN_GROUP_NUM

(* The address 224.0.0.a is the number a.                                  *)
GroupAddress == 1 .. MaxGroups
NoAddress == 0

GroupMngErr == {"GROUP_MNG_SUCCESS", "GROUP_MNG_OVERFLOW",
                "GROUP_MNG_GET_ADDR_ERR", "GROUP_MNG_CREATE_ERR",
                "GROUP_MNG_ADD_ERR", "GROUP_MNG_GROUP_NOT_EXISTS",
                "GROUP_MNG_EMPTY"}

-----------------------------------------------------------------------------
(* Creation *)

CreateFreeAddrQ == [i \in 1 .. MaxGroups |-> i]

(* The fields m_groups, m_freeAddr and m_currentNumOfGroups.               *)
Manager(groups, freeAddr, num) ==
    [groups |-> groups, freeAddr |-> freeAddr, num |-> num]

GroupMngCreate == Manager(EmptyMap, CreateFreeAddrQ, 0)

(* The fields m_address and m_numOfUsers of struct Group.                  *)
GroupStruct(addr, users) == [addr |-> addr, users |-> users]

(* GroupCreate: the creator holds the first seat.                          *)
GroupCreate(addr) == GroupStruct(addr, 1)

-----------------------------------------------------------------------------
(* GroupMngAdd *)

IsOpen(mng, g) == g \in DOMAIN mng.groups

(* Its error code: the tests in the order the code makes them.             *)
GroupMngAddErr(mng, g) ==
    IF mng.num = MaxGroups       THEN "GROUP_MNG_OVERFLOW"
    ELSE IF mng.freeAddr = << >> THEN "GROUP_MNG_GET_ADDR_ERR"
    ELSE IF g \notin FitName     THEN "GROUP_MNG_CREATE_ERR"
    ELSE IF IsOpen(mng, g)       THEN "GROUP_MNG_ADD_ERR"
    ELSE "GROUP_MNG_SUCCESS"

(* Bug variant: the address of a refused group is forgotten.               *)
BugForgetAddress(mng, addr) == mng

(* Both failures after QueueRemove give the address back, to the tail.     *)
GiveBack(mng, addr) ==
    Manager(mng.groups, QueueInsert(mng.freeAddr, addr, MaxGroups), mng.num)

(* QueueRemove takes the head of a queue that is not empty.                *)
TakeAddress(mng) == Manager(mng.groups, Tail(mng.freeAddr), mng.num)

GroupMngAdd(mng, g) ==
    LET err   == GroupMngAddErr(mng, g)
        addr  == Head(mng.freeAddr)
        taken == TakeAddress(mng)
    IN  IF err \in {"GROUP_MNG_OVERFLOW", "GROUP_MNG_GET_ADDR_ERR"} THEN mng
        ELSE IF err # "GROUP_MNG_SUCCESS" THEN GiveBack(taken, addr)
        ELSE Manager(HashMapInsert(taken.groups, g, GroupCreate(addr)),
                     taken.freeAddr, taken.num + 1)

-----------------------------------------------------------------------------
(* GroupMngJoin and GroupMngLeave *)

GroupMngFindErr(mng, g) ==
    IF IsOpen(mng, g) THEN "GROUP_MNG_SUCCESS" ELSE "GROUP_MNG_GROUP_NOT_EXISTS"

(* Bug variant: a join that takes no seat.                                 *)
BugConnectUncounted(mng, g) == mng

(* The manager after m_numOfUsers of group g became n.                     *)
WithUsers(mng, g, n) ==
    Manager([mng.groups EXCEPT ![g] = GroupStruct(mng.groups[g].addr, n)],
            mng.freeAddr, mng.num)

GroupConnect(mng, g) == WithUsers(mng, g, mng.groups[g].users + 1)

GroupMngJoin(mng, g) ==
    IF IsOpen(mng, g) THEN GroupConnect(mng, g) ELSE mng

(* Bug variant: m_currentNumOfGroups is not decremented.                   *)
BugRemoveUncounted(mng, g) ==
    GiveBack(Manager(HashMapRemove(mng.groups, g), mng.freeAddr, mng.num),
             mng.groups[g].addr)

(* GroupMngRemove, for an open group.                                      *)
GroupMngRemove(mng, g) ==
    GiveBack(Manager(HashMapRemove(mng.groups, g), mng.freeAddr, mng.num - 1),
             mng.groups[g].addr)

(* GroupDisconnect, and the removal when it answers GROUP_EMPTY.           *)
GroupDisconnect(mng, g) == WithUsers(mng, g, mng.groups[g].users - 1)

(* Bug variant: GROUP_EMPTY is treated like GROUP_SUCCESS.                 *)
BugLeaveKeepsEmpty(mng, g) ==
    IF IsOpen(mng, g) THEN GroupDisconnect(mng, g) ELSE mng

GroupMngLeave(mng, g) ==
    LET left == GroupDisconnect(mng, g)
    IN  IF ~IsOpen(mng, g) THEN mng
        ELSE IF left.groups[g].users = 0 THEN GroupMngRemove(left, g)
        ELSE left

(* GroupMngGetGroupList: the names found by walking the map.               *)
GroupMngListErr(mng) ==
    IF mng.num = 0 THEN "GROUP_MNG_EMPTY" ELSE "GROUP_MNG_SUCCESS"

-----------------------------------------------------------------------------
(* Invariants.  They are stated on a manager value, for the modules that   *)
(* hold one.                                                               *)

Group == [addr : GroupAddress, users : Nat \ {0}]

Leased(mng) == {mng.groups[g].addr : g \in DOMAIN mng.groups}

GroupMngType(mng) ==
    /\ mng = Manager(mng.groups, mng.freeAddr, mng.num)
    /\ DOMAIN mng.groups \in SUBSET FitName
    /\ mng.groups \in [DOMAIN mng.groups -> Group]
    /\ mng.freeAddr \in Seq(GroupAddress)
    /\ mng.num \in 0 .. MaxGroups

(* No address is on offer twice, leased twice, or both offered and leased. *)
AddressUsedOnce(mng) ==
    /\ \A i, j \in DOMAIN mng.freeAddr :
            mng.freeAddr[i] = mng.freeAddr[j] => i = j
    /\ \A g, h \in DOMAIN mng.groups :
            mng.groups[g].addr = mng.groups[h].addr => g = h
    /\ Leased(mng) \intersect Elements(mng.freeAddr) = {}

(* Every address of the pool is somewhere.                                 *)
NoAddressLost(mng) == Leased(mng) \union Elements(mng.freeAddr) = GroupAddress

(* m_currentNumOfGroups, the size of the map and the length of the queue   *)
(* agree, so the OVERFLOW test protects QueueRemove and QueueInsert.       *)
CountsAgree(mng) ==
    /\ IsFiniteSet(DOMAIN mng.groups)
    /\ mng.num = Cardinality(DOMAIN mng.groups)
    /\ mng.num + Len(mng.freeAddr) = MaxGroups

GroupMngOK(mng) ==
    /\ GroupMngType(mng)
    /\ AddressUsedOnce(mng)
    /\ NoAddressLost(mng)
    /\ CountsAgree(mng)
=============================================================================
