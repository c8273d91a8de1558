---------------------------- MODULE GroupMngCalls ----------------------------
(***************************************************************************)
(* The group manager on its own: any caller may make any call of           *)
(* groupMng.h, in any order and however often.                             *)
(***************************************************************************)
EXTENDS GroupMng

VARIABLES
    groupMng,       \* struct GroupMng
    groupReply      \* what the last call returned, with the address it gave out

groupVars == <<groupMng, groupReply>>

GroupMngInit ==
    /\ groupMng = GroupMngCreate
    /\ groupReply = [err |-> "GROUP_MNG_SUCCESS", addr |-> NoAddress]

Add(g) ==
    LET err == GroupMngAddErr(groupMng, g)
    IN  /\ groupMng' = GroupMngAdd(groupMng, g)
        /\ groupReply' = [err  |-> err,
                          addr |-> IF err = "GROUP_MNG_SUCCESS"
                                   THEN groupMng'.groups[g].addr
                                   ELSE NoAddress]

Join(g) ==
    /\ groupMng' = GroupMngJoin(groupMng, g)
    /\ groupReply' = [err  |-> GroupMngFindErr(groupMng, g),
                      addr |-> IF IsOpen(groupMng, g)
                               THEN groupMng.groups[g].addr
                               ELSE NoAddress]

Leave(g) ==
    /\ groupMng' = GroupMngLeave(groupMng, g)
    /\ groupReply' = [err |-> GroupMngFindErr(groupMng, g), addr |-> NoAddress]

(* However many seats are taken in it.                                     *)
GroupRemove(g) ==
    /\ groupMng' = IF IsOpen(groupMng, g) THEN GroupMngRemove(groupMng, g) ELSE groupMng
    /\ groupReply' = [err |-> GroupMngFindErr(groupMng, g), addr |-> NoAddress]

GetGroupList ==
    /\ groupReply' = [err |-> GroupMngListErr(groupMng), addr |-> NoAddress]
    /\ UNCHANGED groupMng

GroupMngNext ==
    \/ \E g \in GroupName : Add(g) \/ Join(g) \/ Leave(g) \/ GroupRemove(g)
    \/ GetGroupList

GroupMngSpec == GroupMngInit /\ [][GroupMngNext]_groupVars

-----------------------------------------------------------------------------
(* Properties *)

(* Type invariant: the manager is a well-formed struct GroupMng and a      *)
(* reply is a code of GROUP_MNG_ERR with an address or none.               *)
GroupMngTypeOK ==
    /\ GroupMngType(groupMng)
    /\ groupReply \in [err : GroupMngErr, addr : GroupAddress \union {NoAddress}]

(* Whatever calls fail half way, the pool of CreateFreeAddrQ is split      *)
(* between open groups and the free queue: no address is shared by two     *)
(* groups, offered while leased, or lost by a rollback of GroupMngAdd.     *)
AddressPoolIntact ==
    /\ AddressUsedOnce(groupMng)
    /\ NoAddressLost(groupMng)

(* m_currentNumOfGroups tells how many addresses are out, so GroupMngAdd   *)
(* answers GROUP_MNG_GET_ADDR_ERR never: OVERFLOW comes first.             *)
CounterGuardsQueue ==
    /\ CountsAgree(groupMng)
    /\ groupReply.err # "GROUP_MNG_GET_ADDR_ERR"

-----------------------------------------------------------------------------
(* GroupMng implements GroupDirectory: leases and seats are read off the   *)
(* map, and the FIFO queue becomes "some address no open group holds".     *)
Leases == [g \in DOMAIN groupMng.groups |-> groupMng.groups[g].addr]
Seats  == [g \in DOMAIN groupMng.groups |-> groupMng.groups[g].users]

Directory == INSTANCE GroupDirectory WITH
    Name  <- GroupName, Fit   <- FitName, Addr  <- GroupAddress, None <- NoAddress,
    lease <- Leases,    seats <- Seats,   reply <- groupReply

(* The promise of groupMng.h: every call of GroupMngAdd, Join, Leave,      *)
(* Remove and GetGroupList does and answers what the directory of open     *)
(* groups allows.                                                          *)
ImplementsDirectory == Directory!DirSpec
=============================================================================
