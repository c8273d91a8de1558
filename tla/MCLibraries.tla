------------------------------ MODULE MCLibraries ------------------------------
(***************************************************************************)
(* The three parts that call no other, each on its own: a behaviour is any *)
(* series of calls of one of them, and the other two stay as they began.   *)
(*                                                                         *)
(* Groups: three addresses for four fit names, so the pool runs dry while  *)
(* a fit name is still free, and the queue goes around more than once.     *)
(* Users: a file of a few lines, enough for a name to be written twice     *)
(* around a removal with another's line in between.                        *)
(* List: the nodes, elements and iterators of MCDoubleLL.                  *)
(***************************************************************************)
EXTENDS GroupMngCalls, UserMngCalls, MCDoubleLL

CONSTANTS
    MaxSeats,       \* bound: seats TLC lets a group collect
    MaxLines,       \* bound: lines TLC lets the file have
    ListedGroup     \* bound: groups TLC lets the user manager be told of

VARIABLE
    called          \* the part that is called

(* The bound, in the guard of the only call that adds a seat.              *)
BoundedJoin(g) ==
    /\ IsOpen(groupMng, g) => groupMng.groups[g].users < MaxSeats
    /\ Join(g)

BoundedAddUser(name, pass) ==
    /\ Len(savedUsers) < 2 * MaxLines
    /\ AddUser(name, pass)

CallGroups ==
    /\ called = "groups"
    /\ \/ \E g \in GroupName : Add(g) \/ BoundedJoin(g) \/ Leave(g) \/ GroupRemove(g)
       \/ GetGroupList
    /\ UNCHANGED <<called, userVars, doubleVars>>

CallUsers ==
    /\ called = "users"
    /\ \/ \E name \in UserName :
            \/ \E pass \in Password : BoundedAddUser(name, pass) \/ Connect(name, pass)
            \/ RemoveUser(name) \/ Disconnect(name)
            \/ \E g \in ListedGroup : GroupJoined(name, g) \/ GroupLeft(name, g)
       \/ RestartUserMng
    /\ UNCHANGED <<called, groupVars, doubleVars>>

CallList ==
    /\ called = "list"
    /\ DoubleLLNext
    /\ UNCHANGED <<called, groupVars, userVars>>

MCInit ==
    /\ GroupMngInit /\ UserMngInit /\ DoubleLLInit
    /\ called \in {"groups", "users", "list"}

MCNext == CallGroups \/ CallUsers \/ CallList

MCSpec == MCInit /\ [][MCNext]_<<called, groupVars, userVars, doubleVars>>
=============================================================================
