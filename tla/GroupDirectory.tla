---------------------------- MODULE GroupDirectory ----------------------------
(***************************************************************************)
(* What the group manager promises its caller (groupMng.h), without the    *)
(* queue, the counter and the hash map: a directory of open groups, each   *)
(* with an address of its own and a number of seats.  An address comes     *)
(* from anywhere among those no open group holds; a request is refused     *)
(* only for a reason the caller could check; a group is there while a seat *)
(* in it is taken, or until it is removed.                                 *)
(***************************************************************************)
EXTENDS Integers

CONSTANTS Name, Fit, Addr, None

VARIABLES
    lease,      \* open group -> its address
    seats,      \* open group -> seats taken
    reply       \* the last answer

dirVars == <<lease, seats, reply>>

Used == {lease[g] : g \in DOMAIN lease}

Extended(f, g, v) == [h \in DOMAIN f \union {g} |-> IF h = g THEN v ELSE f[h]]
Without(f, g) == [h \in DOMAIN f \ {g} |-> f[h]]

DirInit ==
    /\ DOMAIN lease = {}
    /\ DOMAIN seats = {}
    /\ reply = [err |-> "GROUP_MNG_SUCCESS", addr |-> None]

Open(g) ==
    /\ g \in Fit \ DOMAIN lease
    /\ \E a \in Addr \ Used :
        /\ lease' = Extended(lease, g, a)
        /\ seats' = Extended(seats, g, 1)
        /\ reply' = [err |-> "GROUP_MNG_SUCCESS", addr |-> a]

(* Each refusal has the reason its code names.                             *)
RefuseOpen(g) ==
    /\ \/ /\ Used = Addr
          /\ reply' = [err |-> "GROUP_MNG_OVERFLOW", addr |-> None]
       \/ /\ g \notin Fit
          /\ reply' = [err |-> "GROUP_MNG_CREATE_ERR", addr |-> None]
       \/ /\ g \in DOMAIN lease
          /\ reply' = [err |-> "GROUP_MNG_ADD_ERR", addr |-> None]
    /\ UNCHANGED <<lease, seats>>

TakeSeat(g) ==
    /\ g \in DOMAIN lease
    /\ seats' = [seats EXCEPT ![g] = @ + 1]
    /\ reply' = [err |-> "GROUP_MNG_SUCCESS", addr |-> lease[g]]
    /\ UNCHANGED lease

LeaveSeat(g) ==
    /\ g \in DOMAIN lease
    /\ IF seats[g] = 1
       THEN lease' = Without(lease, g) /\ seats' = Without(seats, g)
       ELSE lease' = lease /\ seats' = [seats EXCEPT ![g] = @ - 1]
    /\ reply' = [err |-> "GROUP_MNG_SUCCESS", addr |-> None]

(* Its seats go with it.                                                   *)
Close(g) ==
    /\ g \in DOMAIN lease
    /\ lease' = Without(lease, g) /\ seats' = Without(seats, g)
    /\ reply' = [err |-> "GROUP_MNG_SUCCESS", addr |-> None]

NoSuchGroup(g) ==
    /\ g \notin DOMAIN lease
    /\ reply' = [err |-> "GROUP_MNG_GROUP_NOT_EXISTS", addr |-> None]
    /\ UNCHANGED <<lease, seats>>

List ==
    /\ reply' = [err  |-> IF DOMAIN lease = {} THEN "GROUP_MNG_EMPTY"
                          ELSE "GROUP_MNG_SUCCESS",
                 addr |-> None]
    /\ UNCHANGED <<lease, seats>>

DirNext ==
    \/ \E g \in Name : \/ Open(g)     \/ RefuseOpen(g)
                       \/ TakeSeat(g) \/ LeaveSeat(g)
                       \/ Close(g)    \/ NoSuchGroup(g)
    \/ List

DirSpec == DirInit /\ [][DirNext]_dirVars
=============================================================================
