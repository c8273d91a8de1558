---------------------------- MODULE ChatMembership ----------------------------
(***************************************************************************)
(* What the server promises its clients, without connections, managers or  *)
(* addresses: accounts, who is online, and one relation that says who is   *)
(* in which group.  A group is open exactly while somebody is in it.       *)
(*                                                                         *)
(* answer is the sequence of messages the last request was answered with,  *)
(* as <<message type, response>> pairs of protocol.h.                      *)
(***************************************************************************)
EXTENDS Integers, FiniteSets

CONSTANTS
    User, Pass, Group,  \* what a request may name
    Fits(_, _),         \* the account may be created
    Fit,                \* group names of a length that is accepted
    MaxOpen             \* groups that can be open at a time

VARIABLES
    accounts,   \* name -> password
    online,     \* names with a session
    members,    \* pairs <<name, group>>
    answer

chatVars == <<accounts, online, members, answer>>

Opened == {m[2] : m \in members}

Answers(type, response) == answer' = <<<<type, response>>>>

ChatInit ==
    /\ DOMAIN accounts = {}
    /\ online = {}
    /\ members = {}
    /\ answer = << >>

Register(n, p) ==
    /\ Fits(n, p) /\ n \notin DOMAIN accounts
    /\ accounts' = [m \in DOMAIN accounts \union {n} |->
                        IF m = n THEN p ELSE accounts[m]]
    /\ Answers("REG_REC", "USER_CREATED")
    /\ UNCHANGED <<online, members>>

Login(n, p) ==
    /\ n \in DOMAIN accounts \ online /\ accounts[n] = p
    /\ online' = online \union {n}
    /\ Answers("LOGIN_REC", "USER_CONNECTED")
    /\ UNCHANGED <<accounts, members>>

(* A user leaves all groups at once, and whoever asks for it: the same     *)
(* name may be on several connections.                                     *)
Logout(n) ==
    /\ n \in DOMAIN accounts
    /\ online' = online \ {n}
    /\ members' = {m \in members : m[1] # n}
    /\ Answers("LOGOUT_REC", "USER_DISCONNECTED")
    /\ UNCHANGED accounts

Create(n, g) ==
    /\ n \in online
    /\ g \in Fit \ Opened /\ Cardinality(Opened) < MaxOpen
    /\ members' = members \union {<<n, g>>}
    /\ Answers("GROUP_CREATE_REC", "GROUP_CREATED")
    /\ UNCHANGED <<accounts, online>>

Enter(n, g) ==
    /\ n \in online
    /\ g \in Opened /\ <<n, g>> \notin members
    /\ members' = members \union {<<n, g>>}
    /\ Answers("GROUP_CREATE_REC", "GROUP_JOINED")
    /\ UNCHANGED <<accounts, online>>

Quit(n, g) ==
    /\ <<n, g>> \in members
    /\ members' = members \ {<<n, g>>}
    /\ Answers("GROUP_LEAVE_REC", "GROUP_LEFT")
    /\ UNCHANGED <<accounts, online>>

-----------------------------------------------------------------------------
(* Refusals, each with its reason; and what is only looked up              *)

RefuseRegister(n, p) ==
    \/ ~Fits(n, p) /\ Answers("REG_REC", "GEN_ERROR")
    \/ n \in DOMAIN accounts /\ Answers("REG_REC", "USER_EXISTS")

RefuseLogin(n, p) ==
    \/ n \notin DOMAIN accounts /\ Answers("LOGIN_REC", "USER_NOT_FOUND")
    \/ /\ n \in DOMAIN accounts
       /\ \/ accounts[n] # p /\ Answers("LOGIN_REC", "PASS_INCORRECT")
          \/ /\ accounts[n] = p /\ n \in online
             /\ Answers("LOGIN_REC", "USER_ALREADY_CONNECTED")

RefuseLogout(n) ==
    n \notin DOMAIN accounts /\ Answers("LOGOUT_REC", "GEN_ERROR")

RefuseCreate(n, g) ==
    \/ /\ g \notin Fit \/ g \in Opened \/ Cardinality(Opened) = MaxOpen
       /\ Answers("GROUP_CREATE_REC", "GROUP_CREATE_FAIL")
    \/ n \notin online /\ Answers("GROUP_JOIN_REC", "GEN_ERROR")

RefuseEnter(n, g) ==
    \/ <<n, g>> \in members /\ Answers("GROUP_JOIN_REC", "GROUP_USER_CONNECTED")
    \/ /\ g \notin Opened \/ n \notin online
       /\ Answers("GROUP_JOIN_REC", "GEN_ERROR")

RefuseQuit(n, g) ==
    <<n, g>> \notin members /\ Answers("GROUP_LEAVE_REC", "GEN_ERROR")

(* The empty list is answered twice.                                       *)
List ==
    IF Opened = {}
    THEN answer' = <<<<"GROUP_LIST_REC", "GROUP_LIST_EMPTY">>,
                     <<"GROUP_LIST_REC", "GROUP_LIST_FAIL">>>>
    ELSE Answers("GROUP_LIST_REC", Opened)

(* A message of no request type, and events no client is told of.          *)
Unknown == Answers("MSG_TYPE_ERR", "GEN_ERROR")
Quiet == answer' = << >>

Refused ==
    /\ \/ \E n \in User : \/ \E p \in Pass : RefuseRegister(n, p) \/ RefuseLogin(n, p)
                          \/ RefuseLogout(n)
                          \/ \E g \in Group : \/ RefuseCreate(n, g)
                                              \/ RefuseEnter(n, g)
                                              \/ RefuseQuit(n, g)
       \/ List \/ Unknown \/ Quiet
    /\ UNCHANGED <<accounts, online, members>>

(* The server ends and starts again: nobody is online, no group is open,   *)
(* and only accounts that reached the disk are left.                       *)
StartOver ==
    /\ \E kept \in SUBSET DOMAIN accounts :
            accounts' = [n \in kept |-> accounts[n]]
    /\ online' = {}
    /\ members' = {}
    /\ Quiet

ChatNext ==
    \/ \E n \in User : \/ \E p \in Pass : Register(n, p) \/ Login(n, p)
                       \/ Logout(n)
                       \/ \E g \in Group : Create(n, g) \/ Enter(n, g) \/ Quit(n, g)
    \/ Refused
    \/ StartOver

ChatSpec == ChatInit /\ [][ChatNext]_chatVars
=============================================================================
