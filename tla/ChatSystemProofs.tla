--------------------------- MODULE ChatSystemProofs ---------------------------
(***************************************************************************)
(* What users may rely on, for any number of client programs: the answers  *)
(* a program acts on are the answers to what it asked, and the session and *)
(* the groups it believes in are those the server knows.                   *)
(***************************************************************************)
EXTENDS ChatSystem, ServerAppProofs

-----------------------------------------------------------------------------
(* One client: its program, its connection, and whether the server is at   *)
(* its logout                                                              *)

LogoutReq == <<"LOGOUT_REQ">>

(* The requests of the start menu, and those for a group to be in.         *)
Entering == {"REG_REQ", "LOGIN_REQ"}
Seating == {"GROUP_CREATE_REQ", "GROUP_JOIN_REQ"}

Response ==
    {"GEN_ERROR", "USER_CREATED", "USER_EXISTS", "USER_NOT_FOUND", "PASS_INCORRECT",
     "USER_ALREADY_CONNECTED", "USER_CONNECTED", "USER_DISCONNECTED", "GROUP_CREATED",
     "GROUP_CREATE_FAIL", "GROUP_JOINED", "GROUP_USER_CONNECTED", "GROUP_LEFT",
     "GROUP_LIST_SUCCESS", "GROUP_LIST_EMPTY", "GROUP_LIST_FAIL"}

AnswerSet == [response : Response, addr : GroupAddress \union {NoAddress}]

ProgramSet ==
    [at : {"off", "start", "menu", "join", "wait", "gone", "crashed"},
     name : UserName \union {<< >>}, asked : Request \union {<< >>},
     groups : Seq(GroupName), numOfGroups : 0 .. MaxJoins, doubled : BOOLEAN]

WireSet == [requests : Seq(Request), answers : Seq(AnswerSet)]

(* Running and UnderWay, for a client that is given by its values.         *)
IsRunning(program) == program.at \notin {"off", "gone", "crashed"}

Pending(w, called) ==
    Len(w.requests) + Len(w.answers) + (IF called THEN 1 ELSE 0)

(* A program waits for an answer or has asked nothing; it is past the start*)
(* menu once it has a name; only there is it answered twice.               *)
Position(program) ==
    /\ program.at = "wait" <=> program.asked # << >>
    /\ program.at = "start" => program.name = << >>
    /\ program.at \in {"menu", "join"} => program.name # << >>
    /\ program.at = "wait" => (program.asked[1] \in Entering <=> program.name = << >>)
    /\ IsRunning(program) /\ program.name = << >> => ~program.doubled

(* The room for the group that is asked for is there.                      *)
Room(program) ==
    /\ Len(program.groups) <= program.numOfGroups
    /\ program.at = "wait" /\ program.asked[1] \in Seating => program.numOfGroups < MaxJoins

(* NeverWaitsInVain and AnswersInStep, and nothing before a connection.    *)
InStep(program, w, called) ==
    /\ program.at = "wait" => Pending(w, called) > 0
    /\ IsRunning(program) /\ ~program.doubled
            => Pending(w, called) = IF program.at = "wait" THEN 1 ELSE 0
    /\ program.at = "off" => Pending(w, called) = 0

(* What may be on the way to the server, of a program that runs or has     *)
(* ended: a request of the start menu is alone there, a logout is the last *)
(* there will ever be.                                                     *)
OnTheWay(program, w, called) ==
    /\ \A i \in 1 .. Len(w.requests) :
        LET request == w.requests[i]
        IN  /\ IsRunning(program) /\ ~program.doubled => request = program.asked
            /\ IsRunning(program) =>
                    (request[1] \in Entering <=> program.name = << >>)
            /\ request[1] \in Entering => Len(w.requests) = 1
            /\ request = LogoutReq =>
                    /\ i = Len(w.requests)
                    /\ IsRunning(program) => program.asked = LogoutReq
    /\ called =>
        /\ w.requests = << >>
        /\ IsRunning(program) => program.asked = LogoutReq

ClientOK(program, w, called) ==
    /\ program \in ProgramSet /\ w \in WireSet /\ called \in BOOLEAN
    /\ Position(program)
    /\ Room(program)
    /\ InStep(program, w, called)
    /\ OnTheWay(program, w, called)

(* The program is past the start menu, and has not asked to leave.         *)
Inside(program) ==
    IsRunning(program) /\ program.name # << >> /\ program.asked # LogoutReq

(* It has been told that it is connected, or has a group, and not yet      *)
(* looked.                                                                 *)
ToldConnected(program, w) ==
    /\ program.at = "wait" /\ program.asked[1] = "LOGIN_REQ"
    /\ w.answers # << >> /\ Head(w.answers).response \in Good

ToldOfGroup(program, w) ==
    /\ program.at = "wait" /\ ~program.doubled /\ program.asked[1] \in Seating
    /\ w.answers # << >> /\ Head(w.answers).response = Expected[program.asked[1]]

(* The connection has a session: of a program that is inside, or will be,  *)
(* or has ended with requests on the way.                                  *)
InSession(program, w, called) ==
    \/ Inside(program) \/ ToldConnected(program, w) \/ called
    \/ \E i \in 1 .. Len(w.requests) : w.requests[i][1] \notin Entering

-----------------------------------------------------------------------------
(* The inductive invariant *)

(* The loop the server is in, and for whom.                                *)
LoopCaller ==
    IF doing.loop = "logout"
    THEN caller \in ClientID /\ doing.name = NameOf(caller)
    ELSE caller = NoClient

SessionOf(p) == InSession(programs[p], wire[p], caller = p)

(* A session is the one of the name the server keeps for the connection,   *)
(* who is active, and nobody else has it.                                  *)
Sessions ==
    /\ \A p \in ClientID :
        /\ IsRunning(programs[p]) \/ wire[p].requests # << >> \/ caller = p => p \in Live
        /\ SessionOf(p) => NameOf(p) \in DOMAIN users /\ users[NameOf(p)].active
        /\ Inside(programs[p]) => NameOf(p) = programs[p].name
        /\ ToldConnected(programs[p], wire[p]) => NameOf(p) = programs[p].asked[2]
    /\ \A p, q \in ClientID :
        SessionOf(p) /\ SessionOf(q) /\ NameOf(p) = NameOf(q) => p = q

(* What a program has been told of a group is still so when it looks.      *)
Place(p) ==
    ToldOfGroup(programs[p], wire[p]) /\ doing.loop # "close" =>
        LET g == programs[p].asked[2]
        IN  /\ g \in users[programs[p].name].groups
            /\ IsOpen(groupMng, g)
            /\ groupMng.groups[g].addr = Head(wire[p].answers).addr

ProgramsOK == \A p \in ClientID : ClientOK(programs[p], wire[p], caller = p)

ChatSystemInv ==
    /\ ServerAppInv
    /\ programs \in [ClientID -> ProgramSet] /\ wire \in [ClientID -> WireSet]
    /\ ProgramsOK
    /\ LoopCaller
    /\ Sessions
    /\ \A p \in ClientID : Place(p)

-----------------------------------------------------------------------------
(* Requests *)

(* What the fields of a request are, by its type.                          *)
LEMMA RequestShape ==
    ASSUME NEW request \in Request
    PROVE  /\ request # << >>
           /\ request[1] \in Entering => request[2] \in UserName /\ request[3] \in Password
           /\ request[1] \in Seating \union {"GROUP_LEAVE_REQ"} => request[2] \in GroupName
           /\ request[1] = "LOGOUT_REQ" <=> request = LogoutReq
           /\ request[1] \in Entering \union Seating
                \union {"GROUP_LEAVE_REQ", "GROUP_LIST_REQ", "LOGOUT_REQ"}
<1>1. CASE request \in {"REG_REQ", "LOGIN_REQ"} \X UserName \X Password
  BY <1>1 DEF Entering, Seating, LogoutReq
<1>2. CASE request \in {"GROUP_CREATE_REQ", "GROUP_JOIN_REQ", "GROUP_LEAVE_REQ"} \X GroupName
  BY <1>2 DEF Entering, Seating, LogoutReq
<1>3. CASE request \in {<<"GROUP_LIST_REQ">>, <<"LOGOUT_REQ">>}
  BY <1>3 DEF Entering, Seating, LogoutReq
<1> QED
  BY <1>1, <1>2, <1>3 DEF Request

-----------------------------------------------------------------------------
(* What the handlers do to sessions, addresses and lists *)

(* Every active user stays active, and if it is not n stays as it is.      *)
UsersKept(old, new, n) ==
    \A m \in DOMAIN old :
        /\ m \in DOMAIN new
        /\ old[m].active => new[m].active /\ (m # n => new[m] = old[m])

(* Groups that are there before and after have kept their address.         *)
AddressesKept(old, new) ==
    \A g \in DOMAIN old.groups :
        g \in DOMAIN new.groups => new.groups[g].addr = old.groups[g].addr

(* Opening a group moves no other.                                         *)
LEMMA AddKeepsAddresses ==
    ASSUME NEW mng, NEW g
    PROVE  /\ AddressesKept(mng, GroupMngAdd(mng, g))
           /\ DOMAIN mng.groups \subseteq DOMAIN GroupMngAdd(mng, g).groups
           /\ GroupMngAddErr(mng, g) = "GROUP_MNG_SUCCESS" =>
                IsOpen(GroupMngAdd(mng, g), g)
<1> DEFINE new == GroupMngAdd(mng, g)
<1>1. CASE GroupMngAddErr(mng, g) = "GROUP_MNG_SUCCESS"
  <2>1. new.groups = HashMapInsert(mng.groups, g, GroupCreate(Head(mng.freeAddr)))
    BY <1>1 DEF GroupMngAdd, TakeAddress, Manager
  <2> HIDE DEF new
  <2>2. /\ DOMAIN new.groups = DOMAIN mng.groups \union {g}
        /\ \A h \in DOMAIN mng.groups : new.groups[h] = mng.groups[h]
    BY <2>1 DEF HashMapInsert
  <2> QED
    BY <2>2 DEF AddressesKept, IsOpen, new
<1>2. CASE GroupMngAddErr(mng, g) # "GROUP_MNG_SUCCESS"
  <2>1. new.groups = mng.groups
    BY <1>2 DEF GroupMngAdd, GiveBack, TakeAddress, Manager
  <2> QED
    BY <1>2, <2>1 DEF AddressesKept
<1> QED
  BY <1>1, <1>2

(* Counting seats moves no group.                                          *)
LEMMA WithUsersKeepsAddresses ==
    ASSUME NEW mng, NEW g \in DOMAIN mng.groups, NEW n
    PROVE  LET new == WithUsers(mng, g, n)
           IN  /\ DOMAIN new.groups = DOMAIN mng.groups
               /\ AddressesKept(mng, new)
<1> DEFINE new == WithUsers(mng, g, n)
<1>1. new.groups = [mng.groups EXCEPT ![g] = GroupStruct(mng.groups[g].addr, n)]
  BY DEF WithUsers, Manager
<1> HIDE DEF new
<1>2. DOMAIN new.groups = DOMAIN mng.groups
  BY <1>1
<1>3. ASSUME NEW h \in DOMAIN mng.groups
      PROVE  new.groups[h].addr = mng.groups[h].addr
  <2>1. CASE h = g
    <3>1. new.groups[h] = GroupStruct(mng.groups[g].addr, n)
      BY <1>1, <2>1
    <3> QED
      BY <2>1, <3>1 DEF GroupStruct
  <2>2. CASE h # g
    BY <1>1, <2>2
  <2> QED
    BY <2>1, <2>2
<1> QED
  BY <1>2, <1>3 DEF AddressesKept, new

(* Nor does a join.                                                        *)
LEMMA JoinKeepsAddresses ==
    ASSUME NEW mng, NEW g
    PROVE  /\ AddressesKept(mng, GroupMngJoin(mng, g))
           /\ DOMAIN GroupMngJoin(mng, g).groups = DOMAIN mng.groups
<1>1. CASE IsOpen(mng, g)
  BY <1>1, WithUsersKeepsAddresses DEF GroupMngJoin, GroupConnect, IsOpen
<1>2. CASE ~IsOpen(mng, g)
  BY <1>2 DEF GroupMngJoin, AddressesKept
<1> QED
  BY <1>1, <1>2

(* Leaving may close the group, and moves no other.                        *)
LEMMA LeaveKeepsAddresses ==
    ASSUME NEW mng, NEW g
    PROVE  /\ AddressesKept(mng, GroupMngLeave(mng, g))
           /\ DOMAIN GroupMngLeave(mng, g).groups \subseteq DOMAIN mng.groups
<1> DEFINE left == GroupDisconnect(mng, g)
           new  == GroupMngLeave(mng, g)
<1>1. CASE ~IsOpen(mng, g)
  BY <1>1 DEF GroupMngLeave, AddressesKept
<1>2. CASE IsOpen(mng, g)
  <2>1. DOMAIN left.groups = DOMAIN mng.groups /\ AddressesKept(mng, left)
    BY <1>2, WithUsersKeepsAddresses DEF GroupDisconnect, IsOpen
  <2>2. new = left \/ new = GroupMngRemove(left, g)
    BY <1>2 DEF GroupMngLeave
  <2> HIDE DEF left, new
  <2>3. CASE new = GroupMngRemove(left, g)
    <3>1. new.groups = HashMapRemove(left.groups, g)
      BY <2>3 DEF GroupMngRemove, GiveBack, Manager
    <3>2. /\ DOMAIN new.groups = DOMAIN left.groups \ {g}
          /\ \A h \in DOMAIN new.groups : new.groups[h] = left.groups[h]
      BY <3>1 DEF HashMapRemove
    <3> QED
      BY <2>1, <3>2 DEF AddressesKept, new
  <2> QED
    BY <2>1, <2>2, <2>3 DEF new
<1> QED
  BY <1>1, <1>2

-----------------------------------------------------------------------------
(* One client: what its values say *)

(* The two sequences of a connection are sequences.                        *)
LEMMA WireFacts ==
    ASSUME NEW w \in WireSet
    PROVE  /\ w.requests \in Seq(Request) /\ w.answers \in Seq(AnswerSet)
           /\ Len(w.requests) \in Nat /\ Len(w.answers) \in Nat
           /\ w.requests = << >> <=> Len(w.requests) = 0
           /\ w.answers = << >> <=> Len(w.answers) = 0
           /\ \A i \in 1 .. Len(w.requests) : w.requests[i] \in Request
           /\ \A i \in 1 .. Len(w.answers) : w.answers[i] \in AnswerSet
           /\ w.requests # << >> => Head(w.requests) = w.requests[1]
           /\ w.answers # << >> => Head(w.answers) = w.answers[1]
<1>1. w.requests \in Seq(Request) /\ w.answers \in Seq(AnswerSet)
  BY DEF WireSet
<1> QED
  BY <1>1, LenProperties, EmptySeq, ElementOfSeq

(* A small number of messages is in one of few places.                     *)
LEMMA PendingFacts ==
    ASSUME NEW w \in WireSet, NEW called \in BOOLEAN
    PROVE  /\ Pending(w, called) \in Nat
           /\ Pending(w, called) = 0 <=>
                w.requests = << >> /\ w.answers = << >> /\ ~called
           /\ Pending(w, called) = 1 <=>
                \/ Len(w.requests) = 1 /\ w.answers = << >> /\ ~called
                \/ w.requests = << >> /\ Len(w.answers) = 1 /\ ~called
                \/ w.requests = << >> /\ w.answers = << >> /\ called
<1> DEFINE r == Len(w.requests)
           a == Len(w.answers)
           c == IF called THEN 1 ELSE 0
           n == Pending(w, called)
<1>1. /\ r \in Nat /\ a \in Nat /\ c \in 0 .. 1 /\ n = r + a + c
      /\ w.requests = << >> <=> r = 0
      /\ w.answers = << >> <=> a = 0
      /\ called <=> c = 1
  BY WireFacts DEF Pending
<1> HIDE DEF r, a, c, n
<1>2. /\ n \in Nat
      /\ n = 0 <=> r = 0 /\ a = 0 /\ c # 1
      /\ n = 1 <=>
            \/ r = 1 /\ a = 0 /\ c # 1
            \/ r = 0 /\ a = 1 /\ c # 1
            \/ r = 0 /\ a = 0 /\ c = 1
  BY <1>1
<1>3. /\ n \in Nat
      /\ n = 0 <=> w.requests = << >> /\ w.answers = << >> /\ ~called
      /\ n = 1 <=>
            \/ r = 1 /\ w.answers = << >> /\ ~called
            \/ w.requests = << >> /\ a = 1 /\ ~called
            \/ w.requests = << >> /\ w.answers = << >> /\ called
  BY <1>1, <1>2
<1> QED
  BY <1>3 DEF r, a, n

(* A program in a menu has nothing under way, unless it was answered twice;*)
(* a program that waits has one message under way, unless it was.          *)
LEMMA ClientFacts ==
    ASSUME NEW program, NEW w, NEW called, ClientOK(program, w, called)
    PROVE  /\ program.at \in {"start", "menu", "join"} =>
                /\ program.asked = << >> /\ ~called
                /\ ~program.doubled => w.requests = << >> /\ w.answers = << >>
                /\ \A i \in 1 .. Len(w.requests) : w.requests[i] # LogoutReq
           /\ program.at = "wait" /\ ~program.doubled =>
                \/ Len(w.requests) = 1 /\ w.answers = << >> /\ ~called
                \/ w.requests = << >> /\ Len(w.answers) = 1 /\ ~called
                \/ w.requests = << >> /\ w.answers = << >> /\ called
           /\ IsRunning(program) /\ program.name = << >> => ~program.doubled
           /\ program.at = "start" => ~program.doubled
           /\ IsRunning(program) => program.at \in {"start", "menu", "join", "wait"}
           /\ program.at = "wait" => program.asked \in Request /\ program.asked # << >>
           /\ program.at \in {"start", "menu", "join", "wait"} => IsRunning(program)
<1>1. /\ program \in ProgramSet /\ w \in WireSet /\ called \in BOOLEAN
      /\ Position(program) /\ InStep(program, w, called) /\ OnTheWay(program, w, called)
  BY DEF ClientOK
<1>2. /\ program.at \in {"off", "start", "menu", "join", "wait", "gone", "crashed"}
      /\ program.asked \in Request \union {<< >>}
  BY <1>1 DEF ProgramSet
<1>3. /\ program.at \in {"start", "menu", "join", "wait"} <=> IsRunning(program)
      /\ IsRunning(program) /\ program.name = << >> => ~program.doubled
      /\ program.at = "start" => ~program.doubled
      /\ program.at = "wait" <=> program.asked # << >>
  BY <1>1, <1>2 DEF IsRunning, Position
<1>4. LogoutReq # << >>
  BY DEF LogoutReq
<1>5. ASSUME program.at \in {"start", "menu", "join"}
      PROVE  /\ program.asked = << >> /\ ~called
             /\ ~program.doubled => w.requests = << >> /\ w.answers = << >>
             /\ \A i \in 1 .. Len(w.requests) : w.requests[i] # LogoutReq
  <2>1. program.asked = << >> /\ IsRunning(program)
    BY <1>3, <1>5
  <2>2. ~called /\ \A i \in 1 .. Len(w.requests) : w.requests[i] # LogoutReq
    BY <1>1, <1>4, <2>1 DEF OnTheWay
  <2>3. ~program.doubled => Pending(w, called) = 0
    BY <1>1, <1>5, <2>1 DEF InStep
  <2> QED
    BY <1>1, <2>1, <2>2, <2>3, PendingFacts
<1>6. ASSUME program.at = "wait", ~program.doubled
      PROVE  Pending(w, called) = 1
  BY <1>1, <1>3, <1>6 DEF InStep
<1> QED
  BY <1>1, <1>2, <1>3, <1>5, <1>6, PendingFacts

-----------------------------------------------------------------------------
(* One client: its steps *)

(* sendMsg: only a menu sends, so the request is the only message on the   *)
(* way unless an answer was doubled, and no session begins with it.        *)
LEMMA SentOK ==
    ASSUME NEW old, NEW w, NEW called, ClientOK(old, w, called),
           NEW request \in Request, NEW new \in ProgramSet, NEW w1 \in WireSet,
           old.at \in {"start", "menu", "join"},
           old.at = "start" <=> request[1] \in Entering,
           new.at = "wait", new.asked = request,
           new.name = old.name, new.doubled = old.doubled,
           Room(new),
           w1.requests = Append(w.requests, request), w1.answers = w.answers
    PROVE  /\ ClientOK(new, w1, called)
           /\ InSession(new, w1, called) => InSession(old, w, called)
           /\ Inside(new) => Inside(old)
           /\ ~ToldConnected(new, w1) /\ ~ToldOfGroup(new, w1)
<1> DEFINE n == Len(w.requests)
<1>1. /\ old \in ProgramSet /\ w \in WireSet /\ called \in BOOLEAN
      /\ Position(old) /\ OnTheWay(old, w, called)
  BY DEF ClientOK
<1>2. /\ old.asked = << >> /\ ~called /\ IsRunning(old) /\ IsRunning(new)
      /\ ~old.doubled => w.requests = << >> /\ w.answers = << >>
      /\ \A i \in 1 .. n : w.requests[i] # LogoutReq
      /\ old.name = << >> => ~old.doubled
  BY ClientFacts DEF IsRunning
<1>3. /\ n \in Nat /\ Len(w1.requests) = n + 1
      /\ \A i \in 1 .. n : w1.requests[i] = w.requests[i]
      /\ w1.requests[n + 1] = request
      /\ w1.requests # << >>
      /\ w.requests = << >> <=> n = 0
      /\ \A i \in 1 .. n : w.requests[i] \in Request
  BY <1>1, WireFacts, AppendProperties
<1>4. /\ request # << >> /\ LogoutReq # << >>
      /\ old.at = "start" <=> old.name = << >>
      /\ request[1] \in Entering <=> old.name = << >>
  BY <1>1, RequestShape DEF Position, LogoutReq
<1> HIDE DEF n
<1>5. Position(new)
  BY <1>2, <1>4 DEF Position
<1>6. InStep(new, w1, called)
  <2>1. Pending(w1, called) \in Nat /\ Pending(w1, called) # 0
    BY <1>1, <1>3, PendingFacts
  <2>2. ~new.doubled => Len(w1.requests) = 1 /\ w1.answers = << >> /\ ~called
    BY <1>2, <1>3
  <2>3. ~new.doubled => Pending(w1, called) = 1
    BY <1>1, <2>2, PendingFacts
  <2> QED
    BY <2>1, <2>3 DEF InStep
<1>7. ASSUME NEW i \in 1 .. Len(w1.requests)
      PROVE  LET other == w1.requests[i]
             IN  /\ ~new.doubled => other = request
                 /\ other[1] \in Entering <=> new.name = << >>
                 /\ other[1] \in Entering => Len(w1.requests) = 1
                 /\ other = LogoutReq => i = Len(w1.requests) /\ request = LogoutReq
  <2>1. CASE i = n + 1
    BY <1>2, <1>3, <1>4, <2>1
  <2>2. CASE i \in 1 .. n
    <3>1. w1.requests[i] = w.requests[i] /\ n # 0
      BY <1>3, <2>2
    <3>2. /\ w.requests[i] # LogoutReq
          /\ w.requests[i][1] \in Entering <=> old.name = << >>
          /\ old.doubled
      BY <1>1, <1>2, <1>3, <2>2, <3>1 DEF OnTheWay, n
    <3> QED
      BY <1>2, <3>1, <3>2
  <2>3. i = n + 1 \/ i \in 1 .. n
    BY <1>3
  <2> QED
    BY <2>1, <2>2, <2>3
<1>8. OnTheWay(new, w1, called)
  BY <1>2, <1>7 DEF OnTheWay
<1>9. ClientOK(new, w1, called)
  BY <1>1, <1>5, <1>6, <1>8 DEF ClientOK
<1>10. Inside(new) => Inside(old)
  BY <1>2, <1>4 DEF Inside
<1>11. ~ToldConnected(new, w1) /\ ~ToldOfGroup(new, w1)
  <2>1. request[1] = "LOGIN_REQ" => w1.answers = << >>
    BY <1>2, <1>4 DEF Entering
  <2>2. ~new.doubled => w1.answers = << >>
    BY <1>2
  <2> QED
    BY <2>1, <2>2 DEF ToldConnected, ToldOfGroup
<1>12. InSession(new, w1, called) => InSession(old, w, called)
  <2>1. CASE Inside(new)
    BY <1>10, <2>1 DEF InSession
  <2>2. ASSUME NEW i \in 1 .. Len(w1.requests), w1.requests[i][1] \notin Entering
        PROVE  InSession(old, w, called)
    <3>1. old.name # << >>
      BY <1>7, <2>2
    <3> QED
      BY <1>2, <1>4, <3>1 DEF Inside, InSession
  <2> QED
    BY <1>2, <1>11, <2>1, <2>2 DEF InSession
<1> QED
  BY <1>9, <1>10, <1>11, <1>12

(* A program that ends: what it has sent is still treated.                 *)
LEMMA EndedOK ==
    ASSUME NEW old, NEW w, NEW called, ClientOK(old, w, called), old.at # "off",
           NEW new \in ProgramSet, NEW w1 \in WireSet,
           new.at \in {"gone", "crashed"}, new.asked = << >>, Room(new),
           w1.requests = w.requests
    PROVE  /\ ClientOK(new, w1, called)
           /\ InSession(new, w1, called) => InSession(old, w, called)
           /\ ~Inside(new) /\ ~ToldConnected(new, w1) /\ ~ToldOfGroup(new, w1)
           /\ ~IsRunning(new)
<1>1. /\ called \in BOOLEAN /\ OnTheWay(old, w, called)
      /\ ~IsRunning(new)
  BY DEF ClientOK, IsRunning
<1>2. Position(new)
  BY <1>1 DEF Position
<1>3. InStep(new, w1, called)
  BY <1>1 DEF InStep
<1>4. OnTheWay(new, w1, called)
  BY <1>1 DEF OnTheWay
<1>5. ClientOK(new, w1, called)
  BY <1>1, <1>2, <1>3, <1>4 DEF ClientOK
<1> QED
  BY <1>1, <1>5 DEF InSession, Inside, ToldConnected, ToldOfGroup

(* A new connection: nothing is under way.                                 *)
LEMMA ConnectedOK ==
    ASSUME NEW old, NEW w, NEW called, ClientOK(old, w, called), old.at = "off",
           NEW new \in ProgramSet, new.at = "start", new.name = << >>,
           new.asked = << >>, new.doubled = FALSE, Room(new)
    PROVE  /\ ClientOK(new, w, called)
           /\ ~InSession(new, w, called)
           /\ ~Inside(new) /\ ~ToldConnected(new, w) /\ ~ToldOfGroup(new, w)
<1>1. /\ w \in WireSet /\ called \in BOOLEAN /\ Pending(w, called) = 0
  BY DEF ClientOK, InStep
<1>2. w.requests = << >> /\ w.answers = << >> /\ ~called /\ Len(w.requests) = 0
  BY <1>1, PendingFacts, WireFacts
<1>3. Position(new) /\ ~Inside(new) /\ ~ToldConnected(new, w) /\ ~ToldOfGroup(new, w)
  BY DEF Position, Inside, ToldConnected, ToldOfGroup
<1>4. InStep(new, w, called)
  BY <1>1 DEF InStep
<1>5. OnTheWay(new, w, called) /\ ~InSession(new, w, called)
  BY <1>2, <1>3 DEF OnTheWay, InSession
<1> QED
  BY <1>1, <1>3, <1>4, <1>5 DEF ClientOK

(* A program that has just been started, or has just ended.                *)
LEMMA FreshProgram ==
    ASSUME NEW at \in {"off", "start", "gone", "crashed"}
    PROVE  /\ Program(at) \in ProgramSet
           /\ Program(at).at = at
           /\ Program(at).asked = << >> /\ Program(at).name = << >>
           /\ Program(at).doubled = FALSE /\ Program(at).numOfGroups = 0
           /\ Program(at).groups = << >>
           /\ Room(Program(at))
<1>1. << >> \in Seq(GroupName) /\ 0 \in 0 .. MaxJoins
  BY ChatSystemAssumption, EmptySeq
<1>2. Program(at) \in ProgramSet
  BY <1>1 DEF Program, ProgramSet
<1>3. Len(<< >>) <= 0
  OBVIOUS
<1> QED
  BY <1>2, <1>3 DEF Program, Room

(* addGroup, on a program with room for it.                                *)
LEMMA AddGroupIs ==
    ASSUME NEW program \in ProgramSet, NEW g \in GroupName,
           Len(program.groups) <= program.numOfGroups, program.numOfGroups < MaxJoins
    PROVE  LET new == AddGroup(program, g)
           IN  /\ new \in ProgramSet
               /\ new.at = program.at /\ new.name = program.name
               /\ new.doubled = program.doubled
               /\ Len(new.groups) <= new.numOfGroups
               /\ new.groups[Len(new.groups)] = g
<1> DEFINE new == AddGroup(program, g)
           n   == program.numOfGroups
<1>1. program.groups \in Seq(GroupName) /\ n \in 0 .. MaxJoins /\ MaxJoins \in Nat
  BY ChatSystemAssumption DEF ProgramSet
<1>2. /\ Append(program.groups, g) \in Seq(GroupName)
      /\ Len(Append(program.groups, g)) = Len(program.groups) + 1
      /\ Append(program.groups, g)[Len(program.groups) + 1] = g
      /\ Len(program.groups) \in Nat
  BY <1>1, AppendProperties, LenProperties
<1>3. /\ new = [program EXCEPT !.numOfGroups = n + 1, !.groups = Append(program.groups, g)]
      /\ new.numOfGroups = n + 1 /\ new.groups = Append(program.groups, g)
      /\ new.at = program.at /\ new.name = program.name /\ new.doubled = program.doubled
  BY DEF AddGroup, ProgramSet
<1>4. n + 1 \in 0 .. MaxJoins
  BY <1>1
<1>5. new \in ProgramSet
  BY <1>2, <1>3, <1>4 DEF ProgramSet
<1>6. Len(new.groups) <= new.numOfGroups
  BY <1>1, <1>2, <1>3
<1> HIDE DEF new
<1> QED
  BY <1>2, <1>3, <1>5, <1>6 DEF new

(* treatServerResponse and what follows it, by what was asked.             *)
LEMMA TreatedIs ==
    ASSUME NEW old, NEW w, NEW called, ClientOK(old, w, called), old.at = "wait",
           NEW answer, NEW t \in Treated(old, answer)
    PROVE  \/ old.asked = LogoutReq /\ t \in {Program("gone"), Program("crashed")}
           \/ /\ old.asked # LogoutReq
              /\ t \in ProgramSet /\ t.at \in {"start", "menu", "join"}
              /\ t.doubled = old.doubled /\ Len(t.groups) <= t.numOfGroups
              /\ old.asked[1] \in Entering =>
                    \/ t.at = "start" /\ t.name = << >>
                    \/ /\ t.at = "menu" /\ t.name = old.asked[2]
                       /\ old.asked[1] = "LOGIN_REQ" /\ answer.response \in Good
              /\ old.asked[1] \notin Entering =>
                    t.at \in {"menu", "join"} /\ t.name = old.name
              /\ \/ t.numOfGroups = old.numOfGroups
                 \/ /\ old.asked[1] \in Seating
                    /\ answer.response = Expected[old.asked[1]]
                    /\ t.groups[Len(t.groups)] = old.asked[2]
<1> DEFINE type == old.asked[1]
<1>1. /\ old \in ProgramSet /\ old.asked \in Request
      /\ Len(old.groups) <= old.numOfGroups
      /\ type \in Seating => old.numOfGroups < MaxJoins
      /\ type \in Entering <=> old.name = << >>
  BY ClientFacts DEF ClientOK, Position, Room
<1>2. /\ type \in Entering => old.asked[2] \in UserName
      /\ type \in Seating => old.asked[2] \in GroupName
      /\ type = "LOGOUT_REQ" <=> old.asked = LogoutReq
      /\ type \in Entering \union Seating
                \union {"GROUP_LEAVE_REQ", "GROUP_LIST_REQ", "LOGOUT_REQ"}
  BY <1>1, RequestShape
<1> DEFINE start == [old EXCEPT !.at = "start"]
           menu  == [old EXCEPT !.at = "menu"]
           join  == [old EXCEPT !.at = "join"]
           named == [menu EXCEPT !.name = old.asked[2]]
           added == AddGroup(menu, old.asked[2])
           good  == answer.response \in Good
<1>3. DOMAIN Expected = Seating
  BY DEF Expected, Seating
<1>4. Treated(old, answer) =
        CASE type = "REG_REQ"        -> {start}
          [] type = "LOGIN_REQ"      -> IF good THEN {named} ELSE {start}
          [] type \in DOMAIN Expected ->
                IF answer.response = Expected[type] THEN {added} ELSE {menu}
          [] type = "GROUP_LIST_REQ" ->
                IF answer.response = "GROUP_LIST_SUCCESS" THEN {join} ELSE {menu}
          [] type = "GROUP_LEAVE_REQ" -> {menu}
          [] type = "LOGOUT_REQ"     -> IF good THEN LogoutEnds(old) ELSE {Program("gone")}
  BY DEF Treated
<1>5. \A moved \in {start, menu, join} :
        /\ moved \in ProgramSet /\ moved.name = old.name
        /\ moved.doubled = old.doubled /\ moved.groups = old.groups
        /\ moved.numOfGroups = old.numOfGroups
  BY <1>1 DEF ProgramSet
<1>6. start.at = "start" /\ menu.at = "menu" /\ join.at = "join"
  BY <1>1 DEF ProgramSet
<1> HIDE DEF start, menu, join, named, added, good
<1>7. CASE type \in Entering
  <2>1. t = start \/ (type = "LOGIN_REQ" /\ good /\ t = named)
    <3>1. CASE type = "REG_REQ"
      <4>1. Treated(old, answer) = {start}
        BY <1>3, <1>4, <3>1 DEF Seating
      <4> QED
        BY <4>1
    <3>2. CASE type = "LOGIN_REQ"
      <4>1. Treated(old, answer) = IF good THEN {named} ELSE {start}
        BY <1>3, <1>4, <3>2 DEF Seating
      <4> QED
        BY <3>2, <4>1
    <3> QED
      BY <1>7, <3>1, <3>2 DEF Entering
  <2>2. CASE t = start
    BY <1>1, <1>2, <1>5, <1>6, <1>7, <2>2 DEF Entering
  <2>3. CASE type = "LOGIN_REQ" /\ good /\ t = named
    <3>1. menu \in ProgramSet /\ old.asked[2] \in UserName
      BY <1>2, <1>5, <1>7
    <3>2. /\ t \in ProgramSet /\ t.at = menu.at /\ t.name = old.asked[2]
          /\ t.doubled = menu.doubled /\ t.groups = menu.groups
          /\ t.numOfGroups = menu.numOfGroups
      BY <2>3, <3>1 DEF ProgramSet, named
    <3>3. /\ t.at = "menu" /\ t.doubled = old.doubled /\ t.groups = old.groups
          /\ t.numOfGroups = old.numOfGroups
      BY <1>5, <1>6, <3>2
    <3> QED
      BY <1>1, <1>2, <1>7, <2>3, <3>2, <3>3 DEF Entering, good
  <2> QED
    BY <2>1, <2>2, <2>3
<1>8. CASE type \in Seating
  <2>1. type \notin Entering /\ old.asked # LogoutReq
    BY <1>2, <1>8 DEF Entering, Seating
  <2>2. Treated(old, answer) =
            IF answer.response = Expected[type] THEN {added} ELSE {menu}
    BY <1>3, <1>4, <1>8 DEF Seating
  <2>3. CASE t = menu
    BY <1>1, <1>5, <1>6, <2>1, <2>3
  <2>4. CASE answer.response = Expected[type] /\ t = added
    <3>1. /\ menu \in ProgramSet /\ old.asked[2] \in GroupName
          /\ Len(menu.groups) <= menu.numOfGroups /\ menu.numOfGroups < MaxJoins
      BY <1>1, <1>2, <1>5, <1>8
    <3>2. /\ t \in ProgramSet /\ t.at = menu.at /\ t.name = menu.name
          /\ t.doubled = menu.doubled /\ Len(t.groups) <= t.numOfGroups
          /\ t.groups[Len(t.groups)] = old.asked[2]
      BY <2>4, <3>1, AddGroupIs DEF added
    <3> QED
      BY <1>5, <1>6, <1>8, <2>1, <2>4, <3>2
  <2> QED
    BY <2>2, <2>3, <2>4
<1>9. CASE type \in {"GROUP_LIST_REQ", "GROUP_LEAVE_REQ"}
  <2>1. type \notin Entering /\ type \notin Seating /\ old.asked # LogoutReq
    BY <1>2, <1>9 DEF Entering, Seating
  <2>2. t = menu \/ t = join
    BY <1>3, <1>4, <1>9 DEF Seating
  <2> QED
    BY <1>1, <1>5, <1>6, <2>1, <2>2
<1>10. CASE type = "LOGOUT_REQ"
  <2>1. Treated(old, answer) = IF good THEN LogoutEnds(old) ELSE {Program("gone")}
    BY <1>3, <1>4, <1>10 DEF Seating
  <2>2. t \in {Program("gone"), Program("crashed")}
    BY <2>1 DEF LogoutEnds
  <2> QED
    BY <1>2, <1>10, <2>2
<1> QED
  BY <1>2, <1>7, <1>8, <1>9, <1>10

(* What recvMsg makes of the program that treats the answer as t, when the *)
(* connection is left with w1 of w.                                        *)
Looked(t, w, w1) ==
    [t EXCEPT !.asked = << >>,
              !.doubled = @ /\ (w1.answers # << >> \/ w.requests # << >>)]

(* recvMsg: what a program is told in step with its request it believes.   *)
LEMMA ReceivedOK ==
    ASSUME NEW old, NEW w, NEW called, ClientOK(old, w, called), old.at = "wait",
           w.answers # << >>,
           NEW t \in Treated(old, Head(w.answers)),
           NEW w1 \in WireSet, w1.requests = w.requests,
           Len(w1.answers) < Len(w.answers),
           NEW new, new = Looked(t, w, w1)
    PROVE  /\ new \in ProgramSet
           /\ ClientOK(new, w1, called)
           /\ InSession(new, w1, called) => InSession(old, w, called)
           /\ Inside(new) => \/ Inside(old) /\ new.name = old.name
                             \/ ToldConnected(old, w) /\ new.name = old.asked[2]
           /\ ~ToldConnected(new, w1) /\ ~ToldOfGroup(new, w1)
<1>1. /\ old \in ProgramSet /\ w \in WireSet /\ called \in BOOLEAN
      /\ Position(old) /\ OnTheWay(old, w, called)
      /\ IsRunning(old) /\ old.asked \in Request /\ old.doubled \in BOOLEAN
  BY ClientFacts DEF ClientOK, ProgramSet
<1>2. /\ Len(w.answers) \in Nat /\ Len(w1.answers) \in Nat /\ Len(w.requests) \in Nat
      /\ w.requests = << >> <=> Len(w.requests) = 0
      /\ w1.answers = << >> <=> Len(w1.answers) = 0
  BY <1>1, WireFacts
<1>3. CASE t \in {Program("gone"), Program("crashed")}
  <2>1. /\ t \in ProgramSet /\ t.at \in {"gone", "crashed"} /\ t.asked = << >>
        /\ t.doubled = FALSE /\ Room(t)
    BY <1>3, FreshProgram
  <2>2. new = t
    BY <1>3, <2>1 DEF Looked, Program, ProgramSet
  <2> QED
    BY <2>1, <2>2, EndedOK
<1>4. CASE /\ old.asked # LogoutReq
           /\ t \in ProgramSet /\ t.at \in {"start", "menu", "join"}
           /\ t.doubled = old.doubled /\ Len(t.groups) <= t.numOfGroups
           /\ old.asked[1] \in Entering =>
                \/ t.at = "start" /\ t.name = << >>
                \/ /\ t.at = "menu" /\ t.name = old.asked[2]
                   /\ old.asked[1] = "LOGIN_REQ" /\ Head(w.answers).response \in Good
           /\ old.asked[1] \notin Entering =>
                t.at \in {"menu", "join"} /\ t.name = old.name
  <2>1. /\ new.at = t.at /\ new.name = t.name /\ new.asked = << >>
        /\ new.groups = t.groups /\ new.numOfGroups = t.numOfGroups
        /\ new.doubled \in BOOLEAN
        /\ new.doubled <=> old.doubled /\ (w1.answers # << >> \/ w.requests # << >>)
        /\ new \in ProgramSet
    BY <1>1, <1>4 DEF Looked, ProgramSet
  <2>2. IsRunning(new) /\ new.at # "wait" /\ new.at # "off"
    BY <1>4, <2>1 DEF IsRunning
  <2>3. /\ ~called
        /\ \A i \in 1 .. Len(w.requests) : w.requests[i] # LogoutReq
    BY <1>1, <1>4 DEF OnTheWay
  <2>4. /\ old.asked[1] \in Entering <=> old.name = << >>
        /\ old.name = << >> => ~old.doubled
        /\ old.asked[1] = "LOGIN_REQ" => old.asked[2] # << >>
    <3>1. old.asked[1] = "LOGIN_REQ" => old.asked[2] \in UserName
      BY <1>1, RequestShape DEF Entering
    <3> QED
      BY <1>1, <3>1, ChatSystemAssumption DEF Position
  <2>5. ~old.doubled => w.requests = << >> /\ w1.answers = << >>
    <3>1. ~old.doubled => w.requests = << >> /\ Len(w.answers) = 1
      BY <1>2, ClientFacts
    <3>2. \A k, n \in Nat : k < n /\ n = 1 => k = 0
      OBVIOUS
    <3>3. Len(w.answers) = 1 => Len(w1.answers) = 0
      BY <1>2, <3>2
    <3> QED
      BY <1>2, <3>1, <3>3
  <2>6. Position(new)
    BY <1>4, <2>1, <2>2, <2>4 DEF Position
  <2>7. Room(new)
    BY <1>4, <2>1, <2>2 DEF Room
  <2>8. InStep(new, w1, called)
    <3>1. ~new.doubled => w1.requests = << >> /\ w1.answers = << >>
      BY <2>1, <2>5
    <3>2. ~new.doubled => Pending(w1, called) = 0
      BY <1>1, <2>3, <3>1, PendingFacts
    <3> QED
      BY <2>2, <3>2 DEF InStep
  <2>9. OnTheWay(new, w1, called)
    <3>1. ASSUME NEW i \in 1 .. Len(w.requests)
          PROVE  /\ new.doubled /\ old.doubled /\ old.name # << >> /\ new.name = old.name
                 /\ w.requests[i][1] \in Entering <=> old.name = << >>
                 /\ w.requests[i][1] \in Entering => Len(w.requests) = 1
      <4>1. w.requests # << >>
        BY <1>2
      <4>2. old.doubled /\ new.doubled
        BY <2>1, <2>5, <4>1
      <4>3. old.name # << >> /\ new.name = old.name
        BY <1>4, <2>1, <2>4, <4>2
      <4> QED
        BY <1>1, <4>2, <4>3 DEF OnTheWay
    <3> QED
      BY <2>3, <3>1 DEF OnTheWay
  <2>10. ClientOK(new, w1, called)
    BY <1>1, <2>1, <2>6, <2>7, <2>8, <2>9 DEF ClientOK
  <2>11. ~ToldConnected(new, w1) /\ ~ToldOfGroup(new, w1)
    BY <2>2 DEF ToldConnected, ToldOfGroup
  <2>12. Inside(new) => \/ Inside(old) /\ new.name = old.name
                        \/ ToldConnected(old, w) /\ new.name = old.asked[2]
    <3>1. CASE old.asked[1] \in Entering
      BY <1>4, <2>1, <3>1 DEF Inside, ToldConnected
    <3>2. CASE old.asked[1] \notin Entering
      BY <1>1, <1>4, <2>1, <2>4, <3>2 DEF Inside
    <3> QED
      BY <3>1, <3>2
  <2> QED
    BY <2>1, <2>10, <2>11, <2>12 DEF InSession
<1> QED
  BY <1>3, <1>4, TreatedIs

(* The requests that stay when the first k have been received.             *)
LEMMA RequestsLeft ==
    ASSUME NEW w \in WireSet, w.requests # << >>, NEW k \in 1 .. Len(w.requests)
    PROVE  LET left == SubSeq(w.requests, k + 1, Len(w.requests))
           IN  /\ left \in Seq(Request)
               /\ Len(left) = Len(w.requests) - k
               /\ \A i \in 1 .. Len(left) : /\ left[i] = w.requests[k + i]
                                            /\ k + i \in 2 .. Len(w.requests)
<1> DEFINE n    == Len(w.requests)
           left == SubSeq(w.requests, k + 1, n)
<1>1. /\ n \in Nat /\ k \in Int /\ k >= 1 /\ k <= n
      /\ \A i \in 1 .. n : w.requests[i] \in Request
  BY WireFacts
<1>2. k + 1 \in Int /\ n \in Int /\ \A i \in k + 1 .. n : w.requests[i] \in Request
  <2> HIDE DEF n
  <2> QED
    BY <1>1
<1>3. /\ left \in Seq(Request)
      /\ Len(left) = IF k + 1 <= n THEN n - (k + 1) + 1 ELSE 0
      /\ \A i \in 1 .. n - (k + 1) + 1 : left[i] = w.requests[(k + 1) + i - 1]
  BY <1>2, SubSeqProperties
<1> HIDE DEF n, left
<1>4. Len(left) = n - k /\ n - (k + 1) + 1 = n - k
  BY <1>1, <1>3
<1>5. ASSUME NEW i \in 1 .. Len(left)
      PROVE  left[i] = w.requests[k + i] /\ k + i \in 2 .. n
  <2>1. i \in Int /\ i >= 1 /\ i <= n - k
    BY <1>1, <1>4
  <2>2. (k + 1) + i - 1 = k + i /\ k + i \in 2 .. n
    BY <1>1, <2>1
  <2> QED
    BY <1>3, <1>4, <2>2
<1> QED
  BY <1>3, <1>4, <1>5 DEF n, left

(* Delivered, for a program that is given by its value.                    *)
Reaching(program, reply) == IF IsRunning(program) THEN reply ELSE << >>

(* One request served, for a client that is given by its values: reply is  *)
(* what the handler answers, nothing if it starts the loop of a logout.    *)
Serves(old, w, request, reply, called, new, w1) ==
    /\ w.requests # << >> /\ request = Head(w.requests)
    /\ \E k \in 1 .. Len(w.requests) :
            w1.requests = SubSeq(w.requests, k + 1, Len(w.requests))
    /\ reply \in Seq(AnswerSet) /\ called \in BOOLEAN
    /\ \/ called /\ reply = << >> /\ request = LogoutReq
       \/ /\ ~called /\ Len(reply) \in {1, 2}
          /\ Len(reply) = 2 => request[1] = "GROUP_LIST_REQ"
    /\ w1 \in WireSet /\ w1.answers = w.answers \o Reaching(old, reply)
    /\ new \in ProgramSet /\ Room(new)
    /\ new.at = old.at /\ new.name = old.name /\ new.asked = old.asked
    /\ new.doubled <=> old.doubled \/ (IsRunning(old) /\ Len(reply) = 2)

(* GotMessageFunc and its answer: the first request is answered, once but  *)
(* for a list, or starts the logout loop.                                  *)
LEMMA ServedOK ==
    ASSUME NEW old, NEW w, NEW called, ClientOK(old, w, called),
           NEW request, NEW reply, NEW called1, NEW new, NEW w1,
           Serves(old, w, request, reply, called1, new, w1)
    PROVE  /\ ~called /\ old.at # "off" /\ request \in Request
           /\ ClientOK(new, w1, called1)
           /\ InSession(new, w1, called1) => InSession(old, w, called) \/ ToldConnected(new, w1)
           /\ request[1] \in Entering <=> ~InSession(old, w, called)
           /\ Inside(new) => Inside(old)
           /\ ToldConnected(new, w1) =>
                /\ request = old.asked /\ request[1] = "LOGIN_REQ"
                /\ reply[1].response \in Good
           /\ ToldOfGroup(new, w1) =>
                /\ request = old.asked /\ request[1] \in Seating /\ Inside(old)
                /\ Head(w1.answers) = reply[1]
                /\ reply[1].response = Expected[request[1]]
<1> DEFINE n == Len(w.requests)
           m == Len(w1.requests)
           q == Len(reply)
<1>0. PICK k \in 1 .. Len(w.requests) :
        w1.requests = SubSeq(w.requests, k + 1, Len(w.requests))
  BY DEF Serves
<1>0a. /\ w.requests # << >> /\ request = Head(w.requests)
       /\ reply \in Seq(AnswerSet) /\ called1 \in BOOLEAN
       /\ IF called1 THEN reply = << >> /\ request = LogoutReq
          ELSE /\ Len(reply) \in {1, 2}
               /\ Len(reply) = 2 => request[1] = "GROUP_LIST_REQ"
       /\ w1 \in WireSet
       /\ w1.answers = w.answers \o (IF IsRunning(old) THEN reply ELSE << >>)
       /\ new \in ProgramSet /\ Room(new)
       /\ new.at = old.at /\ new.name = old.name /\ new.asked = old.asked
       /\ new.doubled <=> old.doubled \/ (IsRunning(old) /\ Len(reply) = 2)
  BY DEF Serves, Reaching
<1> USE <1>0, <1>0a
<1>1. /\ old \in ProgramSet /\ w \in WireSet /\ called \in BOOLEAN
      /\ Position(old) /\ InStep(old, w, called) /\ OnTheWay(old, w, called)
  BY DEF ClientOK
<1>2. /\ n \in Nat /\ n >= 1 /\ 1 \in 1 .. n
      /\ k \in Int /\ k >= 1 /\ k <= n
      /\ request = w.requests[1] /\ request \in Request
  BY <1>1, WireFacts
<1>3. ~called
  BY <1>1 DEF OnTheWay
<1>4. old.at # "off"
  BY <1>1, PendingFacts DEF InStep
<1>5. /\ m = n - k
      /\ \A i \in 1 .. m : /\ w1.requests[i] = w.requests[k + i]
                           /\ k + i \in 2 .. n
      /\ m \in Nat /\ (w1.requests = << >> <=> m = 0)
  <2>1. m \in Nat /\ (w1.requests = << >> <=> m = 0)
    BY WireFacts
  <2>2. LET left == SubSeq(w.requests, k + 1, Len(w.requests))
        IN  /\ Len(left) = Len(w.requests) - k
            /\ \A i \in 1 .. Len(left) : /\ left[i] = w.requests[k + i]
                                         /\ k + i \in 2 .. Len(w.requests)
    BY <1>1, RequestsLeft
  <2> QED
    BY <2>1, <2>2
<1>6. /\ q \in Nat /\ (q = 0 <=> called1)
      /\ reply = << >> <=> q = 0
      /\ q = 2 => request[1] = "GROUP_LIST_REQ"
      /\ q # 0 => reply # << >> /\ Head(reply) = reply[1]
  <2>1. q \in Nat /\ (reply = << >> <=> q = 0)
    BY LenProperties, EmptySeq
  <2>2. (q = 0 <=> called1) /\ (q = 2 => request[1] = "GROUP_LIST_REQ")
    <3>1. CASE called1
      <4>1. q = 0
        BY <2>1, <3>1
      <4> HIDE DEF q
      <4> QED
        BY <3>1, <4>1
    <3>2. CASE ~called1
      <4>1. q \in {1, 2} /\ (q = 2 => request[1] = "GROUP_LIST_REQ")
        BY <3>2
      <4> HIDE DEF q
      <4> QED
        BY <3>2, <4>1
    <3> QED
      BY <3>1, <3>2
  <2>3. reply # << >> => Head(reply) = reply[1]
    OBVIOUS
  <2> QED
    BY <2>1, <2>2, <2>3
<1>7. IsRunning(old) => Len(w1.answers) = Len(w.answers) + q
  BY <1>1, WireFacts, ConcatProperties
<1>8. IsRunning(new) <=> IsRunning(old)
  BY DEF IsRunning
<1>9. ASSUME IsRunning(old), ~old.doubled
      PROVE  /\ old.at = "wait" /\ n = 1 /\ m = 0 /\ w.answers = << >>
             /\ request = old.asked
             /\ q # 0 => w1.answers # << >> /\ Head(w1.answers) = reply[1]
             /\ w1.answers = reply
  <2>1. Pending(w, called) # 0
    BY <1>1, PendingFacts
  <2>2. old.at = "wait"
    BY <1>1, <1>9, <2>1 DEF InStep
  <2>3. n = 1 /\ w.answers = << >>
    BY <1>2, <1>9, <2>2, ClientFacts, WireFacts, <1>1
  <2>4. m = 0
    <3> HIDE DEF n, m
    <3> QED
      BY <1>2, <1>5, <2>3
  <2>5. request = old.asked
    BY <1>1, <1>2, <1>9 DEF OnTheWay
  <2>6. w1.answers = reply
    BY <1>9, <2>3, ConcatEmptySeq
  <2>7. q # 0 => w1.answers # << >> /\ Head(w1.answers) = reply[1]
    BY <1>6, <2>6
  <2> QED
    BY <2>2, <2>3, <2>4, <2>5, <2>6, <2>7
<1>10. request[1] \in Entering =>
            (IsRunning(old) => old.name = << >> /\ ~old.doubled) /\ n = 1
  BY <1>1, <1>2 DEF OnTheWay, Position
<1>11. IsRunning(old) /\ old.name = << >> => request[1] \in Entering
  BY <1>1, <1>2 DEF OnTheWay
<1>12. q = 2 => request[1] \notin Entering
  BY <1>6 DEF Entering
<1>13. Position(new)
  <2>1. IsRunning(new) /\ new.name = << >> => ~new.doubled
    BY <1>1, <1>8, <1>11, <1>12 DEF Position
  <2> QED
    BY <1>1, <2>1 DEF Position
<1>14. InStep(new, w1, called1)
  <2>1. Pending(w1, called1) \in Nat
    BY PendingFacts
  <2>2. ASSUME new.at = "wait"
        PROVE  Pending(w1, called1) > 0
    <3>1. IsRunning(old)
      BY <2>2 DEF IsRunning
    <3>2. ~(w1.requests = << >> /\ w1.answers = << >> /\ ~called1)
      BY <1>1, <1>6, <3>1, ConcatEqualIffEmpty, WireFacts
    <3>3. Pending(w1, called1) # 0
      BY <3>2, PendingFacts
    <3>4. \A x \in Nat : x # 0 => x > 0
      OBVIOUS
    <3> QED
      BY <2>1, <3>3, <3>4
  <2>3. ASSUME IsRunning(new), ~new.doubled
        PROVE  new.at = "wait" /\ Pending(w1, called1) = 1
    <3>1. IsRunning(old) /\ ~old.doubled /\ q # 2
      BY <1>8, <2>3
    <3>2. old.at = "wait" /\ w1.requests = << >> /\ w1.answers = reply
      BY <1>5, <1>9, <3>1
    <3>3. IF called1 THEN w1.answers = << >> ELSE Len(w1.answers) = 1
      BY <3>1, <3>2
    <3> QED
      BY <3>2, <3>3, PendingFacts
  <2> QED
    BY <1>4, <2>2, <2>3 DEF InStep
<1>15. OnTheWay(new, w1, called1)
  <2>1. ASSUME NEW i \in 1 .. m
        PROVE  LET other == w1.requests[i]
               IN  /\ ~(IsRunning(new) /\ ~new.doubled)
                   /\ IsRunning(new) => (other[1] \in Entering <=> new.name = << >>)
                   /\ other[1] \notin Entering
                   /\ other = LogoutReq => /\ i = m
                                           /\ IsRunning(new) => new.asked = LogoutReq
    <3>1. PICK j \in 1 .. n : /\ w1.requests[i] = w.requests[j]
                              /\ j = k + i /\ j >= 2
      <4>1. k + i \in 1 .. n /\ k + i >= 2
        <5>1. k + i \in 2 .. n
          BY <1>5
        <5> HIDE DEF n
        <5> QED
          BY <5>1, <1>2
      <4> QED
        BY <1>5, <4>1
    <3>2. /\ IsRunning(old) => (w.requests[j][1] \in Entering <=> old.name = << >>)
          /\ w.requests[j][1] \in Entering => n = 1
          /\ w.requests[j] = LogoutReq => /\ j = n
                                          /\ IsRunning(old) => old.asked = LogoutReq
      BY <1>1 DEF OnTheWay
    <3>3. n # 1 /\ m # 0
      <4> HIDE DEF n, m
      <4> QED
        BY <1>2, <1>5, <2>1, <3>1
    <3>4. j = n => i = m
      <4> HIDE DEF n, m
      <4> QED
        BY <1>2, <1>5, <2>1, <3>1
    <3>5. ~(IsRunning(new) /\ ~new.doubled)
      BY <1>8, <1>9, <3>3
    <3> QED
      BY <1>8, <3>1, <3>2, <3>3, <3>4, <3>5
  <2>2. called1 => w1.requests = << >> /\ (IsRunning(new) => new.asked = LogoutReq)
    <3>1. request = LogoutReq => n = 1 /\ (IsRunning(old) => old.asked = LogoutReq)
      BY <1>1, <1>2 DEF OnTheWay
    <3>2. n = 1 => m = 0
      <4> HIDE DEF n, m
      <4> QED
        BY <1>2, <1>5
    <3> QED
      BY <1>5, <1>8, <3>1, <3>2
  <2> QED
    BY <2>1, <2>2 DEF OnTheWay
<1>16. ClientOK(new, w1, called1)
  BY <1>13, <1>14, <1>15 DEF ClientOK
<1>17. Inside(new) => Inside(old)
  BY <1>8 DEF Inside
<1>18. request[1] \in Entering <=> ~InSession(old, w, called)
  <2>1. request[1] \notin Entering => InSession(old, w, called)
    BY <1>2 DEF InSession
  <2>2. ASSUME request[1] \in Entering
        PROVE  ~InSession(old, w, called)
    <3>1. ~Inside(old)
      BY <1>10, <2>2 DEF Inside
    <3>2. ~ToldConnected(old, w)
      <4>1. old.at = "wait" => w.answers = << >>
        BY <1>9, <1>10, <2>2 DEF IsRunning
      <4> QED
        BY <4>1 DEF ToldConnected
    <3>3. \A i \in 1 .. n : w.requests[i][1] \in Entering
      BY <1>2, <1>10, <2>2
    <3> QED
      BY <1>3, <3>1, <3>2, <3>3 DEF InSession
  <2> QED
    BY <2>1, <2>2
<1>19. InSession(new, w1, called1) => InSession(old, w, called) \/ ToldConnected(new, w1)
  <2>1. called1 => InSession(old, w, called)
    <3>1. LogoutReq[1] \notin Entering
      BY DEF LogoutReq, Entering
    <3> QED
      BY <1>18, <3>1
  <2>2. (\E i \in 1 .. m : w1.requests[i][1] \notin Entering) => InSession(old, w, called)
    <3>1. ASSUME NEW i \in 1 .. m, w1.requests[i][1] \notin Entering
          PROVE  InSession(old, w, called)
      <4>1. k + i \in 1 .. n /\ w.requests[k + i][1] \notin Entering
        <5>1. k + i \in 2 .. n /\ w1.requests[i] = w.requests[k + i]
          BY <1>5
        <5>2. k + i \in 1 .. n
          <6> HIDE DEF n
          <6> QED
            BY <1>2, <5>1
        <5> QED
          BY <3>1, <5>1, <5>2
      <4> QED
        BY <4>1 DEF InSession
    <3> QED
      BY <3>1
  <2>3. Inside(new) => InSession(old, w, called)
    BY <1>17 DEF InSession
  <2> QED
    BY <2>1, <2>2, <2>3 DEF InSession
<1>20. ASSUME ToldConnected(new, w1)
       PROVE  request = old.asked /\ request[1] = "LOGIN_REQ" /\ reply[1].response \in Good
  <2>1. /\ old.at = "wait" /\ old.asked[1] = "LOGIN_REQ"
        /\ w1.answers # << >> /\ Head(w1.answers).response \in Good
    BY <1>20 DEF ToldConnected
  <2>2. IsRunning(old) /\ old.name = << >> /\ ~old.doubled
    BY <1>1, <2>1 DEF IsRunning, Position, Entering
  <2>3. request = old.asked /\ w1.answers = reply
    BY <1>9, <2>2
  <2>4. q # 0
    BY <1>6, <2>1, <2>3
  <2> QED
    BY <1>9, <2>1, <2>2, <2>3, <2>4
<1>21. ASSUME ToldOfGroup(new, w1)
       PROVE  /\ request = old.asked /\ request[1] \in Seating /\ Inside(old)
              /\ Head(w1.answers) = reply[1]
              /\ reply[1].response = Expected[request[1]]
  <2>1. /\ old.at = "wait" /\ old.asked[1] \in Seating /\ ~new.doubled
        /\ w1.answers # << >> /\ Head(w1.answers).response = Expected[old.asked[1]]
    BY <1>21 DEF ToldOfGroup
  <2>2. IsRunning(old) /\ ~old.doubled
    BY <2>1 DEF IsRunning
  <2>3. request = old.asked /\ w1.answers = reply
    BY <1>9, <2>2
  <2>4. q # 0
    BY <1>6, <2>1, <2>3
  <2>5. Inside(old)
    <3>1. LogoutReq[1] \notin Seating /\ old.asked[1] \notin Entering
      BY <2>1 DEF LogoutReq, Seating, Entering
    <3> QED
      BY <1>11, <2>1, <2>2, <2>3, <3>1 DEF Inside
  <2> QED
    BY <1>9, <2>1, <2>2, <2>3, <2>4, <2>5
<1> QED
  BY <1>2, <1>3, <1>4, <1>16, <1>17, <1>18, <1>19, <1>20, <1>21

(* The end of the logout loop is the last answer there will be.            *)
LEMMA LogoutAnsweredOK ==
    ASSUME NEW old, NEW w, ClientOK(old, w, TRUE),
           NEW reply \in Seq(AnswerSet), Len(reply) = 1,
           NEW w1 \in WireSet, w1.requests = w.requests,
           w1.answers = w.answers \o Reaching(old, reply)
    PROVE  /\ ClientOK(old, w1, FALSE)
           /\ InSession(old, w, TRUE) /\ ~InSession(old, w1, FALSE)
           /\ ~Inside(old) /\ ~ToldConnected(old, w1) /\ ~ToldOfGroup(old, w1)
<1> USE DEF Reaching
<1>1. /\ old \in ProgramSet /\ w \in WireSet
      /\ Position(old) /\ Room(old) /\ InStep(old, w, TRUE) /\ OnTheWay(old, w, TRUE)
  BY DEF ClientOK
<1>2. w.requests = << >> /\ (IsRunning(old) => old.asked = LogoutReq)
  BY <1>1 DEF OnTheWay
<1>3. /\ LogoutReq # << >> /\ LogoutReq[1] = "LOGOUT_REQ"
      /\ LogoutReq[1] \notin Entering /\ LogoutReq[1] \notin Seating
  BY DEF LogoutReq, Entering, Seating
<1>4. IsRunning(old) => old.at = "wait" /\ Len(w1.answers) # 0
  <2>1. IsRunning(old) => old.at = "wait"
    BY <1>1, <1>2, <1>3 DEF Position
  <2>2. IsRunning(old) => Len(w1.answers) = Len(w.answers) + 1
    <3>1. w.answers \in Seq(AnswerSet)
      BY <1>1, WireFacts
    <3>2. Len(w.answers \o reply) = Len(w.answers) + Len(reply)
      BY <3>1, ConcatProperties
    <3> QED
      BY <3>2
  <2>3. Len(w.answers) \in Nat
    BY <1>1, WireFacts
  <2>4. \A n \in Nat : n + 1 # 0
    OBVIOUS
  <2> QED
    BY <2>1, <2>2, <2>3, <2>4
<1>5. IsRunning(old) /\ ~old.doubled => Len(w1.answers) = 1
  <2>1. ASSUME IsRunning(old), ~old.doubled
        PROVE  w.answers = << >>
    BY <1>2, <1>4, <2>1, ClientFacts
  <2> QED
    BY <2>1, ConcatEmptySeq
<1>6. old.at # "off"
  BY <1>1, PendingFacts DEF InStep
<1>7. InStep(old, w1, FALSE)
  <2>1. Pending(w1, FALSE) \in Nat
    BY PendingFacts
  <2>2. old.at = "wait" => IsRunning(old)
    BY DEF IsRunning
  <2>3. old.at = "wait" => Pending(w1, FALSE) # 0
    BY <1>4, <2>2, PendingFacts, WireFacts
  <2>4. IsRunning(old) /\ ~old.doubled => Pending(w1, FALSE) = 1
    BY <1>2, <1>5, PendingFacts
  <2>5. \A n \in Nat : n # 0 => n > 0
    OBVIOUS
  <2> QED
    BY <1>4, <1>6, <2>1, <2>3, <2>4, <2>5 DEF InStep
<1>8. OnTheWay(old, w1, FALSE) /\ Len(w1.requests) = 0
  BY <1>2, WireFacts DEF OnTheWay
<1>9. ~Inside(old) /\ ~ToldConnected(old, w1) /\ ~ToldOfGroup(old, w1)
  <2>1. Position(old) /\ (old.at = "wait" => IsRunning(old))
    BY <1>1 DEF IsRunning
  <2> QED
    BY <1>2, <1>3, <2>1 DEF Inside, ToldConnected, ToldOfGroup, Entering
<1>10. InSession(old, w, TRUE) /\ ~InSession(old, w1, FALSE)
  BY <1>8, <1>9 DEF InSession
<1> QED
  BY <1>1, <1>7, <1>8, <1>9, <1>10 DEF ClientOK

-----------------------------------------------------------------------------
(* The server: what a request does *)

(* A user who was not connected is, on this connection.                    *)
Connects(p, name) ==
    /\ clients' = Assigned(p, name)
    /\ name \in DOMAIN users /\ ~users[name].active
    /\ name \in DOMAIN users' /\ users'[name].active

(* What every handler of TreatMsg keeps and tells: it answers, or starts   *)
(* the loop of a logout; it gives the connection a user in a login only,   *)
(* touches no other active user, and moves no group; and what it tells of  *)
(* a login or a group is so.                                               *)
Handled(p, request, reply) ==
    /\ p \in Live /\ doing = Idle /\ reply \in Seq(AnswerSet)
    /\ DOMAIN sent' = 1 .. Len(reply) /\ Len(sent') = Len(reply)
    /\ \/ /\ doing' = Idle /\ Len(reply) \in {1, 2}
          /\ Len(reply) = 2 => request[1] = "GROUP_LIST_REQ"
       \/ /\ request = LogoutReq /\ reply = << >>
          /\ doing'.loop = "logout" /\ doing'.name = NameOf(p)
    /\ clients' = clients \/ (request[1] = "LOGIN_REQ" /\ Connects(p, request[2]))
    /\ request[1] = "LOGIN_REQ" /\ reply[1].response \in Good => Connects(p, request[2])
    /\ UsersKept(users, users', IF request[1] \in Entering THEN << >> ELSE NameOf(p))
    /\ AddressesKept(groupMng, groupMng')
    /\ request[1] \in Seating /\ reply[1].response = Expected[request[1]] =>
          /\ request[2] \in users'[NameOf(p)].groups
          /\ IsOpen(groupMng', request[2])
          /\ groupMng'.groups[request[2]].addr = reply[1].addr

(* The answer of a handler that sends one message.                         *)
LEMMA OneAnswer ==
    ASSUME NEW request, request[1] # "GROUP_LIST_REQ",
           NEW type, NEW response \in Response, sent' = Resp(type, response),
           response \in {"GROUP_CREATED", "GROUP_JOINED"} =>
                groupMng'.groups[request[2]].addr \in GroupAddress
    PROVE  LET reply == Answers(request)
           IN  /\ reply \in Seq(AnswerSet) /\ Len(reply) = 1
               /\ DOMAIN sent' = 1 .. Len(reply) /\ Len(sent') = Len(reply)
               /\ reply[1].response = response
               /\ response \in {"GROUP_CREATED", "GROUP_JOINED"} =>
                    reply[1].addr = groupMng'.groups[request[2]].addr
<1> DEFINE addr == IF response \in {"GROUP_CREATED", "GROUP_JOINED"}
                   THEN groupMng'.groups[request[2]].addr ELSE NoAddress
           reply == Answers(request)
<1>1. DOMAIN sent' = 1 .. 1 /\ Len(sent') = 1 /\ sent'[1][2] = response
  BY DEF Resp
<1>2. /\ DOMAIN reply = 1 .. 1
      /\ reply = [i \in 1 .. 1 |-> reply[i]]
      /\ reply[1] = Answer(response, addr)
  BY <1>1 DEF Answers
<1>3. Answer(response, addr) \in AnswerSet
  BY DEF Answer, AnswerSet
<1>4. /\ Answer(response, addr).response = response
      /\ Answer(response, addr).addr = addr
  BY DEF Answer
<1> HIDE DEF addr, reply
<1>5. reply \in [1 .. 1 -> AnswerSet]
  BY <1>2, <1>3
<1>6. reply \in Seq(AnswerSet)
  BY <1>5, SeqDef
<1>7. Len(reply) = 1
  BY <1>2, <1>6, LenProperties
<1> QED
  BY <1>1, <1>2, <1>4, <1>6, <1>7 DEF addr, reply

(* An active user whose struct changes stays active; the others stay.      *)
LEMMA WithUserKeeps ==
    ASSUME NEW us, UserMngType(us), NEW n \in DOMAIN us, NEW user, NEW m,
           us[n].active => user.active /\ m = n
    PROVE  UsersKept(us, WithUser(us, n, user), m)
<1>1. /\ DOMAIN WithUser(us, n, user) = DOMAIN us
      /\ WithUser(us, n, user)[n] = user
      /\ \A k \in DOMAIN us : k # n => WithUser(us, n, user)[k] = us[k]
  BY WithUserIs
<1>2. ASSUME NEW k \in DOMAIN us, us[k].active
      PROVE  /\ WithUser(us, n, user)[k].active
             /\ k # m => WithUser(us, n, user)[k] = us[k]
  <2>1. CASE k = n
    BY <1>1, <1>2, <2>1
  <2>2. CASE k # n
    BY <1>1, <1>2, <2>2
  <2> QED
    BY <2>1, <2>2
<1> QED
  BY <1>1, <1>2 DEF UsersKept

(* Requests about groups touch the list of one user.                       *)
LEMMA GroupUsersKept ==
    ASSUME NEW us, UserMngType(us), NEW n, NEW g, NEW new,
           \/ new = UserMngGroupJoined(us, n, g)
           \/ new = UserMngGroupLeft(us, n, g)
           \/ new = us
    PROVE  UsersKept(us, new, n)
<1>1. CASE new = us
  BY <1>1 DEF UsersKept
<1>2. CASE new = UserMngGroupJoined(us, n, g) /\ new # us
  <2> DEFINE user == UserStruct(us[n].pass, TRUE, us[n].groups \union {g})
  <2>1. n \in DOMAIN us /\ new = WithUser(us, n, user)
    BY <1>2, GroupJoinedIs
  <2>2. user.active
    BY DEF UserStruct
  <2> HIDE DEF user
  <2> QED
    BY <2>1, <2>2, WithUserKeeps
<1>3. CASE new = UserMngGroupLeft(us, n, g) /\ new # us
  <2> DEFINE user == UserStruct(us[n].pass, us[n].active, us[n].groups \ {g})
  <2>1. n \in DOMAIN us /\ new = WithUser(us, n, user)
    BY <1>3, GroupLeftIs
  <2>2. user.active = us[n].active
    BY DEF UserStruct
  <2> HIDE DEF user
  <2> QED
    BY <2>1, <2>2, WithUserKeeps
<1> QED
  BY <1>1, <1>2, <1>3

(* A leased address is one.                                                *)
LEMMA LeasedAddress ==
    ASSUME NEW mng, GroupMngOK(mng), NEW g \in DOMAIN mng.groups
    PROVE  mng.groups[g].addr \in GroupAddress
<1>1. mng.groups[g] \in Group
  BY DEF GroupMngOK, GroupMngType
<1> QED
  BY <1>1 DEF Group

(* RegisterUser.                                                           *)
LEMMA RegisterHandled ==
    ASSUME ServerAppInv, NEW p, NEW request \in Request, request[1] = "REG_REQ",
           RegisterUser(p, request[2], request[3])
    PROVE  Handled(p, request, Answers(request))
<1> DEFINE err == UserMngAddErr(users, request[2], request[3])
           reply == Answers(request)
<1>1. /\ p \in Live /\ doing = Idle /\ doing' = Idle
      /\ users' = UserAdd(users, request[2], request[3])
      /\ groupMng' = groupMng /\ clients' = clients
      /\ sent' = Resp("REG_REC", RegisterResp[err])
  BY DEF RegisterUser, Serving
<1>2. /\ RegisterResp[err] \in Response
      /\ RegisterResp[err] \notin {"GROUP_CREATED", "GROUP_JOINED"}
  <2>1. err \in {"USER_MNG_CREATE_FAIL", "USER_MNG_USER_EXISTS", "USER_MNG_USER_ADDED"}
    BY DEF UserMngAddErr
  <2> HIDE DEF err
  <2>2. RegisterResp["USER_MNG_CREATE_FAIL"] = "GEN_ERROR"
    BY DEF RegisterResp
  <2>3. RegisterResp["USER_MNG_USER_EXISTS"] = "USER_EXISTS"
    BY DEF RegisterResp
  <2>4. RegisterResp["USER_MNG_USER_ADDED"] = "USER_CREATED"
    BY DEF RegisterResp
  <2>5. RegisterResp[err] \in {"GEN_ERROR", "USER_EXISTS", "USER_CREATED"}
    BY <2>1, <2>2, <2>3, <2>4
  <2> QED
    BY <2>5 DEF Response
<1>3. /\ reply \in Seq(AnswerSet) /\ Len(reply) = 1
      /\ DOMAIN sent' = 1 .. Len(reply) /\ Len(sent') = Len(reply)
  BY <1>1, <1>2, OneAnswer
<1>4. UsersKept(users, users', << >>)
  <2>1. UserMngOK(users) /\ request[2] \in UserName /\ request[3] \in Password
    BY RequestShape DEF ServerAppInv, Entering
  <2>2. \A n \in DOMAIN users :
            /\ n \in DOMAIN UserAdd(users, request[2], request[3])
            /\ UserAdd(users, request[2], request[3])[n] = users[n]
    <3>1. PICK name \in UserName, pass \in Password :
                name = request[2] /\ pass = request[3]
      BY <2>1
    <3>2. LET new == UserAdd(users, name, pass)
          IN  \A n \in DOMAIN users : n \in DOMAIN new /\ new[n] = users[n]
      BY <2>1, UserAddOK
    <3> QED
      BY <3>1, <3>2
  <2>3. \A n \in DOMAIN users : n \in DOMAIN users' /\ users'[n] = users[n]
    BY <1>1, <2>2
  <2> QED
    BY <2>3 DEF UsersKept
<1>5. AddressesKept(groupMng, groupMng')
  BY <1>1 DEF AddressesKept
<1>6. request[1] \in Entering /\ request[1] \notin Seating
  BY DEF Entering, Seating
<1> HIDE DEF reply
<1> QED
  BY <1>1, <1>3, <1>4, <1>5, <1>6 DEF Handled, reply

(* LoginUser.                                                              *)
LEMMA LoginHandled ==
    ASSUME ServerAppInv, NEW p, NEW request \in Request, request[1] = "LOGIN_REQ",
           LoginUser(p, request[2], request[3])
    PROVE  Handled(p, request, Answers(request))
<1> DEFINE name == request[2]
           pass == request[3]
           err == UserMngConnectErr(users, name, pass)
           user == UserStruct(pass, TRUE, {})
           reply == Answers(request)
<1>1. /\ p \in Live /\ doing = Idle /\ doing' = Idle
      /\ users' = UserMngConnect(users, name, pass)
      /\ groupMng' = groupMng
      /\ clients' = IF err = "USER_MNG_SUCCESS" THEN Assigned(p, name) ELSE clients
      /\ sent' = Resp("LOGIN_REC", LoginResp[err])
  BY DEF LoginUser, Serving
<1>2. /\ LoginResp[err] \in Response
      /\ LoginResp[err] \notin {"GROUP_CREATED", "GROUP_JOINED"}
      /\ LoginResp[err] \in Good => err = "USER_MNG_SUCCESS"
  <2>1. err \in {"USER_MNG_USER_NOT_FOUND", "USER_MNG_PASS_INCORRECT",
                 "USER_MNG_ALREADY_CONNECT", "USER_MNG_SUCCESS"}
    BY DEF UserMngConnectErr
  <2> HIDE DEF err
  <2>2. LoginResp["USER_MNG_USER_NOT_FOUND"] = "USER_NOT_FOUND"
    BY DEF LoginResp
  <2>3. LoginResp["USER_MNG_PASS_INCORRECT"] = "PASS_INCORRECT"
    BY DEF LoginResp
  <2>4. LoginResp["USER_MNG_ALREADY_CONNECT"] = "USER_ALREADY_CONNECTED"
    BY DEF LoginResp
  <2>5. LoginResp["USER_MNG_SUCCESS"] = "USER_CONNECTED"
    BY DEF LoginResp
  <2>6. \/ err = "USER_MNG_SUCCESS" /\ LoginResp[err] = "USER_CONNECTED"
        \/ LoginResp[err] \in {"USER_NOT_FOUND", "PASS_INCORRECT", "USER_ALREADY_CONNECTED"}
    BY <2>1, <2>2, <2>3, <2>4, <2>5
  <2>7. CASE err = "USER_MNG_SUCCESS" /\ LoginResp[err] = "USER_CONNECTED"
    BY <2>7 DEF Response
  <2>8. CASE LoginResp[err] \in
                {"USER_NOT_FOUND", "PASS_INCORRECT", "USER_ALREADY_CONNECTED"}
    <3>1. LoginResp[err] \notin Good
      BY <2>8 DEF Good
    <3> QED
      BY <2>8, <3>1 DEF Response
  <2> QED
    BY <2>6, <2>7, <2>8
<1>3. /\ reply \in Seq(AnswerSet) /\ Len(reply) = 1
      /\ DOMAIN sent' = 1 .. Len(reply) /\ Len(sent') = Len(reply)
      /\ reply[1].response = LoginResp[err]
  BY <1>1, <1>2, OneAnswer
<1>4. UserMngType(users)
  BY DEF ServerAppInv, UserMngOK
<1>5. /\ UsersKept(users, users', << >>)
      /\ clients' = clients \/ Connects(p, name)
      /\ reply[1].response \in Good => Connects(p, name)
  <2>1. CASE err = "USER_MNG_SUCCESS"
    <3>1. UsersKept(users, users', << >>) /\ Connects(p, name)
      <4>1. /\ name \in DOMAIN users /\ ~users[name].active
            /\ users' = WithUser(users, name, user)
            /\ clients' = Assigned(p, name)
        <5>1. /\ name \in DOMAIN users /\ ~users[name].active
              /\ UserMngConnect(users, name, pass) = WithUser(users, name, user)
          <6> HIDE DEF name, pass
          <6> QED
            BY <2>1, ConnectIs
        <5> QED
          BY <1>1, <2>1, <5>1
      <4>2. user.active
        BY DEF UserStruct
      <4> HIDE DEF user
      <4>3. name \in DOMAIN users' /\ users'[name].active
        BY <1>4, <4>1, <4>2, WithUserIs
      <4>4. UsersKept(users, users', << >>)
        BY <1>4, <4>1, WithUserKeeps
      <4> QED
        BY <4>1, <4>3, <4>4 DEF Connects
    <3> QED
      BY <3>1
  <2>2. CASE err # "USER_MNG_SUCCESS"
    <3>1. users' = users /\ clients' = clients
      BY <1>1, <2>2, ConnectIs
    <3>2. UsersKept(users, users', << >>)
      BY <3>1 DEF UsersKept
    <3> QED
      BY <1>2, <1>3, <2>2, <3>1, <3>2
  <2> QED
    BY <2>1, <2>2
<1>6. AddressesKept(groupMng, groupMng')
  BY <1>1 DEF AddressesKept
<1>7. request[1] \in Entering /\ request[1] \notin Seating
  BY DEF Entering, Seating
<1> HIDE DEF reply, name, pass
<1> QED
  BY <1>1, <1>3, <1>5, <1>6, <1>7 DEF Handled, reply, name

(* LogoutUser.                                                             *)
LEMMA LogoutHandled ==
    ASSUME ServerAppInv, NEW p, NEW request, request = LogoutReq, LogoutUser(p)
    PROVE  Handled(p, request, Answers(request))
<1> DEFINE reply == Answers(request)
<1>1. /\ p \in Live /\ doing = Idle
      /\ users' = users /\ groupMng' = groupMng /\ clients' = clients
      /\ \/ sent' = << >> /\ doing' = LoggingOut(NameOf(p), users[NameOf(p)].groups)
         \/ sent' = Resp("LOGOUT_REC", "GEN_ERROR") /\ doing' = Idle
  BY DEF LogoutUser, Serving, managerVars
<1>2. /\ UsersKept(users, users', NameOf(p))
      /\ AddressesKept(groupMng, groupMng')
  BY <1>1 DEF UsersKept, AddressesKept
<1>3. /\ request[1] = "LOGOUT_REQ"
      /\ request[1] \notin Entering /\ request[1] \notin Seating
  BY DEF LogoutReq, Entering, Seating
<1>4. CASE sent' = << >> /\ doing' = LoggingOut(NameOf(p), users[NameOf(p)].groups)
  <2>1. reply = << >>
    BY <1>4 DEF Answers
  <2>2. doing'.loop = "logout" /\ doing'.name = NameOf(p)
    BY <1>4 DEF LoggingOut
  <2>3. << >> \in Seq(AnswerSet) /\ Len(<< >>) = 0 /\ DOMAIN << >> = 1 .. 0
    OBVIOUS
  <2> HIDE DEF reply
  <2> QED
    BY <1>1, <1>2, <1>3, <1>4, <2>1, <2>2, <2>3 DEF Handled, reply
<1>5. CASE sent' = Resp("LOGOUT_REC", "GEN_ERROR") /\ doing' = Idle
  <2>1. "GEN_ERROR" \in Response /\ "GEN_ERROR" \notin {"GROUP_CREATED", "GROUP_JOINED"}
    BY DEF Response
  <2>2. /\ reply \in Seq(AnswerSet) /\ Len(reply) = 1
        /\ DOMAIN sent' = 1 .. Len(reply) /\ Len(sent') = Len(reply)
    BY <1>3, <1>5, <2>1, OneAnswer
  <2> HIDE DEF reply
  <2> QED
    BY <1>1, <1>2, <1>3, <1>5, <2>2 DEF Handled, reply
<1> QED
  BY <1>1, <1>4, <1>5

(* Requests about a group have one answer; a group that is told of is open *)
(* and in the user's list.                                                 *)
LEMMA GroupHandled ==
    ASSUME UserMngType(users), GroupMngOK(groupMng'), NEW p, NEW request,
           request[1] \in Seating \union {"GROUP_LEAVE_REQ"},
           NEW type, NEW response \in Response, sent' = Resp(type, response),
           Serving(p), doing' = doing, clients' = clients,
           \/ users' = UserMngGroupJoined(users, NameOf(p), request[2])
           \/ users' = UserMngGroupLeft(users, NameOf(p), request[2])
           \/ users' = users,
           AddressesKept(groupMng, groupMng'),
           response \in {"GROUP_CREATED", "GROUP_JOINED"} =>
                /\ request[2] \in users'[NameOf(p)].groups
                /\ IsOpen(groupMng', request[2])
    PROVE  Handled(p, request, Answers(request))
<1> DEFINE reply == Answers(request)
<1>1. /\ request[1] \notin Entering
      /\ request[1] # "GROUP_LIST_REQ" /\ request[1] # "LOGIN_REQ"
      /\ request[1] \in Seating =>
            Expected[request[1]] \in {"GROUP_CREATED", "GROUP_JOINED"}
  BY DEF Entering, Seating, Expected
<1>2. response \in {"GROUP_CREATED", "GROUP_JOINED"} =>
        groupMng'.groups[request[2]].addr \in GroupAddress
  <2>1. ASSUME IsOpen(groupMng', request[2])
        PROVE  groupMng'.groups[request[2]].addr \in GroupAddress
    BY <2>1, LeasedAddress DEF IsOpen
  <2> QED
    BY <2>1
<1>3. /\ reply \in Seq(AnswerSet) /\ Len(reply) = 1
      /\ DOMAIN sent' = 1 .. Len(reply) /\ Len(sent') = Len(reply)
      /\ reply[1].response = response
      /\ response \in {"GROUP_CREATED", "GROUP_JOINED"} =>
            reply[1].addr = groupMng'.groups[request[2]].addr
  BY <1>1, <1>2, OneAnswer
<1>4. UsersKept(users, users', NameOf(p))
  BY GroupUsersKept
<1>5. p \in Live /\ doing = Idle /\ doing' = Idle
  BY DEF Serving
<1> HIDE DEF reply
<1> QED
  BY <1>1, <1>3, <1>4, <1>5 DEF Handled, reply

(* CreateGroup.                                                            *)
LEMMA CreateHandled ==
    ASSUME ServerAppInv, GroupMngOK(groupMng'), NEW p, NEW request \in Request,
           request[1] = "GROUP_CREATE_REQ", CreateGroup(p, request[2])
    PROVE  Handled(p, request, Answers(request))
<1>1. PICK g : g = request[2]
  OBVIOUS
<1> DEFINE name == NameOf(p)
           opened == GroupMngAdd(groupMng, g)
           ok == UserMngGroupJoinedErr(users, name, g) = "USER_MNG_SUCCESS"
           add == GroupMngAddErr(groupMng, g) = "GROUP_MNG_SUCCESS"
<1>2. /\ Serving(p) /\ doing' = doing /\ clients' = clients
      /\ ~add => /\ groupMng' = opened /\ users' = users
                 /\ sent' = Resp("GROUP_CREATE_REC", "GROUP_CREATE_FAIL")
      /\ add => /\ groupMng' = IF ok THEN opened ELSE Rollback(opened, g)
                /\ users' = UserMngGroupJoined(users, name, g)
                /\ sent' = IF ok THEN Resp("GROUP_CREATE_REC", "GROUP_CREATED")
                                 ELSE Resp("GROUP_JOIN_REC", "GEN_ERROR")
  BY <1>1 DEF CreateGroup
<1>3. /\ AddressesKept(groupMng, opened)
      /\ DOMAIN groupMng.groups \subseteq DOMAIN opened.groups
      /\ add => IsOpen(opened, g)
  BY AddKeepsAddresses
<1>4. UserMngType(users) /\ request[1] \in Seating \union {"GROUP_LEAVE_REQ"}
  BY DEF ServerAppInv, UserMngOK, Seating
<1>5. CASE ~add
  <2>1. "GROUP_CREATE_FAIL" \in Response /\ "GROUP_CREATE_FAIL" \notin {"GROUP_CREATED", "GROUP_JOINED"}
    BY DEF Response
  <2>2. AddressesKept(groupMng, groupMng')
    BY <1>2, <1>3, <1>5
  <2> QED
    BY <1>2, <1>4, <1>5, <2>1, <2>2, GroupHandled
<1>6. CASE add /\ ok
  <2>1. "GROUP_CREATED" \in Response
    BY DEF Response
  <2>2. AddressesKept(groupMng, groupMng') /\ IsOpen(groupMng', g)
    BY <1>2, <1>3, <1>6
  <2>3. g \in users'[name].groups
    <3> DEFINE user == UserStruct(users[name].pass, TRUE, users[name].groups \union {g})
    <3>1. name \in DOMAIN users /\ users' = WithUser(users, name, user)
      BY <1>2, <1>6 DEF UserMngGroupJoined, UserMngGroupJoinedErr
    <3>2. g \in user.groups
      BY DEF UserStruct
    <3> HIDE DEF user
    <3>3. WithUser(users, name, user)[name] = user
      BY <3>1, <1>4, WithUserIs
    <3> QED
      BY <3>1, <3>2, <3>3
  <2> HIDE DEF name, add, ok, opened
  <2>4. sent' = Resp("GROUP_CREATE_REC", "GROUP_CREATED")
    BY <1>2, <1>6
  <2>5. users' = UserMngGroupJoined(users, NameOf(p), request[2])
    BY <1>1, <1>2, <1>6 DEF name
  <2>6. request[2] \in users'[NameOf(p)].groups /\ IsOpen(groupMng', request[2])
    BY <1>1, <2>2, <2>3 DEF name
  <2> QED
    BY <1>2, <1>4, <2>1, <2>2, <2>4, <2>5, <2>6, GroupHandled
<1>7. CASE add /\ ~ok
  <2>1. "GEN_ERROR" \in Response /\ "GEN_ERROR" \notin {"GROUP_CREATED", "GROUP_JOINED"}
    BY DEF Response
  <2>2. AddressesKept(groupMng, groupMng')
    <3> HIDE DEF opened
    <3>1. /\ AddressesKept(opened, Rollback(opened, g))
          /\ DOMAIN Rollback(opened, g).groups \subseteq DOMAIN opened.groups
      BY LeaveKeepsAddresses DEF Rollback
    <3>2. groupMng' = Rollback(opened, g)
      BY <1>2, <1>7
    <3> QED
      BY <1>3, <3>1, <3>2 DEF AddressesKept
  <2>3. users' = UserMngGroupJoined(users, NameOf(p), request[2])
    BY <1>1, <1>2, <1>7
  <2>4. sent' = Resp("GROUP_JOIN_REC", "GEN_ERROR")
    BY <1>2, <1>7
  <2> HIDE DEF add, ok, opened
  <2> QED
    BY <1>2, <1>4, <2>1, <2>2, <2>3, <2>4, GroupHandled
<1> QED
  BY <1>5, <1>6, <1>7

(* JoinGroup.                                                              *)
LEMMA JoinHandled ==
    ASSUME ServerAppInv, GroupMngOK(groupMng'), NEW p, NEW request \in Request,
           request[1] = "GROUP_JOIN_REQ", JoinGroup(p, request[2])
    PROVE  Handled(p, request, Answers(request))
<1>1. PICK g : g = request[2]
  OBVIOUS
<1> DEFINE name == NameOf(p)
           joined == GroupMngJoin(groupMng, g)
           ok == UserMngGroupJoinedErr(users, name, g) = "USER_MNG_SUCCESS"
           enters == ~UserMngIsUserInGrp(users, name, g) /\ IsOpen(groupMng, g)
<1>2. /\ Serving(p) /\ doing' = doing /\ clients' = clients
      /\ ~enters => /\ groupMng' = groupMng /\ users' = users
                    /\ \/ sent' = Resp("GROUP_JOIN_REC", "GROUP_USER_CONNECTED")
                       \/ sent' = Resp("GROUP_JOIN_REC", "GEN_ERROR")
      /\ enters => /\ groupMng' = IF ok THEN joined ELSE Rollback(joined, g)
                   /\ users' = UserMngGroupJoined(users, name, g)
                   /\ sent' = IF ok THEN Resp("GROUP_CREATE_REC", "GROUP_JOINED")
                                    ELSE Resp("GROUP_JOIN_REC", "GEN_ERROR")
  BY <1>1 DEF JoinGroup
<1>3. /\ AddressesKept(groupMng, joined)
      /\ DOMAIN joined.groups = DOMAIN groupMng.groups
  BY JoinKeepsAddresses
<1>4. UserMngType(users) /\ request[1] \in Seating \union {"GROUP_LEAVE_REQ"}
  BY DEF ServerAppInv, UserMngOK, Seating
<1>5. CASE ~enters
  <2>1. PICK response \in {"GROUP_USER_CONNECTED", "GEN_ERROR"} :
            sent' = Resp("GROUP_JOIN_REC", response)
    BY <1>2, <1>5
  <2>2. response \in Response /\ response \notin {"GROUP_CREATED", "GROUP_JOINED"}
    BY DEF Response
  <2>3. AddressesKept(groupMng, groupMng') /\ users' = users
    BY <1>2, <1>5 DEF AddressesKept
  <2> HIDE DEF enters, ok, joined, name
  <2> QED
    BY <1>2, <1>4, <2>1, <2>2, <2>3, GroupHandled
<1>6. CASE enters /\ ok
  <2>1. "GROUP_JOINED" \in Response
    BY DEF Response
  <2>2. AddressesKept(groupMng, groupMng') /\ IsOpen(groupMng', g)
    BY <1>2, <1>3, <1>6 DEF IsOpen
  <2>3. g \in users'[name].groups
    <3> DEFINE user == UserStruct(users[name].pass, TRUE, users[name].groups \union {g})
    <3>1. name \in DOMAIN users /\ users' = WithUser(users, name, user)
      BY <1>2, <1>6 DEF UserMngGroupJoined, UserMngGroupJoinedErr
    <3>2. g \in user.groups
      BY DEF UserStruct
    <3> HIDE DEF user
    <3>3. WithUser(users, name, user)[name] = user
      BY <3>1, <1>4, WithUserIs
    <3> QED
      BY <3>1, <3>2, <3>3
  <2> HIDE DEF name, enters, ok, joined
  <2>4. sent' = Resp("GROUP_CREATE_REC", "GROUP_JOINED")
    BY <1>2, <1>6
  <2>5. users' = UserMngGroupJoined(users, NameOf(p), request[2])
    BY <1>1, <1>2, <1>6 DEF name
  <2>6. request[2] \in users'[NameOf(p)].groups /\ IsOpen(groupMng', request[2])
    BY <1>1, <2>2, <2>3 DEF name
  <2> QED
    BY <1>2, <1>4, <2>1, <2>2, <2>4, <2>5, <2>6, GroupHandled
<1>7. CASE enters /\ ~ok
  <2>1. "GEN_ERROR" \in Response /\ "GEN_ERROR" \notin {"GROUP_CREATED", "GROUP_JOINED"}
    BY DEF Response
  <2>2. AddressesKept(groupMng, groupMng')
    <3> HIDE DEF joined
    <3>1. /\ AddressesKept(joined, Rollback(joined, g))
          /\ DOMAIN Rollback(joined, g).groups \subseteq DOMAIN joined.groups
      BY LeaveKeepsAddresses DEF Rollback
    <3>2. groupMng' = Rollback(joined, g)
      BY <1>2, <1>7
    <3> QED
      BY <1>3, <3>1, <3>2 DEF AddressesKept
  <2>3. users' = UserMngGroupJoined(users, NameOf(p), request[2])
    BY <1>1, <1>2, <1>7
  <2>4. sent' = Resp("GROUP_JOIN_REC", "GEN_ERROR")
    BY <1>2, <1>7
  <2> HIDE DEF enters, ok, joined
  <2> QED
    BY <1>2, <1>4, <2>1, <2>2, <2>3, <2>4, GroupHandled
<1> QED
  BY <1>5, <1>6, <1>7

(* LeaveGroup.                                                             *)
LEMMA LeaveHandled ==
    ASSUME ServerAppInv, GroupMngOK(groupMng'), NEW p, NEW request \in Request,
           request[1] = "GROUP_LEAVE_REQ", LeaveGroup(p, request[2])
    PROVE  Handled(p, request, Answers(request))
<1>1. /\ Serving(p) /\ doing' = doing /\ clients' = clients
      /\ users' = UserMngGroupLeft(users, NameOf(p), request[2])
      /\ groupMng' = groupMng \/ groupMng' = GroupMngLeave(groupMng, request[2])
      /\ \E response \in {"GROUP_LEFT", "GEN_ERROR"} :
            sent' = Resp("GROUP_LEAVE_REC", response)
  BY DEF LeaveGroup
<1>2. PICK response \in {"GROUP_LEFT", "GEN_ERROR"} :
        sent' = Resp("GROUP_LEAVE_REC", response)
  BY <1>1
<1>3. response \in Response /\ response \notin {"GROUP_CREATED", "GROUP_JOINED"}
  BY DEF Response
<1>4. AddressesKept(groupMng, groupMng')
  <2>1. AddressesKept(groupMng, GroupMngLeave(groupMng, request[2]))
    BY LeaveKeepsAddresses
  <2> QED
    BY <1>1, <2>1 DEF AddressesKept
<1>5. UserMngType(users) /\ request[1] \in Seating \union {"GROUP_LEAVE_REQ"}
  BY DEF ServerAppInv, UserMngOK
<1> QED
  BY <1>1, <1>2, <1>3, <1>4, <1>5, GroupHandled

(* SendGroupList: the list is one answer; that there is none is told twice.*)
LEMMA ListHandled ==
    ASSUME NEW p, NEW request, request = <<"GROUP_LIST_REQ">>, SendGroupList(p)
    PROVE  Handled(p, request, Answers(request))
<1> DEFINE reply == Answers(request)
           list == Answer("GROUP_LIST_SUCCESS", NoAddress)
           empty == <<"GROUP_LIST_REC", "GROUP_LIST_EMPTY">>
           fail == <<"GROUP_LIST_REC", "GROUP_LIST_FAIL">>
<1>1. /\ p \in Live /\ doing = Idle /\ doing' = Idle
      /\ users' = users /\ groupMng' = groupMng /\ clients' = clients
      /\ \/ sent' = Resp("GROUP_LIST_REC", DOMAIN groupMng.groups)
         \/ sent' = Resp("GROUP_LIST_REC", "GROUP_LIST_EMPTY")
                        \o Resp("GROUP_LIST_REC", "GROUP_LIST_FAIL")
  BY DEF SendGroupList, Serving, managerVars
<1>2. /\ reply \in Seq(AnswerSet) /\ Len(reply) \in {1, 2}
      /\ DOMAIN sent' = 1 .. Len(reply) /\ Len(sent') = Len(reply)
  <2>1. request[1] = "GROUP_LIST_REQ"
    OBVIOUS
  <2>2. CASE sent' = Resp("GROUP_LIST_REC", DOMAIN groupMng.groups)
    <3>1. DOMAIN sent' = 1 .. 1 /\ Len(sent') = 1
      BY <2>2 DEF Resp
    <3>2. DOMAIN reply = 1 .. 1 /\ reply = [i \in 1 .. 1 |-> reply[i]] /\ reply[1] = list
      BY <2>1, <3>1 DEF Answers
    <3>3. list \in AnswerSet
      BY DEF Answer, AnswerSet, Response
    <3> HIDE DEF reply, list
    <3>4. reply \in [1 .. 1 -> AnswerSet]
      BY <3>2, <3>3
    <3>5. reply \in Seq(AnswerSet)
      BY <3>4, SeqDef
    <3>6. Len(reply) = 1
      BY <3>2, <3>5, LenProperties
    <3> QED
      BY <3>1, <3>5, <3>6
  <2>3. CASE sent' = Resp("GROUP_LIST_REC", "GROUP_LIST_EMPTY")
                        \o Resp("GROUP_LIST_REC", "GROUP_LIST_FAIL")
    <3>1. sent' = <<empty, fail>>
      BY <2>3, TwoAnswers DEF Resp
    <3>2. /\ DOMAIN sent' = 1 .. 2 /\ Len(sent') = 2
          /\ sent'[1][2] = "GROUP_LIST_EMPTY" /\ sent'[2][2] = "GROUP_LIST_FAIL"
      BY <3>1
    <3>3. /\ DOMAIN reply = 1 .. 2
          /\ reply = [i \in 1 .. 2 |-> reply[i]]
          /\ reply[1] = Answer("GROUP_LIST_EMPTY", NoAddress)
          /\ reply[2] = Answer("GROUP_LIST_FAIL", NoAddress)
      BY <3>2 DEF Answers
    <3>4. /\ Answer("GROUP_LIST_EMPTY", NoAddress) \in AnswerSet
          /\ Answer("GROUP_LIST_FAIL", NoAddress) \in AnswerSet
      BY DEF Answer, AnswerSet, Response
    <3> HIDE DEF reply
    <3>5. reply \in [1 .. 2 -> AnswerSet]
      <4>1. \A i \in 1 .. 2 : i = 1 \/ i = 2
        OBVIOUS
      <4> QED
        BY <3>3, <3>4, <4>1
    <3>6. reply \in Seq(AnswerSet)
      BY <3>5, SeqDef
    <3>7. Len(reply) = 2
      BY <3>3, <3>6, LenProperties
    <3> QED
      BY <3>2, <3>6, <3>7
  <2> QED
    BY <1>1, <2>2, <2>3
<1>3. /\ UsersKept(users, users', NameOf(p))
      /\ AddressesKept(groupMng, groupMng')
  BY <1>1 DEF UsersKept, AddressesKept
<1>4. /\ request[1] = "GROUP_LIST_REQ"
      /\ request[1] \notin Entering /\ request[1] \notin Seating
  BY DEF Entering, Seating
<1> HIDE DEF reply
<1> QED
  BY <1>1, <1>2, <1>3, <1>4 DEF Handled, reply

(* TreatMsg, whichever handler it calls, is a step of the application.     *)
LEMMA TreatMsgHandled ==
    ASSUME ServerAppInv, NEW p \in ClientID, NEW request \in Request,
           TreatMsg(p, request)
    PROVE  /\ ServerAppInv'
           /\ Handled(p, request, Answers(request))
<1>1. ServerAppInv'
  <2>1. GotMessage(p)
    BY RequestShape DEF TreatMsg, GotMessage, Entering, Seating
  <2>2. ServerAppNext
    BY <2>1 DEF ServerAppNext
  <2> QED
    BY <2>2, ServerAppStepInv
<1>2. GroupMngOK(groupMng')
  BY <1>1 DEF ServerAppInv
<1>3. CASE request[1] = "REG_REQ" /\ RegisterUser(p, request[2], request[3])
  BY <1>1, <1>3, RegisterHandled
<1>4. CASE request[1] = "LOGIN_REQ" /\ LoginUser(p, request[2], request[3])
  BY <1>1, <1>4, LoginHandled
<1>5. CASE request[1] = "LOGOUT_REQ" /\ LogoutUser(p)
  BY <1>1, <1>5, RequestShape, LogoutHandled
<1>6. CASE request[1] = "GROUP_CREATE_REQ" /\ CreateGroup(p, request[2])
  BY <1>1, <1>2, <1>6, CreateHandled
<1>7. CASE request[1] = "GROUP_JOIN_REQ" /\ JoinGroup(p, request[2])
  BY <1>1, <1>2, <1>7, JoinHandled
<1>8. CASE request[1] = "GROUP_LEAVE_REQ" /\ LeaveGroup(p, request[2])
  BY <1>1, <1>2, <1>8, LeaveHandled
<1>9. CASE request[1] = "GROUP_LIST_REQ" /\ SendGroupList(p)
  <2>1. request = <<"GROUP_LIST_REQ">>
    BY <1>9 DEF Request
  <2> QED
    BY <1>1, <1>9, <2>1, ListHandled
<1> QED
  BY <1>1, <1>3, <1>4, <1>5, <1>6, <1>7, <1>8, <1>9 DEF TreatMsg

-----------------------------------------------------------------------------
(* Who has a session *)

(* What a program that is inside, or waits for a group, has.               *)
LEMMA SessionFacts ==
    ASSUME ChatSystemInv, NEW q \in ClientID
    PROVE  /\ SessionOf(q) => q \in Live
           /\ Inside(programs[q]) => SessionOf(q)
           /\ ToldConnected(programs[q], wire[q]) => SessionOf(q)
           /\ ToldOfGroup(programs[q], wire[q]) => Inside(programs[q])
           /\ (\E i \in 1 .. Len(wire[q].requests) :
                    wire[q].requests[i][1] \notin Entering) => SessionOf(q)
           /\ caller = q => SessionOf(q)
<1>1. ClientOK(programs[q], wire[q], caller = q) /\ wire[q] \in WireSet
  BY DEF ChatSystemInv, ProgramsOK
<1>2. Position(programs[q])
  BY <1>1 DEF ClientOK
<1>3. ToldOfGroup(programs[q], wire[q]) => Inside(programs[q])
  BY <1>2 DEF ToldOfGroup, Position, Inside, IsRunning, Seating, Entering, LogoutReq
<1>4. SessionOf(q) => \/ IsRunning(programs[q])
                      \/ wire[q].requests # << >>
                      \/ caller = q
  <2>1. ToldConnected(programs[q], wire[q]) => IsRunning(programs[q])
    BY DEF ToldConnected, IsRunning
  <2>2. Inside(programs[q]) => IsRunning(programs[q])
    BY DEF Inside
  <2>3. (\E i \in 1 .. Len(wire[q].requests) :
            wire[q].requests[i][1] \notin Entering) => wire[q].requests # << >>
    OBVIOUS
  <2> QED
    BY <2>1, <2>2, <2>3 DEF SessionOf, InSession
<1> QED
  BY <1>3, <1>4 DEF ChatSystemInv, Sessions, SessionOf, InSession

(* What an actor other than q leaves of q.                                 *)
SameClient(q) ==
    /\ programs'[q] = programs[q]
    /\ wire'[q] = wire[q]
    /\ caller' = q <=> caller = q

(* Its session and its place in the exchange.                              *)
LEMMA SameClientIs ==
    ASSUME NEW q, SameClient(q)
    PROVE  /\ SessionOf(q)' <=> SessionOf(q)
           /\ ClientOK(programs[q], wire[q], caller = q)
                => ClientOK(programs'[q], wire'[q], caller' = q)
<1>1. programs'[q] = programs[q] /\ wire'[q] = wire[q] /\ (caller' = q <=> caller = q)
  BY DEF SameClient
<1>2. SessionOf(q)' <=> SessionOf(q)
  BY <1>1 DEF SessionOf, InSession
<1>3. ClientOK(programs[q], wire[q], caller = q)
                => ClientOK(programs'[q], wire'[q], caller' = q)
  BY <1>1
<1> QED
  BY <1>2, <1>3

(* What a step of one client, or of the server for it, must show: nobody   *)
(* else's session is touched, and the one it has, if any, is its own.      *)
LEMMA SessionsKept ==
    ASSUME ChatSystemInv, NEW p \in ClientID,
           \A q \in ClientID \ {p} :
                /\ SameClient(q)
                /\ q \in Live => q \in Live' /\ NameOf(q)' = NameOf(q)
                /\ SessionOf(q) => /\ NameOf(q) \in DOMAIN users'
                                   /\ users'[NameOf(q)].active,
           IsRunning(programs'[p]) \/ wire'[p].requests # << >> \/ caller' = p
                => p \in Live',
           SessionOf(p)' =>
                /\ NameOf(p)' \in DOMAIN users' /\ users'[NameOf(p)'].active
                /\ \A q \in ClientID \ {p} : SessionOf(q) => NameOf(q) # NameOf(p)',
           Inside(programs'[p]) => NameOf(p)' = programs'[p].name,
           ToldConnected(programs'[p], wire'[p]) => NameOf(p)' = programs'[p].asked[2]
    PROVE  Sessions'
<1>1. ASSUME NEW q \in ClientID \ {p}
      PROVE  /\ SessionOf(q)' <=> SessionOf(q)
             /\ SessionOf(q) => NameOf(q)' = NameOf(q)
  BY <1>1, SameClientIs, SessionFacts
<1>2. ASSUME NEW q \in ClientID
      PROVE  /\ IsRunning(programs'[q]) \/ wire'[q].requests # << >> \/ caller' = q
                    => q \in Live'
             /\ SessionOf(q)' => NameOf(q)' \in DOMAIN users' /\ users'[NameOf(q)'].active
             /\ Inside(programs'[q]) => NameOf(q)' = programs'[q].name
             /\ ToldConnected(programs'[q], wire'[q])
                    => NameOf(q)' = programs'[q].asked[2]
  <2>1. CASE q = p
    BY <2>1
  <2>2. CASE q # p
    <3>1. /\ programs'[q] = programs[q] /\ wire'[q] = wire[q]
          /\ caller' = q <=> caller = q
      BY <2>2 DEF SameClient
    <3>2. /\ IsRunning(programs[q]) \/ wire[q].requests # << >> \/ caller = q
                => q \in Live
          /\ Inside(programs[q]) => NameOf(q) = programs[q].name
          /\ ToldConnected(programs[q], wire[q]) => NameOf(q) = programs[q].asked[2]
          /\ Inside(programs[q]) => SessionOf(q)
          /\ ToldConnected(programs[q], wire[q]) => SessionOf(q)
      BY SessionFacts DEF ChatSystemInv, Sessions
    <3> QED
      BY <1>1, <2>2, <3>1, <3>2
  <2> QED
    BY <2>1, <2>2
<1>3. ASSUME NEW q \in ClientID, NEW r \in ClientID, SessionOf(q)', SessionOf(r)',
             NameOf(q)' = NameOf(r)'
      PROVE  q = r
  <2>1. CASE q # p /\ r # p
    <3>1. SessionOf(q) /\ SessionOf(r) /\ NameOf(q) = NameOf(r)
      BY <1>1, <1>3, <2>1
    <3> QED
      BY <3>1 DEF ChatSystemInv, Sessions
  <2>2. CASE q = p /\ r # p
    BY <1>1, <1>3, <2>2
  <2>3. CASE q # p /\ r = p
    BY <1>1, <1>3, <2>3
  <2> QED
    BY <2>1, <2>2, <2>3
<1> QED
  BY <1>2, <1>3 DEF Sessions

ListedOpen ==
    doing.loop # "close" =>
        \A p \in ClientID : Inside(programs[p]) =>
            \A g \in GroupName :
                g \in users[programs[p].name].groups => IsOpen(groupMng, g)

(* A group in the list of a user who is inside is open: only the loop of a *)
(* closing connection gives up seats that are not its own, and the user of *)
(* a logout loop is not inside.                                            *)
LEMMA ListedIsOpen ==
    ServerAppInv /\ LoopCaller /\ Sessions /\ ProgramsOK => ListedOpen
<1> SUFFICES ASSUME ServerAppInv, LoopCaller, Sessions, ProgramsOK,
                    doing.loop # "close", NEW p \in ClientID, Inside(programs[p]),
                    NEW g \in GroupName, g \in users[programs[p].name].groups
             PROVE  IsOpen(groupMng, g)
  BY DEF ListedOpen
<1> DEFINE n == programs[p].name
<1>1. SessionOf(p) /\ NameOf(p) = n /\ n \in DOMAIN users
  BY DEF Sessions, SessionOf, InSession
<1>2. ~(doing.loop = "logout" /\ doing.name = n)
  <2>1. SUFFICES ASSUME doing.loop = "logout", doing.name = n
                 PROVE  FALSE
    OBVIOUS
  <2>2. caller \in ClientID /\ NameOf(caller) = n
    BY <2>1 DEF LoopCaller
  <2>3. SessionOf(caller)
    BY DEF SessionOf, InSession
  <2>4. caller = p
    BY <1>1, <2>2, <2>3 DEF Sessions
  <2>5. OnTheWay(programs[p], wire[p], caller = p)
    BY DEF ProgramsOK, ClientOK
  <2>6. programs[p].asked = LogoutReq
    BY <2>4, <2>5 DEF OnTheWay, Inside
  <2> QED
    BY <2>6 DEF Inside
<1>3. n \in Listed(users, doing, g)
  BY <1>1, <1>2 DEF Listed
<1>4. ~Exempt(doing, g)
  BY DEF Exempt
<1> HIDE DEF n
<1>5. SeatsMatch(groupMng, users, doing) /\ GroupMngOK(groupMng) /\ IsFiniteSet(DOMAIN users)
  BY DEF ServerAppInv
<1> QED
  BY <1>3, <1>4, <1>5, OpenIsListed

(* What a program is told of a group stays so until it looks: the user's   *)
(* list is touched by nobody else, so the group stays open, and an open    *)
(* group is not moved.                                                     *)
LEMMA PlaceKept ==
    ASSUME ChatSystemInv,
           (ServerAppInv /\ LoopCaller /\ Sessions /\ ProgramsOK)',
           AddressesKept(groupMng, groupMng'),
           doing'.loop # "close" => doing.loop # "close",
           NEW q \in ClientID, SameClient(q),
           ToldOfGroup(programs[q], wire[q]) =>
                users'[programs[q].name] = users[programs[q].name]
    PROVE  Place(q)'
<1> DEFINE g == programs[q].asked[2]
           n == programs[q].name
<1>1. SUFFICES ASSUME ToldOfGroup(programs'[q], wire'[q]), doing'.loop # "close"
               PROVE  /\ programs'[q].asked[2] \in users'[programs'[q].name].groups
                      /\ IsOpen(groupMng', programs'[q].asked[2])
                      /\ groupMng'.groups[programs'[q].asked[2]].addr
                            = Head(wire'[q].answers).addr
  BY DEF Place
<1>2. programs'[q] = programs[q] /\ wire'[q] = wire[q]
  BY DEF SameClient
<1>3. ToldOfGroup(programs[q], wire[q]) /\ doing.loop # "close"
  BY <1>1, <1>2
<1>4. /\ g \in users[n].groups /\ IsOpen(groupMng, g)
      /\ groupMng.groups[g].addr = Head(wire[q].answers).addr
  BY <1>3 DEF ChatSystemInv, Place
<1>5. g \in users'[n].groups
  BY <1>3, <1>4
<1>6. g \in GroupName
  <2>1. Position(programs[q]) /\ programs[q] \in ProgramSet
    BY DEF ChatSystemInv, ProgramsOK, ClientOK
  <2>2. programs[q].asked \in Request
    BY <1>3, <2>1 DEF ProgramSet, Position, ToldOfGroup
  <2> QED
    BY <1>3, <2>2, RequestShape DEF ToldOfGroup
<1>7. Inside(programs'[q])
  BY <1>2, <1>3, SessionFacts
<1>8. IsOpen(groupMng', g)
  <2>1. (ServerAppInv /\ LoopCaller /\ Sessions /\ ProgramsOK => ListedOpen)'
    BY ListedIsOpen, PTL
  <2>2. ListedOpen'
    BY <2>1
  <2> QED
    BY <1>1, <1>2, <1>5, <1>6, <1>7, <2>2 DEF ListedOpen
<1>9. groupMng'.groups[g].addr = groupMng.groups[g].addr
  BY <1>4, <1>8 DEF AddressesKept, IsOpen
<1> QED
  BY <1>2, <1>4, <1>5, <1>8, <1>9

-----------------------------------------------------------------------------
(* Steps *)

(* A step for one client keeps the invariant if what SessionsKept asks is  *)
(* so, and what the client is now told of a group.                         *)
LEMMA ActorStepInv ==
    ASSUME ChatSystemInv, ServerAppInv', LoopCaller', NEW p \in ClientID,
           programs' \in [ClientID -> ProgramSet], wire' \in [ClientID -> WireSet],
           ClientOK(programs'[p], wire'[p], caller' = p),
           AddressesKept(groupMng, groupMng'),
           doing'.loop # "close" => doing.loop # "close",
           \A q \in ClientID \ {p} :
                /\ SameClient(q)
                /\ q \in Live => q \in Live' /\ NameOf(q)' = NameOf(q)
                /\ SessionOf(q) => /\ NameOf(q) \in DOMAIN users'
                                   /\ users'[NameOf(q)] = users[NameOf(q)],
           IsRunning(programs'[p]) \/ wire'[p].requests # << >> \/ caller' = p
                => p \in Live',
           SessionOf(p)' =>
                /\ NameOf(p)' \in DOMAIN users' /\ users'[NameOf(p)'].active
                /\ \A q \in ClientID \ {p} : SessionOf(q) => NameOf(q) # NameOf(p)',
           Inside(programs'[p]) => NameOf(p)' = programs'[p].name,
           ToldConnected(programs'[p], wire'[p]) => NameOf(p)' = programs'[p].asked[2],
           Place(p)'
    PROVE  ChatSystemInv'
<1>1. ProgramsOK'
  <2>1. ASSUME NEW q \in ClientID
        PROVE  ClientOK(programs'[q], wire'[q], caller' = q)
    <3>1. CASE q = p
      BY <3>1
    <3>2. CASE q # p
      BY <3>2, SameClientIs DEF ChatSystemInv, ProgramsOK
    <3> QED
      BY <3>1, <3>2
  <2> QED
    BY <2>1 DEF ProgramsOK
<1>2. Sessions'
  <2>1. ASSUME NEW q \in ClientID \ {p}, SessionOf(q)
        PROVE  NameOf(q) \in DOMAIN users' /\ users'[NameOf(q)].active
    BY <2>1 DEF ChatSystemInv, Sessions
  <2> QED
    BY <2>1, SessionsKept
<1>3. ASSUME NEW q \in ClientID
      PROVE  Place(q)'
  <2>1. CASE q = p
    BY <2>1
  <2>2. CASE q # p
    <3>1. ToldOfGroup(programs[q], wire[q]) =>
                SessionOf(q) /\ NameOf(q) = programs[q].name
      BY SessionFacts DEF ChatSystemInv, Sessions
    <3>2. ToldOfGroup(programs[q], wire[q]) =>
                users'[programs[q].name] = users[programs[q].name]
      BY <2>2, <3>1
    <3>3. (ServerAppInv /\ LoopCaller /\ Sessions /\ ProgramsOK)'
      BY <1>1, <1>2
    <3> QED
      BY <2>2, <3>2, <3>3, PlaceKept
  <2> QED
    BY <2>1, <2>2
<1> QED
  BY <1>1, <1>2, <1>3 DEF ChatSystemInv

(* What a program does on its own account: it gains no session by it.      *)
LEMMA ProgramAloneInv ==
    ASSUME ChatSystemInv, NEW p \in ClientID,
           UNCHANGED <<managerVars, clients, doing, caller>>, sent' = << >>,
           NEW new \in ProgramSet, NEW w \in WireSet,
           programs' = [programs EXCEPT ![p] = new], wire' = [wire EXCEPT ![p] = w],
           ClientOK(new, w, caller = p),
           IsRunning(programs[p]) \/ wire[p].requests # << >> \/ ~IsRunning(new),
           wire[p].requests = << >> => IsRunning(programs[p]) \/ w.requests = << >>,
           InSession(new, w, caller = p) => SessionOf(p),
           Inside(new) => NameOf(p) = new.name,
           ~ToldConnected(new, w), ~ToldOfGroup(new, w)
    PROVE  ChatSystemInv'
<1>1. /\ groupMng' = groupMng /\ users' = users /\ savedUsers' = savedUsers
      /\ clients' = clients /\ doing' = doing /\ caller' = caller
  BY DEF managerVars
<1>2. /\ programs \in [ClientID -> ProgramSet] /\ wire \in [ClientID -> WireSet]
      /\ ServerAppInv /\ LoopCaller /\ Sessions
  BY DEF ChatSystemInv
<1>3. ServerAppInv'
  <2>1. /\ DOMAIN clients' \in SUBSET ClientID
        /\ clients' \in [DOMAIN clients' -> ConnectedClient]
        /\ LoopOK(users, doing')
        /\ DOMAIN sent' \in {{}, {1}, {1, 2}}
    BY <1>1, <1>2, SentNone DEF ServerAppInv
  <2>2. /\ \A g \in GroupName : Listed(users, doing', g) = Listed(users, doing, g)
        /\ \A g \in GroupName : Exempt(doing, g) => Exempt(doing', g)
    BY <1>1
  <2> QED
    BY <1>2, <2>1, <2>2, ManagersAloneInv
<1>4. LoopCaller' /\ Live' = Live /\ \A q : NameOf(q)' = NameOf(q)
  BY <1>1, <1>2 DEF LoopCaller, Live, NameOf
<1>5. /\ programs' \in [ClientID -> ProgramSet] /\ wire' \in [ClientID -> WireSet]
      /\ programs'[p] = new /\ wire'[p] = w
      /\ \A q \in ClientID \ {p} : SameClient(q)
  BY <1>1, <1>2 DEF SameClient
<1>6. AddressesKept(groupMng, groupMng')
  BY <1>1 DEF AddressesKept
<1>7. ClientOK(programs'[p], wire'[p], caller' = p)
  BY <1>1, <1>5
<1>8. SessionOf(p)' => SessionOf(p)
  BY <1>1, <1>5 DEF SessionOf
<1>9. Place(p)'
  BY <1>5 DEF Place
<1>10. IsRunning(programs'[p]) \/ wire'[p].requests # << >> \/ caller' = p => p \in Live'
  BY <1>1, <1>2, <1>4, <1>5 DEF Sessions
<1>11. SessionOf(p)' =>
                /\ NameOf(p)' \in DOMAIN users' /\ users'[NameOf(p)'].active
                /\ \A q \in ClientID \ {p} : SessionOf(q) => NameOf(q) # NameOf(p)'
  BY <1>1, <1>2, <1>4, <1>8 DEF Sessions
<1>12. \A q \in ClientID \ {p} :
                /\ q \in Live => q \in Live' /\ NameOf(q)' = NameOf(q)
                /\ SessionOf(q) => /\ NameOf(q) \in DOMAIN users'
                                   /\ users'[NameOf(q)] = users[NameOf(q)]
  BY <1>1, <1>2, <1>4 DEF Sessions
<1>13. /\ Inside(programs'[p]) => NameOf(p)' = programs'[p].name
       /\ ToldConnected(programs'[p], wire'[p]) => NameOf(p)' = programs'[p].asked[2]
  BY <1>4, <1>5
<1> QED
  BY <1>1, <1>3, <1>4, <1>5, <1>6, <1>7, <1>9, <1>10, <1>11, <1>12, <1>13, ActorStepInv

(* What ProgramAlone leaves alone.                                         *)
Alone == UNCHANGED <<managerVars, clients, doing, caller>> /\ sent' = << >>

(* The connection of a program that sends.                                 *)
LEMMA SendInv ==
    ASSUME ChatSystemInv, Alone, NEW p \in ClientID,
           programs[p].at \in {"start", "menu", "join"},
           NEW request \in Request, programs[p].at = "start" <=> request[1] \in Entering,
           NEW program \in ProgramSet,
           program.name = programs[p].name, program.doubled = programs[p].doubled,
           Len(program.groups) <= program.numOfGroups,
           request[1] \in Seating => program.numOfGroups < MaxJoins,
           Send(p, request, program)
    PROVE  ChatSystemInv'
<1> DEFINE old == programs[p]
           w == wire[p]
           called == caller = p
<1>1. ClientOK(old, w, called) /\ old \in ProgramSet /\ w \in WireSet
  BY DEF ChatSystemInv, ProgramsOK
<1>2. PICK new : new = [program EXCEPT !.at = "wait", !.asked = request]
  OBVIOUS
<1>3. /\ new \in ProgramSet /\ new.at = "wait" /\ new.asked = request
      /\ new.name = program.name /\ new.doubled = program.doubled
      /\ new.groups = program.groups /\ new.numOfGroups = program.numOfGroups
  BY <1>2 DEF ProgramSet
<1>4. PICK w1 : w1 = [w EXCEPT !.requests = Append(@, request)]
  OBVIOUS
<1>5. /\ w1.requests = Append(w.requests, request) /\ w1.answers = w.answers
      /\ w1 \in WireSet
  <2>1. w.requests \in Seq(Request)
    BY <1>1, WireFacts
  <2>2. Append(w.requests, request) \in Seq(Request)
    BY <2>1, AppendProperties
  <2> QED
    BY <1>1, <1>4, <2>2 DEF WireSet
<1>6. programs' = [programs EXCEPT ![p] = new] /\ wire' = [wire EXCEPT ![p] = w1]
  <2>1. wire \in [ClientID -> WireSet]
    BY DEF ChatSystemInv
  <2> QED
    BY <1>2, <1>4, <2>1 DEF Send, WireSet
<1>7. Room(new)
  BY <1>3 DEF Room
<1> HIDE DEF old, w, called
<1>8. /\ old.at \in {"start", "menu", "join"}
      /\ old.at = "start" <=> request[1] \in Entering
      /\ new.name = old.name /\ new.doubled = old.doubled
  BY <1>3 DEF old
<1>9. /\ ClientOK(new, w1, called)
      /\ InSession(new, w1, called) => InSession(old, w, called)
      /\ Inside(new) => Inside(old)
      /\ ~ToldConnected(new, w1) /\ ~ToldOfGroup(new, w1)
  BY <1>1, <1>3, <1>5, <1>7, <1>8, SentOK
<1>10. IsRunning(old)
  BY <1>8 DEF IsRunning
<1>11. Inside(new) => NameOf(p) = new.name
  BY <1>3, <1>9 DEF ChatSystemInv, Sessions, old
<1>12. InSession(new, w1, called) => SessionOf(p)
  BY <1>9 DEF SessionOf, old, w, called
<1> QED
  BY <1>3, <1>5, <1>6, <1>9, <1>10, <1>11, <1>12, ProgramAloneInv DEF Alone, old, w, called

(* recvMsg.                                                                *)
LEMMA ReceiveInv ==
    ASSUME ChatSystemInv, Alone, NEW p \in ClientID, Receive(p)
    PROVE  ChatSystemInv'
<1> DEFINE old == programs[p]
           w == wire[p]
           called == caller = p
<1>1. /\ ClientOK(old, w, called) /\ old \in ProgramSet /\ w \in WireSet
      /\ wire \in [ClientID -> WireSet]
  BY DEF ChatSystemInv, ProgramsOK
<1>2. PICK k \in 1 .. Len(w.answers) :
            wire' = [wire EXCEPT ![p].answers = SubSeq(@, k + 1, Len(@))]
  BY DEF Receive
<1>3. PICK w1 : w1 = [w EXCEPT !.answers = SubSeq(@, k + 1, Len(@))]
  OBVIOUS
<1>4. wire' = [wire EXCEPT ![p] = w1] /\ wire'[p] = w1
  BY <1>1, <1>2, <1>3 DEF WireSet
<1>5. /\ w.answers # << >>
      /\ w1.requests = w.requests /\ Len(w1.answers) < Len(w.answers)
      /\ w1 \in WireSet
  <2>1. w.answers \in Seq(AnswerSet) /\ Len(w.answers) \in Nat
        /\ (w.answers = << >> <=> Len(w.answers) = 0)
    BY <1>1, WireFacts
  <2> DEFINE left == SubSeq(w.answers, k + 1, Len(w.answers))
  <2>2. k + 1 \in Int /\ k \in Int /\ k >= 1 /\ k <= Len(w.answers)
    BY <2>1
  <2>3. \A i \in k + 1 .. Len(w.answers) : i \in 1 .. Len(w.answers)
    BY <2>1, <2>2
  <2>4. left \in Seq(AnswerSet)
    BY <2>1, <2>2, <2>3, ElementOfSeq, SubSeqProperties
  <2>5. Len(left) = Len(w.answers) - k
    BY <2>1, <2>2, SubSeqProperties
  <2>6. w1.requests = w.requests /\ w1.answers = left
    BY <1>1, <1>3 DEF WireSet
  <2>7. w1 \in WireSet
    BY <1>1, <1>3, <2>4 DEF WireSet
  <2> QED
    BY <2>1, <2>2, <2>5, <2>6, <2>7
<1>6. PICK t \in Treated(old, Head(w.answers)) :
            programs' = [programs EXCEPT ![p] =
                            [t EXCEPT
                                !.asked = << >>,
                                !.doubled = @ /\ (wire'[p].answers # << >>
                                                   \/ w.requests # << >>)]]
  BY DEF Receive
<1>7. PICK new : new = Looked(t, w, w1)
  OBVIOUS
<1>8. programs' = [programs EXCEPT ![p] = new] /\ old.at = "wait"
  BY <1>4, <1>6, <1>7 DEF Receive, Looked
<1> HIDE DEF old, w, called
<1>9. /\ new \in ProgramSet
      /\ ClientOK(new, w1, called)
      /\ InSession(new, w1, called) => InSession(old, w, called)
      /\ Inside(new) => \/ Inside(old) /\ new.name = old.name
                        \/ ToldConnected(old, w) /\ new.name = old.asked[2]
      /\ ~ToldConnected(new, w1) /\ ~ToldOfGroup(new, w1)
  BY <1>1, <1>5, <1>6, <1>7, <1>8, ReceivedOK
<1>10. IsRunning(old)
  BY <1>8 DEF IsRunning
<1>11. Inside(new) => NameOf(p) = new.name
  BY <1>9 DEF ChatSystemInv, Sessions, old, w
<1>12. InSession(new, w1, called) => SessionOf(p)
  BY <1>9 DEF SessionOf, old, w, called
<1> QED
  BY <1>4, <1>5, <1>8, <1>9, <1>10, <1>11, <1>12, ProgramAloneInv DEF Alone, old, w, called

(* The program ends.                                                       *)
LEMMA EndInv ==
    ASSUME ChatSystemInv, Alone, NEW p \in ClientID, End(p)
    PROVE  ChatSystemInv'
<1> DEFINE old == programs[p]
           w == wire[p]
           called == caller = p
<1>1. /\ ClientOK(old, w, called) /\ w \in WireSet /\ wire \in [ClientID -> WireSet]
  BY DEF ChatSystemInv, ProgramsOK
<1>2. PICK new : new = Program("gone")
  OBVIOUS
<1>3. /\ new \in ProgramSet /\ new.at = "gone" /\ new.asked = << >> /\ Room(new)
  BY <1>2, FreshProgram
<1>4. PICK w1 : w1 = [w EXCEPT !.answers = << >>]
  OBVIOUS
<1>5. w1.requests = w.requests /\ w1 \in WireSet
  <2>1. << >> \in Seq(AnswerSet)
    OBVIOUS
  <2> QED
    BY <1>1, <1>4, <2>1 DEF WireSet
<1>6. /\ programs' = [programs EXCEPT ![p] = new] /\ wire' = [wire EXCEPT ![p] = w1]
      /\ IsRunning(old) /\ old.at # "off"
  BY <1>1, <1>2, <1>4 DEF End, Running, IsRunning, WireSet
<1> HIDE DEF old, w, called
<1>7. /\ ClientOK(new, w1, called)
      /\ InSession(new, w1, called) => InSession(old, w, called)
      /\ ~Inside(new) /\ ~ToldConnected(new, w1) /\ ~ToldOfGroup(new, w1)
  BY <1>1, <1>3, <1>5, <1>6, EndedOK
<1>8. InSession(new, w1, called) => SessionOf(p)
  BY <1>7 DEF SessionOf, old, w, called
<1> QED
  BY <1>3, <1>5, <1>6, <1>7, <1>8, ProgramAloneInv DEF Alone, old, w, called

(* Whatever a program does.                                                *)
LEMMA ProgramStepInv ==
    ASSUME ChatSystemInv, ProgramAlone
    PROVE  ChatSystemInv'
<1>1. PICK p \in ClientID : ProgramStep(p)
  BY DEF ProgramAlone
<1>2. Alone
  BY DEF ProgramAlone, Alone
<1> DEFINE old == programs[p]
<1>3. /\ old \in ProgramSet /\ Len(old.groups) <= old.numOfGroups
  BY DEF ChatSystemInv, ProgramsOK, ClientOK, Room
<1>4. ASSUME NEW type \in {"REG_REQ", "LOGIN_REQ"}, NEW name \in UserName,
             NEW pass \in Password, old.at = "start", Send(p, <<type, name, pass>>, old)
      PROVE  ChatSystemInv'
  <2>1. PICK request : request = <<type, name, pass>>
    OBVIOUS
  <2>2. request \in Request /\ request[1] \in Entering /\ request[1] \notin Seating
    BY <2>1 DEF Request, Entering, Seating
  <2> QED
    BY <1>2, <1>3, <1>4, <2>1, <2>2, SendInv
<1>5. ASSUME NEW g \in GroupName,
             NEW type \in {"GROUP_CREATE_REQ", "GROUP_JOIN_REQ", "GROUP_LEAVE_REQ"},
             NEW program \in ProgramSet,
             program.name = old.name, program.doubled = old.doubled,
             Len(program.groups) <= program.numOfGroups,
             type \in Seating => program.numOfGroups < MaxJoins,
             old.at \in {"menu", "join"}, Send(p, <<type, g>>, program)
      PROVE  ChatSystemInv'
  <2>1. PICK request : request = <<type, g>>
    OBVIOUS
  <2>2. request \in Request /\ request[1] = type /\ request[1] \notin Entering
    BY <2>1 DEF Request, Entering
  <2> QED
    BY <1>2, <1>5, <2>1, <2>2, SendInv
<1>6. ASSUME NEW request \in {<<"GROUP_LIST_REQ">>, LogoutReq}, old.at = "menu",
             Send(p, request, old)
      PROVE  ChatSystemInv'
  <2>1. request \in Request /\ request[1] \notin Entering /\ request[1] \notin Seating
    BY DEF Request, LogoutReq, Entering, Seating
  <2> QED
    BY <1>2, <1>3, <1>6, <2>1, SendInv
<1>7. CASE AskToEnter(p)
  BY <1>4, <1>7 DEF AskToEnter
<1>8. CASE AskForList(p)
  BY <1>6, <1>8 DEF AskForList
<1>9. CASE AskToLogout(p)
  BY <1>6, <1>9 DEF AskToLogout, LogoutReq
<1>10. ASSUME NEW g \in GroupName, AskToCreate(p, g)
       PROVE  ChatSystemInv'
  BY <1>3, <1>5, <1>10 DEF AskToCreate
<1>11. ASSUME NEW g \in GroupName, AskToJoin(p, g)
       PROVE  ChatSystemInv'
  BY <1>3, <1>5, <1>11 DEF AskToJoin
<1>12. ASSUME NEW g \in GroupName, AskToLeave(p, g)
       PROVE  ChatSystemInv'
  <2>1. PICK closed \in BOOLEAN :
            Send(p, <<"GROUP_LEAVE_REQ", g>>, AfterClosing(old, closed))
    BY <1>12 DEF AskToLeave
  <2>2. PICK program : program = AfterClosing(old, closed)
    OBVIOUS
  <2>3. /\ program \in ProgramSet
        /\ program.name = old.name /\ program.doubled = old.doubled
        /\ Len(program.groups) <= program.numOfGroups
    <3>1. CASE closed
      <4>1. program = [old EXCEPT !.groups = RemoveGroup(old.groups)]
        BY <2>2, <3>1 DEF AfterClosing
      <4>2. old.groups \in Seq(GroupName) /\ old.numOfGroups \in 0 .. MaxJoins
        BY <1>3 DEF ProgramSet
      <4>3. /\ RemoveGroup(old.groups) \in Seq(GroupName)
            /\ Len(RemoveGroup(old.groups)) <= Len(old.groups)
        <5>1. CASE old.groups = << >>
          BY <4>2, <5>1 DEF RemoveGroup
        <5>2. CASE old.groups # << >>
          <6>1. /\ Tail(old.groups) \in Seq(GroupName)
                /\ Len(Tail(old.groups)) = Len(old.groups) - 1
                /\ Len(old.groups) \in Nat
            BY <4>2, <5>2, HeadTailProperties, LenProperties
          <6>2. RemoveGroup(old.groups) = Tail(old.groups)
            BY <5>2 DEF RemoveGroup
          <6> QED
            BY <6>1, <6>2
        <5> QED
          BY <5>1, <5>2
      <4>4. /\ program \in ProgramSet
            /\ program.groups = RemoveGroup(old.groups)
            /\ program.numOfGroups = old.numOfGroups
            /\ program.name = old.name /\ program.doubled = old.doubled
        BY <1>3, <4>1, <4>3 DEF ProgramSet
      <4>5. /\ Len(RemoveGroup(old.groups)) \in Nat /\ Len(old.groups) \in Nat
            /\ old.numOfGroups \in Nat
        BY <4>2, <4>3, LenProperties, ChatSystemAssumption
      <4> HIDE DEF old
      <4>6. Len(program.groups) <= program.numOfGroups
        <5>1. \A a, b, c \in Nat : a <= b /\ b <= c => a <= c
          OBVIOUS
        <5> QED
          BY <1>3, <4>3, <4>4, <4>5, <5>1
      <4> QED
        BY <4>4, <4>6
    <3>2. CASE ~closed
      BY <1>3, <2>2, <3>2 DEF AfterClosing
    <3> QED
      BY <3>1, <3>2
  <2>4. "GROUP_LEAVE_REQ" \notin Seating /\ old.at = "menu"
    BY <1>12 DEF Seating, AskToLeave
  <2> HIDE DEF old
  <2> QED
    BY <1>5, <2>1, <2>2, <2>3, <2>4
<1>13. CASE Receive(p)
  BY <1>2, <1>13, ReceiveInv
<1>14. CASE End(p)
  BY <1>2, <1>14, EndInv
<1> QED
  BY <1>1, <1>7, <1>8, <1>9, <1>10, <1>11, <1>12, <1>13, <1>14 DEF ProgramStep

(* The server accepts a connection, whose struct has any name in it.       *)
LEMMA ConnectClientInv ==
    ASSUME ChatSystemInv, NEW p \in ClientID, ConnectClient(p)
    PROVE  ChatSystemInv'
<1> DEFINE old == programs[p]
           w == wire[p]
<1>0. PICK called \in BOOLEAN : called <=> caller = p
  OBVIOUS
<1>1. /\ ClientOK(old, w, called) /\ w \in WireSet /\ ServerAppInv /\ LoopCaller /\ Sessions
      /\ programs \in [ClientID -> ProgramSet] /\ wire \in [ClientID -> WireSet]
  BY <1>0 DEF ChatSystemInv, ProgramsOK
<1>2. PICK new : new = Program("start")
  OBVIOUS
<1>3. /\ new \in ProgramSet /\ new.at = "start" /\ new.name = << >>
      /\ new.asked = << >> /\ new.doubled = FALSE /\ Room(new)
  BY <1>2, FreshProgram
<1>4. /\ old.at = "off" /\ programs' = [programs EXCEPT ![p] = new] /\ wire' = wire
      /\ doing = Idle /\ caller' = caller /\ NewClient(p)
  BY <1>2 DEF ConnectClient, Connect, NewClient
<1>5. PICK garbage \in UserName : clients' = HashMapInsert(clients, p, Client(garbage))
  BY <1>4 DEF NewClient
<1>6. /\ groupMng' = groupMng /\ users' = users /\ doing' = doing /\ p \notin DOMAIN clients
  BY <1>4 DEF NewClient, managerVars
<1>7. /\ p \in Live'
      /\ \A q \in ClientID \ {p} : q \in Live => q \in Live' /\ NameOf(q)' = NameOf(q)
  <2>1. /\ DOMAIN clients' = DOMAIN clients \union {p}
        /\ clients'[p] = Client(garbage)
        /\ \A q \in DOMAIN clients : clients'[q] = clients[q]
    BY <1>5, <1>6 DEF HashMapInsert
  <2>2. Client(garbage).live
    BY DEF Client
  <2> QED
    BY <2>1, <2>2 DEF Live, NameOf
<1>8. ServerAppInv'
  <2>1. ServerAppNext
    BY <1>4 DEF ServerAppNext
  <2> QED
    BY <1>1, <2>1, ServerAppStepInv
<1>9. LoopCaller'
  BY <1>1, <1>4, <1>6 DEF LoopCaller, Idle
<1> HIDE DEF old, w
<1>10. /\ ClientOK(new, w, called)
       /\ ~InSession(new, w, called)
       /\ ~Inside(new) /\ ~ToldConnected(new, w) /\ ~ToldOfGroup(new, w)
  BY <1>1, <1>3, <1>4, ConnectedOK
<1>11. /\ programs' \in [ClientID -> ProgramSet] /\ wire' \in [ClientID -> WireSet]
       /\ programs'[p] = new /\ wire'[p] = w /\ (caller' = p <=> called)
       /\ \A q \in ClientID \ {p} : SameClient(q)
  BY <1>0, <1>1, <1>3, <1>4 DEF SameClient, w
<1>12. ClientOK(programs'[p], wire'[p], caller' = p)
  BY <1>10, <1>11
<1>13. ~SessionOf(p)' /\ Place(p)'
  BY <1>10, <1>11 DEF SessionOf, Place
<1>14. \A q \in ClientID \ {p} : SessionOf(q) =>
            NameOf(q) \in DOMAIN users' /\ users'[NameOf(q)] = users[NameOf(q)]
  BY <1>1, <1>6 DEF Sessions
<1>15. AddressesKept(groupMng, groupMng')
  BY <1>6 DEF AddressesKept
<1> QED
  BY <1>6, <1>7, <1>8, <1>9, <1>10, <1>11, <1>12, <1>13, <1>14, <1>15, ActorStepInv

(* The first request of a client is treated.                               *)
LEMMA ServeInv ==
    ASSUME ChatSystemInv, NEW p \in ClientID, Serve(p)
    PROVE  ChatSystemInv'
<1> DEFINE old == programs[p]
           w == wire[p]
<1>0. PICK called \in BOOLEAN : called <=> caller = p
  OBVIOUS
<1>0a. PICK called1 \in BOOLEAN : called1 <=> caller' = p
  OBVIOUS
<1>1. /\ ClientOK(old, w, called) /\ old \in ProgramSet /\ w \in WireSet
      /\ ServerAppInv /\ LoopCaller /\ Sessions
      /\ programs \in [ClientID -> ProgramSet] /\ wire \in [ClientID -> WireSet]
  BY <1>0 DEF ChatSystemInv, ProgramsOK
<1>2. PICK request : request = Head(w.requests)
  OBVIOUS
<1>3. /\ w.requests # << >> /\ TreatMsg(p, request)
      /\ caller' = IF doing' = Idle THEN NoClient ELSE p
  BY <1>2 DEF Serve
<1>4. request \in Request
  <2>1. w.requests[1] \in Request /\ Head(w.requests) = w.requests[1]
    <3>1. /\ Len(w.requests) \in Nat /\ Len(w.requests) # 0
          /\ \A i \in 1 .. Len(w.requests) : w.requests[i] \in Request
          /\ Head(w.requests) = w.requests[1]
      BY <1>1, <1>3, WireFacts
    <3>2. 1 \in 1 .. Len(w.requests)
      BY <3>1
    <3> QED
      BY <3>1, <3>2
  <2> QED
    BY <1>2, <2>1
<1>5. PICK reply : reply = Answers(request)
  OBVIOUS
<1>6. ServerAppInv' /\ Handled(p, request, reply)
  BY <1>1, <1>3, <1>4, <1>5, TreatMsgHandled
<1>7. PICK k \in 1 .. Len(w.requests) :
        wire' = [wire EXCEPT ![p].requests = SubSeq(@, k + 1, Len(@)),
                             ![p].answers  = @ \o Delivered(p, reply)]
  BY <1>2, <1>5 DEF Serve
<1>8. PICK w1 : w1 = [w EXCEPT !.requests = SubSeq(@, k + 1, Len(@)),
                               !.answers  = @ \o Delivered(p, reply)]
  OBVIOUS
<1>9. /\ wire' = [wire EXCEPT ![p] = w1]
      /\ w1.requests = SubSeq(w.requests, k + 1, Len(w.requests))
      /\ w1.answers = w.answers \o Reaching(old, reply)
  BY <1>1, <1>7, <1>8 DEF WireSet, Delivered, Running, Reaching, IsRunning
<1>10. w1 \in WireSet
  <2>1. w1.requests \in Seq(Request)
    BY <1>1, <1>3, <1>9, RequestsLeft
  <2>2. w1.answers \in Seq(AnswerSet)
    <3>1. w.answers \in Seq(AnswerSet) /\ reply \in Seq(AnswerSet) /\ << >> \in Seq(AnswerSet)
      BY <1>1, <1>6, WireFacts DEF Handled
    <3> QED
      BY <1>9, <3>1, ConcatProperties DEF Reaching
  <2>3. w1 = [requests |-> w1.requests, answers |-> w1.answers]
    BY <1>1, <1>8 DEF WireSet
  <2> QED
    BY <2>1, <2>2, <2>3 DEF WireSet
<1>11. /\ doing = Idle /\ caller = NoClient /\ \A q \in ClientID : caller # q
       /\ p \in Live
  BY <1>1, <1>6, ChatSystemAssumption DEF Handled, LoopCaller, Idle
<1>12. /\ called1 \in BOOLEAN /\ LoopCaller'
       /\ \A q \in ClientID \ {p} : caller' # q
       /\ \/ called1 /\ reply = << >> /\ request = LogoutReq
          \/ /\ ~called1 /\ Len(reply) \in {1, 2}
             /\ Len(reply) = 2 => request[1] = "GROUP_LIST_REQ"
  <2>1. CASE /\ doing' = Idle /\ Len(reply) \in {1, 2}
             /\ Len(reply) = 2 => request[1] = "GROUP_LIST_REQ"
    <3>1. caller' = NoClient
      BY <1>3, <2>1
    <3> QED
      BY <1>0a, <2>1, <3>1, ChatSystemAssumption DEF LoopCaller, Idle
  <2>2. CASE /\ request = LogoutReq /\ reply = << >>
             /\ doing'.loop = "logout" /\ doing'.name = NameOf(p)
    <3>1. caller' = p
      BY <1>3, <2>2 DEF Idle
    <3>2. clients' = clients
      BY <1>6, <2>2 DEF Handled, LogoutReq
    <3> QED
      BY <1>0a, <2>2, <3>1, <3>2 DEF LoopCaller, NameOf
  <2> QED
    BY <1>6, <2>1, <2>2 DEF Handled
<1>13. PICK new : new = programs'[p]
  OBVIOUS
<1>14. /\ new \in ProgramSet /\ programs' = [programs EXCEPT ![p] = new]
       /\ new.at = old.at /\ new.name = old.name /\ new.asked = old.asked
       /\ new.groups = old.groups /\ new.numOfGroups = old.numOfGroups
       /\ new.doubled <=> old.doubled \/ (IsRunning(old) /\ Len(reply) = 2)
  <2>1. /\ Len(sent') = Len(reply)
        /\ Len(reply) > 1 <=> Len(reply) = 2
        /\ Len(reply) = 2 => request[1] = "GROUP_LIST_REQ"
    <3>1. Len(sent') = Len(reply)
      BY <1>6 DEF Handled
    <3>2. CASE reply = << >>
      <4>1. Len(reply) = 0
        BY <3>2
      <4> QED
        BY <3>1, <4>1
    <3>3. CASE Len(reply) \in {1, 2} /\ (Len(reply) = 2 => request[1] = "GROUP_LIST_REQ")
      BY <3>1, <3>3
    <3> QED
      BY <1>12, <3>2, <3>3
  <2>2. CASE IsRunning(old) /\ Len(reply) = 2
    <3>1. programs' = [programs EXCEPT ![p].doubled = TRUE]
      BY <1>2, <2>1, <2>2 DEF Serve, Running, IsRunning
    <3> QED
      BY <1>1, <1>13, <2>2, <3>1 DEF ProgramSet
  <2>3. CASE ~(IsRunning(old) /\ Len(reply) = 2)
    <3>1. programs' = programs
      BY <1>2, <2>1, <2>3 DEF Serve, Running, IsRunning
    <3> QED
      BY <1>1, <1>13, <2>3, <3>1
  <2> QED
    BY <2>2, <2>3
<1>15. Room(new)
  BY <1>1, <1>14 DEF Room, ClientOK
<1> HIDE DEF old, w
<1>16. /\ ClientOK(new, w1, called1)
       /\ InSession(new, w1, called1) => InSession(old, w, called) \/ ToldConnected(new, w1)
       /\ request[1] \in Entering <=> ~InSession(old, w, called)
       /\ Inside(new) => Inside(old)
       /\ ToldConnected(new, w1) =>
                /\ request = old.asked /\ request[1] = "LOGIN_REQ"
                /\ reply[1].response \in Good
       /\ ToldOfGroup(new, w1) =>
                /\ request = old.asked /\ request[1] \in Seating /\ Inside(old)
                /\ Head(w1.answers) = reply[1]
                /\ reply[1].response = Expected[request[1]]
  <2>1. reply \in Seq(AnswerSet) /\ k \in 1 .. Len(w.requests)
    BY <1>6 DEF Handled, w
  <2>2. Serves(old, w, request, reply, called1, new, w1)
    BY <1>2, <1>3, <1>9, <1>10, <1>12, <1>14, <1>15, <2>1 DEF Serves
  <2> QED
    BY <1>1, <2>2, ServedOK
<1>17. SessionOf(p) <=> InSession(old, w, called)
  BY <1>0 DEF SessionOf, old, w
<1>18. /\ Live' = Live
       /\ \A q \in ClientID \ {p} : NameOf(q)' = NameOf(q)
       /\ SessionOf(p) => clients' = clients /\ NameOf(p)' = NameOf(p)
       /\ ToldConnected(new, w1) => NameOf(p)' = request[2] /\ Connects(p, request[2])
  <2>1. /\ clients' = clients \/ (request[1] = "LOGIN_REQ" /\ Connects(p, request[2]))
        /\ request[1] = "LOGIN_REQ" /\ reply[1].response \in Good => Connects(p, request[2])
    BY <1>6 DEF Handled
  <2>2. SessionOf(p) => clients' = clients
    BY <1>16, <1>17, <2>1 DEF Entering
  <2>3. clients \in [DOMAIN clients -> ConnectedClient] /\ p \in DOMAIN clients
    BY <1>1, <1>11 DEF ServerAppInv, Live
  <2>4. ASSUME Connects(p, request[2])
        PROVE  /\ Live' = Live /\ NameOf(p)' = request[2]
               /\ \A q \in ClientID \ {p} : NameOf(q)' = NameOf(q)
    <3>1. clients' = [clients EXCEPT ![p] = Client(request[2])]
      BY <2>4 DEF Connects, Assigned
    <3>2. Client(request[2]).live /\ Client(request[2]).userName = request[2]
      BY DEF Client
    <3>3. /\ DOMAIN clients' = DOMAIN clients /\ clients'[p] = Client(request[2])
          /\ \A q : q # p => clients'[q] = clients[q]
      BY <2>3, <3>1
    <3>4. clients[p].live
      BY <1>11 DEF Live
    <3> QED
      BY <3>2, <3>3, <3>4 DEF Live, NameOf
  <2>5. clients' = clients => Live' = Live /\ \A q \in ClientID : NameOf(q)' = NameOf(q)
    BY DEF Live, NameOf
  <2> QED
    BY <1>16, <2>1, <2>2, <2>4, <2>5
<1>19. /\ programs'[p] = new /\ wire'[p] = w1 /\ (caller' = p <=> called1)
       /\ programs' \in [ClientID -> ProgramSet] /\ wire' \in [ClientID -> WireSet]
       /\ \A q \in ClientID \ {p} : SameClient(q)
  BY <1>0a, <1>1, <1>9, <1>10, <1>11, <1>12, <1>13, <1>14 DEF SameClient
<1>20. ClientOK(programs'[p], wire'[p], caller' = p)
  BY <1>16, <1>19
<1>21. ASSUME NEW q \in ClientID \ {p}, SessionOf(q)
       PROVE  /\ NameOf(q) \in DOMAIN users'
              /\ users'[NameOf(q)] = users[NameOf(q)]
  <2>1. NameOf(q) \in DOMAIN users /\ users[NameOf(q)].active
    BY <1>1, <1>21 DEF Sessions
  <2>2. NameOf(q) # << >>
    BY <1>1, <2>1, ChatSystemAssumption DEF ServerAppInv, UserMngOK, UserMngType
  <2>3. request[1] \notin Entering => NameOf(q) # NameOf(p)
    BY <1>1, <1>16, <1>17, <1>21 DEF Sessions
  <2>4. UsersKept(users, users', IF request[1] \in Entering THEN << >> ELSE NameOf(p))
    BY <1>6 DEF Handled
  <2> QED
    BY <2>1, <2>2, <2>3, <2>4 DEF UsersKept
<1>22. SessionOf(p)' =>
                /\ NameOf(p)' \in DOMAIN users' /\ users'[NameOf(p)'].active
                /\ \A q \in ClientID \ {p} : SessionOf(q) => NameOf(q) # NameOf(p)'
  <2>1. SessionOf(p)' => SessionOf(p) \/ ToldConnected(new, w1)
    BY <1>16, <1>17, <1>19 DEF SessionOf
  <2>2. CASE SessionOf(p)
    <3>1. NameOf(p)' = NameOf(p) /\ NameOf(p) \in DOMAIN users /\ users[NameOf(p)].active
      BY <1>1, <1>18, <2>2 DEF Sessions
    <3>2. NameOf(p) \in DOMAIN users' /\ users'[NameOf(p)].active
      BY <1>6, <3>1 DEF Handled, UsersKept
    <3> QED
      BY <1>1, <2>2, <3>1, <3>2 DEF Sessions
  <2>3. CASE ToldConnected(new, w1)
    <3>1. NameOf(p)' = request[2] /\ Connects(p, request[2])
      BY <1>18, <2>3
    <3>2. ASSUME NEW q \in ClientID \ {p}, SessionOf(q)
          PROVE  users[NameOf(q)].active
      BY <1>1, <3>2 DEF Sessions
    <3> QED
      BY <3>1, <3>2 DEF Connects
  <2> QED
    BY <2>1, <2>2, <2>3
<1>23. Inside(new) => SessionOf(p) /\ NameOf(p) = old.name
  BY <1>1, <1>16, <1>17 DEF Sessions, InSession, old
<1>24. /\ Inside(programs'[p]) => NameOf(p)' = programs'[p].name
       /\ ToldConnected(programs'[p], wire'[p]) => NameOf(p)' = programs'[p].asked[2]
  BY <1>14, <1>16, <1>18, <1>19, <1>23
<1>25. Place(p)'
  <2>1. SUFFICES ASSUME ToldOfGroup(new, w1)
                 PROVE  /\ new.asked[2] \in users'[new.name].groups
                        /\ IsOpen(groupMng', new.asked[2])
                        /\ groupMng'.groups[new.asked[2]].addr = Head(w1.answers).addr
    BY <1>19 DEF Place
  <2>2. /\ request = new.asked /\ request[1] \in Seating /\ Inside(old)
        /\ Head(w1.answers) = reply[1]
        /\ reply[1].response = Expected[request[1]]
    BY <1>14, <1>16, <2>1
  <2>3. NameOf(p) = new.name
    BY <1>1, <1>14, <2>2 DEF Sessions, old
  <2> QED
    BY <1>6, <2>2, <2>3 DEF Handled
<1>26. AddressesKept(groupMng, groupMng') /\ doing.loop # "close"
  BY <1>6, <1>11 DEF Handled, Idle
<1> QED
  BY <1>6, <1>11, <1>12, <1>18, <1>19, <1>20, <1>21, <1>22, <1>24, <1>25, <1>26,
     ActorStepInv

(* A step that changes no client, no user and no connection.               *)
LEMMA QuietStepInv ==
    ASSUME ChatSystemInv, ServerAppInv', LoopCaller',
           UNCHANGED <<programs, wire, caller, users, clients>>,
           AddressesKept(groupMng, groupMng'),
           doing'.loop # "close" => doing.loop # "close"
    PROVE  ChatSystemInv'
<1>1. \A q : SameClient(q)
  BY DEF SameClient
<1>2. /\ programs \in [ClientID -> ProgramSet] /\ wire \in [ClientID -> WireSet]
      /\ ProgramsOK /\ Sessions
  BY DEF ChatSystemInv
<1>3. ProgramsOK'
  BY <1>1, <1>2, SameClientIs DEF ProgramsOK
<1>4. Sessions'
  <2>1. Live' = Live /\ \A q : NameOf(q)' = NameOf(q)
    BY DEF Live, NameOf
  <2>2. \A q \in ClientID : SessionOf(q)' <=> SessionOf(q)
    BY <1>1, SameClientIs
  <2> QED
    BY <1>2, <2>1, <2>2 DEF Sessions
<1>5. ASSUME NEW q \in ClientID
      PROVE  Place(q)'
  <2>1. (ServerAppInv /\ LoopCaller /\ Sessions /\ ProgramsOK)'
    BY <1>3, <1>4
  <2> QED
    BY <1>1, <2>1, PlaceKept
<1> QED
  BY <1>2, <1>3, <1>4, <1>5 DEF ChatSystemInv

(* A turn of one of the server's loops.                                    *)
LEMMA ServerTurnInv ==
    ASSUME ChatSystemInv, ServerTurn
    PROVE  ChatSystemInv'
<1>1. /\ ServerAppInv /\ LoopCaller /\ Sessions /\ ProgramsOK
      /\ programs \in [ClientID -> ProgramSet] /\ wire \in [ClientID -> WireSet]
  BY DEF ChatSystemInv
<1>2. PICK reply : reply = Answers(<<"LOGOUT_REQ">>)
  OBVIOUS
<1>3. /\ wire' = IF caller = NoClient THEN wire
                 ELSE [wire EXCEPT ![caller].answers = @ \o Delivered(caller, reply)]
      /\ caller' = IF doing' = Idle THEN NoClient ELSE caller
      /\ programs' = programs /\ Turn
  BY <1>2 DEF ServerTurn
<1>4. ServerAppInv'
  <2>1. ServerAppNext
    BY <1>3 DEF ServerAppNext
  <2> QED
    BY <1>1, <2>1, ServerAppStepInv
<1>5. CASE LeaveSameGroup
  <2>1. /\ doing.loop = "close" /\ doing' = doing
        /\ users' = users /\ clients' = clients
        /\ \E g \in doing.todo : groupMng' = GroupMngLeave(groupMng, g)
    BY <1>5 DEF LeaveSameGroup
  <2>2. caller = NoClient
    BY <1>1, <2>1 DEF LoopCaller
  <2>3. wire' = wire /\ caller' = caller
    BY <1>3, <2>2
  <2>4. AddressesKept(groupMng, groupMng')
    BY <2>1, LeaveKeepsAddresses
  <2>5. LoopCaller'
    BY <2>1, <2>2, <2>3 DEF LoopCaller
  <2> QED
    BY <1>3, <1>4, <2>1, <2>3, <2>4, <2>5, QuietStepInv
<1>6. CASE LeaveNextGroup
  <2>1. sent' = << >>
    BY <1>1, <1>6, LeaveNextGroupInv
  <2>2. PICK g \in doing.todo :
            groupMng' = GroupMngLeave(groupMng, g) /\ AfterLeaving(g)
    BY <1>6 DEF LeaveNextGroup
  <2>3. doing' = LoggingOut(doing.name, doing.todo \ {g})
    BY <2>1, <2>2 DEF AfterLeaving, Resp
  <2>4. /\ doing.loop = "logout" /\ users' = users /\ clients' = clients
        /\ doing'.loop = "logout" /\ doing'.name = doing.name /\ doing' # Idle
    BY <1>6, <2>3 DEF LeaveNextGroup, LoggingOut, Idle
  <2>5. caller \in ClientID /\ doing.name = NameOf(caller) /\ caller' = caller
    BY <1>1, <1>3, <2>4 DEF LoopCaller
  <2>6. reply = << >>
    BY <1>2, <2>1 DEF Answers
  <2>7. wire' = wire
    <3>1. Delivered(caller, reply) = << >>
      BY <2>6 DEF Delivered
    <3>2. /\ wire[caller] \in WireSet
          /\ wire[caller].answers \in Seq(AnswerSet)
      BY <1>1, <2>5 DEF WireSet
    <3>3. wire[caller].answers \o << >> = wire[caller].answers
      BY <3>2, ConcatEmptySeq
    <3>4. wire' = [wire EXCEPT ![caller].answers = @ \o << >>]
      BY <1>3, <2>5, <3>1, ChatSystemAssumption
    <3>5. wire' = [wire EXCEPT ![caller] = [wire[caller] EXCEPT !.answers = wire[caller].answers]]
      BY <3>3, <3>4
    <3>6. [wire[caller] EXCEPT !.answers = wire[caller].answers] = wire[caller]
      BY <3>2 DEF WireSet
    <3> QED
      BY <1>1, <3>5, <3>6
  <2>8. AddressesKept(groupMng, groupMng')
    BY <2>2, LeaveKeepsAddresses
  <2>9. LoopCaller'
    BY <2>4, <2>5 DEF LoopCaller, NameOf
  <2> QED
    BY <1>3, <1>4, <2>4, <2>5, <2>7, <2>8, <2>9, QuietStepInv
<1>7. CASE FinishLogout
  <2>1. /\ doing.loop = "logout" /\ users' = UserMngDisconnect(users, doing.name)
        /\ doing' = Idle /\ groupMng' = groupMng /\ clients' = clients
        /\ sent' = Resp("LOGOUT_REC", "USER_DISCONNECTED")
    BY <1>7 DEF FinishLogout
  <2>2. PICK p \in ClientID : p = caller
    BY <1>1, <2>1 DEF LoopCaller
  <2>3. doing.name = NameOf(p) /\ caller' = NoClient /\ p # NoClient
    BY <1>1, <1>3, <2>1, <2>2, ChatSystemAssumption DEF LoopCaller
  <2>4. reply \in Seq(AnswerSet) /\ Len(reply) = 1
    <3>1. "USER_DISCONNECTED" \in Response
      BY DEF Response
    <3>2. PICK request : request = <<"LOGOUT_REQ">>
      OBVIOUS
    <3>3. request[1] # "GROUP_LIST_REQ" /\ reply = Answers(request)
      BY <1>2, <3>2
    <3> QED
      BY <2>1, <3>1, <3>3, OneAnswer
  <2> DEFINE old == programs[p]
             w == wire[p]
  <2>5. ClientOK(old, w, TRUE) /\ w \in WireSet
    <3>1. ClientOK(old, w, caller = p) /\ w \in WireSet
      BY <1>1 DEF ProgramsOK
    <3>2. (caller = p) = TRUE
      BY <2>2
    <3> QED
      BY <3>1, <3>2
  <2>6. PICK w1 : w1 = [w EXCEPT !.answers = @ \o Delivered(p, reply)]
    OBVIOUS
  <2>7. /\ wire' = [wire EXCEPT ![p] = w1] /\ w1.requests = w.requests
        /\ w1.answers = w.answers \o Reaching(old, reply)
        /\ w1 \in WireSet
    <3>1. wire' = [wire EXCEPT ![p].answers = @ \o Delivered(p, reply)]
      BY <1>3, <2>2, <2>3
    <3>2. /\ wire' = [wire EXCEPT ![p] = w1] /\ w1.requests = w.requests
          /\ w1.answers = w.answers \o Reaching(old, reply)
      BY <1>1, <2>6, <3>1 DEF WireSet, Delivered, Running, Reaching, IsRunning
    <3>3. w.answers \in Seq(AnswerSet) /\ Reaching(old, reply) \in Seq(AnswerSet)
      <4>1. << >> \in Seq(AnswerSet)
        OBVIOUS
      <4> QED
        BY <2>4, <2>5, <4>1, WireFacts DEF Reaching
    <3>4. w1.answers \in Seq(AnswerSet)
      BY <3>2, <3>3, ConcatProperties
    <3>5. w1 = [requests |-> w1.requests, answers |-> w1.answers]
      BY <2>5, <2>6 DEF WireSet
    <3> QED
      BY <2>5, <3>2, <3>4, <3>5 DEF WireSet
  <2> HIDE DEF old, w
  <2>8. /\ ClientOK(old, w1, FALSE)
        /\ InSession(old, w, TRUE) /\ ~InSession(old, w1, FALSE)
        /\ ~Inside(old) /\ ~ToldConnected(old, w1) /\ ~ToldOfGroup(old, w1)
    BY <2>4, <2>5, <2>7, LogoutAnsweredOK
  <2>9. /\ programs' \in [ClientID -> ProgramSet] /\ wire' \in [ClientID -> WireSet]
        /\ programs'[p] = old /\ wire'[p] = w1 /\ (caller' = p) = FALSE
        /\ \A q \in ClientID \ {p} : SameClient(q)
    BY <1>1, <1>3, <2>2, <2>3, <2>7, ChatSystemAssumption DEF SameClient, old
  <2>10. ClientOK(programs'[p], wire'[p], caller' = p)
    BY <2>8, <2>9
  <2>11. ~SessionOf(p)' /\ Place(p)'
    BY <2>8, <2>9 DEF SessionOf, Place
  <2>12. Live' = Live /\ (\A q : NameOf(q)' = NameOf(q)) /\ p \in Live
    BY <1>1, <2>1, <2>2 DEF Live, NameOf, Sessions
  <2>13. SessionOf(p)
    BY <2>2, SessionFacts
  <2>14. ASSUME NEW q \in ClientID \ {p}, SessionOf(q)
         PROVE  NameOf(q) \in DOMAIN users' /\ users'[NameOf(q)] = users[NameOf(q)]
    <3>1. NameOf(q) \in DOMAIN users /\ NameOf(q) # doing.name
      BY <1>1, <2>3, <2>13, <2>14 DEF Sessions
    <3>2. UserMngType(users)
      BY <1>1 DEF ServerAppInv, UserMngOK
    <3>3. CASE doing.name \in DOMAIN users
      <4>1. PICK n, user : /\ n = doing.name
                           /\ user = UserStruct(users[n].pass, FALSE, {})
        OBVIOUS
      <4>2. users' = WithUser(users, n, user) /\ n \in DOMAIN users
        BY <2>1, <3>3, <4>1 DEF UserMngDisconnect
      <4>3. /\ DOMAIN WithUser(users, n, user) = DOMAIN users
            /\ \A k \in DOMAIN users : k # n => WithUser(users, n, user)[k] = users[k]
        BY <3>2, <4>2, WithUserIs
      <4> QED
        BY <3>1, <4>1, <4>2, <4>3
    <3>4. CASE doing.name \notin DOMAIN users
      BY <2>1, <3>1, <3>4 DEF UserMngDisconnect
    <3> QED
      BY <3>3, <3>4
  <2>15. AddressesKept(groupMng, groupMng') /\ doing.loop # "close"
    BY <2>1 DEF AddressesKept
  <2>16. LoopCaller'
    BY <2>1, <2>3 DEF LoopCaller, Idle
  <2>17. ~Inside(programs'[p]) /\ ~ToldConnected(programs'[p], wire'[p])
    BY <2>8, <2>9
  <2> QED
    BY <1>4, <2>9, <2>10, <2>11, <2>12, <2>14, <2>15, <2>16, <2>17, ActorStepInv
<1> QED
  BY <1>3, <1>5, <1>6, <1>7 DEF Turn

(* The server closes the connection of a program that has ended.           *)
LEMMA DisconnectClientInv ==
    ASSUME ChatSystemInv, NEW p \in ClientID, DisconnectClient(p)
    PROVE  ChatSystemInv'
<1>1. /\ ServerAppInv /\ LoopCaller /\ Sessions /\ ProgramsOK
      /\ programs \in [ClientID -> ProgramSet] /\ wire \in [ClientID -> WireSet]
  BY DEF ChatSystemInv
<1>2. /\ programs[p].at \in {"gone", "crashed"} /\ wire[p].requests = << >>
      /\ CloseClient(p) \/ CloseClientInGroups(p)
      /\ programs' = programs /\ wire' = wire /\ caller' = caller
  BY DEF DisconnectClient, clientVars
<1>3. /\ doing = Idle /\ groupMng' = groupMng /\ users' = users
      /\ doing' = Idle \/ doing'.loop = "close"
      /\ clients' = Freed(p) \/ clients' = clients
  BY <1>2 DEF CloseClient, CloseClientInGroups, Draining, managerVars
<1>4. ServerAppInv'
  <2>1. ServerAppNext
    BY <1>2 DEF ServerAppNext
  <2> QED
    BY <1>1, <2>1, ServerAppStepInv
<1>5. caller = NoClient /\ LoopCaller' /\ caller # p
  BY <1>1, <1>2, <1>3, ChatSystemAssumption DEF LoopCaller, Idle
<1>6. \A q \in ClientID \ {p} : q \in Live => q \in Live' /\ NameOf(q)' = NameOf(q)
  <2>1. CASE clients' = clients
    BY <2>1 DEF Live, NameOf
  <2>2. CASE clients' = Freed(p)
    <3>1. DOMAIN clients' = DOMAIN clients /\ \A q \in DOMAIN clients \ {p} : clients'[q] = clients[q]
      BY <2>2 DEF Freed
    <3> QED
      BY <3>1 DEF Live, NameOf
  <2> QED
    BY <1>3, <2>1, <2>2
<1>7. \A q : SameClient(q)
  BY <1>2 DEF SameClient
<1>8. ~IsRunning(programs[p])
  BY <1>2 DEF IsRunning
<1>9. ~SessionOf(p)
  <2>1. ~Inside(programs[p]) /\ ~ToldConnected(programs[p], wire[p])
    BY <1>2, <1>8 DEF Inside, ToldConnected
  <2> QED
    BY <1>2, <1>5, <2>1 DEF SessionOf, InSession
<1>10. ~SessionOf(p)' /\ ClientOK(programs'[p], wire'[p], caller' = p)
  BY <1>1, <1>7, <1>9, SameClientIs DEF ProgramsOK
<1>11. /\ ~Inside(programs'[p]) /\ ~ToldConnected(programs'[p], wire'[p])
       /\ ~IsRunning(programs'[p])
  BY <1>2, <1>8 DEF Inside, ToldConnected
<1>12. Place(p)'
  BY <1>2 DEF Place, ToldOfGroup
<1>13. \A q \in ClientID \ {p} : SessionOf(q) =>
            NameOf(q) \in DOMAIN users' /\ users'[NameOf(q)] = users[NameOf(q)]
  BY <1>1, <1>3 DEF Sessions
<1>14. AddressesKept(groupMng, groupMng') /\ doing.loop # "close"
  BY <1>3 DEF AddressesKept, Idle
<1> QED
  BY <1>1, <1>2, <1>4, <1>5, <1>6, <1>7, <1>10, <1>11, <1>12, <1>13, <1>14, ActorStepInv

(* The accounts of a file are finitely many.                               *)
LEMMA ReadFinitely ==
    ASSUME NEW file, FileOK(file)
    PROVE  IsFiniteSet(DOMAIN UserMngCreate(file))
<1> DEFINE f == [i \in Line(file) |-> LineName(file, i)]
<1>1. Len(file) \div 2 \in Int
  BY DEF FileOK
<1>2. IsFiniteSet(Line(file))
  BY <1>1, FS_Interval DEF Line
<1>3. f \in Surjection(Line(file), Named(file))
  BY DEF Surjection, Named
<1>4. IsFiniteSet(Named(file))
  BY <1>2, <1>3, FS_Surjection
<1> QED
  BY <1>4, ReadUsersIs DEF UserMngCreate

(* Nobody is connected at first.                                           *)
LEMMA ChatSystemInitInv == ChatSystemInit => ChatSystemInv
<1> SUFFICES ASSUME ChatSystemInit
             PROVE  ChatSystemInv
  OBVIOUS
<1> DEFINE program == Program("off")
           w == [requests |-> << >>, answers |-> << >>]
<1>1. /\ programs = [p \in ClientID |-> program] /\ wire = [p \in ClientID |-> w]
      /\ savedUsers = SavedBefore /\ caller = NoClient
      /\ groupMng = GroupMngCreate /\ users = UserMngCreate(savedUsers)
      /\ clients = EmptyMap /\ doing = Idle /\ sent = << >>
  BY DEF ChatSystemInit, ChatClientInit, Booted
<1>2. FileOK(savedUsers)
  BY <1>1, ChatSystemAssumption DEF FileOK
<1>3. ServerAppInv
  <2>1. IsFiniteSet(DOMAIN users)
    BY <1>1, <1>2, ReadFinitely
  <2> QED
    BY <1>1, <1>2, <2>1, BootedInv, SentNone DEF ServerAppInv
<1>4. /\ program \in ProgramSet /\ program.at = "off"
      /\ program.asked = << >> /\ program.name = << >> /\ Room(program)
  BY FreshProgram
<1>5. w.requests = << >> /\ w.answers = << >>
  OBVIOUS
<1>6. w \in WireSet
  <2>1. << >> \in Seq(Request) /\ << >> \in Seq(AnswerSet)
    OBVIOUS
  <2> QED
    BY <2>1 DEF WireSet
<1> HIDE DEF program, w
<1>7. ~IsRunning(program) /\ ~Inside(program)
      /\ ~ToldConnected(program, w) /\ ~ToldOfGroup(program, w)
  BY <1>4 DEF IsRunning, Inside, ToldConnected, ToldOfGroup
<1>8. ClientOK(program, w, FALSE)
  <2>1. Position(program)
    BY <1>4, <1>7 DEF Position
  <2>2. Pending(w, FALSE) = 0
    BY <1>5, <1>6, PendingFacts
  <2>3. InStep(program, w, FALSE)
    BY <1>4, <1>7, <2>2 DEF InStep
  <2>4. OnTheWay(program, w, FALSE)
    BY <1>5 DEF OnTheWay
  <2> QED
    BY <1>4, <1>6, <2>1, <2>3, <2>4 DEF ClientOK
<1>9. ~InSession(program, w, FALSE)
  BY <1>5, <1>7 DEF InSession
<1>10. ASSUME NEW p \in ClientID
       PROVE  programs[p] = program /\ wire[p] = w /\ (caller = p) = FALSE
  BY <1>1, ChatSystemAssumption
<1>11. ProgramsOK
  BY <1>8, <1>10 DEF ProgramsOK
<1>12. Sessions
  <2>1. \A p \in ClientID : ~SessionOf(p)
    BY <1>9, <1>10 DEF SessionOf
  <2> QED
    BY <1>5, <1>7, <1>10, <2>1 DEF Sessions
<1>13. \A p \in ClientID : Place(p)
  BY <1>7, <1>10 DEF Place
<1>14. LoopCaller
  BY <1>1 DEF LoopCaller, Idle
<1>15. programs \in [ClientID -> ProgramSet] /\ wire \in [ClientID -> WireSet]
  BY <1>1, <1>4, <1>6
<1> QED
  BY <1>3, <1>11, <1>12, <1>13, <1>14, <1>15 DEF ChatSystemInv

(* Every step keeps the invariant.                                         *)
LEMMA ChatSystemStepInv ==
    ChatSystemInv /\ [ChatSystemNext]_systemVars => ChatSystemInv'
<1> SUFFICES ASSUME ChatSystemInv, [ChatSystemNext]_systemVars
             PROVE  ChatSystemInv'
  OBVIOUS
<1>1. CASE ProgramAlone
  BY <1>1, ProgramStepInv
<1>2. CASE ServerTurn
  BY <1>2, ServerTurnInv
<1>3. ASSUME NEW p \in ClientID, ConnectClient(p) \/ Serve(p) \/ DisconnectClient(p)
      PROVE  ChatSystemInv'
  BY <1>3, ConnectClientInv, ServeInv, DisconnectClientInv
<1>4. CASE UNCHANGED systemVars
  <2>1. /\ UNCHANGED <<programs, wire, caller>> /\ UNCHANGED appVars
    BY <1>4 DEF systemVars, clientVars
  <2>2. /\ UNCHANGED <<groupMng, users, clients, doing>>
    BY <2>1 DEF appVars
  <2>3. ServerAppInv /\ LoopCaller
    BY DEF ChatSystemInv
  <2>4. ServerAppInv'
    BY <2>1, <2>3, ServerAppStepInv
  <2>5. LoopCaller'
    BY <2>1, <2>2, <2>3 DEF LoopCaller, NameOf
  <2>6. AddressesKept(groupMng, groupMng')
    BY <2>2 DEF AddressesKept
  <2> QED
    BY <2>1, <2>2, <2>4, <2>5, <2>6, QuietStepInv
<1> QED
  BY <1>1, <1>2, <1>3, <1>4 DEF ChatSystemNext

(* A program gets a group by looking at an answer, in no other way.        *)
LEMMA GroupsGrow ==
    ASSUME ChatSystemInv, ChatSystemNext, NEW p \in ClientID,
           programs'[p].numOfGroups > programs[p].numOfGroups
    PROVE  Receive(p)
<1>1. /\ programs \in [ClientID -> ProgramSet]
      /\ \A q \in ClientID : programs[q].numOfGroups \in 0 .. MaxJoins
  BY DEF ChatSystemInv, ProgramSet
<1>2. programs'[p].numOfGroups # programs[p].numOfGroups /\ programs'[p].numOfGroups # 0
  <2>1. \A n \in 0 .. MaxJoins : ~(n > n) /\ ~(0 > n)
    BY ChatSystemAssumption
  <2> QED
    BY <1>1, <2>1
<1>3. \A at : Program(at).numOfGroups = 0
  BY DEF Program
<1>4. ASSUME NEW q \in ClientID, ProgramStep(q)
      PROVE  Receive(p)
  <2>1. ASSUME NEW program, NEW request, Send(q, request, program),
               program = programs[q] \/ \E closed \in BOOLEAN :
                                            program = AfterClosing(programs[q], closed)
        PROVE  FALSE
    <3>1. programs[q] \in ProgramSet
      BY <1>1
    <3>2. program.numOfGroups = programs[q].numOfGroups
          /\ [program EXCEPT !.at = "wait", !.asked = request].numOfGroups
                = program.numOfGroups
      BY <2>1, <3>1 DEF AfterClosing, ProgramSet
    <3>3. programs' = [programs EXCEPT ![q] =
                            [program EXCEPT !.at = "wait", !.asked = request]]
      BY <2>1 DEF Send
    <3> QED
      BY <1>1, <1>2, <3>2, <3>3
  <2>2. CASE End(q)
    <3>1. programs' = [programs EXCEPT ![q] = Program("gone")]
      BY <2>2 DEF End
    <3> QED
      BY <1>1, <1>2, <1>3, <3>1
  <2>3. CASE Receive(q)
    <3>1. programs'[p] = programs[p] \/ q = p
      BY <1>1, <2>3 DEF Receive
    <3> QED
      BY <1>2, <2>3, <3>1
  <2>4. CASE AskToEnter(q) \/ AskForList(q) \/ AskToLogout(q)
    BY <2>1, <2>4 DEF AskToEnter, AskForList, AskToLogout
  <2>5. ASSUME NEW g \in GroupName, AskToCreate(q, g) \/ AskToJoin(q, g) \/ AskToLeave(q, g)
        PROVE  FALSE
    BY <2>1, <2>5 DEF AskToCreate, AskToJoin, AskToLeave
  <2> QED
    BY <1>4, <2>2, <2>3, <2>4, <2>5 DEF ProgramStep
<1>5. ASSUME NEW q \in ClientID, ConnectClient(q)
      PROVE  FALSE
  <2>1. programs' = [programs EXCEPT ![q] = Program("start")]
    BY <1>5 DEF ConnectClient, Connect
  <2> QED
    BY <1>1, <1>2, <1>3, <2>1
<1>6. ASSUME NEW q \in ClientID, Serve(q)
      PROVE  FALSE
  <2>1. programs' = [programs EXCEPT ![q].doubled = TRUE] \/ programs' = programs
    BY <1>6 DEF Serve
  <2>2. CASE programs' = programs
    BY <1>2, <2>2
  <2>3. CASE programs' = [programs EXCEPT ![q].doubled = TRUE]
    <3>1. programs'[p] = programs[p] \/ programs'[p] = [programs[p] EXCEPT !.doubled = TRUE]
      BY <1>1, <2>3
    <3>2. programs[p] \in ProgramSet
      BY <1>1
    <3>3. [programs[p] EXCEPT !.doubled = TRUE].numOfGroups = programs[p].numOfGroups
      BY <3>2 DEF ProgramSet
    <3> QED
      BY <1>2, <3>1, <3>3
  <2> QED
    BY <2>1, <2>2, <2>3
<1>7. programs' # programs
  BY <1>2
<1>8. ~ServerTurn /\ \A q \in ClientID : ~DisconnectClient(q)
  BY <1>7 DEF ServerTurn, DisconnectClient, clientVars
<1> QED
  BY <1>4, <1>5, <1>6, <1>8 DEF ChatSystemNext, ProgramAlone

-----------------------------------------------------------------------------
(* The theorems *)

(* The inductive invariant of the programs and the server.                 *)
THEOREM ChatSystemAlwaysInv == ChatSystemSpec => []ChatSystemInv
<1> QED
  BY ChatSystemInitInv, ChatSystemStepInv, PTL DEF ChatSystemSpec

(* The managers, the programs and the connections stay well formed.        *)
THEOREM ChatSystemTypeCorrect == ChatSystemSpec => []ChatSystemTypeOK
<1>1. ChatSystemInv => ChatSystemTypeOK
  <2> SUFFICES ASSUME ChatSystemInv
               PROVE  ChatSystemTypeOK
    OBVIOUS
  <2>1. ServerAppTypeOK
    BY DEF ChatSystemInv, ServerAppInv, ServerAppTypeOK, GroupMngOK, UserMngOK, FileOK, LoopOK
  <2>2. caller \in ClientID \union {NoClient}
    BY DEF ChatSystemInv, LoopCaller
  <2>3. ASSUME NEW p \in ClientID
        PROVE  /\ programs[p].at \in {"off", "start", "menu", "join", "wait", "gone", "crashed"}
               /\ programs[p].at = "wait" => programs[p].asked \in Request
               /\ programs[p].groups \in Seq(GroupName)
               /\ programs[p].numOfGroups \in Len(programs[p].groups) .. MaxJoins
               /\ wire[p].requests \in Seq(Request)
    <3>1. ClientOK(programs[p], wire[p], caller = p)
      BY DEF ChatSystemInv, ProgramsOK
    <3>2. programs[p] \in ProgramSet /\ wire[p] \in WireSet
          /\ Len(programs[p].groups) <= programs[p].numOfGroups
      BY <3>1 DEF ClientOK, Room
    <3>3. programs[p].at = "wait" => programs[p].asked \in Request
      BY <3>1, ClientFacts
    <3>4. programs[p].numOfGroups \in 0 .. MaxJoins /\ programs[p].groups \in Seq(GroupName)
      BY <3>2 DEF ProgramSet
    <3>5. programs[p].numOfGroups \in Len(programs[p].groups) .. MaxJoins
      BY <3>2, <3>4, LenProperties, ChatSystemAssumption
    <3> QED
      BY <3>2, <3>3, <3>4, <3>5 DEF ProgramSet, WireSet
  <2> QED
    BY <2>1, <2>2, <2>3 DEF ChatSystemTypeOK
<1> QED
  BY <1>1, ChatSystemAlwaysInv, PTL

(* A program in recv() has a request on the way, being served, or answered.*)
THEOREM NobodyWaitsInVain == ChatSystemSpec => []NeverWaitsInVain
<1>1. ChatSystemInv => NeverWaitsInVain
  BY DEF ChatSystemInv, ProgramsOK, ClientOK, InStep, NeverWaitsInVain, Pending, UnderWay
<1> QED
  BY <1>1, ChatSystemAlwaysInv, PTL

(* Until a program was answered twice, an answer is to the request before  *)
(* it.                                                                     *)
THEOREM AnswersStayInStep == ChatSystemSpec => []AnswersInStep
<1>1. ChatSystemInv => AnswersInStep
  BY DEF ChatSystemInv, ProgramsOK, ClientOK, InStep, AnswersInStep, Pending, UnderWay,
         Running, IsRunning
<1> QED
  BY <1>1, ChatSystemAlwaysInv, PTL

(* Who is past the start menu is connected, with the name the server keeps *)
(* for the connection.                                                     *)
THEOREM SessionsAgree == ChatSystemSpec => []SessionAgrees
<1>1. ChatSystemInv => SessionAgrees
  <2> SUFFICES ASSUME ChatSystemInv, NEW p \in ClientID, Inside(programs[p])
               PROVE  /\ NameOf(p) = programs[p].name
                      /\ users[programs[p].name].active
    BY DEF SessionAgrees, Inside, Running, IsRunning, LogoutReq
  <2>1. SessionOf(p)
    BY SessionFacts
  <2> QED
    BY <2>1 DEF ChatSystemInv, Sessions
<1> QED
  BY <1>1, ChatSystemAlwaysInv, PTL

(* The chat a program opens is at the address the server leases to the     *)
(* group, which lists its user.                                            *)
THEOREM ChatsOpenWhereServerSays == ChatSystemSpec => OpensWhereServerSays
<1>1. ASSUME ChatSystemInv, ChatSystemNext, NEW p \in ClientID,
             programs'[p].numOfGroups > programs[p].numOfGroups,
             ~programs[p].doubled, doing.loop # "close"
      PROVE  LET g == programs'[p].groups[Len(programs'[p].groups)]
             IN  /\ IsOpen(groupMng, g)
                 /\ groupMng.groups[g].addr = Head(wire[p].answers).addr
                 /\ g \in users[programs[p].name].groups
  <2>1. Receive(p)
    BY <1>1, GroupsGrow
  <2> DEFINE old == programs[p]
             w == wire[p]
             answer == Head(wire[p].answers)
  <2>2. /\ ClientOK(old, w, caller = p) /\ old.at = "wait"
        /\ programs \in [ClientID -> ProgramSet] /\ w \in WireSet
    BY <1>1, <2>1 DEF ChatSystemInv, ProgramsOK, Receive
  <2>3. PICK t \in Treated(old, answer) :
            /\ programs'[p].groups = t.groups
            /\ programs'[p].numOfGroups = t.numOfGroups
    <3>1. PICK t \in Treated(old, answer) :
                programs' = [programs EXCEPT ![p] =
                                [t EXCEPT !.asked = << >>,
                                          !.doubled = @ /\ (wire'[p].answers # << >>
                                                            \/ wire[p].requests # << >>)]]
      BY <2>1 DEF Receive
    <3>2. programs'[p].groups = t.groups /\ programs'[p].numOfGroups = t.numOfGroups
      BY <2>2, <3>1
    <3> QED
      BY <3>2
  <2>4. w.answers # << >>
    <3>1. \E k \in 1 .. Len(w.answers) : TRUE
      BY <2>1 DEF Receive
    <3> QED
      BY <3>1
  <2> HIDE DEF old, w, answer
  <2>5. /\ old.asked[1] \in Seating
        /\ answer.response = Expected[old.asked[1]]
        /\ t.groups[Len(t.groups)] = old.asked[2]
    <3>1. t.numOfGroups > old.numOfGroups /\ old.numOfGroups \in 0 .. MaxJoins
      BY <1>1, <2>2, <2>3 DEF old, ProgramSet
    <3>2. t.numOfGroups # old.numOfGroups
      BY <3>1, ChatSystemAssumption
    <3>3. t.numOfGroups # 0
      BY <3>1, ChatSystemAssumption
    <3>4. t \notin {Program("gone"), Program("crashed")}
      BY <3>3 DEF Program
    <3> QED
      BY <2>2, <2>3, <3>2, <3>4, TreatedIs
  <2>6. ToldOfGroup(programs[p], wire[p])
    BY <1>1, <2>2, <2>4, <2>5 DEF ToldOfGroup, old, w, answer
  <2> QED
    BY <1>1, <2>3, <2>5, <2>6 DEF ChatSystemInv, Place, old, answer
<1>2. ChatSystemInv /\ [ChatSystemNext]_systemVars =>
        [\A p \in ClientID :
            programs'[p].numOfGroups > programs[p].numOfGroups
                /\ ~programs[p].doubled /\ doing.loop # "close"
                => LET g == programs'[p].groups[Len(programs'[p].groups)]
                   IN  /\ IsOpen(groupMng, g)
                       /\ groupMng.groups[g].addr = Head(wire[p].answers).addr
                       /\ g \in users[programs[p].name].groups]_systemVars
  BY <1>1
<1> QED
  BY <1>2, ChatSystemAlwaysInv, PTL DEF ChatSystemSpec, OpensWhereServerSays
=============================================================================
