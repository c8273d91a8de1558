----------------------------- MODULE MessageStream -----------------------------
(***************************************************************************)
(* Requests and answers on their way, as bytes.  A connection is a stream: *)
(* the server's recv() finds any part of what was sent, writes it over the *)
(* start of the one buffer all clients share (server.c), and calls the     *)
(* handler its first byte stands for, whatever the rest is (serverApp.c).  *)
(* A client takes what comes next on its connection for the answer         *)
(* (clientApp.c), and reads on when recv() returns 0.                      *)
(*                                                                         *)
(* What a handler decides is ServerApp's: here it gives any answer it has. *)
(* Groups are there, so a list is not empty; answers arrive whole.  A read *)
(* or a write beyond an array is the end of what can be said: overrun.     *)
(***************************************************************************)
EXTENDS Protocol, Descriptors, FiniteSets

CONSTANTS
    UserText,       \* names of users that are typed in
    PassText,       \* passwords
    GroupText,      \* names of groups
    Details,        \* addresses and ports of groups, as texts
    GroupLists,     \* the names of all groups, in the order of the vector
    NotWritten,     \* what malloc() may leave in a byte
    BufferSize,     \* m_bufferSize
    NoRequest,
    MaxRequests,    \* bound: requests of a client
    MaxPieces       \* bound: requests that arrive in pieces

(* 42 bytes are the longest request whose lengths fit the arrays; an       *)
(* address and a port are texts that fit theirs; the groups of a list were *)
(* created by requests that came whole, and scanf() gives no empty name.   *)
ASSUME MessageStreamAssumption ==
    /\ IsFiniteSet(ClientID)
    /\ NotWritten \subseteq Byte
    /\ BufferSize \in Nat /\ BufferSize >= 42
    /\ \A text \in UserText \union PassText \union GroupText :
            text \in Text /\ Len(text) < USER_NAME_SIZE
    /\ \A place \in Details :
            /\ place \in Text \X Text
            /\ Len(place[1]) < IPV4_ADDRESS_SIZE /\ Len(place[2]) < PORT_SIZE
    /\ \A names \in GroupLists :
            /\ names \in Seq(Text \ {<< >>})
            /\ \A i \in DOMAIN names : Len(names[i]) < USER_NAME_SIZE
    /\ MaxRequests \in Nat /\ MaxPieces \in Nat

VARIABLES
    buffer,         \* m_buffer
    toServer,       \* descriptor -> bytes sent to the server
    toClient,       \* descriptor -> answers to the client
    client,         \* descriptor -> where the program is, and what it asked
    serverUp,
    overrun,        \* what was read or written beyond its array
    history         \* descriptor -> what happened to it

streamVars == <<buffer, toServer, toClient, client, serverUp, overrun, history>>

-----------------------------------------------------------------------------
(* at: the start menu, the menu of a user who has logged in, or ended.     *)
Program(at) == [at |-> at, asked |-> NoRequest, sent |-> 0]

(* pieces: how often recv() did not find all that was sent; served: the    *)
(* server has answered a login with success; fooled: the end of the        *)
(* connection was taken for an answer.                                     *)
NoHistory == [pieces |-> 0, served |-> FALSE, fooled |-> FALSE]

MessageStreamInit ==
    /\ \E b \in NotWritten : buffer = [i \in 1 .. BufferSize |-> b]
    /\ toServer = [c \in ClientID |-> << >>]
    /\ toClient = [c \in ClientID |-> << >>]
    /\ client = [c \in ClientID |-> Program("start")]
    /\ serverUp = TRUE
    /\ overrun = "nothing"
    /\ history = [c \in ClientID |-> NoHistory]

-----------------------------------------------------------------------------
(* Requests *)

RequestsAt(at) ==
    CASE at = "start" -> {"REG_REQ", "LOGIN_REQ"} \X UserText \X PassText
      [] at = "menu"  ->
            ({"GROUP_CREATE_REQ", "GROUP_JOIN_REQ", "GROUP_LEAVE_REQ"} \X GroupText)
                \union {<<"GROUP_LIST_REQ">>, <<"LOGOUT_REQ">>}
      [] at = "gone"  -> {}

ASSUME NoRequestAssumption == NoRequest \notin RequestsAt("start") \union RequestsAt("menu")

(* sendMsg.  Once the server has gone the kernel still takes the first     *)
(* request; the next one ends the program (SIGPIPE).                       *)
SendRequest(c) ==
    /\ overrun = "nothing" /\ client[c].asked = NoRequest /\ client[c].sent < MaxRequests
    /\ \E request \in RequestsAt(client[c].at) :
        /\ client' = [client EXCEPT ![c].asked = request, ![c].sent = @ + 1]
        /\ toServer' = IF serverUp
                       THEN [toServer EXCEPT ![c] = @ \o PackRequest(request)]
                       ELSE toServer
    /\ UNCHANGED <<buffer, toClient, serverUp, overrun, history>>

(* Bug variant: a part goes behind what is in the buffer.                  *)
BugAppend(bytes) == SubSeq(buffer, Len(bytes) + 1, BufferSize) \o bytes

(* recv(): what it found is at the start of the buffer, before what was    *)
(* there.                                                                  *)
WrittenOver(bytes) == bytes \o SubSeq(buffer, Len(bytes) + 1, BufferSize)

(* What the handler of a request may answer.                               *)
AnswersTo(type) ==
    CASE type = "REG_REQ" -> {<<"USER_EXISTS">>, <<"USER_CREATED">>, <<"GEN_ERROR">>}
      [] type = "LOGIN_REQ" ->
            {<<"USER_NOT_FOUND">>, <<"PASS_INCORRECT">>, <<"USER_ALREADY_CONNECTED">>,
             <<"USER_CONNECTED">>}
      [] type = "LOGOUT_REQ" -> {<<"USER_DISCONNECTED">>, <<"GEN_ERROR">>}
      [] type = "GROUP_CREATE_REQ" ->
            {<<"GROUP_CREATE_FAIL">>, <<"GEN_ERROR">>} \union ({"GROUP_CREATED"} \X Details)
      [] type = "GROUP_JOIN_REQ" ->
            {<<"GROUP_USER_CONNECTED">>, <<"GEN_ERROR">>} \union ({"GROUP_JOINED"} \X Details)
      [] type = "GROUP_LEAVE_REQ" -> {<<"GROUP_LEFT">>, <<"GEN_ERROR">>}
      [] type = "GROUP_LIST_REQ" -> {"GROUP_LIST_SUCCESS"} \X GroupLists
      [] type = "MSG_TYPE_ERR" -> {<<"GEN_ERROR">>}

(* GotMessageFunc: CheckMsg is commented out, TreatMsg looks at the buffer *)
(* alone.  A length no array has room for, or a list too long to be sent,  *)
(* is the end.                                                             *)
GotMessage(c) ==
    LET request == UnpackRequest(buffer')
    IN  IF \E n \in LengthsRead(buffer') : ~Fits(n)
        THEN overrun' = "name" /\ UNCHANGED toClient
        ELSE \E answer \in AnswersTo(request[1]) :
                IF answer[1] = "GROUP_LIST_SUCCESS" /\ ~GroupListFits(answer[2])
                THEN overrun' = "list" /\ UNCHANGED toClient
                ELSE /\ toClient' = [toClient EXCEPT ![c] =
                                        Append(@, [to |-> request[1], answer |-> answer])]
                     /\ UNCHANGED overrun

(* The server has just told c that it is connected.                        *)
ToldConnected(c) ==
    /\ toClient'[c] # toClient[c]
    /\ LET last == Last(toClient'[c])
       IN  last.to = "LOGIN_REQ" /\ last.answer[1] = "USER_CONNECTED"

Pieces == {c \in ClientID : history[c].pieces > 0}

(* The server's recv(), and the handler after it.                          *)
ServerReceive(c) ==
    /\ overrun = "nothing"
    /\ \E k \in 1 .. Len(toServer[c]) :
        /\ k <= BufferSize
        /\ buffer' = WrittenOver(SubSeq(toServer[c], 1, k))
        /\ toServer' = [toServer EXCEPT ![c] = SubSeq(@, k + 1, Len(@))]
        /\ GotMessage(c)
        /\ history' = [history EXCEPT
                ![c].pieces = IF k < Len(toServer[c]) THEN @ + 1 ELSE @,
                ![c].served = @ \/ ToldConnected(c)]
        /\ MaxPieces >= history'[c].pieces + Cardinality(Pieces \ {c})
    /\ UNCHANGED <<client, serverUp>>

-----------------------------------------------------------------------------
(* Answers *)

(* Bug variant: a user who is connected already passes for connected.      *)
BugAlreadyConnectedGood ==
    {"USER_CREATED", "USER_CONNECTED", "USER_ALREADY_CONNECTED", "GROUP_LEFT",
     "USER_DISCONNECTED"}

(* treatServerResponse: every other answer is BAD.                         *)
Good == {"USER_CREATED", "USER_CONNECTED", "GROUP_LEFT", "USER_DISCONNECTED"}

(* Bug variant: what was asked is not forgotten.                           *)
BugStillAsked(c, response) ==
    [client EXCEPT
        ![c].at = IF client[c].asked[1] = "LOGIN_REQ" /\ response \in Good THEN "menu" ELSE @]

(* What the program makes of a response: where main() goes on.             *)
Treated(c, response) ==
    [client EXCEPT
        ![c].asked = NoRequest,
        ![c].at = CASE client[c].asked[1] = "LOGIN_REQ" /\ response \in Good -> "menu"
                    [] client[c].asked[1] = "LOGOUT_REQ" -> "gone"
                    [] OTHER -> @]

(* The client's recv() finds some of what has come, and reads the first.   *)
ClientReceive(c) ==
    /\ overrun = "nothing" /\ client[c].asked # NoRequest
    /\ \E k \in 1 .. Len(toClient[c]) :
            toClient' = [toClient EXCEPT ![c] = SubSeq(@, k + 1, Len(@))]
    /\ LET msg == PackAnswer(Head(toClient[c]).to, Head(toClient[c]).answer)
       IN  client' = Treated(c, GetMsgResponse(msg))
    /\ UNCHANGED <<buffer, toServer, serverUp, overrun, history>>

-----------------------------------------------------------------------------
(* The server goes *)

(* ServerRun ends: the kernel closes the connections.                      *)
ServerStops ==
    /\ overrun = "nothing" /\ serverUp
    /\ serverUp' = FALSE
    /\ toServer' = [c \in ClientID |-> << >>]
    /\ UNCHANGED <<buffer, toClient, client, overrun, history>>

(* recv() returns 0, which recvMsg takes for success: the answer is what   *)
(* the array on the stack happens to hold, and so are the details or the   *)
(* list behind an expected response.                                       *)
ReceiveNothing(c) ==
    /\ overrun = "nothing" /\ ~serverUp
    /\ client[c].asked # NoRequest /\ toClient[c] = << >>
    /\ \E i \in DOMAIN MsgResponse : client' = Treated(c, MsgResponse[i])
    /\ overrun' \in {"nothing"} \union
            IF client[c].asked[1] \in {"GROUP_CREATE_REQ", "GROUP_JOIN_REQ", "GROUP_LIST_REQ"}
            THEN {"answer"} ELSE {}
    /\ history' = [history EXCEPT ![c].fooled = TRUE]
    /\ UNCHANGED <<buffer, toServer, toClient, serverUp>>

(* SIGPIPE, on a send() to a server that has gone.                         *)
ProgramKilled(c) ==
    /\ overrun = "nothing" /\ ~serverUp
    /\ client[c].asked = NoRequest /\ client[c].at # "gone"
    /\ client' = [client EXCEPT ![c].at = "gone"]
    /\ UNCHANGED <<buffer, toServer, toClient, serverUp, overrun, history>>

MessageStreamNext ==
    \/ \E c \in ClientID :
        \/ SendRequest(c) \/ ServerReceive(c) \/ ClientReceive(c)
        \/ ReceiveNothing(c) \/ ProgramKilled(c)
    \/ ServerStops

MessageStreamSpec == MessageStreamInit /\ [][MessageStreamNext]_streamVars

-----------------------------------------------------------------------------
(* Properties *)

(* Type invariant.                                                         *)
MessageStreamTypeOK ==
    /\ buffer \in Seq(Byte) /\ Len(buffer) = BufferSize
    /\ \A c \in ClientID :
        /\ toServer[c] \in Seq(Byte)
        /\ client[c].asked = NoRequest \/ client[c].asked \in RequestsAt(client[c].at)
        /\ client[c].sent \in 0 .. MaxRequests
        /\ history[c].pieces \in 0 .. MaxPieces
    /\ overrun \in {"nothing", "name", "list", "answer"}

(* A handler treats what its client sent, whatever bytes of other clients' *)
(* requests, whole or in pieces, the buffer holds behind it and whatever   *)
(* is in there from before: until a request of its own comes in pieces.    *)
RequestsUnderstood ==
    [][\A c \in ClientID :
        toServer'[c] # toServer[c] /\ client[c].asked # NoRequest
                /\ serverUp' /\ history'[c].pieces = 0
            => UnpackRequest(buffer') = client[c].asked]_streamVars

(* A client acts on the answer to its own request, with the details and    *)
(* the names the server packed, up to a list of 127 bytes: until a request *)
(* of its own came in pieces.                                              *)
AnswersUnderstood ==
    [][\A c \in ClientID :
        Len(toClient'[c]) < Len(toClient[c]) /\ history[c].pieces = 0
            => LET asked == client[c].asked[1]
                   came  == Head(toClient[c])
                   names == IF asked = "GROUP_LIST_REQ" THEN Reverse(came.answer[2]) ELSE << >>
                   meant == IF asked = "GROUP_LIST_REQ" THEN <<came.answer[1], names>>
                            ELSE came.answer
               IN  /\ came.to = asked
                   /\ UnpackAnswer(asked, PackAnswer(came.to, came.answer)) = meant]_streamVars

(* No handler goes by a length its arrays have no room for while requests  *)
(* arrive whole: the byte LogoutUser takes for a length, which lies behind *)
(* its request, is a length some other request left there.                 *)
LengthsFitWholeRequests == overrun = "name" => Pieces # {}

(* A program on the menu of a user who has logged in was told so by the    *)
(* server: unless its requests came in pieces, or the end of the connection*)
(* was taken for an answer.                                                *)
MenuMeansSession ==
    \A c \in ClientID :
        client[c].at = "menu"
            => history[c].served \/ history[c].fooled \/ history[c].pieces > 0

(* A whole message, for ProtocolCheck.                                     *)
Full(msg) == ProtocolCheck(msg, Len(msg)) = "PROTOCOL_MSG_FULL"

(* What the check keeps of the promise of protocol.h ("use ProtocolCheck() *)
(* to check if message received fully"), were it called: neither a part of *)
(* a request that recv() may find, nor the rest of it, passes for a whole  *)
(* message, though the rest begins anywhere; and a whole one does, if it   *)
(* is a request with something in it, or an answer without an address.     *)
CheckTellsParts ==
    \A c \in ClientID :
        LET sent == toServer[c]
        IN  /\ history[c].pieces = 0
                => /\ Len(sent) > 2 => Full(sent)
                   /\ \A k \in 1 .. Len(sent) - 1 :
                        ~Full(SubSeq(sent, 1, k)) /\ ~Full(SubSeq(sent, k + 1, Len(sent)))
            /\ \A i \in DOMAIN toClient[c] :
                toClient[c][i].answer[1] \notin {"GROUP_CREATED", "GROUP_JOINED"}
                    => Full(PackAnswer(toClient[c][i].to, toClient[c][i].answer))

(* Full, of a message received from its first byte on, when all of it has  *)
(* come and not before.                                                    *)
FullWhenWhole(msg) == \A k \in 1 .. Len(msg) : Full(SubSeq(msg, 1, k)) <=> k = Len(msg)

(* The promise for requests.  Two of them are two bytes, which is less than*)
(* ProtocolCheck takes for a message.                                      *)
CheckTellsRequests ==
    \A c \in ClientID : history[c].pieces = 0 => FullWhenWhole(toServer[c])

(* The promise for answers, whose second byte is the "Whole Msg Length"    *)
(* (protocol.c:25, 32).  That of the details of a group is one too small:  *)
(* they are full without their last digit, and not with it.                *)
CheckTellsAnswers ==
    \A c \in ClientID : \A i \in DOMAIN toClient[c] :
        FullWhenWhole(PackAnswer(toClient[c][i].to, toClient[c][i].answer))

(* protocol.h:17, 230: ProtocolCheck is there "to check if message received*)
(* fully".  Neither half of that holds: a counterexample is expected.      *)
CheckTells == CheckTellsRequests /\ CheckTellsAnswers
=============================================================================
