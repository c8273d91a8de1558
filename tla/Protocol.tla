-------------------------------- MODULE Protocol --------------------------------
(***************************************************************************)
(* The messages of the chat (protocol.c, of which the client has a copy):  *)
(* what is packed, byte by byte, and what is read out of a buffer that     *)
(* holds a message, some of one, or something else.                        *)
(*                                                                         *)
(* A byte is a char, which is signed: a length of 128 and more comes back  *)
(* negative.  A text is the sequence of its characters; of the digits of a *)
(* port only that sprintf() and sscanf() agree matters.  Packing has       *)
(* memory, and is given a type and texts that are there.                   *)
(***************************************************************************)
EXTENDS Integers, SequencesExt

Byte == -128 .. 127

Signed(n) == ((n + 128) % 256) - 128

(* A string, without its end mark.                                         *)
Text == Seq(Byte \ {0})

(* _packedMsg[i]                                                           *)
At(msg, i) == msg[i + 1]

(* strncpy() of n characters from i on, and an end mark after them.        *)
TextAt(msg, i, n) ==
    LET copied == SubSeq(msg, i + 1, i + n)
        end    == SelectInSeq(copied, LAMBDA b : b = 0)
    IN  IF end = 0 THEN copied ELSE SubSeq(copied, 1, end - 1)

(* A text, after the byte that holds its length.                           *)
Counted(text) == <<Signed(Len(text))>> \o text

-----------------------------------------------------------------------------
(* The enumerations, as bytes *)

MsgType ==
    <<"CONN_REQ", "CONN_REC", "REG_REQ", "LOGIN_REQ", "LOGOUT_REQ", "REG_REC",
      "LOGIN_REC", "LOGOUT_REC", "GROUP_CREATE_REQ", "GROUP_JOIN_REQ",
      "GROUP_LEAVE_REQ", "GROUP_CREATE_REC", "GROUP_JOIN_REC", "GROUP_LEAVE_REC",
      "GROUP_LIST_REQ", "GROUP_LIST_REC", "MSG_TYPE_ERR">>

MsgResponse ==
    <<"CONN_SUCCESS", "CONN_FAIL", "USER_CREATED", "USER_EXISTS",
      "USER_NAME_TOO_SHORT", "PASS_TOO_SHORT", "PASS_INCORRECT", "USER_NOT_FOUND",
      "USER_CONNECTED", "USER_ALREADY_CONNECTED", "CLIENT_DISCONNECT_REQ",
      "USER_DISCONNECTED", "GROUP_CREATED", "GROUP_CREATE_FAIL", "GROUP_NOT_EXISTS",
      "GROUP_NAME_TOO_SHORT", "GROUP_JOINED", "GROUP_JOIN_FAIL",
      "GROUP_USER_CONNECTED", "GROUP_LEFT", "GROUP_LEAVE_FAIL", "GROUP_LIST_SUCCESS",
      "GROUP_LIST_FAIL", "GROUP_LIST_EMPTY", "GEN_ERROR">>

Number(enum, name) == (CHOOSE i \in DOMAIN enum : enum[i] = name) - 1

TypeByte(type) == Number(MsgType, type)
ResponseByte(response) == Number(MsgResponse, response)

(* A byte that is no enumerator falls to the default of every switch.      *)
Enumerator(enum, byte, other) ==
    IF byte + 1 \in DOMAIN enum THEN At(enum, byte) ELSE other

GetMsgType(msg) == Enumerator(MsgType, At(msg, 0), "MSG_TYPE_ERR")
GetMsgResponse(msg) == Enumerator(MsgResponse, At(msg, 2), "MSG_RES_MAX")

-----------------------------------------------------------------------------
(* Requests: packed by the client *)

PackUserDetails(type, name, pass) ==
    <<TypeByte(type), Signed(4 + Len(name) + Len(pass))>>
        \o Counted(name) \o Counted(pass)

PackGroupName(type, name) ==
    <<TypeByte(type), Signed(3 + Len(name))>> \o Counted(name)

PackLogoutReq == <<TypeByte("LOGOUT_REQ"), 2>>

PackGroupListRequest == <<TypeByte("GROUP_LIST_REQ"), 2>>

(* The request as the program has it, and what its handler sends of it.    *)
PackRequest(request) ==
    CASE request[1] \in {"REG_REQ", "LOGIN_REQ"} ->
            PackUserDetails(request[1], request[2], request[3])
      [] request[1] \in {"GROUP_CREATE_REQ", "GROUP_JOIN_REQ", "GROUP_LEAVE_REQ"} ->
            PackGroupName(request[1], request[2])
      [] request[1] = "LOGOUT_REQ"     -> PackLogoutReq
      [] request[1] = "GROUP_LIST_REQ" -> PackGroupListRequest

-----------------------------------------------------------------------------
(* Requests: read by the server, out of its buffer *)

(* The handlers' arrays for names and passwords, and where a client puts   *)
(* what is typed in.                                                       *)
NAME_LENGTH == 20
USER_NAME_SIZE == 15

(* What a group's address and the digits of its port are written to.       *)
IPV4_ADDRESS_SIZE == 20
PORT_SIZE == 8

(* A length the handlers' arrays have room for, with the end mark.         *)
Fits(n) == n \in 0 .. NAME_LENGTH - 1

(* Bug variant: the second length is looked for one byte early.            *)
BugPassLengthAt(msg) == IF Fits(At(msg, 2)) THEN {At(msg, 2 + At(msg, 2))} ELSE {}

PassLengthAt(msg) == IF Fits(At(msg, 2)) THEN {At(msg, 3 + At(msg, 2))} ELSE {}

(* The lengths a handler goes by.  LogoutUser reads one, too, though its   *)
(* request ends before it.                                                 *)
LengthsRead(msg) ==
    CASE GetMsgType(msg) \in {"REG_REQ", "LOGIN_REQ"} -> {At(msg, 2)} \union PassLengthAt(msg)
      [] GetMsgType(msg) \in {"LOGOUT_REQ", "GROUP_CREATE_REQ", "GROUP_JOIN_REQ",
                              "GROUP_LEAVE_REQ"} -> {At(msg, 2)}
      [] OTHER -> {}

UnpackUserDetails(msg) ==
    LET n == At(msg, 2) IN <<TextAt(msg, 3, n), TextAt(msg, 4 + n, At(msg, 3 + n))>>

UnpackGroupName(msg) == TextAt(msg, 3, At(msg, 2))

(* What the handler that TreatMsg calls takes the request for; what        *)
(* LogoutUser unpacks, it overwrites.                                      *)
UnpackRequest(msg) ==
    LET type == GetMsgType(msg)
    IN  CASE type \in {"REG_REQ", "LOGIN_REQ"} -> <<type>> \o UnpackUserDetails(msg)
          [] type \in {"GROUP_CREATE_REQ", "GROUP_JOIN_REQ", "GROUP_LEAVE_REQ"} ->
                <<type, UnpackGroupName(msg)>>
          [] type \in {"LOGOUT_REQ", "GROUP_LIST_REQ"} -> <<type>>
          [] OTHER -> <<"MSG_TYPE_ERR">>

(* Bug variant: what is longer than its length byte says is full, too.     *)
BugCheckAtLeast(msg, size) ==
    IF size < 3 THEN "PROTOCOL_MSG_NOT_INITALIZED"
    ELSE IF At(msg, 1) <= Signed(size) THEN "PROTOCOL_MSG_FULL" ELSE "PROTOCOL_MSG_PART"

(* Whether size bytes are one message: for whoever would ask.              *)
ProtocolCheck(msg, size) ==
    IF size < 3 THEN "PROTOCOL_MSG_NOT_INITALIZED"
    ELSE IF At(msg, 1) = Signed(size) THEN "PROTOCOL_MSG_FULL" ELSE "PROTOCOL_MSG_PART"

-----------------------------------------------------------------------------
(* Answers: packed by the server *)

PackRespMsg(type, response) == <<TypeByte(type), 3, ResponseByte(response)>>

(* The length byte leaves the response out.                                *)
PackGroupDetails(response, addr, port) ==
    <<TypeByte("GROUP_CREATE_REC"), Signed(4 + Len(addr) + Len(port)),
      ResponseByte(response)>> \o Counted(addr) \o Counted(port)

(* VectorRemove takes from the end: the names come out in reverse.         *)
PackNames(names) == FlattenSeq([i \in DOMAIN names |-> Counted(Reverse(names)[i])])

GroupListSize(names) == 4 + Len(PackNames(names))

PackGroupList(names) ==
    <<TypeByte("GROUP_LIST_REC"), Signed(GroupListSize(names)),
      ResponseByte("GROUP_LIST_SUCCESS"), Signed(Len(names))>> \o PackNames(names)

(* *_pckMsgSize is the size as a char: from 128 on send() is told of almost*)
(* 2^64 bytes, from 251 on the packed message is longer than its buffer.   *)
GroupListFits(names) == GroupListSize(names) = Signed(GroupListSize(names))

(* The type of the answer to a request.  Some errors go out under that of  *)
(* another answer: nobody reads it.                                        *)
AnswerType(asked) ==
    CASE asked = "REG_REQ"          -> "REG_REC"
      [] asked = "LOGIN_REQ"        -> "LOGIN_REC"
      [] asked = "LOGOUT_REQ"       -> "LOGOUT_REC"
      [] asked = "GROUP_CREATE_REQ" -> "GROUP_CREATE_REC"
      [] asked = "GROUP_JOIN_REQ"   -> "GROUP_JOIN_REC"
      [] asked = "GROUP_LEAVE_REQ"  -> "GROUP_LEAVE_REC"
      [] asked = "GROUP_LIST_REQ"   -> "GROUP_LIST_REC"
      [] asked = "MSG_TYPE_ERR"     -> "MSG_TYPE_ERR"

(* An answer as the handlers have it: a response alone, the details of a   *)
(* group after one, or the names of all groups.                            *)
PackAnswer(asked, answer) ==
    CASE answer[1] \in {"GROUP_CREATED", "GROUP_JOINED"} ->
            PackGroupDetails(answer[1], answer[2][1], answer[2][2])
      [] answer[1] = "GROUP_LIST_SUCCESS" -> PackGroupList(answer[2])
      [] OTHER -> PackRespMsg(AnswerType(asked), answer[1])

-----------------------------------------------------------------------------
(* Answers: read by the client *)

(* Bug variant: the port starts where its length is.                       *)
BugPortWithLength(msg) ==
    LET n == At(msg, 3) IN <<TextAt(msg, 4, n), TextAt(msg, 4 + n, At(msg, 4 + n))>>

UnpackGroupDetails(msg) ==
    LET n == At(msg, 3) IN <<TextAt(msg, 4, n), TextAt(msg, 5 + n, At(msg, 4 + n))>>

(* A turn of the loop: at the first character of a name, unless the length *)
(* is passed.                                                              *)
NextName(msg, done) ==
    IF done.i >= At(msg, 1) THEN done
    ELSE [i     |-> done.i + At(msg, done.i - 1) + 1,
          names |-> Append(done.names, TextAt(msg, done.i, At(msg, done.i - 1)))]

UnpackGroupList(msg) ==
    LET after[turns \in 0 .. Len(msg)] ==
            IF turns = 0 THEN [i |-> 5, names |-> << >>]
            ELSE NextName(msg, after[turns - 1])
    IN  after[Len(msg)].names

(* What the program makes of an answer, by what it asked: it looks for the *)
(* details or the list only behind the response it expects.                *)
UnpackAnswer(asked, msg) ==
    LET response == GetMsgResponse(msg)
    IN  CASE <<asked, response>> \in {<<"GROUP_CREATE_REQ", "GROUP_CREATED">>,
                                     <<"GROUP_JOIN_REQ", "GROUP_JOINED">>} ->
                <<response, UnpackGroupDetails(msg)>>
          [] asked = "GROUP_LIST_REQ" /\ response = "GROUP_LIST_SUCCESS" ->
                <<response, UnpackGroupList(msg)>>
          [] OTHER -> <<response>>
=============================================================================
