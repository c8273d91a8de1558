-------------------------- MODULE MessageStreamProofs --------------------------
(***************************************************************************)
(* Messages as bytes, for all texts that fit their arrays and any number   *)
(* of clients: what one side packs the other side reads, whatever is in    *)
(* the buffer behind it.                                                   *)
(***************************************************************************)
EXTENDS MessageStream, SequenceTheorems, FiniteSetTheorems, WellFoundedInduction, TLAPS

-----------------------------------------------------------------------------
(* Bytes *)

(* A number that fits a char is kept by it; any other is made one that     *)
(* does.                                                                   *)
LEMMA SignedIs ==
    ASSUME NEW n \in Int
    PROVE  /\ Signed(n) \in Byte
           /\ n \in 0 .. 127 => Signed(n) = n
BY DEF Signed, Byte

(* The byte of a response, and back.                                       *)
LEMMA ResponseRead ==
    ASSUME NEW response \in {MsgResponse[i] : i \in 1 .. 25}
    PROVE  /\ ResponseByte(response) \in 0 .. 24
           /\ MsgResponse[ResponseByte(response) + 1] = response
<1> DEFINE n == CHOOSE i \in DOMAIN MsgResponse : MsgResponse[i] = response
<1>1. DOMAIN MsgResponse = 1 .. 25
  BY DEF MsgResponse
<1>2. n \in 1 .. 25 /\ MsgResponse[n] = response
  BY <1>1
<1>3. ResponseByte(response) = n - 1
  BY DEF ResponseByte, Number
<1> HIDE DEF n
<1> QED
  BY <1>2, <1>3

(* The byte of a message type, and back.                                   *)
LEMMA TypeRead ==
    ASSUME NEW type \in {MsgType[i] : i \in 1 .. 17}
    PROVE  /\ TypeByte(type) \in 0 .. 16
           /\ MsgType[TypeByte(type) + 1] = type
<1> DEFINE n == CHOOSE i \in DOMAIN MsgType : MsgType[i] = type
<1>1. DOMAIN MsgType = 1 .. 17
  BY DEF MsgType
<1>2. n \in 1 .. 17 /\ MsgType[n] = type
  BY <1>1
<1>3. TypeByte(type) = n - 1
  BY DEF TypeByte, Number
<1> HIDE DEF n
<1> QED
  BY <1>2, <1>3

(* The types and responses that are packed.                                *)
LEMMA Packed ==
    /\ {"REG_REQ", "LOGIN_REQ", "LOGOUT_REQ", "GROUP_CREATE_REQ", "GROUP_JOIN_REQ",
        "GROUP_LEAVE_REQ", "GROUP_LIST_REQ", "REG_REC", "LOGIN_REC", "LOGOUT_REC",
        "GROUP_CREATE_REC", "GROUP_JOIN_REC", "GROUP_LEAVE_REC", "GROUP_LIST_REC",
        "MSG_TYPE_ERR"} \subseteq {MsgType[i] : i \in 1 .. 17}
    /\ {"USER_CREATED", "USER_EXISTS", "PASS_INCORRECT", "USER_NOT_FOUND", "USER_CONNECTED",
        "USER_ALREADY_CONNECTED", "USER_DISCONNECTED", "GROUP_CREATED", "GROUP_CREATE_FAIL",
        "GROUP_JOINED", "GROUP_USER_CONNECTED", "GROUP_LEFT", "GROUP_LIST_SUCCESS",
        "GEN_ERROR"} \subseteq {MsgResponse[i] : i \in 1 .. 25}
<1>1. /\ MsgType[3] = "REG_REQ" /\ MsgType[4] = "LOGIN_REQ" /\ MsgType[5] = "LOGOUT_REQ"
      /\ MsgType[6] = "REG_REC" /\ MsgType[7] = "LOGIN_REC" /\ MsgType[8] = "LOGOUT_REC"
      /\ MsgType[9] = "GROUP_CREATE_REQ" /\ MsgType[10] = "GROUP_JOIN_REQ"
      /\ MsgType[11] = "GROUP_LEAVE_REQ" /\ MsgType[12] = "GROUP_CREATE_REC"
      /\ MsgType[13] = "GROUP_JOIN_REC" /\ MsgType[14] = "GROUP_LEAVE_REC"
      /\ MsgType[15] = "GROUP_LIST_REQ" /\ MsgType[16] = "GROUP_LIST_REC"
      /\ MsgType[17] = "MSG_TYPE_ERR"
  BY DEF MsgType
<1>2. /\ MsgResponse[3] = "USER_CREATED" /\ MsgResponse[4] = "USER_EXISTS"
      /\ MsgResponse[7] = "PASS_INCORRECT" /\ MsgResponse[8] = "USER_NOT_FOUND"
      /\ MsgResponse[9] = "USER_CONNECTED" /\ MsgResponse[10] = "USER_ALREADY_CONNECTED"
      /\ MsgResponse[12] = "USER_DISCONNECTED" /\ MsgResponse[13] = "GROUP_CREATED"
      /\ MsgResponse[14] = "GROUP_CREATE_FAIL" /\ MsgResponse[17] = "GROUP_JOINED"
      /\ MsgResponse[19] = "GROUP_USER_CONNECTED" /\ MsgResponse[20] = "GROUP_LEFT"
      /\ MsgResponse[22] = "GROUP_LIST_SUCCESS" /\ MsgResponse[25] = "GEN_ERROR"
  BY DEF MsgResponse
<1>3. \A i \in {3, 4, 5, 6, 7, 8, 9, 10, 11, 12, 13, 14, 15, 16, 17} : i \in 1 .. 17
  OBVIOUS
<1>4. \A i \in {3, 4, 7, 8, 9, 10, 12, 13, 14, 17, 19, 20, 22, 25} : i \in 1 .. 25
  OBVIOUS
<1>5. \A t : (\E i \in 1 .. 17 : MsgType[i] = t) => t \in {MsgType[i] : i \in 1 .. 17}
  OBVIOUS
<1>6. \A r : (\E i \in 1 .. 25 : MsgResponse[i] = r)
                => r \in {MsgResponse[i] : i \in 1 .. 25}
  OBVIOUS
<1> QED
  BY <1>1, <1>2, <1>3, <1>4, <1>5, <1>6

-----------------------------------------------------------------------------
(* Texts *)

(* A text, as bytes.                                                       *)
LEMMA TextBytes ==
    ASSUME NEW text \in Text
    PROVE  /\ text \in Seq(Byte) /\ Len(text) \in Nat
           /\ \A i \in 1 .. Len(text) : text[i] \in Byte /\ text[i] # 0
<1>1. text \in Seq(Byte \ {0})
  BY DEF Text
<1>2. text \in Seq(Byte)
  BY <1>1, SeqMonotonic
<1> QED
  BY <1>1, <1>2, ElementOfSeq, LenProperties

(* text is in msg from its byte i + 1 on.                                  *)
Holds(msg, i, text) ==
    i + Len(text) <= Len(msg) /\ \A k \in 1 .. Len(text) : msg[i + k] = text[k]

(* What strncpy() gets of a text that is there.                            *)
LEMMA TextIs ==
    ASSUME NEW msg \in Seq(Byte), NEW text \in Text, NEW i \in Nat, Holds(msg, i, text)
    PROVE  TextAt(msg, i, Len(text)) = text
<1> DEFINE n      == Len(text)
           copied == SubSeq(msg, i + 1, i + n)
<1>1. /\ text \in Seq(Byte) /\ n \in Nat
      /\ \A k \in 1 .. n : text[k] \in Byte /\ text[k] # 0
  BY TextBytes
<1>2. copied = text
  <2>1. Len(msg) \in Nat /\ \A k \in 1 .. Len(msg) : msg[k] \in Byte
    BY ElementOfSeq, LenProperties
  <2>2. \A k \in i + 1 .. i + n : msg[k] \in Byte
    BY <1>1, <2>1 DEF Holds
  <2>3. /\ copied \in Seq(Byte)
        /\ Len(copied) = IF i + 1 <= i + n THEN (i + n) - (i + 1) + 1 ELSE 0
        /\ \A k \in 1 .. (i + n) - (i + 1) + 1 : copied[k] = msg[i + 1 + k - 1]
    <3>1. i + 1 \in Int /\ i + n \in Int
      BY <1>1
    <3> QED
      BY <2>2, <3>1, SubSeqProperties
  <2> HIDE DEF copied
  <2>4. Len(copied) = n /\ \A k \in 1 .. n : copied[k] = text[k]
    BY <1>1, <2>3 DEF Holds
  <2> QED
    BY <1>1, <2>3, <2>4, SeqEqual
<1>3. SelectInSeq(text, LAMBDA b : b = 0) = 0
  BY <1>1 DEF SelectInSeq
<1> QED
  BY <1>2, <1>3 DEF TextAt

(* Two texts one after the other.                                          *)
LEMMA JoinedTexts ==
    ASSUME NEW s \in Seq(Byte), NEW t \in Seq(Byte)
    PROVE  /\ s \o t \in Seq(Byte)
           /\ Len(s) \in Nat /\ Len(t) \in Nat
           /\ Len(s \o t) = Len(s) + Len(t)
           /\ \A i \in 1 .. Len(s) : (s \o t)[i] = s[i]
           /\ \A i \in 1 .. Len(t) : (s \o t)[Len(s) + i] = t[i]
<1>1. /\ s \o t \in Seq(Byte) /\ Len(s \o t) = Len(s) + Len(t)
      /\ \A i \in 1 .. Len(s) + Len(t) :
            (s \o t)[i] = IF i <= Len(s) THEN s[i] ELSE t[i - Len(s)]
  BY ConcatProperties
<1>2. Len(s) \in Nat /\ Len(t) \in Nat
  BY LenProperties
<1> QED
  BY <1>1, <1>2

(* What stays of what one message holds when something comes before it or  *)
(* behind it.                                                              *)
LEMMA HoldsInJoined ==
    ASSUME NEW s \in Seq(Byte), NEW t \in Seq(Byte), NEW text \in Seq(Byte), NEW i \in Nat
    PROVE  /\ Holds(s, i, text) => Holds(s \o t, i, text)
           /\ Holds(t, i, text) => Holds(s \o t, Len(s) + i, text)
<1>1. /\ Len(s) \in Nat /\ Len(t) \in Nat /\ Len(s \o t) = Len(s) + Len(t)
      /\ \A k \in 1 .. Len(s) : (s \o t)[k] = s[k]
      /\ \A k \in 1 .. Len(t) : (s \o t)[Len(s) + k] = t[k]
  BY JoinedTexts
<1>2. Len(text) \in Nat
  BY LenProperties
<1>3. ASSUME Holds(s, i, text), NEW k \in 1 .. Len(text)
      PROVE  (s \o t)[i + k] = text[k]
  <2>1. i + k \in 1 .. Len(s) /\ s[i + k] = text[k]
    BY <1>1, <1>2, <1>3 DEF Holds
  <2> QED
    BY <1>1, <2>1
<1>4. ASSUME Holds(t, i, text), NEW k \in 1 .. Len(text)
      PROVE  (s \o t)[Len(s) + i + k] = text[k]
  <2>1. i + k \in 1 .. Len(t) /\ t[i + k] = text[k]
    BY <1>1, <1>2, <1>4 DEF Holds
  <2>2. (s \o t)[Len(s) + (i + k)] = t[i + k] /\ Len(s) + (i + k) = Len(s) + i + k
    BY <1>1, <2>1
  <2> QED
    BY <2>1, <2>2
<1>5. Holds(s, i, text) => i + Len(text) <= Len(s \o t)
  BY <1>1, <1>2 DEF Holds
<1>6. Holds(t, i, text) => Len(s) + i + Len(text) <= Len(s \o t)
  BY <1>1, <1>2 DEF Holds
<1> QED
  BY <1>3, <1>4, <1>5, <1>6 DEF Holds

(* A text behind its length.                                               *)
LEMMA CountedIs ==
    ASSUME NEW text \in Text, Len(text) <= 127
    PROVE  /\ Counted(text) \in Seq(Byte)
           /\ Len(Counted(text)) = 1 + Len(text)
           /\ Counted(text)[1] = Len(text)
           /\ Holds(Counted(text), 1, text)
<1>1. text \in Seq(Byte) /\ Len(text) \in Nat
  BY TextBytes
<1>2. Signed(Len(text)) = Len(text) /\ Len(text) \in Byte
  <2> DEFINE n == Len(text)
  <2>1. n \in Nat /\ n <= 127
    BY <1>1
  <2> HIDE DEF n
  <2>2. Signed(n) = n /\ n \in Byte
    BY <2>1, SignedIs DEF Byte
  <2> QED
    BY <2>2 DEF n
<1> DEFINE head == <<Len(text)>>
<1>3. head \in Seq(Byte) /\ Len(head) = 1 /\ head[1] = Len(text)
  BY <1>2
<1>4. Counted(text) = head \o text
  BY <1>2 DEF Counted
<1>5. Holds(text, 0, text)
  BY <1>1 DEF Holds
<1> HIDE DEF head
<1>6. Holds(head \o text, Len(head) + 0, text)
  BY <1>1, <1>3, <1>5, HoldsInJoined
<1>7. /\ head \o text \in Seq(Byte) /\ Len(head \o text) = Len(head) + Len(text)
      /\ \A i \in 1 .. Len(head) : (head \o text)[i] = head[i]
  BY <1>1, <1>3, JoinedTexts
<1> QED
  BY <1>3, <1>4, <1>6, <1>7

(* One part and two more.                                                  *)
LEMMA OneAndTwo ==
    ASSUME NEW a, NEW b, NEW c
    PROVE  <<a>> \o <<b, c>> = <<a, b, c>>
<1> DEFINE S == {a, b, c}
           s == <<a>>
           t == <<b, c>>
           u == <<a, b, c>>
<1>1. /\ s \in Seq(S) /\ Len(s) = 1 /\ s[1] = a
      /\ t \in Seq(S) /\ Len(t) = 2 /\ t[1] = b /\ t[2] = c
      /\ u \in Seq(S) /\ Len(u) = 3 /\ u[1] = a /\ u[2] = b /\ u[3] = c
  OBVIOUS
<1> HIDE DEF S, s, t, u
<1>2. /\ s \o t \in Seq(S) /\ Len(s \o t) = Len(s) + Len(t)
      /\ \A i \in 1 .. Len(s) + Len(t) :
            (s \o t)[i] = IF i <= Len(s) THEN s[i] ELSE t[i - Len(s)]
  BY <1>1, ConcatProperties
<1>3. ASSUME NEW i \in 1 .. 3
      PROVE  (s \o t)[i] = u[i]
  <2>1. (s \o t)[i] = IF i <= 1 THEN s[i] ELSE t[i - 1]
    BY <1>1, <1>2
  <2>2. i = 1 \/ i = 2 \/ i = 3
    OBVIOUS
  <2> QED
    BY <1>1, <2>1, <2>2
<1>4. Len(s \o t) = Len(u) /\ \A i \in 1 .. Len(s \o t) : (s \o t)[i] = u[i]
  BY <1>1, <1>2, <1>3
<1>5. s \o t = u
  BY <1>1, <1>2, <1>4, SeqEqual
<1> QED
  BY <1>5 DEF s, t, u

(* Three parts one after the other.                                        *)
LEMMA ThreeParts ==
    ASSUME NEW head \in Seq(Byte), NEW first \in Seq(Byte), NEW last \in Seq(Byte)
    PROVE  LET msg == (head \o first) \o last
           IN  /\ msg \in Seq(Byte) /\ Len(msg) = Len(head) + Len(first) + Len(last)
               /\ \A i \in 1 .. Len(head) : msg[i] = head[i]
               /\ \A i \in 1 .. Len(first) : msg[Len(head) + i] = first[i]
               /\ \A i \in 1 .. Len(last) : msg[Len(head) + Len(first) + i] = last[i]
               /\ \A text \in Seq(Byte), i \in Nat :
                    /\ Holds(first, i, text) => Holds(msg, Len(head) + i, text)
                    /\ Holds(last, i, text) => Holds(msg, Len(head) + Len(first) + i, text)
<1> DEFINE most == head \o first
           msg  == most \o last
<1>1. /\ most \in Seq(Byte) /\ Len(most) = Len(head) + Len(first)
      /\ Len(head) \in Nat /\ Len(first) \in Nat /\ Len(last) \in Nat
      /\ \A i \in 1 .. Len(head) : most[i] = head[i]
      /\ \A i \in 1 .. Len(first) : most[Len(head) + i] = first[i]
  BY JoinedTexts, LenProperties
<1>2. ASSUME NEW text \in Seq(Byte), NEW i \in Nat, Holds(first, i, text)
      PROVE  Holds(most, Len(head) + i, text)
  BY <1>2, HoldsInJoined
<1> HIDE DEF most
<1>3. /\ msg \in Seq(Byte) /\ Len(msg) = Len(most) + Len(last)
      /\ \A i \in 1 .. Len(most) : msg[i] = most[i]
      /\ \A i \in 1 .. Len(last) : msg[Len(most) + i] = last[i]
  BY <1>1, JoinedTexts
<1>4. ASSUME NEW text \in Seq(Byte), NEW i \in Nat, Holds(last, i, text)
      PROVE  Holds(msg, Len(most) + i, text)
  BY <1>1, <1>4, HoldsInJoined
<1>5. ASSUME NEW text \in Seq(Byte), NEW i \in Nat, Holds(first, i, text)
      PROVE  Holds(msg, Len(head) + i, text)
  <2>1. Holds(most, Len(head) + i, text) /\ Len(head) + i \in Nat
    BY <1>1, <1>2, <1>5
  <2> QED
    BY <1>1, <2>1, HoldsInJoined
<1> HIDE DEF msg
<1>6. \A i \in 1 .. Len(head) : msg[i] = head[i]
  BY <1>1, <1>3
<1>7. ASSUME NEW i \in 1 .. Len(first)
      PROVE  msg[Len(head) + i] = first[i]
  <2>1. Len(head) + i \in 1 .. Len(most)
    BY <1>1
  <2> QED
    BY <1>1, <1>3, <2>1
<1> QED
  BY <1>1, <1>3, <1>4, <1>5, <1>6, <1>7 DEF msg, most

(* The first k of what has come, and the rest.                             *)
LEMMA FirstAndRest ==
    ASSUME NEW S, NEW s \in Seq(S), NEW k \in 1 .. Len(s)
    PROVE  /\ SubSeq(s, 1, k) \in Seq(S) /\ Len(SubSeq(s, 1, k)) = k
           /\ \A i \in 1 .. k : SubSeq(s, 1, k)[i] = s[i]
           /\ SubSeq(s, k + 1, Len(s)) \in Seq(S)
           /\ k = Len(s) => SubSeq(s, 1, k) = s /\ SubSeq(s, k + 1, Len(s)) = << >>
<1>1. Len(s) \in Nat /\ k \in Nat /\ 1 <= k /\ k <= Len(s)
  BY LenProperties
<1>2. \A i \in 1 .. Len(s) : s[i] \in S
  BY ElementOfSeq
<1> DEFINE first == SubSeq(s, 1, k)
           rest  == SubSeq(s, k + 1, Len(s))
<1>3. /\ first \in Seq(S)
      /\ Len(first) = IF 1 <= k THEN k - 1 + 1 ELSE 0
      /\ \A i \in 1 .. k - 1 + 1 : first[i] = s[1 + i - 1]
  <2>1. \A i \in 1 .. k : s[i] \in S
    BY <1>1, <1>2
  <2> QED
    BY <1>1, <2>1, SubSeqProperties
<1>4. /\ rest \in Seq(S)
      /\ Len(rest) = IF k + 1 <= Len(s) THEN Len(s) - (k + 1) + 1 ELSE 0
  <2>1. \A i \in k + 1 .. Len(s) : s[i] \in S
    BY <1>1, <1>2
  <2>2. k + 1 \in Int /\ Len(s) \in Int
    BY <1>1
  <2> QED
    BY <2>1, <2>2, SubSeqProperties
<1> HIDE DEF first, rest
<1>5. Len(first) = k /\ \A i \in 1 .. k : first[i] = s[i]
  BY <1>1, <1>3
<1>6. ASSUME k = Len(s)
      PROVE  first = s /\ rest = << >>
  <2>1. first = s
    BY <1>3, <1>5, <1>6, SeqEqual
  <2>2. Len(rest) = 0
    BY <1>1, <1>4, <1>6
  <2> QED
    BY <1>4, <2>1, <2>2, EmptySeq
<1> QED
  BY <1>3, <1>4, <1>5, <1>6 DEF first, rest

-----------------------------------------------------------------------------
(* Requests *)

UserTypes == {"REG_REQ", "LOGIN_REQ"}
GroupTypes == {"GROUP_CREATE_REQ", "GROUP_JOIN_REQ", "GROUP_LEAVE_REQ"}
BareTypes == {"LOGOUT_REQ", "GROUP_LIST_REQ"}

ShortText == {text \in Text : Len(text) < USER_NAME_SIZE}

UserRequest == UserTypes \X ShortText \X ShortText
GroupRequest == GroupTypes \X ShortText
BareRequest == {<<type>> : type \in BareTypes}

Request == UserRequest \union GroupRequest \union BareRequest

(* msg starts with the bytes of a request.                                 *)
StartsWith(msg, request) ==
    /\ msg \in Seq(Byte) /\ Len(PackRequest(request)) <= Len(msg)
    /\ \A i \in 1 .. Len(PackRequest(request)) : msg[i] = PackRequest(request)[i]

(* A text that is typed in.                                                *)
LEMMA ShortIs ==
    ASSUME NEW text \in ShortText
    PROVE  /\ text \in Text
           /\ text \in Seq(Byte)
           /\ Len(text) \in Nat
           /\ Len(text) <= 14
           /\ Len(text) <= 127
<1>1. text \in Text /\ Len(text) < 15
  BY DEF ShortText, USER_NAME_SIZE
<1>2. text \in Seq(Byte) /\ Len(text) \in Nat
  BY <1>1, TextBytes
<1> QED
  BY <1>1, <1>2

(* What is sent of names and passwords.                                    *)
LEMMA DetailsPacked ==
    ASSUME NEW type \in UserTypes, NEW name \in ShortText, NEW pass \in ShortText
    PROVE  LET msg == PackUserDetails(type, name, pass)
           IN  /\ msg \in Seq(Byte) /\ Len(msg) = 4 + Len(name) + Len(pass)
               /\ msg[1] = TypeByte(type) /\ msg[2] = Len(msg)
               /\ msg[3] = Len(name) /\ msg[4 + Len(name)] = Len(pass)
               /\ Holds(msg, 3, name) /\ Holds(msg, 4 + Len(name), pass)
<1> DEFINE size  == 4 + Len(name) + Len(pass)
           head  == <<TypeByte(type), size>>
           first == Counted(name)
           last  == Counted(pass)
           msg   == (head \o first) \o last
<1>1. /\ Len(name) \in Nat /\ Len(name) <= 14
      /\ Len(pass) \in Nat /\ Len(pass) <= 14
      /\ name \in Seq(Byte)
      /\ pass \in Seq(Byte)
  BY ShortIs
<1>2. TypeByte(type) \in Byte
  BY TypeRead, Packed DEF UserTypes, Byte
<1>3. Signed(size) = size /\ size \in Byte
  <2>1. size \in Nat /\ size <= 127
    BY <1>1
  <2> HIDE DEF size
  <2> QED
    BY <2>1, SignedIs DEF Byte
<1>4. PackUserDetails(type, name, pass) = msg
  BY <1>3 DEF PackUserDetails
<1>5. head \in Seq(Byte) /\ Len(head) = 2 /\ head[1] = TypeByte(type) /\ head[2] = size
  BY <1>2, <1>3
<1>6. /\ first \in Seq(Byte) /\ Len(first) = 1 + Len(name) /\ first[1] = Len(name)
      /\ Holds(first, 1, name)
  BY ShortIs, CountedIs
<1>7. /\ last \in Seq(Byte) /\ Len(last) = 1 + Len(pass) /\ last[1] = Len(pass)
      /\ Holds(last, 1, pass)
  BY ShortIs, CountedIs
<1> HIDE DEF head, first, last
<1>8. /\ msg \in Seq(Byte) /\ Len(msg) = Len(head) + Len(first) + Len(last)
      /\ \A i \in 1 .. Len(head) : msg[i] = head[i]
      /\ \A i \in 1 .. Len(first) : msg[Len(head) + i] = first[i]
      /\ \A i \in 1 .. Len(last) : msg[Len(head) + Len(first) + i] = last[i]
      /\ \A text \in Seq(Byte), i \in Nat :
            /\ Holds(first, i, text) => Holds(msg, Len(head) + i, text)
            /\ Holds(last, i, text) => Holds(msg, Len(head) + Len(first) + i, text)
  BY <1>5, <1>6, <1>7, ThreeParts
<1> HIDE DEF msg
<1>9. Len(msg) = size /\ Len(head) + Len(first) + 1 = 4 + Len(name)
  BY <1>1, <1>5, <1>6, <1>7, <1>8
<1>10. msg[1] = TypeByte(type) /\ msg[2] = size /\ msg[3] = Len(name)
  <2>1. 1 \in 1 .. Len(head) /\ 2 \in 1 .. Len(head) /\ 1 \in 1 .. Len(first)
        /\ Len(head) + 1 = 3
    BY <1>1, <1>5, <1>6
  <2> QED
    BY <1>5, <1>6, <1>8, <2>1
<1>11. msg[4 + Len(name)] = Len(pass)
  <2>1. 1 \in 1 .. Len(last)
    BY <1>1, <1>7
  <2> QED
    BY <1>7, <1>8, <1>9, <2>1
<1>12. Holds(msg, 3, name)
  <2>1. Len(head) + 1 = 3 /\ 1 \in Nat
    BY <1>5
  <2> QED
    BY <1>1, <1>6, <1>8, <2>1
<1>13. Holds(msg, 4 + Len(name), pass)
  BY <1>1, <1>7, <1>8, <1>9
<1> QED
  BY <1>4, <1>8, <1>9, <1>10, <1>11, <1>12, <1>13

(* What is sent of the name of a group.                                    *)
LEMMA GroupPacked ==
    ASSUME NEW type \in GroupTypes, NEW name \in ShortText
    PROVE  LET msg == PackGroupName(type, name)
           IN  /\ msg \in Seq(Byte) /\ Len(msg) = 3 + Len(name)
               /\ msg[1] = TypeByte(type) /\ msg[2] = Len(msg)
               /\ msg[3] = Len(name) /\ Holds(msg, 3, name)
<1> DEFINE size  == 3 + Len(name)
           head  == <<TypeByte(type), size>>
           first == Counted(name)
           msg   == head \o first
<1>1. /\ Len(name) \in Nat /\ Len(name) <= 14
      /\ name \in Seq(Byte)
  BY ShortIs
<1>2. TypeByte(type) \in Byte
  BY TypeRead, Packed DEF GroupTypes, Byte
<1>3. Signed(size) = size /\ size \in Byte
  <2>1. size \in Nat /\ size <= 127
    BY <1>1
  <2> HIDE DEF size
  <2> QED
    BY <2>1, SignedIs DEF Byte
<1>4. PackGroupName(type, name) = msg
  BY <1>3 DEF PackGroupName
<1>5. head \in Seq(Byte) /\ Len(head) = 2 /\ head[1] = TypeByte(type) /\ head[2] = size
  BY <1>2, <1>3
<1>6. /\ first \in Seq(Byte) /\ Len(first) = 1 + Len(name) /\ first[1] = Len(name)
      /\ Holds(first, 1, name)
  BY ShortIs, CountedIs
<1> HIDE DEF head, first
<1>7. /\ msg \in Seq(Byte) /\ Len(msg) = Len(head) + Len(first)
      /\ \A i \in 1 .. Len(head) : msg[i] = head[i]
      /\ \A i \in 1 .. Len(first) : msg[Len(head) + i] = first[i]
  BY <1>5, <1>6, JoinedTexts
<1>8. Holds(msg, Len(head) + 1, name)
  BY <1>1, <1>5, <1>6, HoldsInJoined
<1> HIDE DEF msg
<1>9. 1 \in 1 .. Len(head) /\ 2 \in 1 .. Len(head) /\ 1 \in 1 .. Len(first)
      /\ Len(head) + 1 = 3 /\ Len(msg) = size
  BY <1>1, <1>5, <1>6, <1>7
<1> QED
  BY <1>4, <1>5, <1>6, <1>7, <1>8, <1>9

(* Two bytes are sent of any other.                                        *)
LEMMA BarePacked ==
    ASSUME NEW type \in BareTypes
    PROVE  LET msg == PackRequest(<<type>>)
           IN  msg \in Seq(Byte) /\ Len(msg) = 2 /\ msg[1] = TypeByte(type) /\ msg[2] = 2
<1>1. TypeByte(type) \in Byte
  BY TypeRead, Packed DEF BareTypes, Byte
<1>2. PackRequest(<<type>>) = <<TypeByte(type), 2>>
  BY DEF PackRequest, BareTypes, PackLogoutReq, PackGroupListRequest
<1>3. 2 \in Byte
  BY DEF Byte
<1> DEFINE msg == <<TypeByte(type), 2>>
<1>4. msg \in Seq(Byte) /\ Len(msg) = 2 /\ msg[1] = TypeByte(type) /\ msg[2] = 2
  BY <1>1, <1>3
<1> QED
  BY <1>2, <1>4

(* Whatever is behind it, the server reads the type it was sent.           *)
LEMMA TypeOfStart ==
    ASSUME NEW type \in UserTypes \union GroupTypes \union BareTypes,
           NEW msg \in Seq(Byte), Len(msg) >= 1, msg[1] = TypeByte(type)
    PROVE  GetMsgType(msg) = type
<1>1. TypeByte(type) \in 0 .. 16 /\ MsgType[TypeByte(type) + 1] = type
  BY TypeRead, Packed DEF UserTypes, GroupTypes, BareTypes
<1>2. At(msg, 0) = TypeByte(type)
  BY DEF At
<1>3. DOMAIN MsgType = 1 .. 17
  BY DEF MsgType
<1>4. TypeByte(type) + 1 \in DOMAIN MsgType
  BY <1>1, <1>3
<1> QED
  BY <1>1, <1>2, <1>4 DEF GetMsgType, Enumerator, At

(* A message that starts with the bytes of a request holds its texts.      *)
LEMMA StartHolds ==
    ASSUME NEW request, PackRequest(request) \in Seq(Byte), NEW msg,
           StartsWith(msg, request), NEW i \in Nat, NEW text \in Seq(Byte),
           Holds(PackRequest(request), i, text)
    PROVE  Holds(msg, i, text)
<1> DEFINE sent == PackRequest(request)
<1>1. /\ msg \in Seq(Byte) /\ Len(sent) <= Len(msg)
      /\ \A k \in 1 .. Len(sent) : msg[k] = sent[k]
      /\ i + Len(text) <= Len(sent) /\ \A k \in 1 .. Len(text) : sent[i + k] = text[k]
  BY DEF StartsWith, Holds
<1> HIDE DEF sent
<1>2. Len(msg) \in Nat /\ Len(sent) \in Nat /\ Len(text) \in Nat
  BY <1>1, LenProperties DEF sent
<1>3. i + Len(text) <= Len(msg)
  BY <1>1, <1>2
<1>4. \A k \in 1 .. Len(text) : i + k \in 1 .. Len(sent)
  BY <1>1, <1>2
<1> QED
  BY <1>1, <1>3, <1>4 DEF Holds

(* Names and passwords are read as they were sent.                         *)
LEMMA UserRead ==
    ASSUME NEW type \in UserTypes, NEW name \in ShortText, NEW pass \in ShortText,
           NEW msg, StartsWith(msg, <<type, name, pass>>)
    PROVE  /\ UnpackRequest(msg) = <<type, name, pass>>
           /\ \A n \in LengthsRead(msg) : Fits(n)
           /\ Fits(msg[3])
<1> DEFINE request == <<type, name, pass>>
           sent    == PackRequest(request)
<1>1. sent = PackUserDetails(type, name, pass)
  BY DEF PackRequest, UserTypes
<1>2. /\ sent \in Seq(Byte) /\ Len(sent) = 4 + Len(name) + Len(pass)
      /\ sent[1] = TypeByte(type)
      /\ sent[3] = Len(name) /\ sent[4 + Len(name)] = Len(pass)
      /\ Holds(sent, 3, name) /\ Holds(sent, 4 + Len(name), pass)
  BY <1>1, DetailsPacked
<1>3. /\ name \in Text /\ name \in Seq(Byte) /\ Len(name) \in Nat /\ Len(name) <= 14
      /\ pass \in Text /\ pass \in Seq(Byte) /\ Len(pass) \in Nat /\ Len(pass) <= 14
  BY ShortIs
<1>4. /\ msg \in Seq(Byte) /\ Len(sent) <= Len(msg) /\ Len(msg) \in Nat
      /\ \A k \in 1 .. Len(sent) : msg[k] = sent[k]
  BY LenProperties DEF StartsWith
<1>5. Holds(msg, 3, name) /\ Holds(msg, 4 + Len(name), pass)
  <2>1. 4 + Len(name) \in Nat
    BY <1>3
  <2> QED
    BY <1>2, <1>3, <2>1, StartHolds
<1> HIDE DEF request, sent
<1>6. msg[1] = TypeByte(type) /\ msg[3] = Len(name) /\ msg[4 + Len(name)] = Len(pass)
  <2>1. 1 \in 1 .. Len(sent) /\ 3 \in 1 .. Len(sent) /\ 4 + Len(name) \in 1 .. Len(sent)
    BY <1>2, <1>3
  <2> QED
    BY <1>2, <1>4, <2>1
<1>7. GetMsgType(msg) = type
  <2>1. Len(msg) >= 1
    BY <1>2, <1>3, <1>4
  <2> QED
    BY <1>4, <1>6, <2>1, TypeOfStart
<1>8. At(msg, 2) = Len(name) /\ At(msg, 3 + Len(name)) = Len(pass)
  <2>1. 2 + 1 = 3 /\ 3 + Len(name) + 1 = 4 + Len(name)
    BY <1>3
  <2> QED
    BY <1>6, <2>1 DEF At
<1>9. TextAt(msg, 3, Len(name)) = name /\ TextAt(msg, 4 + Len(name), Len(pass)) = pass
  <2>1. 4 + Len(name) \in Nat
    BY <1>3
  <2> QED
    BY <1>3, <1>4, <1>5, <2>1, TextIs
<1>10. UnpackUserDetails(msg) = <<name, pass>>
  BY <1>8, <1>9 DEF UnpackUserDetails
<1>11. UnpackRequest(msg) = <<type>> \o <<name, pass>>
  BY <1>7, <1>10 DEF UnpackRequest, UserTypes
<1>12. <<type>> \o <<name, pass>> = <<type, name, pass>>
  BY OneAndTwo
<1>13. Fits(Len(name)) /\ Fits(Len(pass))
  <2> DEFINE n == Len(name)
             p == Len(pass)
  <2>1. n \in Nat /\ n <= 14 /\ p \in Nat /\ p <= 14
    BY <1>3
  <2> HIDE DEF n, p
  <2>2. Fits(n) /\ Fits(p)
    BY <2>1 DEF Fits, NAME_LENGTH
  <2> QED
    BY <2>2 DEF n, p
<1>14. LengthsRead(msg) = {Len(name), Len(pass)}
  <2>1. PassLengthAt(msg) = {Len(pass)}
    BY <1>8, <1>13 DEF PassLengthAt
  <2> QED
    BY <1>7, <1>8, <2>1 DEF LengthsRead, UserTypes
<1> QED
  BY <1>6, <1>11, <1>12, <1>13, <1>14

(* The name of a group is read as it was sent.                             *)
LEMMA GroupRead ==
    ASSUME NEW type \in GroupTypes, NEW name \in ShortText,
           NEW msg, StartsWith(msg, <<type, name>>)
    PROVE  /\ UnpackRequest(msg) = <<type, name>>
           /\ \A n \in LengthsRead(msg) : Fits(n)
           /\ Fits(msg[3])
<1> DEFINE request == <<type, name>>
           sent    == PackRequest(request)
<1>1. sent = PackGroupName(type, name)
  BY DEF PackRequest, GroupTypes
<1>2. /\ sent \in Seq(Byte) /\ Len(sent) = 3 + Len(name)
      /\ sent[1] = TypeByte(type) /\ sent[3] = Len(name) /\ Holds(sent, 3, name)
  BY <1>1, GroupPacked
<1>3. name \in Text /\ name \in Seq(Byte) /\ Len(name) \in Nat /\ Len(name) <= 14
  BY ShortIs
<1>4. /\ msg \in Seq(Byte) /\ Len(sent) <= Len(msg) /\ Len(msg) \in Nat
      /\ \A k \in 1 .. Len(sent) : msg[k] = sent[k]
  BY LenProperties DEF StartsWith
<1>5. Holds(msg, 3, name)
  BY <1>2, <1>3, StartHolds
<1> HIDE DEF request, sent
<1>6. msg[1] = TypeByte(type) /\ msg[3] = Len(name) /\ Len(msg) >= 1
  <2>1. 1 \in 1 .. Len(sent) /\ 3 \in 1 .. Len(sent)
    BY <1>2, <1>3
  <2> QED
    BY <1>2, <1>3, <1>4, <2>1
<1>7. GetMsgType(msg) = type
  BY <1>4, <1>6, TypeOfStart
<1>8. At(msg, 2) = Len(name)
  BY <1>6 DEF At
<1>9. TextAt(msg, 3, Len(name)) = name
  BY <1>3, <1>4, <1>5, TextIs
<1>10. UnpackRequest(msg) = <<type, name>>
  BY <1>7, <1>8, <1>9 DEF UnpackRequest, UnpackGroupName, GroupTypes
<1>11. Fits(Len(name))
  <2> DEFINE n == Len(name)
  <2>1. n \in Nat /\ n <= 14
    BY <1>3
  <2> HIDE DEF n
  <2>2. Fits(n)
    BY <2>1 DEF Fits, NAME_LENGTH
  <2> QED
    BY <2>2 DEF n
<1>12. LengthsRead(msg) = {Len(name)}
  BY <1>7, <1>8 DEF LengthsRead, GroupTypes
<1> QED
  BY <1>6, <1>10, <1>11, <1>12

(* Of a request of two bytes only LogoutUser reads a length: the byte      *)
(* behind it.                                                              *)
LEMMA BareRead ==
    ASSUME NEW type \in BareTypes, NEW msg, StartsWith(msg, <<type>>)
    PROVE  /\ UnpackRequest(msg) = <<type>>
           /\ \A n \in LengthsRead(msg) : type = "LOGOUT_REQ" /\ n = msg[3]
<1>1. /\ PackRequest(<<type>>) \in Seq(Byte) /\ Len(PackRequest(<<type>>)) = 2
      /\ PackRequest(<<type>>)[1] = TypeByte(type)
  BY BarePacked
<1>2. msg \in Seq(Byte) /\ Len(msg) >= 1 /\ msg[1] = TypeByte(type)
  <2>1. /\ msg \in Seq(Byte) /\ 2 <= Len(msg)
        /\ \A k \in 1 .. 2 : msg[k] = PackRequest(<<type>>)[k]
    BY <1>1 DEF StartsWith
  <2>2. Len(msg) \in Nat
    BY <2>1, LenProperties
  <2> QED
    BY <1>1, <2>1, <2>2
<1>3. GetMsgType(msg) = type
  BY <1>2, TypeOfStart
<1>4. UnpackRequest(msg) = <<type>>
  BY <1>3 DEF UnpackRequest, BareTypes
<1>5. At(msg, 2) = msg[3]
  BY DEF At
<1>6. CASE type = "LOGOUT_REQ"
  <2>1. LengthsRead(msg) = {msg[3]}
    BY <1>3, <1>5, <1>6 DEF LengthsRead
  <2> QED
    BY <1>4, <1>6, <2>1
<1>7. CASE type = "GROUP_LIST_REQ"
  <2>1. LengthsRead(msg) = {}
    BY <1>3, <1>7 DEF LengthsRead
  <2> QED
    BY <1>4, <2>1
<1> QED
  BY <1>6, <1>7 DEF BareTypes

(* Every request is at least two bytes.                                    *)
LEMMA RequestPacked ==
    ASSUME NEW request \in Request
    PROVE  /\ PackRequest(request) \in Seq(Byte)
           /\ Len(PackRequest(request)) \in Nat
           /\ Len(PackRequest(request)) >= 2
           /\ request[1] \in BareTypes => Len(PackRequest(request)) = 2
           /\ request[1] \in UserTypes \union GroupTypes \union BareTypes
<1>1. CASE request \in UserRequest
  <2>1. PICK type \in UserTypes, name \in ShortText, pass \in ShortText :
            request = <<type, name, pass>>
    BY <1>1 DEF UserRequest
  <2>2. PackRequest(request) = PackUserDetails(type, name, pass)
    BY <2>1 DEF PackRequest, UserTypes
  <2>3. PackRequest(request) \in Seq(Byte)
        /\ Len(PackRequest(request)) = 4 + Len(name) + Len(pass)
    BY <2>2, DetailsPacked
  <2>4. Len(name) \in Nat /\ Len(pass) \in Nat
    BY ShortIs
  <2>5. request[1] = type /\ type \notin BareTypes
    BY <2>1 DEF UserTypes, BareTypes
  <2> QED
    BY <2>3, <2>4, <2>5
<1>2. CASE request \in GroupRequest
  <2>1. PICK type \in GroupTypes, name \in ShortText : request = <<type, name>>
    BY <1>2 DEF GroupRequest
  <2>2. PackRequest(request) = PackGroupName(type, name)
    BY <2>1 DEF PackRequest, GroupTypes
  <2>3. PackRequest(request) \in Seq(Byte) /\ Len(PackRequest(request)) = 3 + Len(name)
    BY <2>2, GroupPacked
  <2>4. Len(name) \in Nat
    BY ShortIs
  <2>5. request[1] = type /\ type \notin BareTypes
    BY <2>1 DEF GroupTypes, BareTypes
  <2> QED
    BY <2>3, <2>4, <2>5
<1>3. CASE request \in BareRequest
  <2>1. PICK type \in BareTypes : request = <<type>>
    BY <1>3 DEF BareRequest
  <2>2. PackRequest(request) \in Seq(Byte) /\ Len(PackRequest(request)) = 2
    BY <2>1, BarePacked
  <2> QED
    BY <2>1, <2>2
<1> QED
  BY <1>1, <1>2, <1>3 DEF Request

(* Whatever is behind it, a request is understood.  But for logging out, of*)
(* which that needs the byte behind it to be a length, too, its lengths    *)
(* have room; and one with a name leaves a length that has, in that byte.  *)
LEMMA RequestRead ==
    ASSUME NEW request \in Request, NEW msg, StartsWith(msg, request)
    PROVE  /\ UnpackRequest(msg) = request
           /\ (request[1] = "LOGOUT_REQ" => Fits(msg[3]))
                => \A n \in LengthsRead(msg) : Fits(n)
           /\ request[1] \notin BareTypes => Fits(msg[3])
<1>1. CASE request \in UserRequest
  <2>1. PICK type \in UserTypes, name \in ShortText, pass \in ShortText :
            request = <<type, name, pass>>
    BY <1>1 DEF UserRequest
  <2>2. StartsWith(msg, <<type, name, pass>>)
    BY <2>1
  <2> QED
    BY <2>1, <2>2, UserRead
<1>2. CASE request \in GroupRequest
  <2>1. PICK type \in GroupTypes, name \in ShortText : request = <<type, name>>
    BY <1>2 DEF GroupRequest
  <2>2. StartsWith(msg, <<type, name>>)
    BY <2>1
  <2> QED
    BY <2>1, <2>2, GroupRead
<1>3. CASE request \in BareRequest
  <2>1. PICK type \in BareTypes : request = <<type>>
    BY <1>3 DEF BareRequest
  <2>2. request[1] = type /\ StartsWith(msg, <<type>>)
    BY <2>1
  <2> QED
    BY <2>1, <2>2, BareRead
<1> QED
  BY <1>1, <1>2, <1>3 DEF Request

(* What a program asks is a request: where it is tells which.              *)
LEMMA RequestsAre ==
    /\ RequestsAt("start") = UserTypes \X UserText \X PassText
    /\ RequestsAt("menu") = (GroupTypes \X GroupText)
                                \union {<<"GROUP_LIST_REQ">>, <<"LOGOUT_REQ">>}
    /\ RequestsAt("gone") = {}
    /\ RequestsAt("start") \subseteq UserRequest
    /\ RequestsAt("menu") \subseteq GroupRequest \union BareRequest
    /\ \A request \in RequestsAt("start") : request[1] \in UserTypes
    /\ \A request \in RequestsAt("menu") : request[1] \in GroupTypes \union BareTypes
<1>1. /\ RequestsAt("start") = UserTypes \X UserText \X PassText
      /\ RequestsAt("menu") = (GroupTypes \X GroupText)
                                \union {<<"GROUP_LIST_REQ">>, <<"LOGOUT_REQ">>}
      /\ RequestsAt("gone") = {}
  BY DEF RequestsAt, UserTypes, GroupTypes
<1>2. UserText \union PassText \union GroupText \subseteq ShortText
  BY MessageStreamAssumption DEF ShortText
<1>3. RequestsAt("start") \subseteq UserRequest
  BY <1>1, <1>2 DEF UserRequest
<1>4. <<"GROUP_LIST_REQ">> \in BareRequest /\ <<"LOGOUT_REQ">> \in BareRequest
  BY DEF BareRequest, BareTypes
<1>5. RequestsAt("menu") \subseteq GroupRequest \union BareRequest
  BY <1>1, <1>2, <1>4 DEF GroupRequest
<1>6. \A request \in UserRequest : request[1] \in UserTypes
  BY DEF UserRequest
<1>7. \A request \in GroupRequest : request[1] \in GroupTypes
  BY DEF GroupRequest
<1>8. \A request \in BareRequest : request[1] \in BareTypes
  BY DEF BareRequest
<1> QED
  BY <1>1, <1>3, <1>5, <1>6, <1>7, <1>8

(* recv() writes what it finds over the start of the buffer and leaves the *)
(* rest.                                                                   *)
LEMMA Written ==
    ASSUME buffer \in Seq(Byte), Len(buffer) = BufferSize,
           NEW bytes \in Seq(Byte), Len(bytes) <= BufferSize
    PROVE  /\ WrittenOver(bytes) \in Seq(Byte)
           /\ Len(WrittenOver(bytes)) = BufferSize
           /\ \A i \in 1 .. Len(bytes) : WrittenOver(bytes)[i] = bytes[i]
           /\ \A i \in 1 .. BufferSize :
                i > Len(bytes) => WrittenOver(bytes)[i] = buffer[i]
<1> DEFINE n    == Len(bytes)
           rest == SubSeq(buffer, n + 1, BufferSize)
<1>1. n \in Nat /\ BufferSize \in Nat /\ n <= BufferSize
  BY LenProperties, MessageStreamAssumption
<1>2. \A i \in 1 .. BufferSize : buffer[i] \in Byte
  BY ElementOfSeq
<1>3. /\ rest \in Seq(Byte)
      /\ Len(rest) = IF n + 1 <= BufferSize THEN BufferSize - (n + 1) + 1 ELSE 0
      /\ \A i \in 1 .. BufferSize - (n + 1) + 1 : rest[i] = buffer[n + 1 + i - 1]
  <2>1. \A i \in n + 1 .. BufferSize : buffer[i] \in Byte
    BY <1>1, <1>2
  <2>2. n + 1 \in Int /\ BufferSize \in Int
    BY <1>1
  <2> QED
    BY <2>1, <2>2, SubSeqProperties
<1> HIDE DEF rest
<1>4. Len(rest) = BufferSize - n
  BY <1>1, <1>3
<1>5. /\ bytes \o rest \in Seq(Byte) /\ Len(bytes \o rest) = n + Len(rest)
      /\ \A i \in 1 .. n : (bytes \o rest)[i] = bytes[i]
      /\ \A i \in 1 .. Len(rest) : (bytes \o rest)[n + i] = rest[i]
  BY <1>3, JoinedTexts
<1>6. ASSUME NEW i \in 1 .. BufferSize, i > n
      PROVE  (bytes \o rest)[i] = buffer[i]
  <2>1. i - n \in 1 .. Len(rest) /\ n + (i - n) = i /\ n + 1 + (i - n) - 1 = i
        /\ i - n \in 1 .. BufferSize - (n + 1) + 1
    BY <1>1, <1>4, <1>6
  <2>2. (bytes \o rest)[i] = rest[i - n]
    BY <1>5, <2>1
  <2> QED
    BY <1>3, <2>1, <2>2
<1>7. WrittenOver(bytes) = bytes \o rest
  BY DEF WrittenOver, rest
<1>8. n + Len(rest) = BufferSize
  BY <1>1, <1>4
<1> QED
  BY <1>5, <1>6, <1>7, <1>8

-----------------------------------------------------------------------------
(* Numbers *)

(* A set of numbers that is not empty has a smallest.                      *)
LEMMA SmallestNumber ==
    ASSUME NEW T \in SUBSET Nat, T # {}
    PROVE  \E m \in T : \A k \in T : m <= k
<1> DEFINE R == OpToRel(<, Nat)
<1>1. IsWellFoundedOn(R, Nat)
  BY NatLessThanWellFounded, Zenon
<1>2. \A i, j \in Nat : i < j => <<i, j>> \in R
  BY DEF OpToRel
<1> HIDE DEF R
<1>3. PICK x \in T : \A y \in T : ~ (<<y, x>> \in R)
  BY <1>1, WFMin
<1>4. ASSUME NEW k \in T
      PROVE  x <= k
  <2>1. x \in Nat /\ k \in Nat
    OBVIOUS
  <2>2. ~ (k < x)
    BY <1>2, <1>3, <2>1
  <2> QED
    BY <2>1, <2>2
<1> QED
  BY <1>4

(* The first counterexample there would be among the first n numbers.      *)
LEMMA NoFirstBad ==
    ASSUME NEW n \in Nat, NEW T \in SUBSET (0 .. n), 0 \in T,
           \A m \in 1 .. n : m - 1 \in T => m \in T
    PROVE  T = 0 .. n
<1> SUFFICES ASSUME (0 .. n) \ T # {}
             PROVE  FALSE
  OBVIOUS
<1>1. (0 .. n) \ T \in SUBSET Nat
  OBVIOUS
<1>2. PICK m \in (0 .. n) \ T : \A k \in (0 .. n) \ T : m <= k
  BY <1>1, SmallestNumber
<1>3. m \in 1 .. n /\ m - 1 \in 0 .. n
  BY <1>2
<1>4. m - 1 \in T
  BY <1>2, <1>3
<1> QED
  BY <1>2, <1>3, <1>4

-----------------------------------------------------------------------------
(* Lists of names *)

(* Sequences, one behind the other, from the first to the i-th.            *)
Joins(S, seqs, f) ==
    /\ f \in [1 .. Len(seqs) -> Seq(S)]
    /\ \A i \in 1 .. Len(seqs) : f[i] = IF i = 1 THEN seqs[i] ELSE f[i - 1] \o seqs[i]

(* FlattenSeq puts them one behind the other.                              *)
LEMMA FlattenIs ==
    ASSUME NEW S, NEW seqs \in Seq(Seq(S)), Len(seqs) > 0
    PROVE  \E f : Joins(S, seqs, f) /\ FlattenSeq(seqs) = f[Len(seqs)]
<1> DEFINE n == Len(seqs)
           Def(f) == [i \in 1 .. n |-> IF i = 1 THEN seqs[i] ELSE f[i - 1] \o seqs[i]]
           Upto(g, m) == /\ g \in [1 .. m -> Seq(S)]
                         /\ \A i \in 1 .. m :
                                g[i] = IF i = 1 THEN seqs[i] ELSE g[i - 1] \o seqs[i]
           flatten == CHOOSE f : f = Def(f)
<1>1. n \in Nat /\ n > 0 /\ \A i \in 1 .. n : seqs[i] \in Seq(S)
  BY ElementOfSeq, LenProperties
<1>2. FlattenSeq(seqs) = flatten[n]
  BY <1>1 DEF FlattenSeq
<1>3. \E g : Upto(g, n)
  <2> DEFINE T == {m \in 0 .. n : \E g : Upto(g, m)}
  <2>1. 0 \in T
    <3> DEFINE g == [i \in 1 .. 0 |-> << >>]
    <3>1. ~ \E i : i \in 1 .. 0
      OBVIOUS
    <3>2. g \in [1 .. 0 -> Seq(S)]
      OBVIOUS
    <3> HIDE DEF g
    <3>3. ASSUME NEW i \in 1 .. 0
          PROVE  g[i] = IF i = 1 THEN seqs[i] ELSE g[i - 1] \o seqs[i]
      BY <3>1
    <3>4. Upto(g, 0)
      BY <3>2, <3>3
    <3>5. 0 \in 0 .. n
      BY <1>1
    <3> HIDE DEF Upto
    <3> QED
      BY <3>4, <3>5
  <2>2. ASSUME NEW m \in 1 .. n, m - 1 \in T
        PROVE  m \in T
    <3>1. PICK g : Upto(g, m - 1)
      BY <2>2
    <3> DEFINE step == IF m = 1 THEN seqs[m] ELSE g[m - 1] \o seqs[m]
               h    == [i \in 1 .. m |-> IF i = m THEN step ELSE g[i]]
    <3>2. step \in Seq(S)
      <4>1. seqs[m] \in Seq(S)
        BY <1>1
      <4>2. CASE m = 1
        BY <4>1, <4>2
      <4>3. CASE m # 1
        <5>1. m - 1 \in 1 .. m - 1
          BY <1>1, <4>3
        <5>2. g[m - 1] \in Seq(S)
          BY <3>1, <5>1
        <5> QED
          BY <4>1, <4>3, <5>2, ConcatProperties
      <4> QED
        BY <4>2, <4>3
    <3> HIDE DEF step
    <3>3. \A i \in 1 .. m : i = m \/ i \in 1 .. m - 1
      BY <1>1
    <3>4. h \in [1 .. m -> Seq(S)]
      BY <3>1, <3>2, <3>3
    <3>5. ASSUME NEW i \in 1 .. m
          PROVE  h[i] = IF i = 1 THEN seqs[i] ELSE h[i - 1] \o seqs[i]
      <4>1. i # 1 => i - 1 \in 1 .. m /\ i - 1 # m
        BY <1>1
      <4>2. i # 1 => h[i - 1] = g[i - 1]
        BY <4>1
      <4>3. CASE i = m
        <5>1. h[i] = step
          BY <4>3
        <5> QED
          BY <4>2, <4>3, <5>1 DEF step
      <4>4. CASE i # m
        <5>1. i \in 1 .. m - 1 /\ h[i] = g[i]
          BY <3>3, <4>4
        <5> QED
          BY <3>1, <4>2, <5>1
      <4> QED
        BY <4>3, <4>4
    <3> HIDE DEF h
    <3>6. Upto(h, m)
      BY <3>4, <3>5
    <3>7. m \in 0 .. n
      BY <1>1
    <3> QED
      BY <3>6, <3>7
  <2> HIDE DEF Upto
  <2>3. T = 0 .. n
    BY <1>1, <2>1, <2>2, NoFirstBad
  <2> QED
    BY <1>1, <2>3
<1>4. flatten = Def(flatten)
  <2>1. PICK g : Upto(g, n)
    BY <1>3
  <2>2. g = Def(g)
    BY <2>1
  <2> QED
    BY <2>2 DEF flatten
<1> HIDE DEF flatten
<1>5. DOMAIN flatten = 1 .. n
      /\ \A i \in 1 .. n : flatten[i] = IF i = 1 THEN seqs[i] ELSE flatten[i - 1] \o seqs[i]
  BY <1>4
<1>6. \A i \in 1 .. n : flatten[i] \in Seq(S)
  <2> DEFINE T == {m \in 0 .. n : m = 0 \/ flatten[m] \in Seq(S)}
  <2>1. 0 \in T
    BY <1>1
  <2>2. ASSUME NEW m \in 1 .. n, m - 1 \in T
        PROVE  m \in T
    <3>1. seqs[m] \in Seq(S) /\ m \in 0 .. n
      BY <1>1
    <3>2. CASE m = 1
      BY <1>5, <3>1, <3>2
    <3>3. CASE m # 1
      <4>1. flatten[m - 1] \in Seq(S)
        BY <1>1, <2>2, <3>3
      <4>2. flatten[m - 1] \o seqs[m] \in Seq(S)
        BY <3>1, <4>1, ConcatProperties
      <4> QED
        BY <1>5, <3>1, <3>3, <4>2
    <3> QED
      BY <3>2, <3>3
  <2>3. T = 0 .. n
    <3> HIDE DEF T
    <3>1. T \in SUBSET (0 .. n)
      BY DEF T
    <3> QED
      BY <1>1, <2>1, <2>2, <3>1, NoFirstBad
  <2> QED
    BY <1>1, <2>3
<1>7. flatten = [i \in 1 .. n |-> flatten[i]]
  BY <1>4
<1>8. flatten \in [1 .. n -> Seq(S)]
  BY <1>6, <1>7
<1> QED
  BY <1>2, <1>5, <1>8 DEF Joins

(* A name of a group on the list.                                          *)
ListedName == {text \in ShortText : text # << >>}

(* The bytes of the names, from the first to the k-th that comes out.      *)
JoinsNames(names, upto) ==
    /\ upto \in [0 .. Len(names) -> Seq(Byte)]
    /\ upto[0] = << >>
    /\ \A k \in 1 .. Len(names) : upto[k] = upto[k - 1] \o Counted(Reverse(names)[k])

(* The names as they come out.                                             *)
LEMMA ReversedNames ==
    ASSUME NEW names \in Seq(ListedName)
    PROVE  /\ Reverse(names) \in Seq(ListedName)
           /\ Len(Reverse(names)) = Len(names) /\ Len(names) \in Nat
           /\ DOMAIN names = 1 .. Len(names)
           /\ \A k \in 1 .. Len(names) : Reverse(names)[k] \in ListedName
<1>1. Len(names) \in Nat /\ DOMAIN names = 1 .. Len(names)
      /\ \A k \in 1 .. Len(names) : names[k] \in ListedName
  BY ElementOfSeq, LenProperties
<1>2. Reverse(names) = [i \in 1 .. Len(names) |-> names[(Len(names) - i) + 1]]
  BY DEF Reverse
<1>3. \A k \in 1 .. Len(names) : (Len(names) - k) + 1 \in 1 .. Len(names)
  BY <1>1
<1>4. \A k \in 1 .. Len(names) : Reverse(names)[k] \in ListedName
  BY <1>1, <1>2, <1>3
<1>5. Reverse(names) \in Seq(ListedName) /\ Len(Reverse(names)) = Len(names)
  BY <1>1, <1>2, <1>4
<1> QED
  BY <1>1, <1>4, <1>5

(* They are packed one behind the other.                                   *)
LEMMA NamesJoined ==
    ASSUME NEW names \in Seq(ListedName)
    PROVE  \E upto : JoinsNames(names, upto) /\ PackNames(names) = upto[Len(names)]
<1> DEFINE n    == Len(names)
           rev  == Reverse(names)
           seqs == [i \in DOMAIN names |-> Counted(rev[i])]
<1>1. n \in Nat /\ DOMAIN names = 1 .. n /\ \A k \in 1 .. n : rev[k] \in ListedName
  BY ReversedNames
<1> HIDE DEF rev
<1>2. \A k \in 1 .. n : Counted(rev[k]) \in Seq(Byte)
  <2> TAKE k \in 1 .. n
  <2>1. rev[k] \in ShortText
    BY <1>1 DEF ListedName
  <2> QED
    BY <2>1, ShortIs, CountedIs
<1>3. seqs \in Seq(Seq(Byte)) /\ Len(seqs) = n /\ \A k \in 1 .. n : seqs[k] = Counted(rev[k])
  BY <1>1, <1>2
<1>4. PackNames(names) = FlattenSeq(seqs)
  BY DEF PackNames, rev
<1>5. CASE n = 0
  <2>1. seqs = << >>
    BY <1>3, <1>5, EmptySeq
  <2>2. FlattenSeq(seqs) = seqs
    BY <1>3, <1>5 DEF FlattenSeq
  <2> DEFINE upto == [i \in 0 .. 0 |-> << >>]
  <2>3. upto \in [0 .. n -> Seq(Byte)] /\ upto[0] = << >>
    BY <1>5
  <2>4. ~ \E k : k \in 1 .. n
    BY <1>5
  <2> HIDE DEF upto
  <2>5. JoinsNames(names, upto)
    BY <2>3, <2>4 DEF JoinsNames
  <2>6. PackNames(names) = upto[n]
    BY <1>4, <1>5, <2>1, <2>2, <2>3
  <2> QED
    BY <2>5, <2>6
<1>6. CASE n # 0
  <2>1. PICK f : Joins(Byte, seqs, f) /\ FlattenSeq(seqs) = f[n]
    <3> HIDE DEF seqs
    <3>1. Len(seqs) > 0
      BY <1>1, <1>3, <1>6
    <3> QED
      BY <1>3, <3>1, FlattenIs
  <2>2. /\ f \in [1 .. n -> Seq(Byte)]
        /\ \A i \in 1 .. n : f[i] = IF i = 1 THEN seqs[i] ELSE f[i - 1] \o seqs[i]
    BY <1>3, <2>1 DEF Joins
  <2> DEFINE upto == [i \in 0 .. n |-> IF i = 0 THEN << >> ELSE f[i]]
  <2>3. upto \in [0 .. n -> Seq(Byte)] /\ upto[0] = << >> /\ upto[n] = f[n]
    <3>1. \A i \in 0 .. n : i = 0 \/ i \in 1 .. n
      BY <1>1
    <3>2. << >> \in Seq(Byte) /\ 0 \in 0 .. n /\ n \in 0 .. n
      BY <1>1
    <3> QED
      BY <1>6, <2>2, <3>1, <3>2
  <2>4. ASSUME NEW k \in 1 .. n
        PROVE  upto[k] = upto[k - 1] \o Counted(rev[k])
    <3>1. k \in 0 .. n /\ k - 1 \in 0 .. n /\ k # 0
      BY <1>1
    <3>2. upto[k] = f[k]
      BY <3>1
    <3>3. CASE k = 1
      <4>1. f[k] = Counted(rev[k])
        BY <1>3, <2>2, <3>3
      <4>2. << >> \o Counted(rev[k]) = Counted(rev[k])
        BY <1>2, ConcatEmptySeq
      <4> QED
        BY <2>3, <3>2, <3>3, <4>1, <4>2
    <3>4. CASE k # 1
      <4>1. upto[k - 1] = f[k - 1]
        BY <3>1, <3>4
      <4>2. f[k] = f[k - 1] \o Counted(rev[k])
        BY <1>3, <2>2, <3>4
      <4> QED
        BY <3>2, <4>1, <4>2
    <3> QED
      BY <3>3, <3>4
  <2> HIDE DEF upto
  <2>5. JoinsNames(names, upto)
    BY <2>3, <2>4 DEF JoinsNames, rev
  <2> QED
    BY <1>4, <2>1, <2>3, <2>5
<1> QED
  BY <1>5, <1>6

(* Where each name is.                                                     *)
LEMMA NamesAt ==
    ASSUME NEW names \in Seq(ListedName), NEW upto, JoinsNames(names, upto)
    PROVE  \A m \in 0 .. Len(names) :
                /\ Len(upto[m]) \in Nat /\ m <= Len(upto[m])
                /\ \A k \in 1 .. m :
                    /\ Len(upto[k]) = Len(upto[k - 1]) + 1 + Len(Reverse(names)[k])
                    /\ Len(Reverse(names)[k]) > 0
                    /\ Len(upto[k]) <= Len(upto[m])
                    /\ upto[m][Len(upto[k - 1]) + 1] = Len(Reverse(names)[k])
                    /\ Holds(upto[m], Len(upto[k - 1]) + 1, Reverse(names)[k])
<1> DEFINE n   == Len(names)
           rev == Reverse(names)
           There(m, k) == /\ Len(upto[k]) = Len(upto[k - 1]) + 1 + Len(rev[k])
                          /\ Len(rev[k]) > 0
                          /\ Len(upto[k]) <= Len(upto[m])
                          /\ upto[m][Len(upto[k - 1]) + 1] = Len(rev[k])
                          /\ Holds(upto[m], Len(upto[k - 1]) + 1, rev[k])
           All(m) == /\ Len(upto[m]) \in Nat /\ m <= Len(upto[m])
                     /\ \A k \in 1 .. m : There(m, k)
           T == {m \in 0 .. n : All(m)}
<1>1. n \in Nat /\ \A k \in 1 .. n : rev[k] \in ListedName
  BY ReversedNames
<1> HIDE DEF rev
<1>2. /\ upto \in [0 .. n -> Seq(Byte)] /\ upto[0] = << >>
      /\ \A k \in 1 .. n : upto[k] = upto[k - 1] \o Counted(rev[k])
  BY DEF JoinsNames, rev
<1>3. \A m \in 0 .. n : upto[m] \in Seq(Byte) /\ Len(upto[m]) \in Nat
  BY <1>2, LenProperties
<1>4. 0 \in T
  <2>1. 0 \in 0 .. n /\ Len(upto[0]) = 0 /\ ~ \E k : k \in 1 .. 0
    BY <1>1, <1>2
  <2> HIDE DEF There
  <2>2. All(0)
    BY <2>1
  <2> HIDE DEF All
  <2> QED
    BY <2>1, <2>2
<1>5. ASSUME NEW m \in 1 .. n, m - 1 \in T
      PROVE  m \in T
  <2> DEFINE s    == upto[m - 1]
             name == rev[m]
             t    == Counted(name)
             u    == upto[m]
  <2>1. /\ name \in Text /\ name \in Seq(Byte)
        /\ Len(name) \in Nat /\ Len(name) > 0 /\ Len(name) <= 127
    <3>1. name \in ShortText /\ name # << >>
      BY <1>1 DEF ListedName
    <3>2. name \in Text /\ name \in Seq(Byte) /\ Len(name) \in Nat /\ Len(name) <= 127
      BY <3>1, ShortIs
    <3>3. Len(name) # 0
      BY <3>1, <3>2, EmptySeq
    <3> QED
      BY <3>2, <3>3
  <2>2. /\ t \in Seq(Byte) /\ Len(t) = 1 + Len(name) /\ t[1] = Len(name)
        /\ Holds(t, 1, name)
    BY <2>1, CountedIs
  <2>3. m - 1 \in 0 .. n /\ m \in 0 .. n
    BY <1>1
  <2>4. All(m - 1)
    <3> HIDE DEF All
    <3> QED
      BY <1>5
  <2>5. s \in Seq(Byte) /\ Len(s) \in Nat /\ u \in Seq(Byte) /\ Len(u) \in Nat
    BY <1>3, <2>3
  <2>6. u = s \o t
    BY <1>2
  <2>7. m - 1 <= Len(s)
    <3> HIDE DEF There
    <3> QED
      BY <2>4 DEF All
  <2> HIDE DEF s, t, u, name
  <2>8. /\ Len(u) = Len(s) + Len(t)
        /\ \A i \in 1 .. Len(s) : u[i] = s[i]
        /\ \A i \in 1 .. Len(t) : u[Len(s) + i] = t[i]
    <3>1. s \in Seq(Byte) /\ t \in Seq(Byte)
      BY <2>2, <2>5
    <3>2. /\ Len(s \o t) = Len(s) + Len(t)
          /\ \A i \in 1 .. Len(s) : (s \o t)[i] = s[i]
          /\ \A i \in 1 .. Len(t) : (s \o t)[Len(s) + i] = t[i]
      BY <3>1, JoinedTexts
    <3> QED
      BY <2>6, <3>2
  <2>9. Len(u) = Len(s) + 1 + Len(name)
    BY <2>1, <2>2, <2>5, <2>8
  <2>10. There(m, m)
    <3>1. u[Len(s) + 1] = Len(name)
      <4>1. 1 \in 1 .. Len(t)
        BY <2>1, <2>2
      <4> QED
        BY <2>2, <2>8, <4>1
    <3>2. Holds(u, Len(s) + 1, name)
      BY <2>1, <2>2, <2>5, <2>6, HoldsInJoined
    <3>3. Len(u) <= Len(u)
      BY <2>5
    <3> QED
      BY <2>1, <2>9, <3>1, <3>2, <3>3 DEF s, u, name
  <2>11. ASSUME NEW k \in 1 .. m - 1
         PROVE  There(m, k)
    <3> DEFINE before == Len(upto[k - 1])
               after  == Len(upto[k])
               old    == rev[k]
    <3>1. /\ after = before + 1 + Len(old) /\ Len(old) > 0 /\ after <= Len(s)
          /\ s[before + 1] = Len(old) /\ Holds(s, before + 1, old)
      BY <2>4 DEF s
    <3>2. before \in Nat /\ after \in Nat
      <4>1. k - 1 \in 0 .. n /\ k \in 0 .. n
        BY <1>1
      <4> QED
        BY <1>3, <4>1
    <3>3. old \in Seq(Byte) /\ Len(old) \in Nat
      <4>1. k \in 1 .. n
        BY <1>1
      <4>2. old \in ShortText
        BY <1>1, <4>1 DEF ListedName
      <4> QED
        BY <4>2, ShortIs
    <3> HIDE DEF before, after, old
    <3>4. before + 1 \in 1 .. Len(s) /\ before + 1 \in Nat
      BY <2>5, <3>1, <3>2, <3>3
    <3>5. u[before + 1] = Len(old)
      BY <2>8, <3>1, <3>4
    <3>6. Holds(u, before + 1, old)
      BY <2>2, <2>5, <2>6, <3>1, <3>3, <3>4, HoldsInJoined
    <3>7. after <= Len(u)
      BY <2>1, <2>5, <2>9, <3>1, <3>2
    <3> QED
      BY <3>1, <3>5, <3>6, <3>7 DEF before, after, old, u
  <2>12. m <= Len(u)
    BY <1>1, <2>1, <2>5, <2>7, <2>9
  <2> HIDE DEF There
  <2>13. \A k \in 1 .. m : There(m, k)
    <3>1. \A k \in 1 .. m : k = m \/ k \in 1 .. m - 1
      BY <1>1
    <3> QED
      BY <2>10, <2>11, <3>1
  <2>14. All(m)
    BY <2>5, <2>12, <2>13 DEF u
  <2> HIDE DEF All
  <2> QED
    BY <2>3, <2>14
<1> HIDE DEF All
<1>6. T = 0 .. n
  BY <1>1, <1>4, <1>5, NoFirstBad
<1>7. \A m \in 0 .. n : All(m)
  BY <1>6
<1> QED
  BY <1>7 DEF All, There, rev

(* Turn after turn of the loop, whoever writes down where it is.           *)
LEMMA TurnsAre ==
    ASSUME NEW msg, Len(msg) \in Nat, NEW turn,
           turn = [t \in 0 .. Len(msg) |-> turn[t]],
           turn[0] = [i |-> 5, names |-> << >>],
           \A t \in 1 .. Len(msg) : turn[t] = NextName(msg, turn[t - 1])
    PROVE  UnpackGroupList(msg) = turn[Len(msg)].names
<1> DEFINE n      == Len(msg)
           Def(f) == [t \in 0 .. n |-> IF t = 0 THEN [i |-> 5, names |-> << >>]
                                       ELSE NextName(msg, f[t - 1])]
           after  == CHOOSE f : f = Def(f)
<1>1. UnpackGroupList(msg) = after[n].names
  BY DEF UnpackGroupList
<1>2. \A t \in 0 .. n : t = 0 \/ t \in 1 .. n
  OBVIOUS
<1>3. turn = Def(turn)
  <2>1. \A t \in 0 .. n : turn[t] = Def(turn)[t]
    BY <1>2
  <2> HIDE DEF n
  <2> QED
    BY <2>1 DEF n
<1>4. after = Def(after)
  BY <1>3 DEF after
<1> HIDE DEF after
<1>5. /\ after[0] = [i |-> 5, names |-> << >>]
      /\ \A t \in 1 .. n : after[t] = NextName(msg, after[t - 1])
  <2>1. 0 \in 0 .. n /\ \A t \in 1 .. n : t \in 0 .. n /\ t # 0
    OBVIOUS
  <2> QED
    BY <1>4, <2>1
<1> DEFINE T == {t \in 0 .. n : after[t] = turn[t]}
<1>6. 0 \in T
  BY <1>5
<1>7. ASSUME NEW t \in 1 .. n, t - 1 \in T
      PROVE  t \in T
  <2>1. t \in 0 .. n
    OBVIOUS
  <2>2. after[t - 1] = turn[t - 1]
    BY <1>7
  <2>3. after[t] = NextName(msg, after[t - 1])
    BY <1>5
  <2>4. turn[t] = NextName(msg, turn[t - 1])
    OBVIOUS
  <2>5. after[t] = turn[t]
    BY <2>2, <2>3, <2>4
  <2> QED
    BY <2>1, <2>5
<1>8. T = 0 .. n
  <2>1. T \in SUBSET (0 .. n)
    OBVIOUS
  <2> HIDE DEF T, n
  <2>2. n \in Nat
    BY DEF n
  <2> QED
    BY <1>6, <1>7, <2>1, <2>2, NoFirstBad
<1>9. n \in 0 .. n
  OBVIOUS
<1>10. after[n] = turn[n]
  BY <1>8, <1>9
<1> QED
  BY <1>1, <1>10

(* The first k names of a list, and the next.                              *)
LEMMA NextOf ==
    ASSUME NEW S, NEW s \in Seq(S), NEW k \in 1 .. Len(s)
    PROVE  /\ Append(SubSeq(s, 1, k - 1), s[k]) = SubSeq(s, 1, k)
           /\ SubSeq(s, 1, 0) = << >> /\ SubSeq(s, 1, Len(s)) = s
<1> DEFINE before == SubSeq(s, 1, k - 1)
           upto   == SubSeq(s, 1, k)
<1>1. Len(s) \in Nat /\ k \in Nat /\ k >= 1 /\ k <= Len(s)
      /\ \A i \in 1 .. Len(s) : s[i] \in S
  BY ElementOfSeq, LenProperties
<1>2. /\ before \in Seq(S) /\ Len(before) = k - 1
      /\ \A i \in 1 .. k - 1 : before[i] = s[i]
  <2>1. \A i \in 1 .. k - 1 : s[i] \in S
    BY <1>1
  <2>2. k - 1 \in Int
    BY <1>1
  <2>3. /\ before \in Seq(S)
        /\ Len(before) = IF 1 <= k - 1 THEN (k - 1) - 1 + 1 ELSE 0
        /\ \A i \in 1 .. (k - 1) - 1 + 1 : before[i] = s[1 + i - 1]
    BY <2>1, <2>2, SubSeqProperties
  <2> HIDE DEF before
  <2>4. Len(before) = k - 1
    BY <1>1, <2>3
  <2>5. ASSUME NEW i \in 1 .. k - 1
        PROVE  before[i] = s[i]
    BY <1>1, <2>3
  <2> QED
    BY <2>3, <2>4, <2>5
<1>3. upto \in Seq(S) /\ Len(upto) = k /\ \A i \in 1 .. k : upto[i] = s[i]
  BY FirstAndRest
<1>4. SubSeq(s, 1, 0) = << >>
  OBVIOUS
<1>5. SubSeq(s, 1, Len(s)) = s
  <2>1. Len(s) \in 1 .. Len(s)
    BY <1>1
  <2> QED
    BY <2>1, FirstAndRest
<1> HIDE DEF before, upto
<1>6. Append(before, s[k]) = upto
  <2> DEFINE longer == Append(before, s[k])
  <2>1. /\ longer \in Seq(S) /\ Len(longer) = k
        /\ longer[k] = s[k]
        /\ \A i \in 1 .. k - 1 : longer[i] = before[i]
    <3>1. s[k] \in S
      BY <1>1
    <3>2. /\ longer \in Seq(S) /\ Len(longer) = Len(before) + 1
          /\ \A i \in 1 .. Len(before) : longer[i] = before[i]
          /\ longer[Len(before) + 1] = s[k]
      BY <1>2, <3>1, AppendProperties
    <3>3. Len(before) + 1 = k
      BY <1>1, <1>2
    <3> HIDE DEF longer
    <3> QED
      BY <1>2, <3>2, <3>3
  <2> HIDE DEF longer
  <2>2. ASSUME NEW i \in 1 .. k
        PROVE  longer[i] = upto[i]
    <3>1. i = k \/ i \in 1 .. k - 1
      BY <1>1
    <3> QED
      BY <1>1, <1>2, <1>3, <2>1, <3>1
  <2>3. longer = upto
    BY <1>3, <2>1, <2>2, SeqEqual
  <2> QED
    BY <2>3 DEF longer
<1> QED
  BY <1>4, <1>5, <1>6 DEF before, upto

(* What is sent of a list, and what is read of it.                         *)
LEMMA ListRead ==
    ASSUME NEW names \in Seq(ListedName), GroupListFits(names)
    PROVE  LET msg == PackGroupList(names)
           IN  /\ msg \in Seq(Byte) /\ Len(msg) >= 4 /\ msg[2] = Len(msg)
               /\ msg[3] = ResponseByte("GROUP_LIST_SUCCESS")
               /\ UnpackGroupList(msg) = Reverse(names)
<1> DEFINE n    == Len(names)
           rev  == Reverse(names)
           size == GroupListSize(names)
           head == <<TypeByte("GROUP_LIST_REC"), size,
                     ResponseByte("GROUP_LIST_SUCCESS"), Signed(n)>>
           body == PackNames(names)
           msg  == head \o body
<1>1. /\ n \in Nat /\ rev \in Seq(ListedName) /\ Len(rev) = n
      /\ \A k \in 1 .. n : rev[k] \in ListedName
  BY ReversedNames
<1>2. PICK upto : JoinsNames(names, upto) /\ body = upto[n]
  BY NamesJoined
<1>3. /\ upto \in [0 .. n -> Seq(Byte)] /\ upto[0] = << >>
      /\ \A m \in 0 .. n : upto[m] \in Seq(Byte) /\ Len(upto[m]) \in Nat
  BY <1>2, LenProperties DEF JoinsNames
<1>4. /\ body \in Seq(Byte) /\ Len(body) \in Nat /\ n <= Len(body)
      /\ \A k \in 1 .. n :
            /\ Len(upto[k]) = Len(upto[k - 1]) + 1 + Len(rev[k]) /\ Len(rev[k]) > 0
            /\ Len(upto[k]) <= Len(body)
            /\ body[Len(upto[k - 1]) + 1] = Len(rev[k])
            /\ Holds(body, Len(upto[k - 1]) + 1, rev[k])
  <2>1. n \in 0 .. n
    BY <1>1
  <2>2. /\ Len(upto[n]) \in Nat /\ n <= Len(upto[n])
        /\ \A k \in 1 .. n :
            /\ Len(upto[k]) = Len(upto[k - 1]) + 1 + Len(rev[k]) /\ Len(rev[k]) > 0
            /\ Len(upto[k]) <= Len(upto[n])
            /\ upto[n][Len(upto[k - 1]) + 1] = Len(rev[k])
            /\ Holds(upto[n], Len(upto[k - 1]) + 1, rev[k])
    BY <1>2, <2>1, NamesAt
  <2>3. upto[n] \in Seq(Byte)
    BY <1>3, <2>1
  <2> HIDE DEF rev, body
  <2> QED
    BY <1>2, <2>2, <2>3
<1>5. size = 4 + Len(body) /\ Signed(size) = size
  BY DEF GroupListSize, GroupListFits
<1> HIDE DEF rev, body, size
<1>6. PackGroupList(names) = msg
  BY <1>5 DEF PackGroupList, size, body
<1>7. head \in Seq(Byte) /\ Len(head) = 4 /\ head[2] = size
      /\ head[3] = ResponseByte("GROUP_LIST_SUCCESS")
  <2>1. TypeByte("GROUP_LIST_REC") \in Byte /\ ResponseByte("GROUP_LIST_SUCCESS") \in Byte
    <3>1. "GROUP_LIST_REC" \in {MsgType[i] : i \in 1 .. 17}
      BY Packed
    <3>2. "GROUP_LIST_SUCCESS" \in {MsgResponse[i] : i \in 1 .. 25}
      BY Packed
    <3>3. TypeByte("GROUP_LIST_REC") \in 0 .. 16
          /\ ResponseByte("GROUP_LIST_SUCCESS") \in 0 .. 24
      BY <3>1, <3>2, TypeRead, ResponseRead
    <3> QED
      BY <3>3 DEF Byte
  <2>2. size \in Byte /\ Signed(n) \in Byte
    <3>1. size \in Int /\ n \in Int
      BY <1>1, <1>4, <1>5
    <3> QED
      BY <1>5, <3>1, SignedIs
  <2> QED
    BY <2>1, <2>2
<1> HIDE DEF head
<1>8. /\ msg \in Seq(Byte) /\ Len(msg) = 4 + Len(body)
      /\ \A i \in 1 .. 4 : msg[i] = head[i]
      /\ \A i \in 1 .. Len(body) : msg[4 + i] = body[i]
  <2>1. /\ msg \in Seq(Byte) /\ Len(msg) = Len(head) + Len(body)
        /\ \A i \in 1 .. Len(head) : msg[i] = head[i]
        /\ \A i \in 1 .. Len(body) : msg[Len(head) + i] = body[i]
    BY <1>4, <1>7, JoinedTexts
  <2> HIDE DEF msg
  <2> QED
    BY <1>7, <2>1
<1>9. \A text \in Seq(Byte), i \in Nat : Holds(body, i, text) => Holds(msg, 4 + i, text)
  <2> TAKE text \in Seq(Byte), i \in Nat
  <2>1. Holds(body, i, text) => Holds(msg, Len(head) + i, text)
    BY <1>4, <1>7, HoldsInJoined
  <2> QED
    BY <1>7, <2>1
<1> HIDE DEF msg
<1>10. msg[2] = size /\ msg[3] = ResponseByte("GROUP_LIST_SUCCESS") /\ Len(msg) = size
  BY <1>5, <1>7, <1>8
<1> DEFINE done(k) == [i |-> 5 + Len(upto[k]), names |-> SubSeq(rev, 1, k)]
           turn == [t \in 0 .. Len(msg) |-> IF t <= n THEN done(t) ELSE done(n)]
<1>11. Len(msg) \in Nat /\ n <= Len(msg)
  BY <1>1, <1>4, <1>8
<1>12. turn[0] = [i |-> 5, names |-> << >>]
  <2>1. turn[0] = done(0)
    <3>1. 0 \in 0 .. Len(msg) /\ 0 <= n
      BY <1>1, <1>11
    <3> HIDE DEF done
    <3> QED
      BY <3>1
  <2>2. 5 + Len(upto[0]) = 5
    BY <1>3
  <2>3. SubSeq(rev, 1, 0) = << >>
    OBVIOUS
  <2> HIDE DEF turn
  <2> QED
    BY <2>1, <2>2, <2>3
<1>13. ASSUME NEW k \in 1 .. n
       PROVE  NextName(msg, done(k - 1)) = done(k)
  <2> DEFINE before == Len(upto[k - 1])
             after  == Len(upto[k])
             name   == rev[k]
             part   == SubSeq(rev, 1, k - 1)
             now    == done(k - 1)
  <2>1. /\ after = before + 1 + Len(name) /\ Len(name) > 0 /\ after <= Len(body)
        /\ body[before + 1] = Len(name) /\ Holds(body, before + 1, name)
    BY <1>4
  <2>2. before \in Nat /\ after \in Nat
    <3>1. k - 1 \in 0 .. n /\ k \in 0 .. n
      BY <1>1
    <3> QED
      BY <1>3, <3>1
  <2>3. name \in Text /\ name \in Seq(Byte) /\ Len(name) \in Nat
    <3>1. name \in ShortText
      BY <1>1 DEF ListedName
    <3> QED
      BY <3>1, ShortIs
  <2>4. Append(part, name) = SubSeq(rev, 1, k)
    BY <1>1, NextOf
  <2>5. now.i = 5 + before /\ now.names = part
    OBVIOUS
  <2>6. done(k) = [i |-> 5 + after, names |-> SubSeq(rev, 1, k)]
    OBVIOUS
  <2> HIDE DEF before, after, name, part, now, done
  <2>7. before + 1 \in 1 .. Len(body) /\ before + 1 \in Nat
    BY <1>4, <2>1, <2>2, <2>3
  <2>8. At(msg, 1) = size /\ ~(now.i >= size)
    <3>1. At(msg, 1) = size
      BY <1>10 DEF At
    <3> QED
      BY <1>4, <1>5, <2>1, <2>2, <2>3, <2>5, <3>1
  <2>9. At(msg, now.i - 1) = Len(name)
    <3>1. (now.i - 1) + 1 = 4 + (before + 1)
      BY <2>2, <2>5
    <3>2. msg[4 + (before + 1)] = Len(name)
      BY <1>8, <2>1, <2>7
    <3> QED
      BY <3>1, <3>2 DEF At
  <2>10. TextAt(msg, now.i, Len(name)) = name
    <3>1. Holds(msg, 4 + (before + 1), name)
      BY <1>9, <2>1, <2>3, <2>7
    <3>2. now.i = 4 + (before + 1) /\ now.i \in Nat
      BY <2>2, <2>5
    <3>3. Holds(msg, now.i, name)
      BY <3>1, <3>2
    <3> QED
      BY <1>8, <2>3, <3>2, <3>3, TextIs
  <2>11. now.i + Len(name) + 1 = 5 + after
    BY <2>1, <2>2, <2>3, <2>5
  <2>12. NextName(msg, now) = [i |-> now.i + Len(name) + 1, names |-> Append(now.names, name)]
    BY <2>8, <2>9, <2>10 DEF NextName
  <2>13. NextName(msg, now) = done(k)
    BY <2>4, <2>5, <2>6, <2>11, <2>12
  <2> QED
    BY <2>13 DEF now
<1>14. NextName(msg, done(n)) = done(n)
  <2>1. done(n).i = 5 + Len(body)
    BY <1>2
  <2> HIDE DEF done
  <2>2. At(msg, 1) = size
    BY <1>10 DEF At
  <2>3. done(n).i >= At(msg, 1)
    BY <1>4, <1>5, <2>1, <2>2
  <2> QED
    BY <2>3 DEF NextName
<1> HIDE DEF done
<1>15. ASSUME NEW t \in 1 .. Len(msg)
       PROVE  turn[t] = NextName(msg, turn[t - 1])
  <2>1. t \in 0 .. Len(msg) /\ t - 1 \in 0 .. Len(msg)
    BY <1>11
  <2>2. CASE t <= n
    <3>1. t \in 1 .. n /\ t - 1 <= n
      BY <1>1, <1>11, <2>2
    <3>2. turn[t] = done(t) /\ turn[t - 1] = done(t - 1)
      BY <2>1, <2>2, <3>1
    <3> QED
      BY <1>13, <3>1, <3>2
  <2>3. CASE ~(t <= n)
    <3>1. turn[t] = done(n)
      BY <2>1, <2>3
    <3>2. turn[t - 1] = done(n)
      <4>1. CASE t - 1 <= n
        <5>1. t - 1 = n
          BY <1>1, <1>11, <2>3, <4>1
        <5> QED
          BY <2>1, <4>1, <5>1
      <4>2. CASE ~(t - 1 <= n)
        BY <2>1, <4>2
      <4> QED
        BY <4>1, <4>2
    <3> QED
      BY <1>14, <3>1, <3>2
  <2> QED
    BY <2>2, <2>3
<1>16. turn = [t \in 0 .. Len(msg) |-> turn[t]]
  OBVIOUS
<1>17. turn[Len(msg)] = done(n)
  <2>1. Len(msg) \in 0 .. Len(msg)
    BY <1>11
  <2>2. CASE Len(msg) <= n
    <3>1. Len(msg) = n
      BY <1>1, <1>11, <2>2
    <3> QED
      BY <2>1, <2>2, <3>1
  <2>3. CASE ~(Len(msg) <= n)
    BY <2>1, <2>3
  <2> QED
    BY <2>2, <2>3
<1> HIDE DEF turn
<1>18. UnpackGroupList(msg) = done(n).names
  BY <1>11, <1>12, <1>15, <1>16, <1>17, TurnsAre
<1>19. done(n).names = rev
  <2>1. done(n).names = SubSeq(rev, 1, n)
    BY DEF done
  <2>2. CASE n = 0
    <3>1. rev = << >>
      BY <1>1, <2>2, EmptySeq
    <3>2. SubSeq(rev, 1, 0) = << >>
      OBVIOUS
    <3> QED
      BY <2>1, <2>2, <3>1, <3>2
  <2>3. CASE n # 0
    <3>1. 1 \in 1 .. Len(rev)
      BY <1>1, <2>3
    <3> QED
      BY <1>1, <2>1, <3>1, NextOf
  <2> QED
    BY <2>2, <2>3
<1>20. Len(msg) >= 4
  BY <1>4, <1>8
<1> QED
  BY <1>6, <1>8, <1>10, <1>18, <1>19, <1>20 DEF rev

-----------------------------------------------------------------------------
(* Answers *)

(* What a message can be taken for.                                        *)
ReadTypes == UserTypes \union GroupTypes \union BareTypes \union {"MSG_TYPE_ERR"}

(* What is sent to a client: a list only when its length fits a char.      *)
Sendable(answer) == answer[1] = "GROUP_LIST_SUCCESS" => GroupListFits(answer[2])

(* Whatever is behind it, the client reads the response it was sent.       *)
LEMMA ResponseOf ==
    ASSUME NEW response \in {MsgResponse[i] : i \in 1 .. 25}, NEW msg,
           msg[3] = ResponseByte(response)
    PROVE  GetMsgResponse(msg) = response
<1>1. ResponseByte(response) \in 0 .. 24 /\ MsgResponse[ResponseByte(response) + 1] = response
  BY ResponseRead
<1>2. At(msg, 2) = ResponseByte(response)
  BY DEF At
<1>3. ResponseByte(response) + 1 \in DOMAIN MsgResponse
  <2>1. DOMAIN MsgResponse = 1 .. 25
    BY DEF MsgResponse
  <2> QED
    BY <1>1, <2>1
<1> QED
  BY <1>1, <1>2, <1>3 DEF GetMsgResponse, Enumerator, At

(* The addresses and ports there are.                                      *)
LEMMA DetailsAre ==
    ASSUME NEW place \in Details
    PROVE  /\ place = <<place[1], place[2]>>
           /\ place[1] \in Text /\ place[1] \in Seq(Byte)
           /\ Len(place[1]) \in Nat /\ Len(place[1]) <= 19
           /\ place[2] \in Text /\ place[2] \in Seq(Byte)
           /\ Len(place[2]) \in Nat /\ Len(place[2]) <= 7
<1>1. place \in Text \X Text /\ Len(place[1]) < 20 /\ Len(place[2]) < 8
  BY MessageStreamAssumption DEF IPV4_ADDRESS_SIZE, PORT_SIZE
<1>2. place = <<place[1], place[2]>> /\ place[1] \in Text /\ place[2] \in Text
  BY <1>1
<1>3. /\ place[1] \in Seq(Byte) /\ Len(place[1]) \in Nat
      /\ place[2] \in Seq(Byte) /\ Len(place[2]) \in Nat
  BY <1>2, TextBytes
<1> QED
  BY <1>1, <1>2, <1>3

(* The details of a group, behind the response: their length byte leaves   *)
(* it out.                                                                 *)
LEMMA PlaceRead ==
    ASSUME NEW response \in {"GROUP_CREATED", "GROUP_JOINED"}, NEW place \in Details
    PROVE  LET msg == PackGroupDetails(response, place[1], place[2])
           IN  /\ Len(msg) \in Nat /\ Len(msg) >= 4 /\ Len(msg) <= 127
               /\ msg[2] = Len(msg) - 1 /\ msg[3] = ResponseByte(response)
               /\ UnpackGroupDetails(msg) = place
<1> DEFINE addr  == place[1]
           port  == place[2]
           size  == 4 + Len(addr) + Len(port)
           head  == <<TypeByte("GROUP_CREATE_REC"), size, ResponseByte(response)>>
           first == Counted(addr)
           last  == Counted(port)
           msg   == (head \o first) \o last
<1>1. /\ place = <<addr, port>>
      /\ addr \in Text /\ addr \in Seq(Byte) /\ Len(addr) \in Nat /\ Len(addr) <= 19
      /\ port \in Text /\ port \in Seq(Byte) /\ Len(port) \in Nat /\ Len(port) <= 7
  BY DetailsAre
<1> HIDE DEF addr, port
<1>2. TypeByte("GROUP_CREATE_REC") \in Byte /\ ResponseByte(response) \in Byte
  <2>1. "GROUP_CREATE_REC" \in {MsgType[i] : i \in 1 .. 17}
    BY Packed
  <2>2. response \in {MsgResponse[i] : i \in 1 .. 25}
    BY Packed
  <2>3. TypeByte("GROUP_CREATE_REC") \in 0 .. 16 /\ ResponseByte(response) \in 0 .. 24
    BY <2>1, <2>2, TypeRead, ResponseRead
  <2> QED
    BY <2>3 DEF Byte
<1>3. Signed(size) = size /\ size \in Byte
  <2>1. size \in Nat /\ size <= 127
    BY <1>1
  <2> HIDE DEF size
  <2> QED
    BY <2>1, SignedIs DEF Byte
<1>4. PackGroupDetails(response, addr, port) = msg
  BY <1>3 DEF PackGroupDetails
<1>5. head \in Seq(Byte) /\ Len(head) = 3 /\ head[2] = size /\ head[3] = ResponseByte(response)
  BY <1>2, <1>3
<1>6. /\ first \in Seq(Byte) /\ Len(first) = 1 + Len(addr) /\ first[1] = Len(addr)
      /\ Holds(first, 1, addr)
  <2>1. Len(addr) <= 127
    BY <1>1
  <2> QED
    BY <1>1, <2>1, CountedIs
<1>7. /\ last \in Seq(Byte) /\ Len(last) = 1 + Len(port) /\ last[1] = Len(port)
      /\ Holds(last, 1, port)
  <2>1. Len(port) <= 127
    BY <1>1
  <2> QED
    BY <1>1, <2>1, CountedIs
<1> HIDE DEF head, first, last
<1>8. /\ msg \in Seq(Byte) /\ Len(msg) = Len(head) + Len(first) + Len(last)
      /\ \A i \in 1 .. Len(head) : msg[i] = head[i]
      /\ \A i \in 1 .. Len(first) : msg[Len(head) + i] = first[i]
      /\ \A i \in 1 .. Len(last) : msg[Len(head) + Len(first) + i] = last[i]
      /\ \A text \in Seq(Byte), i \in Nat :
            /\ Holds(first, i, text) => Holds(msg, Len(head) + i, text)
            /\ Holds(last, i, text) => Holds(msg, Len(head) + Len(first) + i, text)
  BY <1>5, <1>6, <1>7, ThreeParts
<1> HIDE DEF msg
<1>9. Len(msg) = 5 + Len(addr) + Len(port) /\ Len(head) + Len(first) + 1 = 5 + Len(addr)
  BY <1>1, <1>5, <1>6, <1>7, <1>8
<1>10. msg[2] = size /\ msg[3] = ResponseByte(response) /\ msg[4] = Len(addr)
  <2>1. 2 \in 1 .. Len(head) /\ 3 \in 1 .. Len(head) /\ 1 \in 1 .. Len(first)
        /\ Len(head) + 1 = 4
    BY <1>1, <1>5, <1>6
  <2> QED
    BY <1>5, <1>6, <1>8, <2>1
<1>11. msg[5 + Len(addr)] = Len(port)
  <2>1. 1 \in 1 .. Len(last)
    BY <1>1, <1>7
  <2> QED
    BY <1>7, <1>8, <1>9, <2>1
<1>12. Holds(msg, 4, addr)
  <2>1. Len(head) + 1 = 4 /\ 1 \in Nat
    BY <1>5
  <2> QED
    BY <1>1, <1>6, <1>8, <2>1
<1>13. Holds(msg, 5 + Len(addr), port)
  BY <1>1, <1>7, <1>8, <1>9
<1>14. TextAt(msg, 4, Len(addr)) = addr /\ TextAt(msg, 5 + Len(addr), Len(port)) = port
  <2>1. 5 + Len(addr) \in Nat
    BY <1>1
  <2> QED
    BY <1>1, <1>8, <1>12, <1>13, <2>1, TextIs
<1>15. At(msg, 3) = Len(addr) /\ At(msg, 4 + Len(addr)) = Len(port)
  <2>1. 3 + 1 = 4 /\ 4 + Len(addr) + 1 = 5 + Len(addr)
    BY <1>1
  <2> QED
    BY <1>10, <1>11, <2>1 DEF At
<1>16. UnpackGroupDetails(msg) = <<addr, port>>
  BY <1>14, <1>15 DEF UnpackGroupDetails
<1>17. /\ Len(msg) \in Nat /\ Len(msg) >= 4 /\ Len(msg) <= 127
       /\ msg[2] = Len(msg) - 1
  BY <1>1, <1>9, <1>10
<1> QED
  BY <1>1, <1>4, <1>10, <1>16, <1>17 DEF addr, port

(* Responses that come alone.                                              *)
Alone ==
    {"USER_CREATED", "USER_EXISTS", "PASS_INCORRECT", "USER_NOT_FOUND", "USER_CONNECTED",
     "USER_ALREADY_CONNECTED", "USER_DISCONNECTED", "GROUP_CREATE_FAIL",
     "GROUP_USER_CONNECTED", "GROUP_LEFT", "GEN_ERROR"}

(* The answers there are: a response, and the details of a group or all    *)
(* names behind one of them.                                               *)
LEMMA AnswersAre ==
    ASSUME NEW type \in ReadTypes, NEW answer \in AnswersTo(type)
    PROVE  \/ type # "GROUP_LIST_REQ" /\ \E r \in Alone : answer = <<r>>
           \/ /\ type = "GROUP_CREATE_REQ"
              /\ \E place \in Details : answer = <<"GROUP_CREATED", place>>
           \/ /\ type = "GROUP_JOIN_REQ"
              /\ \E place \in Details : answer = <<"GROUP_JOINED", place>>
           \/ /\ type = "GROUP_LIST_REQ"
              /\ \E names \in GroupLists : answer = <<"GROUP_LIST_SUCCESS", names>>
<1>1. CASE type = "GROUP_LIST_REQ"
  BY <1>1 DEF AnswersTo
<1>2. CASE type = "GROUP_CREATE_REQ"
  BY <1>2 DEF AnswersTo, Alone
<1>3. CASE type = "GROUP_JOIN_REQ"
  BY <1>3 DEF AnswersTo, Alone
<1>4. CASE type = "GROUP_LEAVE_REQ"
  BY <1>4 DEF AnswersTo, Alone
<1>5. CASE type = "REG_REQ"
  BY <1>5 DEF AnswersTo, Alone
<1>6. CASE type = "LOGIN_REQ"
  BY <1>6 DEF AnswersTo, Alone
<1>7. CASE type = "LOGOUT_REQ"
  BY <1>7 DEF AnswersTo, Alone
<1>8. CASE type = "MSG_TYPE_ERR"
  BY <1>8 DEF AnswersTo, Alone
<1> QED
  BY <1>1, <1>2, <1>3, <1>4, <1>5, <1>6, <1>7, <1>8
     DEF ReadTypes, UserTypes, GroupTypes, BareTypes

(* What a client is to make of an answer: names come out in reverse.       *)
Meant(type, answer) ==
    IF type = "GROUP_LIST_REQ" THEN <<answer[1], Reverse(answer[2])>> ELSE answer

(* A message is full if it is as long as its length byte says.             *)
LEMMA FullIs ==
    ASSUME NEW msg, Len(msg) \in Nat, Len(msg) <= 127, Len(msg) >= 3
    PROVE  Full(msg) <=> msg[2] = Len(msg)
<1> DEFINE n == Len(msg)
<1>1. Signed(n) = n
  <2>1. n \in Nat /\ n <= 127
    OBVIOUS
  <2> HIDE DEF n
  <2> QED
    BY <2>1, SignedIs
<1>2. At(msg, 1) = msg[2]
  BY DEF At
<1>3. ~(n < 3)
  OBVIOUS
<1> HIDE DEF n
<1>4. ProtocolCheck(msg, n) = IF msg[2] = n THEN "PROTOCOL_MSG_FULL" ELSE "PROTOCOL_MSG_PART"
  BY <1>1, <1>2, <1>3 DEF ProtocolCheck
<1> QED
  BY <1>4 DEF Full, n

(* What a client makes of each answer, and which the length byte of        *)
(* protocol.h takes for a part.                                            *)
LEMMA AnswerRead ==
    ASSUME NEW type \in ReadTypes, NEW answer \in AnswersTo(type), Sendable(answer)
    PROVE  /\ UnpackAnswer(type, PackAnswer(type, answer)) = Meant(type, answer)
           /\ Full(PackAnswer(type, answer))
                <=> answer[1] \notin {"GROUP_CREATED", "GROUP_JOINED"}
<1> DEFINE msg == PackAnswer(type, answer)
<1>1. CASE type # "GROUP_LIST_REQ" /\ \E r \in Alone : answer = <<r>>
  <2>1. PICK r \in Alone : answer = <<r>>
    BY <1>1
  <2>2. answer[1] = r /\ r \notin {"GROUP_CREATED", "GROUP_JOINED", "GROUP_LIST_SUCCESS"}
    BY <2>1 DEF Alone
  <2>3. msg = PackRespMsg(AnswerType(type), r)
    BY <2>2 DEF PackAnswer
  <2>4. Len(msg) = 3 /\ msg[2] = 3 /\ msg[3] = ResponseByte(r)
    BY <2>3 DEF PackRespMsg
  <2> HIDE DEF msg
  <2>5. GetMsgResponse(msg) = r
    <3>1. r \in {MsgResponse[i] : i \in 1 .. 25}
      BY Packed DEF Alone
    <3> QED
      BY <2>4, <3>1, ResponseOf
  <2>6. UnpackAnswer(type, msg) = <<r>>
    BY <1>1, <2>2, <2>5 DEF UnpackAnswer
  <2>7. Full(msg)
    <3>1. Len(msg) \in Nat /\ Len(msg) <= 127 /\ Len(msg) >= 3 /\ msg[2] = Len(msg)
      BY <2>4
    <3> QED
      BY <3>1, FullIs
  <2>8. Meant(type, answer) = <<r>>
    BY <1>1, <2>1 DEF Meant
  <2> QED
    BY <2>2, <2>6, <2>7, <2>8 DEF msg
<1>2. ASSUME NEW response, NEW place \in Details, answer = <<response, place>>,
             \/ type = "GROUP_CREATE_REQ" /\ response = "GROUP_CREATED"
             \/ type = "GROUP_JOIN_REQ" /\ response = "GROUP_JOINED"
      PROVE  /\ UnpackAnswer(type, msg) = Meant(type, answer)
             /\ Full(msg) <=> answer[1] \notin {"GROUP_CREATED", "GROUP_JOINED"}
  <2>1. answer[1] = response /\ answer[2] = place
        /\ response \in {"GROUP_CREATED", "GROUP_JOINED"} /\ type # "GROUP_LIST_REQ"
    BY <1>2
  <2>2. msg = PackGroupDetails(response, place[1], place[2])
    BY <2>1 DEF PackAnswer
  <2>3. /\ Len(msg) \in Nat /\ Len(msg) >= 4 /\ Len(msg) <= 127
        /\ msg[2] = Len(msg) - 1 /\ msg[3] = ResponseByte(response)
        /\ UnpackGroupDetails(msg) = place
    BY <2>1, <2>2, PlaceRead
  <2> HIDE DEF msg
  <2>4. GetMsgResponse(msg) = response
    <3>1. response \in {MsgResponse[i] : i \in 1 .. 25}
      BY <2>1, Packed
    <3> QED
      BY <2>3, <3>1, ResponseOf
  <2>5. UnpackAnswer(type, msg) = <<response, place>>
    BY <1>2, <2>3, <2>4 DEF UnpackAnswer
  <2>6. ~Full(msg)
    <3>1. msg[2] # Len(msg) /\ Len(msg) >= 3
      BY <2>3
    <3> QED
      BY <2>3, <3>1, FullIs
  <2>7. Meant(type, answer) = answer
    BY <2>1 DEF Meant
  <2> QED
    BY <1>2, <2>1, <2>5, <2>6, <2>7
<1>3. CASE /\ type = "GROUP_LIST_REQ"
           /\ \E names \in GroupLists : answer = <<"GROUP_LIST_SUCCESS", names>>
  <2>1. PICK names \in GroupLists : answer = <<"GROUP_LIST_SUCCESS", names>>
    BY <1>3
  <2>2. answer[1] = "GROUP_LIST_SUCCESS" /\ answer[2] = names
    BY <2>1
  <2>3. GroupListFits(names)
    BY <2>2 DEF Sendable
  <2>4. names \in Seq(ListedName)
    <3>1. /\ names \in Seq(Text \ {<< >>})
          /\ \A i \in DOMAIN names : Len(names[i]) < USER_NAME_SIZE
      BY MessageStreamAssumption
    <3>2. DOMAIN names = 1 .. Len(names) /\ Len(names) \in Nat
          /\ \A i \in 1 .. Len(names) : names[i] \in Text \ {<< >>}
      BY <3>1, ElementOfSeq, LenProperties
    <3>3. \A i \in 1 .. Len(names) : names[i] \in ListedName
      BY <3>1, <3>2 DEF ListedName, ShortText
    <3>4. names = [i \in 1 .. Len(names) |-> names[i]]
      BY <3>1, <3>2
    <3> QED
      BY <3>2, <3>3, <3>4
  <2>5. msg = PackGroupList(names)
    BY <2>2 DEF PackAnswer
  <2>6. /\ msg \in Seq(Byte) /\ Len(msg) >= 4 /\ msg[2] = Len(msg)
        /\ msg[3] = ResponseByte("GROUP_LIST_SUCCESS")
        /\ UnpackGroupList(msg) = Reverse(names)
    BY <2>3, <2>4, <2>5, ListRead
  <2> HIDE DEF msg
  <2>7. Len(msg) \in Nat /\ Len(msg) <= 127 /\ Len(msg) >= 3
    <3>1. Len(msg) \in Nat
      BY <2>6, LenProperties
    <3>2. msg[2] \in Byte
      <4>1. 2 \in 1 .. Len(msg)
        BY <2>6, <3>1
      <4> QED
        BY <2>6, <4>1, ElementOfSeq
    <3>3. Len(msg) \in Byte
      BY <2>6, <3>2
    <3> DEFINE n == Len(msg)
    <3>4. n \in Nat /\ n \in Byte /\ n >= 4
      BY <2>6, <3>1, <3>3
    <3> HIDE DEF n
    <3>5. n <= 127 /\ n >= 3
      BY <3>4 DEF Byte
    <3> QED
      BY <3>1, <3>5 DEF n
  <2>8. GetMsgResponse(msg) = "GROUP_LIST_SUCCESS"
    <3>1. "GROUP_LIST_SUCCESS" \in {MsgResponse[i] : i \in 1 .. 25}
      BY Packed
    <3> QED
      BY <2>6, <3>1, ResponseOf
  <2>9. UnpackAnswer(type, msg) = <<"GROUP_LIST_SUCCESS", Reverse(names)>>
    BY <1>3, <2>6, <2>8 DEF UnpackAnswer
  <2>10. Full(msg)
    BY <2>6, <2>7, FullIs
  <2>11. Meant(type, answer) = <<"GROUP_LIST_SUCCESS", Reverse(names)>>
    BY <1>3, <2>2 DEF Meant
  <2> QED
    BY <2>2, <2>9, <2>10, <2>11 DEF msg
<1> QED
  BY <1>1, <1>2, <1>3, AnswersAre

-----------------------------------------------------------------------------
(* The invariant *)

AnswerMsg == UNION {{[to |-> type, answer |-> answer] :
                        answer \in {a \in AnswersTo(type) : Sendable(a)}} : type \in ReadTypes}

StreamTypes ==
    /\ buffer \in Seq(Byte) /\ Len(buffer) = BufferSize
    /\ toServer \in [ClientID -> Seq(Byte)]
    /\ toClient \in [ClientID -> Seq(AnswerMsg)]
    /\ client \in [ClientID ->
            [at    : {"start", "menu", "gone"},
             asked : {NoRequest} \union RequestsAt("start") \union RequestsAt("menu"),
             sent  : 0 .. MaxRequests]]
    /\ serverUp \in BOOLEAN
    /\ overrun \in {"nothing", "name", "list", "answer"}
    /\ history \in [ClientID ->
            [pieces : 0 .. MaxPieces, served : BOOLEAN, fooled : BOOLEAN]]

(* A program asks what its menu offers.                                    *)
AskedFromMenu ==
    \A c \in ClientID :
        client[c].asked = NoRequest \/ client[c].asked \in RequestsAt(client[c].at)

(* Nothing is on its way to a server that has gone.                        *)
GoneTakesNothing == \A c \in ClientID : toServer[c] # << >> => serverUp

(* The end of a connection is met once the server has gone.                *)
FooledByEnd == \A c \in ClientID : history[c].fooled => ~serverUp

(* A program that is answered that it is connected has been served.        *)
AnswerTo(c, msg) ==
    /\ msg.to = client[c].asked[1]
    /\ msg.to = "LOGIN_REQ" /\ msg.answer[1] = "USER_CONNECTED" => history[c].served

(* Where the one request of a program is: it has none, or it is on its way,*)
(* or its answer is, or neither will ever be.                              *)
InStep(c) ==
    \/ client[c].asked = NoRequest /\ toServer[c] = << >> /\ toClient[c] = << >>
    \/ /\ client[c].asked # NoRequest
       /\ \/ toServer[c] = PackRequest(client[c].asked) /\ toClient[c] = << >>
          \/ /\ toServer[c] = << >> /\ Len(toClient[c]) = 1
             /\ AnswerTo(c, toClient[c][1])
          \/ /\ toServer[c] = << >> /\ toClient[c] = << >>
             /\ ~serverUp \/ overrun # "nothing"

WholeInStep == \A c \in ClientID : history[c].pieces = 0 => InStep(c)

(* LogoutUser's length: since a name came the byte behind its request is a *)
(* length that has room.                                                   *)
ByteBehindFits ==
    Pieces = {} /\ (\E c \in ClientID : history[c].served) => Fits(buffer[3])

StreamInv ==
    /\ StreamTypes /\ AskedFromMenu /\ GoneTakesNothing /\ FooledByEnd
    /\ WholeInStep /\ MenuMeansSession /\ ByteBehindFits /\ LengthsFitWholeRequests

(* Its facts, one by one.                                                  *)
LEMMA TypesOf ==
    ASSUME StreamTypes, NEW c \in ClientID
    PROVE  /\ toServer[c] \in Seq(Byte) /\ toClient[c] \in Seq(AnswerMsg)
           /\ client[c] = [at |-> client[c].at, asked |-> client[c].asked,
                           sent |-> client[c].sent]
           /\ client[c].at \in {"start", "menu", "gone"}
           /\ client[c].asked \in {NoRequest} \union RequestsAt("start") \union RequestsAt("menu")
           /\ client[c].asked # NoRequest => client[c].asked \in Request
           /\ client[c].sent \in 0 .. MaxRequests
           /\ history[c] = [pieces |-> history[c].pieces, served |-> history[c].served,
                            fooled |-> history[c].fooled]
           /\ history[c].pieces \in 0 .. MaxPieces /\ history[c].pieces \in Nat
           /\ history[c].served \in BOOLEAN /\ history[c].fooled \in BOOLEAN
<1>1. toServer[c] \in Seq(Byte) /\ toClient[c] \in Seq(AnswerMsg)
  BY DEF StreamTypes
<1>2. client[c] \in
            [at    : {"start", "menu", "gone"},
             asked : {NoRequest} \union RequestsAt("start") \union RequestsAt("menu"),
             sent  : 0 .. MaxRequests]
  BY DEF StreamTypes
<1>3. history[c] \in [pieces : 0 .. MaxPieces, served : BOOLEAN, fooled : BOOLEAN]
  BY DEF StreamTypes
<1>4. client[c].asked # NoRequest => client[c].asked \in Request
  BY <1>2, RequestsAre DEF Request
<1>5. history[c].pieces \in 0 .. MaxPieces
  BY <1>3
<1>6. history[c].pieces \in Nat
  BY <1>5
<1> QED
  BY <1>1, <1>2, <1>3, <1>4, <1>5, <1>6

(* What nobody touches stays in step.                                      *)
LEMMA StepKept ==
    ASSUME NEW d \in ClientID, InStep(d), client'[d] = client[d],
           toServer'[d] = toServer[d], toClient'[d] = toClient[d],
           history[d].served => history'[d].served,
           ~serverUp => ~serverUp', overrun # "nothing" => overrun' # "nothing"
    PROVE  InStep(d)'
BY DEF InStep, AnswerTo

(* Who has been in pieces stays so.                                        *)
LEMMA PiecesGrow ==
    ASSUME \A d \in ClientID : history[d].pieces > 0 => history'[d].pieces > 0
    PROVE  Pieces' = {} => Pieces = {}
BY DEF Pieces

(* The initial states.                                                     *)
LEMMA StreamInitInv ==
    MessageStreamInit => StreamInv
<1> SUFFICES ASSUME MessageStreamInit
             PROVE  StreamInv
  OBVIOUS
<1>1. PICK b \in NotWritten : buffer = [i \in 1 .. BufferSize |-> b]
  BY DEF MessageStreamInit
<1>2. buffer \in Seq(Byte) /\ Len(buffer) = BufferSize
  <2>1. b \in Byte /\ BufferSize \in Nat
    BY <1>1, MessageStreamAssumption
  <2> QED
    BY <1>1, <2>1
<1>3. << >> \in Seq(Byte) /\ << >> \in Seq(AnswerMsg)
  OBVIOUS
<1>4. /\ Program("start").asked = NoRequest /\ Program("start").at = "start"
      /\ Program("start") \in
            [at    : {"start", "menu", "gone"},
             asked : {NoRequest} \union RequestsAt("start") \union RequestsAt("menu"),
             sent  : 0 .. MaxRequests]
  BY MessageStreamAssumption DEF Program
<1>5. /\ NoHistory \in [pieces : 0 .. MaxPieces, served : BOOLEAN, fooled : BOOLEAN]
      /\ NoHistory.pieces = 0 /\ NoHistory.served = FALSE /\ NoHistory.fooled = FALSE
  BY MessageStreamAssumption DEF NoHistory
<1>6. StreamTypes
  BY <1>2, <1>3, <1>4, <1>5 DEF MessageStreamInit, StreamTypes
<1>7. \A c \in ClientID :
        /\ client[c].asked = NoRequest /\ client[c].at = "start"
        /\ toServer[c] = << >> /\ toClient[c] = << >>
        /\ ~history[c].served /\ ~history[c].fooled
  BY <1>4, <1>5 DEF MessageStreamInit
<1>8. serverUp /\ overrun = "nothing"
  BY DEF MessageStreamInit
<1>9. AskedFromMenu /\ GoneTakesNothing /\ FooledByEnd /\ MenuMeansSession
  BY <1>7, <1>8 DEF AskedFromMenu, GoneTakesNothing, FooledByEnd, MenuMeansSession
<1>10. WholeInStep /\ ByteBehindFits /\ LengthsFitWholeRequests
  BY <1>7, <1>8 DEF WholeInStep, InStep, ByteBehindFits, LengthsFitWholeRequests
<1> QED
  BY <1>6, <1>9, <1>10 DEF StreamInv

(* A program asks.                                                         *)
LEMMA SendRequestInv ==
    ASSUME StreamInv, NEW c \in ClientID, SendRequest(c)
    PROVE  StreamInv'
<1>0. /\ StreamTypes /\ AskedFromMenu /\ GoneTakesNothing /\ FooledByEnd
      /\ WholeInStep /\ MenuMeansSession /\ ByteBehindFits /\ LengthsFitWholeRequests
  BY DEF StreamInv
<1>1. PICK request \in RequestsAt(client[c].at) :
        /\ client' = [client EXCEPT ![c].asked = request, ![c].sent = @ + 1]
        /\ toServer' = IF serverUp
                       THEN [toServer EXCEPT ![c] = @ \o PackRequest(request)]
                       ELSE toServer
  BY DEF SendRequest
<1>2. /\ overrun = "nothing" /\ client[c].asked = NoRequest /\ client[c].sent < MaxRequests
      /\ buffer' = buffer /\ toClient' = toClient /\ serverUp' = serverUp
      /\ overrun' = overrun /\ history' = history
  BY DEF SendRequest
<1>3. /\ toServer[c] \in Seq(Byte)
      /\ client[c].at \in {"start", "menu", "gone"} /\ client[c].sent \in 0 .. MaxRequests
  BY <1>0, TypesOf
<1>4. /\ request \in RequestsAt("start") \union RequestsAt("menu")
      /\ request \in Request /\ request # NoRequest
  BY <1>1, <1>3, RequestsAre, NoRequestAssumption DEF Request
<1>5. PackRequest(request) \in Seq(Byte)
  BY <1>4, RequestPacked
<1> DEFINE sent == client[c].sent + 1
<1>6. client' = [client EXCEPT ![c] = [at |-> client[c].at, asked |-> request, sent |-> sent]]
  <2> DEFINE new == [at |-> client[c].at, asked |-> request, sent |-> sent]
  <2>1. client \in [ClientID -> [at : {"start", "menu", "gone"},
             asked : {NoRequest} \union RequestsAt("start") \union RequestsAt("menu"),
             sent : 0 .. MaxRequests]]
    BY <1>0 DEF StreamTypes
  <2>2. client[c] \in [at : {"start", "menu", "gone"},
             asked : {NoRequest} \union RequestsAt("start") \union RequestsAt("menu"),
             sent : 0 .. MaxRequests]
    BY <2>1
  <2>3. client'[c] = new
    BY <1>1, <2>1, <2>2
  <2>4. DOMAIN client' = ClientID /\ \A d \in ClientID : d # c => client'[d] = client[d]
    BY <1>1, <2>1
  <2>5. client' = [d \in ClientID |-> client'[d]]
    BY <1>1, <2>1
  <2> HIDE DEF new
  <2>6. client' = [client EXCEPT ![c] = new]
    BY <2>1, <2>3, <2>4, <2>5
  <2> QED
    BY <2>6 DEF new
<1>7. sent \in 0 .. MaxRequests
  BY <1>2, <1>3, MessageStreamAssumption
<1> HIDE DEF sent
<1>8. /\ client'[c].at = client[c].at /\ client'[c].asked = request
      /\ \A d \in ClientID \ {c} : client'[d] = client[d]
  BY <1>0, <1>6 DEF StreamTypes
<1>9. \A d \in ClientID \ {c} : toServer'[d] = toServer[d]
  BY <1>0, <1>1 DEF StreamTypes
<1>10. /\ serverUp => toServer'[c] = toServer[c] \o PackRequest(request)
       /\ ~serverUp => toServer'[c] = toServer[c]
  BY <1>0, <1>1 DEF StreamTypes
<1>11. StreamTypes'
  <2>1. client' \in [ClientID ->
            [at    : {"start", "menu", "gone"},
             asked : {NoRequest} \union RequestsAt("start") \union RequestsAt("menu"),
             sent  : 0 .. MaxRequests]]
    BY <1>0, <1>3, <1>4, <1>6, <1>7 DEF StreamTypes
  <2>2. toServer[c] \o PackRequest(request) \in Seq(Byte)
    BY <1>3, <1>5, JoinedTexts
  <2>3. toServer' \in [ClientID -> Seq(Byte)]
    BY <1>0, <1>1, <2>2 DEF StreamTypes
  <2> QED
    BY <1>0, <1>2, <2>1, <2>3 DEF StreamTypes
<1>12. AskedFromMenu'
  BY <1>0, <1>1, <1>8 DEF AskedFromMenu
<1>13. GoneTakesNothing'
  BY <1>0, <1>2, <1>9, <1>10 DEF GoneTakesNothing
<1>14. FooledByEnd' /\ MenuMeansSession' /\ ByteBehindFits' /\ LengthsFitWholeRequests'
  BY <1>0, <1>2, <1>8 DEF FooledByEnd, MenuMeansSession, ByteBehindFits,
                          LengthsFitWholeRequests, Pieces
<1>15. ASSUME NEW d \in ClientID, history'[d].pieces = 0
       PROVE  InStep(d)'
  <2>1. InStep(d)
    BY <1>0, <1>2, <1>15 DEF WholeInStep
  <2>2. CASE d # c
    BY <1>2, <1>8, <1>9, <2>1, <2>2, StepKept
  <2>3. CASE d = c
    <3>1. toServer[c] = << >> /\ toClient[c] = << >>
      BY <1>2, <2>1, <2>3 DEF InStep
    <3>2. << >> \o PackRequest(request) = PackRequest(request)
      BY <1>5, ConcatEmptySeq
    <3>3. client'[c].asked # NoRequest /\ toClient'[c] = << >>
      BY <1>2, <1>4, <1>8, <3>1
    <3>4. CASE serverUp
      <4>1. toServer'[c] = PackRequest(client'[c].asked)
        BY <1>8, <1>10, <3>1, <3>2, <3>4
      <4> QED
        BY <2>3, <3>3, <4>1 DEF InStep
    <3>5. CASE ~serverUp
      <4>1. toServer'[c] = << >> /\ ~serverUp'
        BY <1>2, <1>10, <3>1, <3>5
      <4> QED
        BY <2>3, <3>3, <4>1 DEF InStep
    <3> QED
      BY <3>4, <3>5
  <2> QED
    BY <2>2, <2>3
<1> QED
  BY <1>11, <1>12, <1>13, <1>14, <1>15 DEF StreamInv, WholeInStep

(* The answers to a login, and back.                                       *)
LEMMA LoginAnswerRead ==
    ASSUME NEW answer \in AnswersTo("LOGIN_REQ")
    PROVE  /\ GetMsgResponse(PackAnswer("LOGIN_REQ", answer)) = answer[1]
           /\ answer[1] \in Good => answer[1] = "USER_CONNECTED"
<1>1. \E r \in {"USER_NOT_FOUND", "PASS_INCORRECT", "USER_ALREADY_CONNECTED",
                "USER_CONNECTED"} : answer = <<r>>
  BY DEF AnswersTo
<1>2. PICK r \in {"USER_NOT_FOUND", "PASS_INCORRECT", "USER_ALREADY_CONNECTED",
                  "USER_CONNECTED"} : answer = <<r>>
  BY <1>1
<1>3. answer[1] = r
  BY <1>2
<1>4. PackAnswer("LOGIN_REQ", answer) = PackRespMsg("LOGIN_REC", r)
  BY <1>3 DEF PackAnswer, AnswerType
<1>5. PackRespMsg("LOGIN_REC", r)[3] = ResponseByte(r)
  BY DEF PackRespMsg
<1>6. GetMsgResponse(PackRespMsg("LOGIN_REC", r)) = r
  <2>1. r \in {MsgResponse[i] : i \in 1 .. 25}
    BY Packed
  <2> QED
    BY <1>5, <2>1, ResponseOf
<1>7. r \in Good => r = "USER_CONNECTED"
  BY DEF Good
<1> QED
  BY <1>3, <1>4, <1>6, <1>7

(* What a response does to a program.                                      *)
LEMMA TreatedIs ==
    ASSUME StreamTypes, NEW c \in ClientID, NEW response
    PROVE  /\ Treated(c, response) \in [ClientID ->
                [at    : {"start", "menu", "gone"},
                 asked : {NoRequest} \union RequestsAt("start") \union RequestsAt("menu"),
                 sent  : 0 .. MaxRequests]]
           /\ \A d \in ClientID \ {c} : Treated(c, response)[d] = client[d]
           /\ Treated(c, response)[c].asked = NoRequest
           /\ Treated(c, response)[c].at = "menu"
                => \/ client[c].at = "menu"
                   \/ client[c].asked[1] = "LOGIN_REQ" /\ response \in Good
<1> DEFINE at == CASE client[c].asked[1] = "LOGIN_REQ" /\ response \in Good -> "menu"
                   [] client[c].asked[1] = "LOGOUT_REQ" -> "gone"
                   [] OTHER -> client[c].at
           State == [at    : {"start", "menu", "gone"},
                     asked : {NoRequest} \union RequestsAt("start") \union RequestsAt("menu"),
                     sent  : 0 .. MaxRequests]
           T == Treated(c, response)
<1>1. client \in [ClientID -> State]
  BY DEF StreamTypes
<1>2. client[c].at \in {"start", "menu", "gone"} /\ client[c].sent \in 0 .. MaxRequests
      /\ client[c] = [at |-> client[c].at, asked |-> client[c].asked, sent |-> client[c].sent]
  BY TypesOf
<1>3. at \in {"start", "menu", "gone"}
  BY <1>2
<1>4. at = "menu" => \/ client[c].at = "menu"
                     \/ client[c].asked[1] = "LOGIN_REQ" /\ response \in Good
  OBVIOUS
<1>5. T = [client EXCEPT ![c].asked = NoRequest, ![c].at = at]
  <2> DEFINE mid == [client EXCEPT ![c].asked = NoRequest]
  <2>1. mid[c].at = client[c].at
    BY <1>1, <1>2
  <2>2. T = [mid EXCEPT ![c].at =
                CASE client[c].asked[1] = "LOGIN_REQ" /\ response \in Good -> "menu"
                  [] client[c].asked[1] = "LOGOUT_REQ" -> "gone"
                  [] OTHER -> mid[c].at]
    BY DEF Treated
  <2> QED
    BY <2>1, <2>2
<1> HIDE DEF at
<1>6. T[c] = [at |-> at, asked |-> NoRequest, sent |-> client[c].sent]
  BY <1>1, <1>2, <1>5
<1>7. DOMAIN T = ClientID /\ (\A d \in ClientID : d # c => T[d] = client[d])
      /\ T = [d \in ClientID |-> T[d]]
  BY <1>1, <1>5
<1> HIDE DEF T
<1>8. T[c] \in State
  BY <1>2, <1>3, <1>6
<1>9. \A d \in ClientID : T[d] \in State
  BY <1>1, <1>7, <1>8
<1> HIDE DEF State
<1>10. T \in [ClientID -> State]
  BY <1>7, <1>9
<1> QED
  BY <1>4, <1>6, <1>7, <1>10 DEF T, State

(* An answer is read.                                                      *)
LEMMA ClientReceiveInv ==
    ASSUME StreamInv, NEW c \in ClientID, ClientReceive(c)
    PROVE  StreamInv'
<1>0. /\ StreamTypes /\ AskedFromMenu /\ GoneTakesNothing /\ FooledByEnd
      /\ WholeInStep /\ MenuMeansSession /\ ByteBehindFits /\ LengthsFitWholeRequests
  BY DEF StreamInv
<1>1. PICK k \in 1 .. Len(toClient[c]) :
            toClient' = [toClient EXCEPT ![c] = SubSeq(toClient[c], k + 1, Len(toClient[c]))]
  BY <1>0 DEF ClientReceive, StreamTypes
<1> DEFINE head == Head(toClient[c])
           response == GetMsgResponse(PackAnswer(head.to, head.answer))
<1>2. /\ overrun = "nothing" /\ client[c].asked # NoRequest
      /\ client' = Treated(c, response)
      /\ buffer' = buffer /\ toServer' = toServer /\ serverUp' = serverUp
      /\ overrun' = overrun /\ history' = history
  BY DEF ClientReceive
<1>3. toClient[c] \in Seq(AnswerMsg)
  BY <1>0, TypesOf
<1>4. /\ SubSeq(toClient[c], k + 1, Len(toClient[c])) \in Seq(AnswerMsg)
      /\ k = Len(toClient[c]) => SubSeq(toClient[c], k + 1, Len(toClient[c])) = << >>
  BY <1>3, FirstAndRest
<1>5. /\ toClient'[c] = SubSeq(toClient[c], k + 1, Len(toClient[c]))
      /\ \A d \in ClientID \ {c} : toClient'[d] = toClient[d]
      /\ toClient' \in [ClientID -> Seq(AnswerMsg)]
  BY <1>0, <1>1, <1>4 DEF StreamTypes
<1> HIDE DEF response
<1>6. /\ client' \in [ClientID ->
                [at    : {"start", "menu", "gone"},
                 asked : {NoRequest} \union RequestsAt("start") \union RequestsAt("menu"),
                 sent  : 0 .. MaxRequests]]
      /\ \A d \in ClientID \ {c} : client'[d] = client[d]
      /\ client'[c].asked = NoRequest
      /\ client'[c].at = "menu"
            => \/ client[c].at = "menu"
               \/ client[c].asked[1] = "LOGIN_REQ" /\ response \in Good
  BY <1>0, <1>2, TreatedIs
<1>7. StreamTypes'
  BY <1>0, <1>2, <1>5, <1>6 DEF StreamTypes
<1>8. AskedFromMenu'
  BY <1>0, <1>6 DEF AskedFromMenu
<1>9. GoneTakesNothing' /\ FooledByEnd' /\ ByteBehindFits' /\ LengthsFitWholeRequests'
  BY <1>0, <1>2 DEF GoneTakesNothing, FooledByEnd, ByteBehindFits,
                    LengthsFitWholeRequests, Pieces
<1>10. ASSUME history[c].pieces = 0
       PROVE  /\ toServer[c] = << >> /\ Len(toClient[c]) = 1
              /\ AnswerTo(c, toClient[c][1])
  <2>1. InStep(c)
    BY <1>0, <1>10 DEF WholeInStep
  <2>2. toClient[c] # << >>
    <3>1. Len(toClient[c]) # 0
      BY <1>1, <1>3, LenProperties
    <3> QED
      BY <1>3, <3>1, EmptySeq
  <2> QED
    BY <1>2, <2>1, <2>2 DEF InStep
<1>11. ASSUME history[c].pieces = 0, client[c].asked[1] = "LOGIN_REQ", response \in Good
       PROVE  history[c].served
  <2>1. Len(toClient[c]) = 1 /\ AnswerTo(c, toClient[c][1])
    BY <1>10, <1>11
  <2>2. head = toClient[c][1] /\ head \in AnswerMsg
    BY <1>3, <2>1, HeadTailProperties, ElementOfSeq
  <2>3. PICK type \in ReadTypes :
            \E answer \in AnswersTo(type) : head = [to |-> type, answer |-> answer]
    BY <2>2 DEF AnswerMsg
  <2>4. PICK answer \in AnswersTo(type) : head = [to |-> type, answer |-> answer]
    BY <2>3
  <2>5. head.to = type /\ head.answer = answer
    BY <2>4
  <2>6. type = "LOGIN_REQ"
    BY <1>11, <2>1, <2>2, <2>5 DEF AnswerTo
  <2>7. response = GetMsgResponse(PackAnswer("LOGIN_REQ", answer))
    BY <2>5, <2>6 DEF response
  <2>8. answer[1] = "USER_CONNECTED"
    BY <1>11, <2>4, <2>6, <2>7, LoginAnswerRead
  <2> QED
    BY <2>1, <2>2, <2>5, <2>6, <2>8 DEF AnswerTo
<1>12. MenuMeansSession'
  <2> SUFFICES ASSUME NEW d \in ClientID, client'[d].at = "menu"
               PROVE  history[d].served \/ history[d].fooled \/ history[d].pieces > 0
    BY <1>2 DEF MenuMeansSession
  <2>1. CASE d # c
    BY <1>0, <1>6, <2>1 DEF MenuMeansSession
  <2>2. CASE d = c
    <3>1. history[c].pieces \in Nat
      BY <1>0, TypesOf
    <3>2. CASE client[c].at = "menu"
      BY <1>0, <2>2, <3>2 DEF MenuMeansSession
    <3>3. CASE client[c].asked[1] = "LOGIN_REQ" /\ response \in Good
      <4>1. history[c].pieces = 0 \/ history[c].pieces > 0
        BY <3>1
      <4>2. history[c].pieces = 0 => history[c].served
        BY <1>11, <3>3
      <4> QED
        BY <2>2, <4>1, <4>2, Zenon
    <3> QED
      BY <1>6, <2>2, <3>2, <3>3
  <2> QED
    BY <2>1, <2>2
<1>13. ASSUME NEW d \in ClientID, history'[d].pieces = 0
       PROVE  InStep(d)'
  <2>1. InStep(d)
    BY <1>0, <1>2, <1>13 DEF WholeInStep
  <2>2. CASE d # c
    BY <1>2, <1>5, <1>6, <2>1, <2>2, StepKept
  <2>3. CASE d = c
    <3>1. toServer[c] = << >> /\ Len(toClient[c]) = 1
      BY <1>2, <1>10, <1>13, <2>3
    <3>2. toClient'[c] = << >>
      BY <1>4, <1>5, <3>1
    <3> QED
      BY <1>2, <1>6, <2>3, <3>1, <3>2 DEF InStep
  <2> QED
    BY <2>2, <2>3
<1> QED
  BY <1>7, <1>8, <1>9, <1>12, <1>13 DEF StreamInv, WholeInStep

(* The server goes.                                                        *)
LEMMA ServerStopsInv ==
    ASSUME StreamInv, ServerStops
    PROVE  StreamInv'
<1>0. /\ StreamTypes /\ AskedFromMenu /\ GoneTakesNothing /\ FooledByEnd
      /\ WholeInStep /\ MenuMeansSession /\ ByteBehindFits /\ LengthsFitWholeRequests
  BY DEF StreamInv
<1>1. /\ serverUp' = FALSE /\ toServer' = [c \in ClientID |-> << >>]
      /\ buffer' = buffer /\ toClient' = toClient /\ client' = client
      /\ overrun' = overrun /\ history' = history
  BY DEF ServerStops
<1>2. \A c \in ClientID : toServer'[c] = << >>
  BY <1>1
<1>3. StreamTypes'
  <2>1. << >> \in Seq(Byte)
    OBVIOUS
  <2>2. toServer' \in [ClientID -> Seq(Byte)]
    BY <1>1, <2>1
  <2> QED
    BY <1>0, <1>1, <2>2 DEF StreamTypes
<1>4. AskedFromMenu' /\ MenuMeansSession' /\ ByteBehindFits' /\ LengthsFitWholeRequests'
  BY <1>0, <1>1 DEF AskedFromMenu, MenuMeansSession, ByteBehindFits,
                    LengthsFitWholeRequests, Pieces
<1>5. GoneTakesNothing' /\ FooledByEnd'
  BY <1>1, <1>2 DEF GoneTakesNothing, FooledByEnd
<1>6. WholeInStep'
  <2> SUFFICES ASSUME NEW c \in ClientID, history[c].pieces = 0
               PROVE  InStep(c)'
    BY <1>1 DEF WholeInStep
  <2>1. InStep(c)
    BY <1>0 DEF WholeInStep
  <2> QED
    BY <1>1, <1>2, <2>1 DEF InStep, AnswerTo
<1> QED
  BY <1>3, <1>4, <1>5, <1>6 DEF StreamInv

(* A program is killed.                                                    *)
LEMMA ProgramKilledInv ==
    ASSUME StreamInv, NEW c \in ClientID, ProgramKilled(c)
    PROVE  StreamInv'
<1>0. /\ StreamTypes /\ AskedFromMenu /\ GoneTakesNothing /\ FooledByEnd
      /\ WholeInStep /\ MenuMeansSession /\ ByteBehindFits /\ LengthsFitWholeRequests
  BY DEF StreamInv
<1>1. /\ client' = [client EXCEPT ![c].at = "gone"] /\ client[c].asked = NoRequest
      /\ buffer' = buffer /\ toServer' = toServer /\ toClient' = toClient
      /\ serverUp' = serverUp /\ overrun' = overrun /\ history' = history
  BY DEF ProgramKilled
<1> DEFINE State == [at    : {"start", "menu", "gone"},
                     asked : {NoRequest} \union RequestsAt("start") \union RequestsAt("menu"),
                     sent  : 0 .. MaxRequests]
<1>2. client \in [ClientID -> State]
  BY <1>0 DEF StreamTypes
<1>3. /\ client' \in [ClientID -> State]
      /\ \A d \in ClientID \ {c} : client'[d] = client[d]
      /\ client'[c].asked = NoRequest /\ client'[c].at = "gone"
  BY <1>1, <1>2
<1> HIDE DEF State
<1>4. StreamTypes'
  BY <1>0, <1>1, <1>3 DEF StreamTypes, State
<1>5. AskedFromMenu' /\ MenuMeansSession'
  BY <1>0, <1>1, <1>3 DEF AskedFromMenu, MenuMeansSession
<1>6. GoneTakesNothing' /\ FooledByEnd' /\ ByteBehindFits' /\ LengthsFitWholeRequests'
  BY <1>0, <1>1 DEF GoneTakesNothing, FooledByEnd, ByteBehindFits,
                    LengthsFitWholeRequests, Pieces
<1>7. WholeInStep'
  <2> SUFFICES ASSUME NEW d \in ClientID, history[d].pieces = 0
               PROVE  InStep(d)'
    BY <1>1 DEF WholeInStep
  <2>1. InStep(d)
    BY <1>0 DEF WholeInStep
  <2>2. CASE d # c
    BY <1>1, <1>3, <2>1, <2>2, StepKept
  <2>3. CASE d = c
    BY <1>1, <1>3, <2>1, <2>3 DEF InStep
  <2> QED
    BY <2>2, <2>3
<1> QED
  BY <1>4, <1>5, <1>6, <1>7 DEF StreamInv

(* The end of the connection is taken for an answer.                       *)
LEMMA ReceiveNothingInv ==
    ASSUME StreamInv, NEW c \in ClientID, ReceiveNothing(c)
    PROVE  StreamInv'
<1>0. /\ StreamTypes /\ AskedFromMenu /\ GoneTakesNothing /\ FooledByEnd
      /\ WholeInStep /\ MenuMeansSession /\ ByteBehindFits /\ LengthsFitWholeRequests
  BY DEF StreamInv
<1>1. PICK i \in DOMAIN MsgResponse : client' = Treated(c, MsgResponse[i])
  BY DEF ReceiveNothing
<1>2. /\ overrun = "nothing" /\ ~serverUp /\ toClient[c] = << >>
      /\ overrun' \in {"nothing", "answer"}
      /\ history' = [history EXCEPT ![c].fooled = TRUE]
      /\ buffer' = buffer /\ toServer' = toServer /\ toClient' = toClient
      /\ serverUp' = serverUp
  BY DEF ReceiveNothing
<1>3. /\ client' \in [ClientID ->
                [at    : {"start", "menu", "gone"},
                 asked : {NoRequest} \union RequestsAt("start") \union RequestsAt("menu"),
                 sent  : 0 .. MaxRequests]]
      /\ \A d \in ClientID \ {c} : client'[d] = client[d]
      /\ client'[c].asked = NoRequest
  BY <1>0, <1>1, TreatedIs
<1> DEFINE Past == [pieces : 0 .. MaxPieces, served : BOOLEAN, fooled : BOOLEAN]
<1>4. history \in [ClientID -> Past]
  BY <1>0 DEF StreamTypes
<1>5. /\ history' \in [ClientID -> Past]
      /\ \A d \in ClientID \ {c} : history'[d] = history[d]
      /\ history'[c].pieces = history[c].pieces
      /\ history'[c].served = history[c].served
      /\ history'[c].fooled = TRUE
  BY <1>2, <1>4
<1> HIDE DEF Past
<1>6. StreamTypes'
  <2>1. overrun' \in {"nothing", "name", "list", "answer"}
    BY <1>2
  <2> QED
    BY <1>0, <1>2, <1>3, <1>5, <2>1 DEF StreamTypes, Past
<1>7. AskedFromMenu'
  BY <1>0, <1>3 DEF AskedFromMenu
<1>8. MenuMeansSession'
  BY <1>0, <1>3, <1>5 DEF MenuMeansSession
<1>9. GoneTakesNothing' /\ FooledByEnd'
  BY <1>0, <1>2 DEF GoneTakesNothing, FooledByEnd
<1>10. Pieces' = Pieces /\ \A d \in ClientID : history'[d].served = history[d].served
  BY <1>5 DEF Pieces
<1>11. ByteBehindFits' /\ LengthsFitWholeRequests'
  BY <1>0, <1>2, <1>10 DEF ByteBehindFits, LengthsFitWholeRequests
<1>12. WholeInStep'
  <2> SUFFICES ASSUME NEW d \in ClientID, history'[d].pieces = 0
               PROVE  InStep(d)'
    BY DEF WholeInStep
  <2>1. CASE d # c
    <3>1. InStep(d) /\ history'[d] = history[d]
      BY <1>0, <1>5, <2>1 DEF WholeInStep
    <3> QED
      BY <1>2, <1>3, <2>1, <3>1, StepKept
  <2>2. CASE d = c
    <3>1. toServer'[c] = << >> /\ toClient'[c] = << >> /\ client'[c].asked = NoRequest
      BY <1>0, <1>2, <1>3 DEF GoneTakesNothing
    <3> QED
      BY <2>2, <3>1 DEF InStep
  <2> QED
    BY <2>1, <2>2
<1> QED
  BY <1>6, <1>7, <1>8, <1>9, <1>11, <1>12 DEF StreamInv

(* Whatever bytes there are, one of the handlers takes them.               *)
LEMMA UnpackedType ==
    ASSUME NEW msg
    PROVE  UnpackRequest(msg)[1] \in ReadTypes
<1> DEFINE type == GetMsgType(msg)
<1>1. CASE type \in {"REG_REQ", "LOGIN_REQ"}
  <2>1. UnpackRequest(msg) = <<type>> \o UnpackUserDetails(msg)
    BY <1>1 DEF UnpackRequest
  <2>2. PICK name, pass : UnpackUserDetails(msg) = <<name, pass>>
    BY DEF UnpackUserDetails
  <2>3. UnpackRequest(msg) = <<type, name, pass>>
    BY <2>1, <2>2, OneAndTwo
  <2>4. UnpackRequest(msg)[1] = type
    BY <2>3
  <2> QED
    BY <1>1, <2>4 DEF ReadTypes, UserTypes
<1>2. CASE type \in {"GROUP_CREATE_REQ", "GROUP_JOIN_REQ", "GROUP_LEAVE_REQ"}
  <2>1. UnpackRequest(msg) = <<type, UnpackGroupName(msg)>>
    BY <1>2 DEF UnpackRequest
  <2>2. UnpackRequest(msg)[1] = type
    BY <2>1
  <2> QED
    BY <1>2, <2>2 DEF ReadTypes, GroupTypes
<1>3. CASE type \in {"LOGOUT_REQ", "GROUP_LIST_REQ"}
  <2>1. UnpackRequest(msg) = <<type>>
    BY <1>3 DEF UnpackRequest
  <2>2. UnpackRequest(msg)[1] = type
    BY <2>1
  <2> QED
    BY <1>3, <2>2 DEF ReadTypes, BareTypes
<1>4. CASE type \notin UserTypes \union GroupTypes \union BareTypes
  <2>1. UnpackRequest(msg) = <<"MSG_TYPE_ERR">>
    BY <1>4 DEF UnpackRequest, UserTypes, GroupTypes, BareTypes
  <2>2. UnpackRequest(msg)[1] = "MSG_TYPE_ERR"
    BY <2>1
  <2> QED
    BY <2>2 DEF ReadTypes
<1> QED
  BY <1>1, <1>2, <1>3, <1>4 DEF UserTypes, GroupTypes, BareTypes

(* What the handler's step comes to.                                       *)
LEMMA GotIs ==
    ASSUME NEW c \in ClientID, GotMessage(c)
    PROVE  LET type == UnpackRequest(buffer')[1]
           IN  \/ /\ \E n \in LengthsRead(buffer') : ~Fits(n)
                  /\ overrun' = "name" /\ toClient' = toClient
               \/ overrun' = "list" /\ toClient' = toClient
               \/ /\ overrun' = overrun
                  /\ \E answer \in AnswersTo(type) :
                        /\ Sendable(answer)
                        /\ toClient' = [toClient EXCEPT ![c] =
                                Append(toClient[c], [to |-> type, answer |-> answer])]
<1> DEFINE type == UnpackRequest(buffer')[1]
<1>1. CASE \E n \in LengthsRead(buffer') : ~Fits(n)
  BY <1>1 DEF GotMessage
<1>2. CASE ~ \E n \in LengthsRead(buffer') : ~Fits(n)
  <2>1. PICK answer \in AnswersTo(type) :
            IF answer[1] = "GROUP_LIST_SUCCESS" /\ ~GroupListFits(answer[2])
            THEN overrun' = "list" /\ UNCHANGED toClient
            ELSE /\ toClient' = [toClient EXCEPT ![c] =
                                    Append(@, [to |-> type, answer |-> answer])]
                 /\ UNCHANGED overrun
    BY <1>2 DEF GotMessage
  <2>2. CASE answer[1] = "GROUP_LIST_SUCCESS" /\ ~GroupListFits(answer[2])
    BY <2>1, <2>2
  <2>3. CASE ~(answer[1] = "GROUP_LIST_SUCCESS" /\ ~GroupListFits(answer[2]))
    <3>1. Sendable(answer)
      BY <2>3 DEF Sendable
    <3> QED
      BY <2>1, <2>3, <3>1
  <2> QED
    BY <2>2, <2>3
<1> QED
  BY <1>1, <1>2

(* recv(), as far as it does not depend on the handler.                    *)
LEMMA ReceiveIs ==
    ASSUME StreamTypes, NEW c \in ClientID, ServerReceive(c)
    PROVE  \E k \in 1 .. Len(toServer[c]), p \in 0 .. MaxPieces, s \in BOOLEAN :
                /\ k <= BufferSize
                /\ buffer' = WrittenOver(SubSeq(toServer[c], 1, k))
                /\ toServer' = [toServer EXCEPT
                        ![c] = SubSeq(toServer[c], k + 1, Len(toServer[c]))]
                /\ history' = [history EXCEPT
                        ![c] = [pieces |-> p, served |-> s, fooled |-> history[c].fooled]]
                /\ p = IF k < Len(toServer[c]) THEN history[c].pieces + 1
                       ELSE history[c].pieces
                /\ s <=> (history[c].served \/ ToldConnected(c))
<1>1. PICK k \in 1 .. Len(toServer[c]) :
        /\ k <= BufferSize
        /\ buffer' = WrittenOver(SubSeq(toServer[c], 1, k))
        /\ toServer' = [toServer EXCEPT ![c] = SubSeq(@, k + 1, Len(@))]
        /\ history' = [history EXCEPT
                ![c].pieces = IF k < Len(toServer[c]) THEN @ + 1 ELSE @,
                ![c].served = @ \/ ToldConnected(c)]
        /\ MaxPieces >= history'[c].pieces + Cardinality(Pieces \ {c})
  BY DEF ServerReceive
<1> DEFINE p == IF k < Len(toServer[c]) THEN history[c].pieces + 1 ELSE history[c].pieces
<1>2. PICK s \in BOOLEAN : s = (history[c].served \/ ToldConnected(c))
  OBVIOUS
<1> DEFINE Past == [pieces : 0 .. MaxPieces, served : BOOLEAN, fooled : BOOLEAN]
           new  == [pieces |-> p, served |-> s, fooled |-> history[c].fooled]
<1>3. history \in [ClientID -> Past] /\ history[c] \in Past
  BY DEF StreamTypes
<1>4. history[c].pieces \in Nat
  BY TypesOf
<1>5. history'[c] = new
  BY <1>1, <1>2, <1>3
<1>6. history' = [history EXCEPT ![c] = new]
  <2>1. /\ DOMAIN history' = ClientID
        /\ \A d \in ClientID : d # c => history'[d] = history[d]
        /\ history' = [d \in ClientID |-> history'[d]]
    BY <1>1, <1>3
  <2> HIDE DEF new
  <2> QED
    BY <1>3, <1>5, <2>1
<1>7. p \in Nat /\ history'[c].pieces = p
  BY <1>4, <1>5
<1>8. p <= MaxPieces
  <2>1. IsFiniteSet(Pieces \ {c})
    <3>1. Pieces \ {c} \subseteq ClientID
      BY DEF Pieces
    <3> QED
      BY <3>1, MessageStreamAssumption, FS_Subset
  <2>2. Cardinality(Pieces \ {c}) \in Nat
    BY <2>1, FS_CardinalityType
  <2>3. MaxPieces \in Nat
    BY MessageStreamAssumption
  <2> HIDE DEF p
  <2> QED
    BY <1>1, <1>7, <2>2, <2>3
<1>9. p \in 0 .. MaxPieces
  <2>1. MaxPieces \in Nat
    BY MessageStreamAssumption
  <2> HIDE DEF p
  <2> QED
    BY <1>7, <1>8, <2>1
<1>10. toServer' = [toServer EXCEPT ![c] = SubSeq(toServer[c], k + 1, Len(toServer[c]))]
  BY <1>1 DEF StreamTypes
<1>11. s <=> (history[c].served \/ ToldConnected(c))
  BY <1>2
<1> QED
  BY <1>1, <1>6, <1>9, <1>10, <1>11

(* Whether the handler's answer is that its client is connected.           *)
LEMMA ToldIs ==
    ASSUME StreamTypes, NEW c \in ClientID
    PROVE  /\ toClient' = toClient => ~ToldConnected(c)
           /\ \A msg :
                toClient' = [toClient EXCEPT ![c] = Append(toClient[c], msg)]
                    => (ToldConnected(c) <=> /\ msg.to = "LOGIN_REQ"
                                             /\ msg.answer[1] = "USER_CONNECTED")
<1>1. toClient' = toClient => ~ToldConnected(c)
  BY DEF ToldConnected
<1>2. ASSUME NEW msg, toClient' = [toClient EXCEPT ![c] = Append(toClient[c], msg)]
      PROVE  ToldConnected(c) <=> /\ msg.to = "LOGIN_REQ"
                                  /\ msg.answer[1] = "USER_CONNECTED"
  <2> DEFINE S == AnswerMsg \union {msg}
             s == toClient[c]
             t == Append(s, msg)
  <2>1. s \in Seq(S)
    <3>1. s \in Seq(AnswerMsg)
      BY TypesOf
    <3> QED
      BY <3>1, SeqMonotonic
  <2>2. toClient'[c] = t
    BY <1>2 DEF StreamTypes
  <2> HIDE DEF s
  <2>3. t \in Seq(S) /\ Len(t) = Len(s) + 1 /\ t[Len(s) + 1] = msg /\ Len(s) \in Nat
    BY <2>1, AppendProperties, LenProperties
  <2> HIDE DEF t
  <2>4. t # s /\ Last(t) = msg
    BY <2>3 DEF Last
  <2> QED
    BY <2>2, <2>4 DEF ToldConnected, s
<1> QED
  BY <1>1, <1>2

(* A request that came whole is understood.                                *)
LEMMA WholeRequest ==
    ASSUME StreamInv, NEW c \in ClientID, ServerReceive(c), history'[c].pieces = 0
    PROVE  LET request == client[c].asked
           IN  /\ history[c].pieces = 0 /\ serverUp
               /\ request # NoRequest /\ request \in Request
               /\ toClient[c] = << >> /\ toServer'[c] = << >>
               /\ UnpackRequest(buffer') = request
               /\ request[1] \in BareTypes => buffer'[3] = buffer[3]
               /\ request[1] \notin BareTypes => Fits(buffer'[3])
               /\ (request[1] = "LOGOUT_REQ" => Fits(buffer'[3]))
                    => \A n \in LengthsRead(buffer') : Fits(n)
<1> DEFINE request == client[c].asked
           bytes   == PackRequest(request)
<1>0. StreamTypes /\ WholeInStep /\ GoneTakesNothing
  BY DEF StreamInv
<1>1. PICK k \in 1 .. Len(toServer[c]), p \in 0 .. MaxPieces, s \in BOOLEAN :
        /\ k <= BufferSize
        /\ buffer' = WrittenOver(SubSeq(toServer[c], 1, k))
        /\ toServer' = [toServer EXCEPT
                ![c] = SubSeq(toServer[c], k + 1, Len(toServer[c]))]
        /\ history' = [history EXCEPT
                ![c] = [pieces |-> p, served |-> s, fooled |-> history[c].fooled]]
        /\ p = IF k < Len(toServer[c]) THEN history[c].pieces + 1 ELSE history[c].pieces
        /\ s <=> (history[c].served \/ ToldConnected(c))
  BY <1>0, ReceiveIs
<1>2. /\ toServer[c] \in Seq(Byte) /\ Len(toServer[c]) \in Nat
      /\ history[c].pieces \in Nat
      /\ request # NoRequest => request \in Request
  BY <1>0, TypesOf, LenProperties
<1>3. p = 0
  BY <1>0, <1>1 DEF StreamTypes
<1>4. k = Len(toServer[c]) /\ history[c].pieces = 0
  BY <1>1, <1>2, <1>3
<1>5. toServer[c] # << >>
  <2>1. Len(toServer[c]) # 0
    BY <1>1, <1>2
  <2> QED
    BY <1>2, <2>1, EmptySeq
<1>6. request # NoRequest /\ toServer[c] = bytes /\ toClient[c] = << >>
  <2>1. InStep(c)
    BY <1>0, <1>4 DEF WholeInStep
  <2> QED
    BY <1>5, <2>1 DEF InStep
<1>7. serverUp
  BY <1>0, <1>5 DEF GoneTakesNothing
<1>8. SubSeq(toServer[c], 1, k) = bytes
      /\ SubSeq(toServer[c], k + 1, Len(toServer[c])) = << >>
  BY <1>2, <1>4, <1>6, FirstAndRest
<1>9. toServer'[c] = << >>
  BY <1>0, <1>1, <1>8 DEF StreamTypes
<1>10. request \in Request
  BY <1>2, <1>6
<1>11. /\ bytes \in Seq(Byte) /\ Len(bytes) \in Nat /\ Len(bytes) <= BufferSize
       /\ request[1] \in BareTypes => Len(bytes) = 2
  BY <1>1, <1>4, <1>6, <1>10, RequestPacked
<1> HIDE DEF bytes
<1>12. /\ buffer' \in Seq(Byte) /\ Len(buffer') = BufferSize
       /\ \A i \in 1 .. Len(bytes) : buffer'[i] = bytes[i]
       /\ \A i \in 1 .. BufferSize : i > Len(bytes) => buffer'[i] = buffer[i]
  <2>1. buffer' = WrittenOver(bytes)
    BY <1>1, <1>8
  <2>2. buffer \in Seq(Byte) /\ Len(buffer) = BufferSize
    BY <1>0 DEF StreamTypes
  <2> QED
    BY <1>11, <2>1, <2>2, Written
<1>13. StartsWith(buffer', request)
  BY <1>11, <1>12 DEF StartsWith, bytes
<1>14. /\ UnpackRequest(buffer') = request
       /\ request[1] \notin BareTypes => Fits(buffer'[3])
       /\ (request[1] = "LOGOUT_REQ" => Fits(buffer'[3]))
            => \A n \in LengthsRead(buffer') : Fits(n)
  BY <1>10, <1>13, RequestRead
<1>15. request[1] \in BareTypes => buffer'[3] = buffer[3]
  <2>1. 3 \in 1 .. BufferSize
    BY MessageStreamAssumption
  <2> QED
    BY <1>11, <1>12, <2>1
<1> QED
  BY <1>4, <1>6, <1>7, <1>9, <1>10, <1>14, <1>15

(* The server receives, whole requests or pieces of some.                  *)
LEMMA ServerReceiveInv ==
    ASSUME StreamInv, NEW c \in ClientID, ServerReceive(c)
    PROVE  StreamInv'
<1> DEFINE request == client[c].asked
           type    == UnpackRequest(buffer')[1]
<1>0. /\ StreamTypes /\ AskedFromMenu /\ GoneTakesNothing /\ FooledByEnd
      /\ WholeInStep /\ MenuMeansSession /\ ByteBehindFits /\ LengthsFitWholeRequests
  BY DEF StreamInv
<1>1. PICK k \in 1 .. Len(toServer[c]), p \in 0 .. MaxPieces, s \in BOOLEAN :
        /\ k <= BufferSize
        /\ buffer' = WrittenOver(SubSeq(toServer[c], 1, k))
        /\ toServer' = [toServer EXCEPT
                ![c] = SubSeq(toServer[c], k + 1, Len(toServer[c]))]
        /\ history' = [history EXCEPT
                ![c] = [pieces |-> p, served |-> s, fooled |-> history[c].fooled]]
        /\ p = IF k < Len(toServer[c]) THEN history[c].pieces + 1 ELSE history[c].pieces
        /\ s <=> (history[c].served \/ ToldConnected(c))
  BY <1>0, ReceiveIs
<1>2. /\ overrun = "nothing" /\ client' = client /\ serverUp' = serverUp /\ GotMessage(c)
  BY DEF ServerReceive
<1>3. /\ toServer[c] \in Seq(Byte) /\ Len(toServer[c]) \in Nat
      /\ toClient[c] \in Seq(AnswerMsg)
      /\ history[c].pieces \in Nat /\ history[c].fooled \in BOOLEAN
  BY <1>0, TypesOf, LenProperties
<1>4. /\ history'[c].pieces = p /\ history'[c].served = s
      /\ history'[c].fooled = history[c].fooled
      /\ \A d \in ClientID \ {c} : history'[d] = history[d]
      /\ \A d \in ClientID \ {c} : toServer'[d] = toServer[d]
  BY <1>0, <1>1 DEF StreamTypes
<1>5. \/ /\ \E n \in LengthsRead(buffer') : ~Fits(n)
         /\ overrun' = "name" /\ toClient' = toClient
      \/ overrun' = "list" /\ toClient' = toClient
      \/ /\ overrun' = overrun
         /\ \E answer \in AnswersTo(type) :
                /\ Sendable(answer)
                /\ toClient' = [toClient EXCEPT ![c] =
                        Append(toClient[c], [to |-> type, answer |-> answer])]
  BY <1>2, GotIs
<1>6. /\ \A d \in ClientID \ {c} : toClient'[d] = toClient[d]
      /\ toClient' \in [ClientID -> Seq(AnswerMsg)]
      /\ ToldConnected(c) => type = "LOGIN_REQ"
  <2>1. CASE toClient' = toClient
    BY <1>0, <2>1, ToldIs DEF StreamTypes
  <2>2. CASE \E answer \in AnswersTo(type) :
                /\ Sendable(answer)
                /\ toClient' = [toClient EXCEPT ![c] =
                        Append(toClient[c], [to |-> type, answer |-> answer])]
    <3>1. PICK answer \in AnswersTo(type) :
                /\ Sendable(answer)
                /\ toClient' = [toClient EXCEPT ![c] =
                        Append(toClient[c], [to |-> type, answer |-> answer])]
      BY <2>2
    <3> DEFINE msg == [to |-> type, answer |-> answer]
    <3>2. msg \in AnswerMsg
      <4>1. type \in ReadTypes
        BY UnpackedType
      <4> QED
        BY <3>1, <4>1 DEF AnswerMsg
    <3>3. msg.to = type
      OBVIOUS
    <3> HIDE DEF msg
    <3>4. Append(toClient[c], msg) \in Seq(AnswerMsg)
      BY <1>3, <3>2, AppendProperties
    <3>5. toClient' = [toClient EXCEPT ![c] = Append(toClient[c], msg)]
      BY <3>1 DEF msg
    <3>6. ToldConnected(c) => type = "LOGIN_REQ"
      BY <1>0, <3>3, <3>5, ToldIs
    <3> QED
      BY <1>0, <3>4, <3>5, <3>6 DEF StreamTypes
  <2> QED
    BY <1>5, <2>1, <2>2
<1>7. StreamTypes'
  <2>1. /\ SubSeq(toServer[c], 1, k) \in Seq(Byte) /\ Len(SubSeq(toServer[c], 1, k)) = k
        /\ SubSeq(toServer[c], k + 1, Len(toServer[c])) \in Seq(Byte)
    BY <1>1, <1>3, FirstAndRest
  <2>2. buffer' \in Seq(Byte) /\ Len(buffer') = BufferSize
    <3>1. buffer \in Seq(Byte) /\ Len(buffer) = BufferSize
      BY <1>0 DEF StreamTypes
    <3> QED
      BY <1>1, <2>1, <3>1, Written
  <2>3. toServer' \in [ClientID -> Seq(Byte)]
    BY <1>0, <1>1, <2>1 DEF StreamTypes
  <2>4. history' \in [ClientID ->
                [pieces : 0 .. MaxPieces, served : BOOLEAN, fooled : BOOLEAN]]
    BY <1>0, <1>1, <1>3 DEF StreamTypes
  <2>5. overrun' \in {"nothing", "name", "list", "answer"}
    BY <1>0, <1>5 DEF StreamTypes
  <2> QED
    BY <1>0, <1>2, <1>6, <2>2, <2>3, <2>4, <2>5 DEF StreamTypes
<1>8. AskedFromMenu' /\ FooledByEnd'
  BY <1>0, <1>2, <1>4 DEF AskedFromMenu, FooledByEnd
<1>9. serverUp
  <2>1. Len(toServer[c]) # 0
    BY <1>1, <1>3
  <2>2. toServer[c] # << >>
    BY <1>3, <2>1, EmptySeq
  <2> QED
    BY <1>0, <2>2 DEF GoneTakesNothing
<1>10. GoneTakesNothing'
  BY <1>2, <1>9 DEF GoneTakesNothing
<1>11. history[c].pieces > 0 => p > 0
  BY <1>1, <1>3
<1>12. MenuMeansSession'
  <2> SUFFICES ASSUME NEW d \in ClientID, client[d].at = "menu"
               PROVE  history'[d].served \/ history'[d].fooled \/ history'[d].pieces > 0
    BY <1>2 DEF MenuMeansSession
  <2>1. history[d].served \/ history[d].fooled \/ history[d].pieces > 0
    BY <1>0 DEF MenuMeansSession
  <2>2. CASE d # c
    BY <1>4, <2>1, <2>2
  <2>3. CASE d = c
    <3>1. history[c].served => s
      BY <1>1
    <3>2. CASE history[c].served
      BY <1>4, <2>3, <3>1, <3>2
    <3>3. CASE history[c].fooled
      BY <1>4, <2>3, <3>3
    <3>4. CASE history[c].pieces > 0
      BY <1>4, <1>11, <2>3, <3>4
    <3> QED
      BY <2>1, <2>3, <3>2, <3>3, <3>4
  <2> QED
    BY <2>2, <2>3
<1>13. Pieces' = {} => Pieces = {} /\ p = 0
  <2>1. \A d \in ClientID : history[d].pieces > 0 => history'[d].pieces > 0
    BY <1>4, <1>11
  <2>2. Pieces' = {} => ~(history'[c].pieces > 0)
    BY DEF Pieces
  <2>3. ~(p > 0) => p = 0
    OBVIOUS
  <2> QED
    BY <1>4, <2>1, <2>2, <2>3, PiecesGrow
<1>14. ASSUME Pieces' = {}
       PROVE  /\ UnpackRequest(buffer') = request
              /\ request[1] \in BareTypes => buffer'[3] = buffer[3]
              /\ request[1] \notin BareTypes => Fits(buffer'[3])
              /\ \A n \in LengthsRead(buffer') : Fits(n)
  <2>1. history'[c].pieces = 0 /\ Pieces = {}
    BY <1>4, <1>13, <1>14
  <2>2. /\ history[c].pieces = 0 /\ request # NoRequest /\ request \in Request
        /\ UnpackRequest(buffer') = request
        /\ request[1] \in BareTypes => buffer'[3] = buffer[3]
        /\ request[1] \notin BareTypes => Fits(buffer'[3])
        /\ (request[1] = "LOGOUT_REQ" => Fits(buffer'[3]))
            => \A n \in LengthsRead(buffer') : Fits(n)
    BY <2>1, WholeRequest
  <2>3. ASSUME request[1] = "LOGOUT_REQ"
        PROVE  Fits(buffer'[3])
    <3>1. client[c].at = "menu"
      <4>1. client[c].at \in {"start", "menu", "gone"}
        BY <1>0, TypesOf
      <4>2. request \in RequestsAt(client[c].at)
        BY <1>0, <2>2 DEF AskedFromMenu
      <4> QED
        BY <2>3, <4>1, <4>2, RequestsAre DEF UserTypes
    <3>2. history[c].served
      <4>1. history[c].served \/ history[c].fooled \/ history[c].pieces > 0
        BY <1>0, <3>1 DEF MenuMeansSession
      <4>2. ~history[c].fooled
        BY <1>0, <1>9 DEF FooledByEnd
      <4>3. ~(history[c].pieces > 0)
        BY <2>2
      <4> QED
        BY <4>1, <4>2, <4>3
    <3>3. Fits(buffer[3])
      BY <1>0, <2>1, <3>2 DEF ByteBehindFits
    <3>4. request[1] \in BareTypes
      BY <2>3 DEF BareTypes
    <3> QED
      BY <2>2, <3>3, <3>4
  <2> QED
    BY <2>2, <2>3
<1>15. LengthsFitWholeRequests'
  <2>1. ASSUME Pieces' = {}
        PROVE  overrun' # "name"
    BY <1>2, <1>5, <1>14, <2>1
  <2> QED
    BY <2>1 DEF LengthsFitWholeRequests
<1>16. ByteBehindFits'
  <2> SUFFICES ASSUME Pieces' = {}, NEW d \in ClientID, history'[d].served
               PROVE  Fits(buffer'[3])
    BY DEF ByteBehindFits
  <2>1. CASE request[1] \notin BareTypes
    BY <1>14, <2>1
  <2>2. CASE request[1] \in BareTypes
    <3>1. type = request[1]
      BY <1>14
    <3>2. ~ToldConnected(c)
      BY <1>6, <2>2, <3>1 DEF BareTypes
    <3>3. history[d].served
      <4>1. CASE d # c
        BY <1>4, <4>1
      <4>2. CASE d = c
        BY <1>1, <1>4, <3>2, <4>2
      <4> QED
        BY <4>1, <4>2
    <3>4. Fits(buffer[3])
      BY <1>0, <1>13, <3>3 DEF ByteBehindFits
    <3> QED
      BY <1>14, <2>2, <3>4
  <2> QED
    BY <2>1, <2>2
<1>17. ASSUME NEW d \in ClientID, history'[d].pieces = 0
       PROVE  InStep(d)'
  <2>1. CASE d # c
    <3>1. InStep(d) /\ history'[d] = history[d]
      BY <1>0, <1>4, <1>17, <2>1 DEF WholeInStep
    <3> QED
      BY <1>2, <1>4, <1>6, <2>1, <3>1, StepKept
  <2>2. CASE d = c
    <3>1. /\ request # NoRequest /\ toClient[c] = << >> /\ toServer'[c] = << >>
          /\ UnpackRequest(buffer') = request
      BY <1>17, <2>2, WholeRequest
    <3>2. client'[c].asked = request
      BY <1>2
    <3>3. CASE toClient' = toClient /\ overrun' # "nothing"
      BY <2>2, <3>1, <3>2, <3>3 DEF InStep
    <3>4. CASE \E answer \in AnswersTo(type) :
                /\ Sendable(answer)
                /\ toClient' = [toClient EXCEPT ![c] =
                        Append(toClient[c], [to |-> type, answer |-> answer])]
      <4>1. PICK answer \in AnswersTo(type) :
                toClient' = [toClient EXCEPT ![c] =
                        Append(toClient[c], [to |-> type, answer |-> answer])]
        BY <3>4
      <4> DEFINE msg == [to |-> type, answer |-> answer]
      <4>2. msg.to = type /\ msg.answer = answer
        OBVIOUS
      <4> HIDE DEF msg
      <4>3. toClient' = [toClient EXCEPT ![c] = Append(toClient[c], msg)]
        BY <4>1 DEF msg
      <4>4. toClient'[c] = Append(<< >>, msg)
        BY <1>0, <3>1, <4>3 DEF StreamTypes
      <4>5. Len(toClient'[c]) = 1 /\ toClient'[c][1] = msg
        BY <4>4
      <4>6. msg.to = "LOGIN_REQ" /\ msg.answer[1] = "USER_CONNECTED" => history'[c].served
        BY <1>0, <1>1, <1>4, <4>3, ToldIs
      <4>7. msg.to = client'[c].asked[1]
        BY <3>1, <3>2, <4>2
      <4>8. AnswerTo(c, toClient[c][1])'
        BY <4>5, <4>6, <4>7 DEF AnswerTo
      <4> QED
        BY <2>2, <3>1, <3>2, <4>5, <4>8 DEF InStep
    <3> QED
      BY <1>2, <1>5, <3>3, <3>4
  <2> QED
    BY <2>1, <2>2
<1> QED
  BY <1>7, <1>8, <1>10, <1>12, <1>15, <1>16, <1>17 DEF StreamInv, WholeInStep

-----------------------------------------------------------------------------
(* Theorems *)

(* The invariant holds of whatever order requests, answers and the end of  *)
(* the server come in.                                                     *)
THEOREM StreamAlwaysInv == MessageStreamSpec => []StreamInv
<1>1. MessageStreamInit => StreamInv
  BY StreamInitInv
<1>2. StreamInv /\ [MessageStreamNext]_streamVars => StreamInv'
  <2> SUFFICES ASSUME StreamInv, [MessageStreamNext]_streamVars
               PROVE  StreamInv'
    OBVIOUS
  <2>1. ASSUME NEW c \in ClientID, SendRequest(c)
        PROVE  StreamInv'
    BY <2>1, SendRequestInv
  <2>2. ASSUME NEW c \in ClientID, ServerReceive(c)
        PROVE  StreamInv'
    BY <2>2, ServerReceiveInv
  <2>3. ASSUME NEW c \in ClientID, ClientReceive(c)
        PROVE  StreamInv'
    BY <2>3, ClientReceiveInv
  <2>4. ASSUME NEW c \in ClientID, ReceiveNothing(c)
        PROVE  StreamInv'
    BY <2>4, ReceiveNothingInv
  <2>5. ASSUME NEW c \in ClientID, ProgramKilled(c)
        PROVE  StreamInv'
    BY <2>5, ProgramKilledInv
  <2>6. CASE ServerStops
    BY <2>6, ServerStopsInv
  <2>7. CASE UNCHANGED streamVars
    BY <2>7 DEF streamVars, StreamInv, StreamTypes, AskedFromMenu, GoneTakesNothing,
                FooledByEnd, WholeInStep, InStep, AnswerTo, MenuMeansSession,
                ByteBehindFits, LengthsFitWholeRequests, Pieces
  <2> QED
    BY <2>1, <2>2, <2>3, <2>4, <2>5, <2>6, <2>7 DEF MessageStreamNext
<1> QED
  BY <1>1, <1>2, PTL DEF MessageStreamSpec

(* The buffer keeps its length, whatever is written into it, and a program *)
(* asks what its menu offers.                                              *)
THEOREM MessageStreamTypeCorrect == MessageStreamSpec => []MessageStreamTypeOK
<1>1. StreamInv => MessageStreamTypeOK
  <2> SUFFICES ASSUME StreamInv
               PROVE  MessageStreamTypeOK
    OBVIOUS
  <2>1. StreamTypes /\ AskedFromMenu
    BY DEF StreamInv
  <2>2. /\ buffer \in Seq(Byte) /\ Len(buffer) = BufferSize
        /\ overrun \in {"nothing", "name", "list", "answer"}
    BY <2>1 DEF StreamTypes
  <2>3. \A c \in ClientID :
            /\ toServer[c] \in Seq(Byte)
            /\ client[c].asked = NoRequest \/ client[c].asked \in RequestsAt(client[c].at)
            /\ client[c].sent \in 0 .. MaxRequests
            /\ history[c].pieces \in 0 .. MaxPieces
    BY <2>1, TypesOf DEF AskedFromMenu
  <2> QED
    BY <2>2, <2>3 DEF MessageStreamTypeOK
<1> QED
  BY <1>1, StreamAlwaysInv, PTL

(* Nobody gets to the menu of a user who has logged in without having been *)
(* served, unless in pieces or by the end of the connection.               *)
THEOREM MenuAlwaysMeansSession == MessageStreamSpec => []MenuMeansSession
<1>1. StreamInv => MenuMeansSession
  BY DEF StreamInv
<1> QED
  BY <1>1, StreamAlwaysInv, PTL

(* No handler, LogoutUser included, goes by a length its arrays have no    *)
(* room for while requests arrive whole.                                   *)
THEOREM WholeLengthsFit == MessageStreamSpec => []LengthsFitWholeRequests
<1>1. StreamInv => LengthsFitWholeRequests
  BY DEF StreamInv
<1> QED
  BY <1>1, StreamAlwaysInv, PTL

(* What came whole is understood, whatever is in the buffer behind it.     *)
THEOREM WholeUnderstood == MessageStreamSpec => RequestsUnderstood
<1>1. ASSUME StreamInv, [MessageStreamNext]_streamVars, NEW c \in ClientID,
             toServer'[c] # toServer[c], client[c].asked # NoRequest,
             serverUp', history'[c].pieces = 0
      PROVE  UnpackRequest(buffer') = client[c].asked
  <2>1. ASSUME NEW d \in ClientID, SendRequest(d)
        PROVE  toServer'[c] = toServer[c]
    <3>1. c # d
      BY <1>1, <2>1 DEF SendRequest
    <3> QED
      BY <1>1, <2>1, <3>1 DEF SendRequest, StreamInv, StreamTypes
  <2>2. ASSUME NEW d \in ClientID, ServerReceive(d), d # c
        PROVE  toServer'[c] = toServer[c]
    BY <1>1, <2>2 DEF ServerReceive, StreamInv, StreamTypes
  <2>3. ASSUME ServerReceive(c)
        PROVE  UnpackRequest(buffer') = client[c].asked
    BY <1>1, <2>3, WholeRequest
  <2>4. ASSUME NEW d \in ClientID, ClientReceive(d) \/ ReceiveNothing(d) \/ ProgramKilled(d)
        PROVE  toServer' = toServer
    BY <2>4 DEF ClientReceive, ReceiveNothing, ProgramKilled
  <2>5. ~ServerStops
    BY <1>1 DEF ServerStops
  <2>6. UNCHANGED streamVars => toServer' = toServer
    BY DEF streamVars
  <2> QED
    BY <1>1, <2>1, <2>2, <2>3, <2>4, <2>5, <2>6 DEF MessageStreamNext
<1>2. StreamInv /\ [MessageStreamNext]_streamVars =>
        [\A c \in ClientID :
            toServer'[c] # toServer[c] /\ client[c].asked # NoRequest
                    /\ serverUp' /\ history'[c].pieces = 0
                => UnpackRequest(buffer') = client[c].asked]_streamVars
  BY <1>1
<1> QED
  BY <1>2, StreamAlwaysInv, PTL DEF MessageStreamSpec, RequestsUnderstood

(* Only a client that reads has fewer answers on their way to it.          *)
LEMMA OnlyReadingTakes ==
    ASSUME StreamInv, [MessageStreamNext]_streamVars, NEW c \in ClientID,
           Len(toClient'[c]) < Len(toClient[c])
    PROVE  ClientReceive(c)
<1>0. StreamTypes
  BY DEF StreamInv
<1>1. toClient[c] \in Seq(AnswerMsg) /\ Len(toClient[c]) \in Nat
  BY <1>0, TypesOf, LenProperties
<1>2. toClient'[c] # toClient[c]
  <2> DEFINE n == Len(toClient[c])
  <2>1. ~(n < n)
    <3>1. n \in Nat
      BY <1>1
    <3> HIDE DEF n
    <3> QED
      BY <3>1
  <2> QED
    BY <2>1
<1>3. ASSUME NEW d \in ClientID, ServerReceive(d)
      PROVE  FALSE
  <2>1. GotMessage(d)
    BY <1>3 DEF ServerReceive
  <2>2. PICK msg : toClient' = [toClient EXCEPT ![d] = Append(toClient[d], msg)]
    BY <1>2, <2>1, GotIs
  <2>3. d = c
    BY <1>0, <1>2, <2>2 DEF StreamTypes
  <2> DEFINE S == AnswerMsg \union {msg}
             s == toClient[c]
             t == Append(s, msg)
  <2>4. s \in Seq(S)
    BY <1>1, SeqMonotonic
  <2>5. toClient'[c] = t
    BY <1>0, <2>2, <2>3 DEF StreamTypes
  <2> HIDE DEF s
  <2>6. Len(t) = Len(s) + 1 /\ Len(s) \in Nat
    BY <2>4, AppendProperties, LenProperties
  <2> HIDE DEF t
  <2>7. ~(Len(t) < Len(s))
    BY <2>6
  <2> QED
    BY <2>5, <2>7 DEF s
<1>4. ASSUME NEW d \in ClientID, ClientReceive(d), d # c
      PROVE  FALSE
  <2>1. toClient'[c] = toClient[c]
    BY <1>0, <1>4 DEF ClientReceive, StreamTypes
  <2> QED
    BY <1>2, <2>1
<1>5. \A d \in ClientID : ~SendRequest(d) /\ ~ReceiveNothing(d) /\ ~ProgramKilled(d)
  BY <1>2 DEF SendRequest, ReceiveNothing, ProgramKilled
<1>6. ~ServerStops /\ ~ UNCHANGED streamVars
  BY <1>2 DEF ServerStops, streamVars
<1> QED
  BY <1>3, <1>4, <1>5, <1>6 DEF MessageStreamNext

(* The answer a client takes is the one to its request, if that came whole.*)
LEMMA AnswerTaken ==
    ASSUME StreamInv, NEW c \in ClientID, ClientReceive(c), history[c].pieces = 0
    PROVE  \E type \in ReadTypes :
                \E answer \in AnswersTo(type) :
                    /\ Sendable(answer) /\ type = client[c].asked[1]
                    /\ Head(toClient[c]) = [to |-> type, answer |-> answer]
<1>1. StreamTypes /\ WholeInStep
  BY DEF StreamInv
<1>2. toClient[c] \in Seq(AnswerMsg)
  BY <1>1, TypesOf
<1>3. InStep(c)
  BY <1>1 DEF WholeInStep
<1>4. client[c].asked # NoRequest /\ toClient[c] # << >>
  <2>1. PICK k : k \in 1 .. Len(toClient[c])
    BY DEF ClientReceive
  <2>2. Len(toClient[c]) # 0
    BY <1>2, <2>1, LenProperties
  <2> QED
    BY <1>2, <2>2, EmptySeq DEF ClientReceive
<1>5. Len(toClient[c]) = 1 /\ AnswerTo(c, toClient[c][1])
  BY <1>3, <1>4 DEF InStep
<1>6. Head(toClient[c]) = toClient[c][1] /\ Head(toClient[c]) \in AnswerMsg
  BY <1>2, <1>5, HeadTailProperties, ElementOfSeq
<1>7. PICK type \in ReadTypes :
        \E answer \in {a \in AnswersTo(type) : Sendable(a)} :
            Head(toClient[c]) = [to |-> type, answer |-> answer]
  BY <1>6 DEF AnswerMsg
<1>8. PICK answer \in {a \in AnswersTo(type) : Sendable(a)} :
        Head(toClient[c]) = [to |-> type, answer |-> answer]
  BY <1>7
<1>9. Head(toClient[c]).to = type
  BY <1>8
<1>10. type = client[c].asked[1]
  BY <1>5, <1>6, <1>9 DEF AnswerTo
<1> QED
  BY <1>8, <1>10

(* A client acts on the answer to its own request, with the details and    *)
(* names the server packed, if the request came whole.                     *)
THEOREM WholeAnswersUnderstood == MessageStreamSpec => AnswersUnderstood
<1>1. ASSUME StreamInv, [MessageStreamNext]_streamVars, NEW c \in ClientID,
             Len(toClient'[c]) < Len(toClient[c]), history[c].pieces = 0
      PROVE  LET asked == client[c].asked[1]
                 came  == Head(toClient[c])
                 names == IF asked = "GROUP_LIST_REQ" THEN Reverse(came.answer[2]) ELSE << >>
                 meant == IF asked = "GROUP_LIST_REQ" THEN <<came.answer[1], names>>
                          ELSE came.answer
             IN  /\ came.to = asked
                 /\ UnpackAnswer(asked, PackAnswer(came.to, came.answer)) = meant
  <2>1. ClientReceive(c)
    BY <1>1, OnlyReadingTakes
  <2>2. PICK type \in ReadTypes :
            \E answer \in AnswersTo(type) :
                /\ Sendable(answer) /\ type = client[c].asked[1]
                /\ Head(toClient[c]) = [to |-> type, answer |-> answer]
    BY <1>1, <2>1, AnswerTaken
  <2>3. PICK answer \in AnswersTo(type) :
            /\ Sendable(answer) /\ type = client[c].asked[1]
            /\ Head(toClient[c]) = [to |-> type, answer |-> answer]
    BY <2>2
  <2>4. Head(toClient[c]).to = type /\ Head(toClient[c]).answer = answer
    BY <2>3
  <2>5. UnpackAnswer(type, PackAnswer(type, answer)) = Meant(type, answer)
    BY <2>3, AnswerRead
  <2> QED
    BY <2>3, <2>4, <2>5 DEF Meant
<1>2. StreamInv /\ [MessageStreamNext]_streamVars =>
        [\A c \in ClientID :
            Len(toClient'[c]) < Len(toClient[c]) /\ history[c].pieces = 0
                => LET asked == client[c].asked[1]
                       came  == Head(toClient[c])
                       names == IF asked = "GROUP_LIST_REQ"
                                THEN Reverse(came.answer[2]) ELSE << >>
                       meant == IF asked = "GROUP_LIST_REQ" THEN <<came.answer[1], names>>
                                ELSE came.answer
                   IN  /\ came.to = asked
                       /\ UnpackAnswer(asked, PackAnswer(came.to, came.answer))
                            = meant]_streamVars
  BY <1>1
<1> QED
  BY <1>2, StreamAlwaysInv, PTL DEF MessageStreamSpec, AnswersUnderstood

-----------------------------------------------------------------------------
(* What ProtocolCheck would tell *)

(* A character that cannot be taken for the length of a part: a request is *)
(* at most 32 bytes.                                                       *)
Plain(text) == \A i \in 1 .. Len(text) : text[i] \notin 1 .. 31

(* The rest of what has come, byte by byte.                                *)
LEMMA RestOf ==
    ASSUME NEW s \in Seq(Byte), NEW k \in 1 .. Len(s) - 1
    PROVE  /\ Len(SubSeq(s, k + 1, Len(s))) = Len(s) - k
           /\ \A i \in 1 .. Len(s) - k : SubSeq(s, k + 1, Len(s))[i] = s[k + i]
<1> DEFINE n    == Len(s)
           rest == SubSeq(s, k + 1, n)
<1>1. n \in Nat /\ k \in Nat /\ k >= 1 /\ k < n /\ \A i \in 1 .. n : s[i] \in Byte
  BY LenProperties, ElementOfSeq
<1>2. \A i \in k + 1 .. n : s[i] \in Byte
  BY <1>1
<1> HIDE DEF n
<1>3. k + 1 \in Int /\ n \in Int
  BY <1>1
<1>4. /\ Len(rest) = IF k + 1 <= n THEN n - (k + 1) + 1 ELSE 0
      /\ \A i \in 1 .. n - (k + 1) + 1 : rest[i] = s[k + 1 + i - 1]
  BY <1>2, <1>3, SubSeqProperties
<1> HIDE DEF rest
<1>5. Len(rest) = n - k
  BY <1>1, <1>4
<1>6. ASSUME NEW i \in 1 .. n - k
      PROVE  rest[i] = s[k + i]
  <2>1. i \in 1 .. n - (k + 1) + 1 /\ k + 1 + i - 1 = k + i
    BY <1>1
  <2> QED
    BY <1>4, <2>1
<1> QED
  BY <1>5, <1>6 DEF n, rest

(* What is shorter than three bytes is not full.                           *)
LEMMA ShortNotFull ==
    ASSUME NEW msg, Len(msg) < 3
    PROVE  ~Full(msg)
BY DEF Full, ProtocolCheck

(* No part of what is as long as its second byte says is full, if no other *)
(* byte is the length of what follows from the byte before it on.          *)
LEMMA PartsNotFull ==
    ASSUME NEW s \in Seq(Byte), Len(s) >= 2, Len(s) <= 127, s[2] = Len(s),
           \A i \in 3 .. Len(s) : s[i] # Len(s) - (i - 2)
    PROVE  \A k \in 1 .. Len(s) - 1 :
                ~Full(SubSeq(s, 1, k)) /\ ~Full(SubSeq(s, k + 1, Len(s)))
<1> SUFFICES ASSUME NEW k \in 1 .. Len(s) - 1
             PROVE  ~Full(SubSeq(s, 1, k)) /\ ~Full(SubSeq(s, k + 1, Len(s)))
  OBVIOUS
<1> DEFINE n     == Len(s)
           first == SubSeq(s, 1, k)
           rest  == SubSeq(s, k + 1, n)
<1>1. n \in Nat /\ k \in Nat /\ k >= 1 /\ k < n /\ k \in 1 .. Len(s)
  BY LenProperties
<1>2. Len(first) = k /\ \A i \in 1 .. k : first[i] = s[i]
  BY <1>1, FirstAndRest
<1>3. Len(rest) = n - k /\ \A i \in 1 .. n - k : rest[i] = s[k + i]
  BY RestOf
<1>4. n >= 2 /\ n <= 127 /\ s[2] = n /\ \A i \in 3 .. n : s[i] # n - (i - 2)
  OBVIOUS
<1> HIDE DEF n, first, rest
<1>5. ~Full(first)
  <2>1. CASE k < 3
    BY <1>2, <2>1, ShortNotFull
  <2>2. CASE k >= 3
    <3>1. first[2] = n /\ n # k
      BY <1>1, <1>2, <1>4, <2>2
    <3>2. Len(first) \in Nat /\ Len(first) <= 127 /\ Len(first) >= 3
      BY <1>1, <1>2, <1>4, <2>2
    <3> QED
      BY <1>2, <3>1, <3>2, FullIs
  <2> QED
    BY <1>1, <2>1, <2>2
<1>6. ~Full(rest)
  <2>1. CASE n - k < 3
    BY <1>3, <2>1, ShortNotFull
  <2>2. CASE n - k >= 3
    <3>1. k + 2 \in 3 .. n /\ 2 \in 1 .. n - k
      BY <1>1, <2>2
    <3>2. rest[2] = s[k + 2] /\ s[k + 2] # n - (k + 2 - 2)
      BY <1>3, <1>4, <3>1
    <3>3. n - (k + 2 - 2) = n - k
      BY <1>1
    <3>4. Len(rest) \in Nat /\ Len(rest) <= 127 /\ Len(rest) >= 3
      BY <1>1, <1>3, <1>4, <2>2
    <3> QED
      BY <1>3, <3>2, <3>3, <3>4, FullIs
  <2> QED
    BY <1>1, <2>1, <2>2
<1> QED
  BY <1>5, <1>6 DEF first, rest, n

(* A request with two texts.                                               *)
LEMMA UserParts ==
    ASSUME NEW type \in UserTypes, NEW name \in ShortText, NEW pass \in ShortText,
           Plain(name), Plain(pass)
    PROVE  LET sent == PackUserDetails(type, name, pass)
           IN  /\ Full(sent) /\ Len(sent) > 2
               /\ \A k \in 1 .. Len(sent) - 1 :
                    ~Full(SubSeq(sent, 1, k)) /\ ~Full(SubSeq(sent, k + 1, Len(sent)))
<1> DEFINE sent == PackUserDetails(type, name, pass)
           n    == Len(name)
           p    == Len(pass)
<1>1. n \in Nat /\ n <= 14 /\ p \in Nat /\ p <= 14
  BY ShortIs
<1>2. /\ sent \in Seq(Byte) /\ Len(sent) = 4 + n + p /\ sent[2] = Len(sent)
      /\ sent[3] = n /\ sent[4 + n] = p
      /\ Holds(sent, 3, name) /\ Holds(sent, 4 + n, pass)
  BY DetailsPacked
<1>3. /\ \A i \in 1 .. n : sent[3 + i] = name[i] /\ name[i] \notin 1 .. 31
      /\ \A i \in 1 .. p : sent[4 + n + i] = pass[i] /\ pass[i] \notin 1 .. 31
  BY <1>2 DEF Holds, Plain
<1> HIDE DEF sent, n, p
<1>4. ASSUME NEW i \in 3 .. 4 + n + p
      PROVE  sent[i] # 4 + n + p - (i - 2)
  <2>1. CASE i = 3
    BY <1>1, <1>2, <2>1
  <2>2. CASE i \in 4 .. 3 + n
    <3>1. i - 3 \in 1 .. n /\ 3 + (i - 3) = i /\ 4 + n + p - (i - 2) \in 1 .. 31
      BY <1>1, <2>2
    <3> QED
      BY <1>3, <3>1
  <2>3. CASE i = 4 + n
    BY <1>1, <1>2, <2>3
  <2>4. CASE i \in 5 + n .. 4 + n + p
    <3>1. /\ i - (4 + n) \in 1 .. p /\ 4 + n + (i - (4 + n)) = i
          /\ 4 + n + p - (i - 2) \in 1 .. 31
      BY <1>1, <2>4
    <3> QED
      BY <1>3, <3>1
  <2> QED
    BY <1>1, <2>1, <2>2, <2>3, <2>4
<1>5. Len(sent) \in Nat /\ Len(sent) >= 3 /\ Len(sent) <= 127
  BY <1>1, <1>2
<1>6. Full(sent)
  BY <1>2, <1>5, FullIs
<1>7. \A i \in 3 .. Len(sent) : sent[i] # Len(sent) - (i - 2)
  <2> DEFINE size == Len(sent)
  <2>1. size = 4 + n + p
    BY <1>2
  <2> HIDE DEF size
  <2>2. ASSUME NEW i \in 3 .. size
        PROVE  sent[i] # size - (i - 2)
    <3>1. i \in 3 .. 4 + n + p
      BY <2>1
    <3>2. sent[i] # 4 + n + p - (i - 2)
      BY <1>4, <3>1
    <3> QED
      BY <1>1, <2>1, <3>2
  <2> QED
    BY <2>2 DEF size
<1>8. Len(sent) > 2 /\ Len(sent) >= 2
  BY <1>5
<1> QED
  BY <1>2, <1>5, <1>6, <1>7, <1>8, PartsNotFull DEF sent

(* A request with the name of a group.                                     *)
LEMMA GroupParts ==
    ASSUME NEW type \in GroupTypes, NEW name \in ShortText, Plain(name)
    PROVE  LET sent == PackGroupName(type, name)
           IN  /\ Full(sent) /\ Len(sent) > 2
               /\ \A k \in 1 .. Len(sent) - 1 :
                    ~Full(SubSeq(sent, 1, k)) /\ ~Full(SubSeq(sent, k + 1, Len(sent)))
<1> DEFINE sent == PackGroupName(type, name)
           n    == Len(name)
<1>1. n \in Nat /\ n <= 14
  BY ShortIs
<1>2. /\ sent \in Seq(Byte) /\ Len(sent) = 3 + n /\ sent[2] = Len(sent)
      /\ sent[3] = n /\ Holds(sent, 3, name)
  BY GroupPacked
<1>3. \A i \in 1 .. n : sent[3 + i] = name[i] /\ name[i] \notin 1 .. 31
  BY <1>2 DEF Holds, Plain
<1> HIDE DEF sent, n
<1>4. ASSUME NEW i \in 3 .. 3 + n
      PROVE  sent[i] # 3 + n - (i - 2)
  <2>1. CASE i = 3
    BY <1>1, <1>2, <2>1
  <2>2. CASE i \in 4 .. 3 + n
    <3>1. i - 3 \in 1 .. n /\ 3 + (i - 3) = i /\ 3 + n - (i - 2) \in 1 .. 31
      BY <1>1, <2>2
    <3> QED
      BY <1>3, <3>1
  <2> QED
    BY <1>1, <2>1, <2>2
<1>5. Len(sent) \in Nat /\ Len(sent) >= 3 /\ Len(sent) <= 127
  BY <1>1, <1>2
<1>6. Full(sent)
  BY <1>2, <1>5, FullIs
<1>7. \A i \in 3 .. Len(sent) : sent[i] # Len(sent) - (i - 2)
  <2> DEFINE size == Len(sent)
  <2>1. size = 3 + n
    BY <1>2
  <2> HIDE DEF size
  <2>2. ASSUME NEW i \in 3 .. size
        PROVE  sent[i] # size - (i - 2)
    <3>1. i \in 3 .. 3 + n
      BY <2>1
    <3>2. sent[i] # 3 + n - (i - 2)
      BY <1>4, <3>1
    <3> QED
      BY <1>1, <2>1, <3>2
  <2> QED
    BY <2>2 DEF size
<1>8. Len(sent) > 2 /\ Len(sent) >= 2
  BY <1>5
<1> QED
  BY <1>2, <1>5, <1>6, <1>7, <1>8, PartsNotFull DEF sent

(* A request with nothing in it: whole or not, it is too short.            *)
LEMMA BareParts ==
    ASSUME NEW type \in BareTypes
    PROVE  LET sent == PackRequest(<<type>>)
           IN  /\ ~Full(sent) /\ ~(Len(sent) > 2)
               /\ \A k \in 1 .. Len(sent) - 1 :
                    ~Full(SubSeq(sent, 1, k)) /\ ~Full(SubSeq(sent, k + 1, Len(sent)))
<1> DEFINE sent == PackRequest(<<type>>)
<1>1. sent \in Seq(Byte) /\ Len(sent) = 2 /\ sent[2] = 2
  BY BarePacked
<1> HIDE DEF sent
<1>2. \A i \in 3 .. Len(sent) : sent[i] # Len(sent) - (i - 2)
  BY <1>1
<1>3. Len(sent) >= 2 /\ Len(sent) <= 127 /\ sent[2] = Len(sent) /\ Len(sent) < 3
  BY <1>1
<1>4. ~Full(sent)
  BY <1>3, ShortNotFull
<1>5. \A k \in 1 .. Len(sent) - 1 :
        ~Full(SubSeq(sent, 1, k)) /\ ~Full(SubSeq(sent, k + 1, Len(sent)))
  BY <1>1, <1>2, <1>3, PartsNotFull
<1>6. ~(Len(sent) > 2)
  BY <1>1
<1> QED
  BY <1>4, <1>5, <1>6 DEF sent

(* What is typed in has no control characters, though scanf() would take   *)
(* most of them.                                                           *)
TypedPlain == \A text \in UserText \union PassText \union GroupText : Plain(text)

(* The check of protocol.h on the requests there are.                      *)
LEMMA RequestParts ==
    ASSUME TypedPlain, NEW request \in RequestsAt("start") \union RequestsAt("menu")
    PROVE  LET sent == PackRequest(request)
           IN  /\ Full(sent) <=> Len(sent) > 2
               /\ \A k \in 1 .. Len(sent) - 1 :
                    ~Full(SubSeq(sent, 1, k)) /\ ~Full(SubSeq(sent, k + 1, Len(sent)))
<1>1. UserText \union PassText \union GroupText \subseteq ShortText
  BY MessageStreamAssumption DEF ShortText
<1>2. CASE request \in UserTypes \X UserText \X PassText
  <2>1. PICK type \in UserTypes, name \in UserText, pass \in PassText :
            request = <<type, name, pass>>
    BY <1>2
  <2>2. PackRequest(request) = PackUserDetails(type, name, pass)
    BY <2>1 DEF PackRequest, UserTypes
  <2>3. name \in ShortText /\ pass \in ShortText /\ Plain(name) /\ Plain(pass)
    BY <1>1 DEF TypedPlain
  <2> QED
    BY <2>2, <2>3, UserParts
<1>3. CASE request \in GroupTypes \X GroupText
  <2>1. PICK type \in GroupTypes, name \in GroupText : request = <<type, name>>
    BY <1>3
  <2>2. PackRequest(request) = PackGroupName(type, name)
    BY <2>1 DEF PackRequest, GroupTypes
  <2>3. name \in ShortText /\ Plain(name)
    BY <1>1 DEF TypedPlain
  <2> QED
    BY <2>2, <2>3, GroupParts
<1>4. CASE request \in {<<"GROUP_LIST_REQ">>, <<"LOGOUT_REQ">>}
  <2>1. PICK type \in BareTypes : request = <<type>>
    BY <1>4 DEF BareTypes
  <2> QED
    BY <2>1, BareParts
<1> QED
  BY <1>2, <1>3, <1>4, RequestsAre

(* ProtocolCheck would take no part of a request, nor the rest of one, for *)
(* a whole message, and each whole one for that, but for requests of two   *)
(* bytes and the details of a group: of texts without control characters.  *)
THEOREM PartsTold ==
    ASSUME TypedPlain
    PROVE  MessageStreamSpec => []CheckTellsParts
<1>1. ASSUME StreamInv, NEW c \in ClientID, history[c].pieces = 0
      PROVE  LET sent == toServer[c]
             IN  /\ Len(sent) > 2 => Full(sent)
                 /\ \A k \in 1 .. Len(sent) - 1 :
                    ~Full(SubSeq(sent, 1, k)) /\ ~Full(SubSeq(sent, k + 1, Len(sent)))
  <2>1. CASE toServer[c] = << >>
    <3>1. Len(toServer[c]) = 0
      BY <2>1
    <3> QED
      BY <3>1
  <2>2. CASE toServer[c] # << >>
    <3>1. StreamTypes /\ WholeInStep
      BY <1>1 DEF StreamInv
    <3>2. InStep(c)
      BY <1>1, <3>1 DEF WholeInStep
    <3>3. client[c].asked # NoRequest /\ toServer[c] = PackRequest(client[c].asked)
      BY <1>1, <2>2, <3>2 DEF InStep
    <3>4. client[c].asked \in RequestsAt("start") \union RequestsAt("menu")
      BY <1>1, <3>1, <3>3, TypesOf
    <3> QED
      BY <3>3, <3>4, RequestParts
  <2> QED
    BY <2>1, <2>2
<1>2. ASSUME StreamInv, NEW c \in ClientID, NEW i \in DOMAIN toClient[c],
             toClient[c][i].answer[1] \notin {"GROUP_CREATED", "GROUP_JOINED"}
      PROVE  Full(PackAnswer(toClient[c][i].to, toClient[c][i].answer))
  <2>1. toClient[c] \in Seq(AnswerMsg)
    BY <1>1, <1>2, TypesOf DEF StreamInv
  <2>2. toClient[c][i] \in AnswerMsg
    BY <1>2, <2>1, ElementOfSeq, LenProperties
  <2>3. PICK type \in ReadTypes :
            \E answer \in {a \in AnswersTo(type) : Sendable(a)} :
                toClient[c][i] = [to |-> type, answer |-> answer]
    BY <2>2 DEF AnswerMsg
  <2>4. PICK answer \in {a \in AnswersTo(type) : Sendable(a)} :
            toClient[c][i] = [to |-> type, answer |-> answer]
    BY <2>3
  <2>5. toClient[c][i].to = type /\ toClient[c][i].answer = answer
    BY <2>4
  <2>6. answer \in AnswersTo(type) /\ Sendable(answer)
    OBVIOUS
  <2> QED
    BY <1>2, <2>5, <2>6, AnswerRead
<1>3. StreamInv => CheckTellsParts
  BY <1>1, <1>2 DEF CheckTellsParts
<1> QED
  BY <1>3, StreamAlwaysInv, PTL
=============================================================================
