--------------------------- MODULE ClientChatsProofs ---------------------------
(***************************************************************************)
(* What holds of the chat windows of a client for any number of groups and *)
(* chats, of names that start with one another, and of programs that come  *)
(* one after the other.                                                    *)
(***************************************************************************)
EXTENDS ClientChats, FiniteSetTheorems, SequenceTheorems, WellFoundedInduction, TLAPS

-----------------------------------------------------------------------------
(* Files *)

(* The chats with a line in a file that is in memory.                      *)
Held(file) == {file[i] : i \in DOMAIN file}

NoLineTwice(file) == \A i, j \in DOMAIN file : file[i] = file[j] => i = j

(* What a missing file holds.                                              *)
FileOf(kind) == IF pidFile[kind] = NoFile THEN << >> ELSE pidFile[kind]

(* A process has a line in its file once only, and not before it runs.     *)
LinesInv ==
    /\ pidFile = [kind \in Kind |-> pidFile[kind]]
    /\ \A kind \in Kind :
        /\ NoLineTwice(FileOf(kind))
        /\ \A c \in Held(FileOf(kind)) : window[kind][c] \notin {"none", "starting"}

BufferInv ==
    closing.at = "rewrite" =>
        /\ NoLineTwice(closing.buffer)
        /\ \A c \in Held(closing.buffer) :
                window[closing.kind][c] \notin {"none", "starting"}

-----------------------------------------------------------------------------
(* closeChat in progress *)

(* A window is there from openChat on.                                     *)
WindowsInv ==
    \A kind \in Kind, c \in Chat : window[kind][c] = "none" <=> c > Len(chatGroup)

(* The pid of this kind has been looked for.                               *)
Sought(kind) ==
    \/ closing.at = "kill"
    \/ closing.at = "rewrite" /\ closing.kind \in {"sender", kind}
    \/ closing.at = "second" /\ kind = "listener"

(* The file of this kind has been written back.                            *)
TakenOut(kind) ==
    \/ closing.at = "kill"
    \/ /\ kind = "listener"
       /\ closing.at = "second" \/ (closing.at = "rewrite" /\ closing.kind = "sender")

ClosingInv ==
    /\ closing = Closing(closing.at, closing.group, closing.kind,
                         closing.buffer, closing.pid)
    /\ closing.at = "returned" => closing = Returned
    /\ closing.at # "returned" =>
            closing.group \in GroupName /\ pidFile["listener"] # NoFile
    /\ closing.at = "second" => closing.kind = "listener"
    /\ closing.at = "kill" \/ (closing.at = "rewrite" /\ closing.kind = "sender")
            => pidFile["sender"] # NoFile
    /\ \A kind \in Kind : ~Sought(kind) => closing.pid[kind] = NoPid

(* As long as no call missed its line and no line was written behind the   *)
(* back of one: what is in memory is the file less the line that was found,*)
(* and that line is of the chat that closeChat was called for.             *)
UnspoiltKind(kind) ==
    /\ \A c \in Held(FileOf(kind)) : window[kind][c] \in {"running", "ended"}
    /\ \A c \in Chat :
            window[kind][c] = "running" =>
                c \in Held(FileOf(kind)) \/ closing.pid[kind] = c
    /\ Sought(kind) => /\ closing.pid[kind] \in DOMAIN chatGroup
                       /\ chatGroup[closing.pid[kind]] = closing.group
                       /\ window[kind][closing.pid[kind]] \in {"running", "ended"}
    /\ TakenOut(kind) => closing.pid[kind] \notin Held(FileOf(kind))
    /\ closing.at = "rewrite" /\ closing.kind = kind =>
            Held(closing.buffer) = Held(FileOf(kind)) \ {closing.pid[kind]}

UnspoiltInv == ~spoilt => \A kind \in Kind : UnspoiltKind(kind)

OpenerInv ==
    /\ ChatOpenerTypeOK
    /\ WindowsInv /\ LinesInv /\ BufferInv /\ ClosingInv
    /\ UnspoiltInv

-----------------------------------------------------------------------------
(* The program *)

CountsInv ==
    /\ program = [at |-> program.at, groups |-> program.groups,
                  numOfGroups |-> program.numOfGroups, member |-> program.member,
                  round |-> program.round, since |-> program.since,
                  left |-> program.left, missed |-> program.missed]
    /\ program.at \in {"menu", "leave", "logout", "out", "gone", "crashed"}
    /\ closing.at # "returned" => program.at \in {"leave", "logout"}
    /\ program.at = "leave" => closing.at # "returned"
    /\ program.groups \in Seq(GroupName)
    /\ program.since \in 1 .. Len(chatGroup) + 1
    /\ program.numOfGroups = Len(chatGroup) + 1 - program.since
    /\ Len(program.groups) <= program.numOfGroups
    /\ program.round \in 0 .. program.numOfGroups
    /\ program.at \in {"menu", "leave"} => program.round = 0
    /\ program.left \in BOOLEAN /\ program.missed \in BOOLEAN

(* A round of the logout closes the chat of a group of the list; until one *)
(* has been left there are as many as there are rounds to come, after that *)
(* fewer, and both files are there, so that no round fails early.          *)
RoundsInv ==
    /\ program.at = "logout" /\ closing.at # "returned" =>
            program.groups # << >> /\ program.round < program.numOfGroups
    /\ program.left => \A kind \in Kind : pidFile[kind] # NoFile
    /\ Running =>
            IF program.left
            THEN Len(program.groups) + program.round < program.numOfGroups
            ELSE Len(program.groups) + program.round >= program.numOfGroups
    /\ program.at = "crashed" => program.left
    /\ program.at = "out" => ~program.left /\ program.round = program.numOfGroups

(* If besides nothing was missed the list are the groups of the chats not  *)
(* closed yet, and those of the rounds before are closed.                  *)
ListInv ==
    /\ Len(program.groups) = program.numOfGroups - program.round
    /\ \A i \in 1 .. Len(program.groups) :
            program.groups[i] = chatGroup[program.since + program.round + i - 1]

Closed(c) == \A kind \in Kind : window[kind][c] \notin {"starting", "running"}

RoundsClosed ==
    \A c \in program.since .. program.since + program.round - 1 :
        OpenedOnce(chatGroup[c]) => Closed(c)

Faultless == ~spoilt /\ ~program.missed /\ ~program.left

LogoutInv ==
    Faultless /\ (Running \/ program.at = "out") =>
        /\ ListInv /\ RoundsClosed
        /\ program.at = "logout" /\ closing.at # "returned" =>
                closing.group = program.groups[1]

ProgramInv == CountsInv /\ RoundsInv /\ LogoutInv

ClientChatsInv == OpenerInv /\ ProgramInv

-----------------------------------------------------------------------------
(* What closeChat does to a file *)

(* The smallest of a set of lines, that a CHOOSE looks for.                *)
LEMMA FirstLineOf ==
    ASSUME NEW T \in SUBSET Nat, T # {}
    PROVE  \E m \in T : \A k \in T : m <= k
<1> DEFINE R == OpToRel(<, Nat)
<1>1. IsWellFoundedOn(R, Nat)
  BY NatLessThanWellFounded, Zenon
<1>2. \A i, j \in Nat : i < j => <<i, j>> \in R
  BY DEF OpToRel
<1> HIDE DEF R
<1>3. PICK x \in T : \A y \in T : ~ (<<y, x>> \in R)
  BY <1>1, WFMin
<1>4. ASSUME NEW k \in T
      PROVE  x <= k
  <2>1. x \in Nat /\ k \in Nat
    OBVIOUS
  <2>2. ~ (k < x)
    BY <1>2, <1>3, <2>1
  <2> QED
    BY <2>1, <2>2
<1> QED
  BY <1>4

(* The line deleteLine finds is one of those it may take.                  *)
LEMMA FirstMatchIs ==
    ASSUME NEW file, Len(file) \in Nat, DOMAIN file = 1 .. Len(file), NEW g,
           MatchingLines(file, g) # {}
    PROVE  FirstMatch(file, g) \in MatchingLines(file, g)
<1> DEFINE T == MatchingLines(file, g)
<1>1. T \in SUBSET Nat
  BY DEF MatchingLines
<1>2. \E i \in T : \A j \in T : i <= j
  BY <1>1, FirstLineOf
<1> QED
  BY <1>2 DEF FirstMatch

(* A file less one line.                                                   *)
LEMMA WithoutLine ==
    ASSUME NEW S, NEW file \in Seq(S), NoLineTwice(file), NEW i \in DOMAIN file
    PROVE  LET rest == SubSeq(file, 1, i - 1) \o SubSeq(file, i + 1, Len(file))
           IN  /\ rest \in Seq(S)
               /\ NoLineTwice(rest)
               /\ Held(rest) = Held(file) \ {file[i]}
<1> DEFINE n    == Len(file)
           rest == SubSeq(file, 1, i - 1) \o SubSeq(file, i + 1, n)
<1>1. n \in Nat /\ DOMAIN file = 1 .. n /\ i \in 1 .. n
  OBVIOUS
<1> DEFINE a == SubSeq(file, 1, i - 1)
           b == SubSeq(file, i + 1, n)
<1>2. /\ rest \in Seq(S) /\ Len(rest) = n - 1 /\ DOMAIN rest = 1 .. n - 1
      /\ \A j \in 1 .. n - 1 : rest[j] = IF j < i THEN file[j] ELSE file[j + 1]
  <2>1. /\ a \in Seq(S) /\ Len(a) = i - 1
        /\ \A j \in 1 .. i - 1 : a[j] = file[j]
    BY <1>1
  <2>2. /\ b \in Seq(S) /\ Len(b) = n - i
        /\ \A j \in 1 .. n - i : b[j] = file[i + j]
    BY <1>1
  <2>3. rest = a \o b
    OBVIOUS
  <2> HIDE DEF a, b, rest
  <2>4. /\ a \o b \in Seq(S) /\ Len(a \o b) = Len(a) + Len(b)
        /\ \A j \in 1 .. Len(a) + Len(b) :
                (a \o b)[j] = IF j <= Len(a) THEN a[j] ELSE b[j - Len(a)]
    BY <2>1, <2>2, ConcatProperties
  <2>5. /\ rest \in Seq(S) /\ Len(rest) = n - 1
        /\ \A j \in 1 .. n - 1 : rest[j] = IF j <= i - 1 THEN a[j] ELSE b[j - (i - 1)]
    <3>1. Len(a) + Len(b) = n - 1
      BY <1>1, <2>1, <2>2
    <3> QED
      BY <2>1, <2>3, <2>4, <3>1
  <2>6. ASSUME NEW j \in 1 .. n - 1
        PROVE  rest[j] = IF j < i THEN file[j] ELSE file[j + 1]
    <3>1. CASE j < i
      BY <1>1, <2>1, <2>5, <3>1
    <3>2. CASE j >= i
      <4> DEFINE k == j - (i - 1)
      <4>1. k \in 1 .. n - i /\ i + k = j + 1 /\ ~ (j <= i - 1)
        BY <1>1, <3>2
      <4>2. rest[j] = b[k]
        BY <2>5, <4>1
      <4> HIDE DEF k
      <4>3. b[k] = file[i + k]
        BY <2>2, <4>1
      <4> QED
        BY <1>1, <3>2, <4>1, <4>2, <4>3
    <3> QED
      BY <1>1, <3>1, <3>2
  <2> QED
    BY <2>5, <2>6
<1> HIDE DEF rest
<1>3. NoLineTwice(rest)
  <2>1. SUFFICES ASSUME NEW j \in 1 .. n - 1, NEW k \in 1 .. n - 1, rest[j] = rest[k]
                 PROVE  j = k
    BY <1>2 DEF NoLineTwice
  <2> DEFINE u == IF j < i THEN j ELSE j + 1
             v == IF k < i THEN k ELSE k + 1
  <2>2. u \in 1 .. n /\ v \in 1 .. n /\ rest[j] = file[u] /\ rest[k] = file[v]
    BY <1>1, <1>2
  <2>3. u = v
    BY <1>1, <2>1, <2>2 DEF NoLineTwice
  <2> QED
    BY <1>1, <2>3
<1>4. \A j \in 1 .. n - 1 : rest[j] \in Held(file) \ {file[i]}
  BY <1>1, <1>2 DEF NoLineTwice, Held
<1>5. ASSUME NEW j \in 1 .. n, j # i
      PROVE  file[j] \in Held(rest)
  <2>1. CASE j < i
    <3>1. j \in 1 .. n - 1 /\ rest[j] = file[j]
      BY <1>1, <1>2, <2>1
    <3> QED
      BY <1>2, <3>1 DEF Held
  <2>2. CASE j > i
    <3>1. j - 1 \in 1 .. n - 1 /\ rest[j - 1] = file[j]
      BY <1>1, <1>2, <2>2
    <3> QED
      BY <1>2, <3>1 DEF Held
  <2> QED
    BY <1>1, <1>5, <2>1, <2>2
<1>6. Held(rest) = Held(file) \ {file[i]}
  BY <1>1, <1>2, <1>4, <1>5 DEF Held
<1> QED
  BY <1>2, <1>3, <1>6 DEF rest

(* What is read of a file: the line of the chat that was looked for, if    *)
(* its pid was found, is the only one that is missing.                     *)
LEMMA ReadIs ==
    ASSUME NEW file \in Seq(Chat), NoLineTwice(file), NEW g
    PROVE  /\ DeleteLine(file, g) \in Seq(Chat)
           /\ NoLineTwice(DeleteLine(file, g))
           /\ Held(DeleteLine(file, g)) \subseteq Held(file)
           /\ PidFound(file, g) \in Chat \union {NoPid}
           /\ PidFound(file, g) # NoPid =>
                /\ PidFound(file, g) \in Held(file)
                /\ chatGroup[PidFound(file, g)] = g
                /\ Held(DeleteLine(file, g)) = Held(file) \ {PidFound(file, g)}
<1> DEFINE i == FirstMatch(file, g)
<1>1. CASE MatchingLines(file, g) = {}
  <2>1. DeleteLine(file, g) = << >> /\ PidFound(file, g) = NoPid
    BY <1>1 DEF DeleteLine, PidFound
  <2> QED
    BY <2>1 DEF NoLineTwice, Held
<1>2. CASE MatchingLines(file, g) # {}
  <2>1. i \in DOMAIN file
    BY <1>2, FirstMatchIs DEF MatchingLines
  <2>2. DeleteLine(file, g) = SubSeq(file, 1, i - 1) \o SubSeq(file, i + 1, Len(file))
    BY <1>2 DEF DeleteLine
  <2>3. PidFound(file, g) = IF chatGroup[file[i]] = g THEN file[i] ELSE NoPid
    BY <1>2 DEF PidFound
  <2>4. file[i] \in Chat /\ file[i] \in Held(file)
    BY <2>1 DEF Held
  <2> HIDE DEF i
  <2>5. /\ DeleteLine(file, g) \in Seq(Chat)
        /\ NoLineTwice(DeleteLine(file, g))
        /\ Held(DeleteLine(file, g)) = Held(file) \ {file[i]}
    BY <2>1, <2>2, WithoutLine
  <2> QED
    BY <2>3, <2>4, <2>5
<1> QED
  BY <1>1, <1>2

(* A line more, of a process that had none.                                *)
LEMMA OneLineMore ==
    ASSUME NEW file \in Seq(Chat), NoLineTwice(file), NEW c \in Chat,
           c \notin Held(file)
    PROVE  /\ Append(file, c) \in Seq(Chat)
           /\ NoLineTwice(Append(file, c))
           /\ Held(Append(file, c)) = Held(file) \union {c}
<1> DEFINE n    == Len(file)
           more == Append(file, c)
<1>1. /\ n \in Nat /\ DOMAIN file = 1 .. n
      /\ more \in Seq(Chat) /\ DOMAIN more = 1 .. n + 1
      /\ \A i \in 1 .. n : more[i] = file[i]
      /\ more[n + 1] = c
  OBVIOUS
<1> HIDE DEF more
<1>2. \A i \in 1 .. n : file[i] # c
  BY <1>1 DEF Held
<1>3. NoLineTwice(more)
  BY <1>1, <1>2 DEF NoLineTwice
<1>4. Held(more) = Held(file) \union {c}
  BY <1>1 DEF Held
<1> QED
  BY <1>1, <1>3, <1>4 DEF more

-----------------------------------------------------------------------------
(* Steps of the windows and of closeChat *)

(* The files, typed; and what LinesOf says of them.                        *)
LEMMA FilesTyped ==
    ASSUME OpenerInv, NEW kind \in Kind
    PROVE  /\ FileOf(kind) \in Seq(Chat)
           /\ Held(FileOf(kind)) \subseteq Chat
           /\ LinesOf(kind) = Held(FileOf(kind))
           /\ NoLineTwice(FileOf(kind))
           /\ window[kind] = [c \in Chat |-> window[kind][c]]
<1>1. FileOf(kind) \in Seq(Chat)
  BY DEF OpenerInv, ChatOpenerTypeOK, FileOf
<1>2. Held(FileOf(kind)) \subseteq Chat
  BY <1>1 DEF Held
<1>3. LinesOf(kind) = Held(FileOf(kind))
  BY DEF LinesOf, FileOf, Held
<1> QED
  BY <1>1, <1>2, <1>3 DEF OpenerInv, ChatOpenerTypeOK, LinesInv

(* A file in memory is not the missing file.                               *)
LEMMA FileIsThere ==
    ASSUME NEW file \in Seq(Chat)
    PROVE  file # NoFile
<1>1. Chat \subseteq Nat
  BY DEF Chat
<1>2. file \in Seq(Nat)
  BY <1>1, SeqMonotonic
<1> QED
  BY <1>2, ChatOpenerAssumption

(* openChat: two windows more, that have no line yet.                      *)
LEMMA OpenChatInv ==
    ASSUME OpenerInv, NEW g \in GroupName, OpenChat(g)
    PROVE  OpenerInv'
<1> DEFINE k == Len(chatGroup) + 1
<1> USE ChatOpenerAssumption
<1>1. /\ ChatOpenerTypeOK /\ WindowsInv /\ LinesInv /\ ClosingInv /\ UnspoiltInv
      /\ closing.at = "returned" /\ closing = Returned
  BY DEF OpenerInv, OpenChat, ClosingInv
<1>2. /\ pidFile' = pidFile /\ closing' = closing /\ spoilt' = spoilt
      /\ chatGroup' = Append(chatGroup, g)
      /\ window' = [kind \in Kind |-> [window[kind] EXCEPT ![k] = "starting"]]
  BY DEF OpenChat
<1>3. /\ chatGroup \in Seq(GroupName) /\ Len(chatGroup) < MaxChats
      /\ chatGroup' \in Seq(GroupName) /\ Len(chatGroup') = k
      /\ k \in Chat /\ Len(chatGroup) \in Nat
      /\ \A c \in DOMAIN chatGroup : c \in DOMAIN chatGroup' /\ chatGroup'[c] = chatGroup[c]
  BY <1>1, <1>2 DEF ChatOpenerTypeOK, OpenChat, Chat
<1>4. /\ window' \in [Kind -> [Chat -> {"none", "starting", "running", "ended", "killed"}]]
      /\ \A kind \in Kind : window'[kind][k] = "starting"
      /\ \A kind \in Kind, c \in Chat : c # k => window'[kind][c] = window[kind][c]
  BY <1>1, <1>2, <1>3 DEF ChatOpenerTypeOK
<1>5. ChatOpenerTypeOK'
  BY <1>1, <1>2, <1>3, <1>4 DEF ChatOpenerTypeOK
<1>6. WindowsInv'
  BY <1>1, <1>3, <1>4 DEF WindowsInv, Chat
<1>7. \A kind \in Kind : window[kind][k] = "none"
  BY <1>1, <1>3 DEF WindowsInv
<1>8. \A kind \in Kind : \A c \in Held(FileOf(kind)) : c \in Chat /\ c # k
  BY <1>1, <1>7, FilesTyped DEF LinesInv
<1>9. LinesInv'
  BY <1>1, <1>2, <1>4, <1>8 DEF LinesInv, FileOf
<1>10. BufferInv' /\ ClosingInv'
  BY <1>1, <1>2 DEF BufferInv, ClosingInv, Sought
<1>11. UnspoiltInv'
  BY <1>1, <1>2, <1>4, <1>8 DEF UnspoiltInv, UnspoiltKind, FileOf, Sought, TakenOut
<1> QED
  BY <1>5, <1>6, <1>9, <1>10, <1>11 DEF OpenerInv

(* A window closed by its user: its line stays.                            *)
LEMMA WindowEndsInv ==
    ASSUME OpenerInv, NEW k \in Kind, NEW e \in Chat, WindowEnds(k, e)
    PROVE  OpenerInv'
<1>1. /\ ChatOpenerTypeOK /\ WindowsInv /\ LinesInv /\ BufferInv /\ ClosingInv
      /\ UnspoiltInv
  BY DEF OpenerInv
<1>2. /\ chatGroup' = chatGroup /\ pidFile' = pidFile /\ closing' = closing
      /\ spoilt' = spoilt
      /\ window[k][e] = "running"
      /\ window' = [window EXCEPT ![k][e] = "ended"]
  BY DEF WindowEnds
<1>3. /\ window' \in [Kind -> [Chat -> {"none", "starting", "running", "ended", "killed"}]]
      /\ window'[k][e] = "ended"
      /\ \A kind \in Kind, c \in Chat :
            kind # k \/ c # e => window'[kind][c] = window[kind][c]
  BY <1>1, <1>2 DEF ChatOpenerTypeOK
<1>4. ChatOpenerTypeOK' /\ WindowsInv' /\ ClosingInv'
  BY <1>1, <1>2, <1>3 DEF ChatOpenerTypeOK, WindowsInv, ClosingInv, Sought
<1>5. LinesInv'
  BY <1>1, <1>2, <1>3, FilesTyped DEF LinesInv, FileOf
<1>6. BufferInv'
  <2>1. closing.kind \in Kind /\ Held(closing.buffer) \subseteq Chat
    BY <1>1 DEF ChatOpenerTypeOK, Held
  <2> QED
    BY <1>1, <1>2, <1>3, <2>1 DEF BufferInv
<1>7. UnspoiltInv'
  BY <1>1, <1>2, <1>3, FilesTyped DEF UnspoiltInv, UnspoiltKind, FileOf, Sought, TakenOut
<1> QED
  BY <1>4, <1>5, <1>6, <1>7 DEF OpenerInv

(* savePid: the line of a window that had none, in a file that closeChat   *)
(* does not have in memory, or the history is spoilt.                      *)
LEMMA SavePidInv ==
    ASSUME OpenerInv, NEW k \in Kind, NEW e \in Chat, SavePid(k, e)
    PROVE  /\ OpenerInv'
           /\ \A kind \in Kind : pidFile[kind] # NoFile => pidFile'[kind] # NoFile
<1>1. /\ ChatOpenerTypeOK /\ WindowsInv /\ LinesInv /\ BufferInv /\ ClosingInv
      /\ UnspoiltInv
  BY DEF OpenerInv
<1>2. /\ chatGroup' = chatGroup /\ closing' = closing
      /\ spoilt' = (spoilt \/ Overlaps(k))
      /\ window[k][e] = "starting"
      /\ window' = [window EXCEPT ![k][e] = "running"]
      /\ pidFile' = [pidFile EXCEPT ![k] =
                        IF pidFile[k] = NoFile THEN <<e>> ELSE Append(pidFile[k], e)]
  BY DEF SavePid
<1>3. /\ window' \in [Kind -> [Chat -> {"none", "starting", "running", "ended", "killed"}]]
      /\ window'[k][e] = "running"
      /\ \A kind \in Kind, c \in Chat :
            kind # k \/ c # e => window'[kind][c] = window[kind][c]
  BY <1>1, <1>2 DEF ChatOpenerTypeOK
<1>4. /\ pidFile' = [kind \in Kind |-> pidFile'[kind]]
      /\ \A kind \in Kind : kind # k => pidFile'[kind] = pidFile[kind]
      /\ pidFile'[k] = IF pidFile[k] = NoFile THEN <<e>> ELSE Append(pidFile[k], e)
  BY <1>1, <1>2 DEF LinesInv
<1>5. e \notin Held(FileOf(k))
  BY <1>1, <1>2 DEF LinesInv
<1>6. /\ pidFile'[k] \in Seq(Chat)
      /\ NoLineTwice(pidFile'[k])
      /\ Held(pidFile'[k]) = Held(FileOf(k)) \union {e}
  <2>1. CASE pidFile[k] = NoFile
    <3>1. pidFile'[k] = <<e>> /\ FileOf(k) = << >>
      BY <1>4, <2>1 DEF FileOf
    <3>2. /\ <<e>> \in Seq(Chat) /\ NoLineTwice(<<e>>) /\ Held(<<e>>) = {e}
          /\ Held(<< >>) = {}
      BY DEF NoLineTwice, Held
    <3> QED
      BY <3>1, <3>2
  <2>2. CASE pidFile[k] # NoFile
    <3>1. pidFile'[k] = Append(FileOf(k), e)
      BY <1>4, <2>2 DEF FileOf
    <3>2. FileOf(k) \in Seq(Chat) /\ NoLineTwice(FileOf(k))
      BY FilesTyped
    <3> DEFINE f == FileOf(k)
    <3> HIDE DEF f
    <3>3. f \in Seq(Chat) /\ NoLineTwice(f) /\ e \notin Held(f)
      BY <1>5, <3>2 DEF f
    <3>4. /\ Append(f, e) \in Seq(Chat) /\ NoLineTwice(Append(f, e))
          /\ Held(Append(f, e)) = Held(f) \union {e}
      BY <3>3, OneLineMore
    <3> QED
      BY <3>1, <3>4 DEF f
  <2> QED
    BY <2>1, <2>2
<1>7. /\ pidFile'[k] # NoFile
      /\ FileOf(k)' = pidFile'[k]
      /\ \A kind \in Kind : kind # k => FileOf(kind)' = FileOf(kind)
  BY <1>4, <1>6, FileIsThere DEF FileOf
<1>8. ChatOpenerTypeOK'
  BY <1>1, <1>2, <1>3, <1>4, <1>6 DEF ChatOpenerTypeOK, Overlaps
<1>9. WindowsInv'
  BY <1>1, <1>2, <1>3 DEF WindowsInv
<1>10. LinesInv'
  <2>1. ASSUME NEW kind \in Kind
        PROVE  /\ NoLineTwice(FileOf(kind)')
               /\ \A c \in Held(FileOf(kind)') : window'[kind][c] \notin {"none", "starting"}
    <3>1. /\ NoLineTwice(FileOf(kind)) /\ Held(FileOf(kind)) \subseteq Chat
          /\ \A c \in Held(FileOf(kind)) : window[kind][c] \notin {"none", "starting"}
      BY <1>1, FilesTyped DEF LinesInv
    <3>2. CASE kind = k
      BY <1>3, <1>6, <1>7, <3>1, <3>2
    <3>3. CASE kind # k
      BY <1>3, <1>7, <3>1, <3>3
    <3> QED
      BY <3>2, <3>3
  <2> QED
    BY <1>4, <2>1 DEF LinesInv, NoLineTwice, Held
<1>11. BufferInv'
  <2>1. closing.kind \in Kind /\ Held(closing.buffer) \subseteq Chat
    BY <1>1 DEF ChatOpenerTypeOK, Held
  <2> QED
    BY <1>1, <1>2, <1>3, <2>1 DEF BufferInv
<1>12. ClosingInv'
  BY <1>1, <1>2, <1>4, <1>7 DEF ClosingInv, Sought, Kind
<1>13. UnspoiltInv'
  <2> SUFFICES ASSUME ~spoilt', NEW kind \in Kind
               PROVE  UnspoiltKind(kind)'
    BY DEF UnspoiltInv
  <2>1. UnspoiltKind(kind) /\ ~Overlaps(k)
    BY <1>1, <1>2 DEF UnspoiltInv
  <2>2. closing'.at = "rewrite" /\ closing'.kind = kind => kind # k
    BY <1>2, <2>1 DEF Overlaps
  <2>3. Held(FileOf(kind)) \subseteq Chat /\ DOMAIN chatGroup \subseteq Chat
    <3>1. Held(FileOf(kind)) \subseteq Chat
      BY FilesTyped
    <3>2. DOMAIN chatGroup = 1 .. Len(chatGroup) /\ Len(chatGroup) \in Nat
          /\ Len(chatGroup) <= MaxChats
      BY <1>1 DEF ChatOpenerTypeOK
    <3> QED
      BY <3>1, <3>2, ChatOpenerAssumption DEF Chat
  <2>4. CASE kind = k
    <3> DEFINE pid == closing.pid[k]
    <3>1. /\ FileOf(k)' = pidFile'[k]
          /\ Held(FileOf(k)') = Held(FileOf(k)) \union {e}
      BY <1>6, <1>7 DEF Held
    <3>2. Sought(k) => pid \in DOMAIN chatGroup /\ pid # e
                       /\ chatGroup[pid] = closing.group
                       /\ window[k][pid] \in {"running", "ended"}
      BY <1>2, <2>1, <2>4 DEF UnspoiltKind
    <3>3. Sought(k)' = Sought(k) /\ TakenOut(k)' = TakenOut(k)
      BY <1>2 DEF Sought, TakenOut
    <3>4. TakenOut(k) => Sought(k)
      BY <1>1 DEF Sought, TakenOut, ClosingInv
    <3>5. \A c \in Held(FileOf(k)') : window'[k][c] \in {"running", "ended"}
      BY <1>3, <2>1, <2>3, <2>4, <3>1 DEF UnspoiltKind
    <3>6. \A c \in Chat : window'[k][c] = "running" => c \in Held(FileOf(k)') \/ pid = c
      BY <1>3, <2>1, <2>4, <3>1 DEF UnspoiltKind
    <3>7. Sought(k) => window'[k][pid] \in {"running", "ended"}
      BY <1>3, <2>3, <3>2
    <3>8. TakenOut(k) => pid \notin Held(FileOf(k)')
      BY <2>1, <2>4, <3>1, <3>2, <3>4 DEF UnspoiltKind
    <3> QED
      BY <1>2, <2>2, <2>4, <3>2, <3>3, <3>5, <3>6, <3>7, <3>8 DEF UnspoiltKind
  <2>5. CASE kind # k
    BY <1>2, <1>3, <1>7, <2>1, <2>3, <2>5 DEF UnspoiltKind, Sought, TakenOut
  <2> QED
    BY <2>4, <2>5
<1> QED
  BY <1>4, <1>7, <1>8, <1>9, <1>10, <1>11, <1>12, <1>13 DEF OpenerInv

(* A file is read, the listeners' by closeChat and then the senders'.      *)
LEMMA ReadPidFileInv ==
    ASSUME OpenerInv, NEW k \in Kind, NEW g \in GroupName, NEW pid,
           pidFile[k] # NoFile,
           \/ k = "listener" /\ closing.at = "returned" /\ pid = NoPids
           \/ /\ k = "sender" /\ closing.at = "second"
              /\ g = closing.group /\ pid = closing.pid,
           ReadPidFile(k, g, pid), UNCHANGED <<chatGroup, window, pidFile>>
    PROVE  OpenerInv'
<1> DEFINE file  == pidFile[k]
           found == PidFound(file, g)
           rest  == DeleteLine(file, g)
<1>1. /\ ChatOpenerTypeOK /\ WindowsInv /\ LinesInv /\ ClosingInv /\ UnspoiltInv
  BY DEF OpenerInv
<1>2. /\ chatGroup' = chatGroup /\ window' = window /\ pidFile' = pidFile
      /\ closing' = Closing("rewrite", g, k, rest, [pid EXCEPT ![k] = found])
      /\ spoilt' = (spoilt \/ found = NoPid)
  BY DEF ReadPidFile
<1>3. FileOf(k) = file /\ \A kind \in Kind : FileOf(kind)' = FileOf(kind)
  BY <1>2 DEF FileOf
<1>4. file \in Seq(Chat) /\ NoLineTwice(file) /\ Held(file) \subseteq Chat
  BY <1>3, FilesTyped
<1> HIDE DEF file
<1>5. /\ rest \in Seq(Chat) /\ NoLineTwice(rest) /\ Held(rest) \subseteq Held(file)
      /\ found \in Chat \union {NoPid}
      /\ found # NoPid => /\ found \in Held(file)
                          /\ chatGroup[found] = g
                          /\ Held(rest) = Held(file) \ {found}
  BY <1>4, ReadIs
<1> HIDE DEF found, rest
<1>6. /\ closing.pid \in [Kind -> Chat \union {NoPid}]
      /\ closing.at = "returned" => closing.pid = NoPids
  <2>1. Returned.pid = NoPids
    BY DEF Returned, Closing
  <2> QED
    BY <1>1, <2>1 DEF ChatOpenerTypeOK, ClosingInv
<1>7. /\ pid = closing.pid /\ pid \in [Kind -> Chat \union {NoPid}]
      /\ pid[k] = NoPid
  BY <1>1, <1>6 DEF ClosingInv, Sought, NoPids, Kind
<1>8. /\ closing'.at = "rewrite" /\ closing'.group = g /\ closing'.kind = k
      /\ closing'.buffer = rest
      /\ closing'.pid \in [Kind -> Chat \union {NoPid}]
      /\ closing'.pid[k] = found
      /\ \A kind \in Kind : kind # k => closing'.pid[kind] = closing.pid[kind]
  BY <1>2, <1>5, <1>7 DEF Closing
<1>9. ChatOpenerTypeOK'
  BY <1>1, <1>2, <1>5, <1>8 DEF ChatOpenerTypeOK
<1>10. WindowsInv' /\ LinesInv'
  BY <1>1, <1>2, <1>3 DEF WindowsInv, LinesInv
<1>11. BufferInv'
  BY <1>1, <1>2, <1>3, <1>5, <1>8 DEF BufferInv, LinesInv
<1>12. ClosingInv'
  <2>1. closing' = Closing(closing'.at, closing'.group, closing'.kind,
                           closing'.buffer, closing'.pid)
    BY <1>2 DEF Closing
  <2>2. pidFile["listener"] # NoFile /\ (k = "sender" => pidFile["sender"] # NoFile)
    BY <1>1 DEF ClosingInv
  <2>3. ASSUME NEW kind \in Kind, ~Sought(kind)'
        PROVE  closing'.pid[kind] = NoPid
    BY <1>1, <1>6, <1>8, <2>3 DEF ClosingInv, Sought, Kind, NoPids
  <2> QED
    BY <1>2, <1>8, <2>1, <2>2, <2>3 DEF ClosingInv
<1>13. UnspoiltInv'
  <2> SUFFICES ASSUME ~spoilt', NEW kind \in Kind
               PROVE  UnspoiltKind(kind)'
    BY DEF UnspoiltInv
  <2>1. UnspoiltKind(kind) /\ found # NoPid
    BY <1>1, <1>2 DEF UnspoiltInv
  <2>2. CASE kind = k
    <3>1. /\ \A c \in Held(file) : window[k][c] \in {"running", "ended"}
          /\ \A c \in Chat : window[k][c] = "running" => c \in Held(file)
      BY <1>3, <1>7, <2>1, <2>2 DEF UnspoiltKind, NoPid, Chat
    <3>2. found \in Held(file) /\ found \in Chat /\ found \in DOMAIN chatGroup
      <4>1. found \in Held(file) /\ found \in Chat
        BY <1>4, <1>5, <2>1
      <4>2. window[k][found] # "none"
        BY <3>1, <4>1
      <4>3. found <= Len(chatGroup)
        BY <1>1, <4>1, <4>2 DEF WindowsInv, ChatOpenerTypeOK, Chat
      <4> QED
        BY <1>1, <4>1, <4>3 DEF ChatOpenerTypeOK, Chat
    <3>3. ~TakenOut(k)'
      BY <1>8 DEF TakenOut
    <3>4. FileOf(k)' = file
      BY <1>3
    <3> QED
      BY <1>2, <1>5, <1>8, <2>1, <2>2, <3>1, <3>2, <3>3, <3>4 DEF UnspoiltKind
  <2>3. CASE kind # k
    <3>1. closing'.pid[kind] = closing.pid[kind] /\ FileOf(kind)' = FileOf(kind)
      BY <1>3, <1>8, <2>3
    <3>2. Sought(kind)' => Sought(kind) /\ g = closing.group
      BY <1>8, <2>3 DEF Sought, Kind
    <3>3. TakenOut(kind)' => TakenOut(kind)
      BY <1>8, <2>3 DEF TakenOut, Kind
    <3> QED
      BY <1>2, <1>8, <2>1, <2>3, <3>1, <3>2, <3>3 DEF UnspoiltKind
  <2> QED
    BY <2>2, <2>3
<1> QED
  BY <1>9, <1>10, <1>11, <1>12, <1>13 DEF OpenerInv

(* The file in memory is written back.                                     *)
LEMMA RewritePidFileInv ==
    ASSUME OpenerInv, RewritePidFile
    PROVE  /\ OpenerInv'
           /\ \A kind \in Kind : pidFile[kind] # NoFile => pidFile'[kind] # NoFile
<1> PICK k \in Kind : k = closing.kind
  BY DEF OpenerInv, ChatOpenerTypeOK
<1>1. /\ ChatOpenerTypeOK /\ WindowsInv /\ LinesInv /\ BufferInv /\ ClosingInv
      /\ UnspoiltInv /\ k \in Kind /\ closing.buffer \in Seq(Chat)
  BY DEF OpenerInv, ChatOpenerTypeOK
<1>2. /\ chatGroup' = chatGroup /\ window' = window /\ spoilt' = spoilt
      /\ closing.at = "rewrite"
      /\ pidFile' = [pidFile EXCEPT ![k] = closing.buffer]
      /\ closing' = [closing EXCEPT !.at = IF k = "listener" THEN "second" ELSE "kill",
                                    !.buffer = << >>]
  BY DEF RewritePidFile
<1>3. /\ pidFile' = [kind \in Kind |-> pidFile'[kind]]
      /\ \A kind \in Kind : kind # k => pidFile'[kind] = pidFile[kind]
      /\ pidFile'[k] = closing.buffer
  BY <1>1, <1>2 DEF LinesInv
<1>4. /\ closing' = Closing(closing'.at, closing'.group, closing'.kind,
                            closing'.buffer, closing'.pid)
      /\ closing'.at = (IF k = "listener" THEN "second" ELSE "kill")
      /\ closing'.group = closing.group /\ closing'.kind = k
      /\ closing'.buffer = << >> /\ closing'.pid = closing.pid
  BY <1>1, <1>2 DEF ClosingInv, Closing
<1>5. /\ pidFile'[k] # NoFile
      /\ FileOf(k)' = closing.buffer
      /\ \A kind \in Kind : kind # k => FileOf(kind)' = FileOf(kind)
  BY <1>1, <1>3, FileIsThere DEF FileOf
<1>6. ChatOpenerTypeOK'
  BY <1>1, <1>2, <1>3, <1>4 DEF ChatOpenerTypeOK
<1>7. WindowsInv'
  BY <1>1, <1>2 DEF WindowsInv
<1>8. LinesInv'
  <2>1. ASSUME NEW kind \in Kind
        PROVE  /\ NoLineTwice(FileOf(kind)')
               /\ \A c \in Held(FileOf(kind)') : window'[kind][c] \notin {"none", "starting"}
    <3>1. CASE kind = k
      BY <1>1, <1>2, <1>5, <3>1 DEF BufferInv
    <3>2. CASE kind # k
      BY <1>1, <1>2, <1>5, <3>2 DEF LinesInv
    <3> QED
      BY <3>1, <3>2
  <2> QED
    BY <1>3, <2>1 DEF LinesInv, NoLineTwice, Held
<1>9. BufferInv'
  BY <1>4 DEF BufferInv
<1>10. ClosingInv'
  <2>1. \A kind \in Kind : Sought(kind)' <=> Sought(kind)
    BY <1>1, <1>2, <1>4 DEF Sought, Kind
  <2>2. /\ closing.group \in GroupName /\ pidFile'["listener"] # NoFile
        /\ k = "sender" => pidFile'["sender"] # NoFile
    BY <1>1, <1>2, <1>3, <1>5 DEF ClosingInv, Kind
  <2> QED
    BY <1>1, <1>4, <2>1, <2>2 DEF ClosingInv, Kind
<1>11. UnspoiltInv'
  <2> SUFFICES ASSUME ~spoilt', NEW kind \in Kind
               PROVE  UnspoiltKind(kind)'
    BY DEF UnspoiltInv
  <2>1. UnspoiltKind(kind)
    BY <1>1, <1>2 DEF UnspoiltInv
  <2>2. Sought(kind)' <=> Sought(kind)
    BY <1>1, <1>2, <1>4 DEF Sought, Kind
  <2>3. CASE kind = k
    <3>1. Held(FileOf(k)') = Held(FileOf(k)) \ {closing.pid[k]}
      <4>1. Held(closing.buffer) = Held(FileOf(k)) \ {closing.pid[k]}
        BY <1>2, <2>1, <2>3 DEF UnspoiltKind
      <4> QED
        BY <1>5, <4>1
    <3> QED
      BY <1>2, <1>4, <2>1, <2>2, <2>3, <3>1 DEF UnspoiltKind
  <2>4. CASE kind # k
    <3>1. TakenOut(kind)' => TakenOut(kind)
      BY <1>1, <1>2, <1>4, <2>4 DEF TakenOut, Kind
    <3> QED
      BY <1>2, <1>4, <1>5, <2>1, <2>2, <2>4, <3>1 DEF UnspoiltKind
  <2> QED
    BY <2>3, <2>4
<1> QED
  BY <1>3, <1>5, <1>6, <1>7, <1>8, <1>9, <1>10, <1>11 DEF OpenerInv

(* No call of closeChat.                                                   *)
LEMMA ReturnedIs ==
    /\ Returned = Closing("returned", Returned.group, Returned.kind,
                          Returned.buffer, Returned.pid)
    /\ Returned.at = "returned" /\ Returned.kind \in Kind
    /\ Returned.buffer \in Seq(Chat)
    /\ Returned.pid \in [Kind -> Chat \union {NoPid}]
    /\ \A kind \in Kind : Returned.pid[kind] = NoPid
<1>1. /\ Returned.at = "returned" /\ Returned.kind = "listener"
      /\ Returned.buffer = << >> /\ Returned.pid = NoPids
      /\ Returned = Closing("returned", Returned.group, Returned.kind,
                            Returned.buffer, Returned.pid)
  BY DEF Returned, Closing
<1>2. NoPids \in [Kind -> Chat \union {NoPid}] /\ \A kind \in Kind : NoPids[kind] = NoPid
  BY DEF NoPids
<1>3. << >> \in Seq(Chat) /\ "listener" \in Kind
  BY DEF Kind
<1> QED
  BY <1>1, <1>2, <1>3

(* A call that is cut short, by a file that is missing or by the end of    *)
(* the program, leaves nothing behind but what it did.                     *)
LEMMA ReturnedInv ==
    ASSUME OpenerInv, closing' = Returned, spoilt' = TRUE,
           UNCHANGED <<chatGroup, window, pidFile>>
    PROVE  OpenerInv'
<1>1. /\ ChatOpenerTypeOK /\ WindowsInv /\ LinesInv
      /\ chatGroup' = chatGroup /\ window' = window /\ pidFile' = pidFile
  BY DEF OpenerInv
<1>2. /\ Returned = Closing("returned", Returned.group, Returned.kind,
                            Returned.buffer, Returned.pid)
      /\ Returned.at = "returned" /\ Returned.kind \in Kind
      /\ Returned.buffer \in Seq(Chat)
      /\ Returned.pid \in [Kind -> Chat \union {NoPid}]
      /\ \A kind \in Kind : Returned.pid[kind] = NoPid
  BY ReturnedIs
<1>4. ChatOpenerTypeOK'
  BY <1>1, <1>2 DEF ChatOpenerTypeOK
<1>5. WindowsInv' /\ LinesInv' /\ BufferInv'
  BY <1>1, <1>2 DEF WindowsInv, LinesInv, BufferInv, FileOf
<1>6. ClosingInv'
  BY <1>2 DEF ClosingInv
<1>7. UnspoiltInv'
  BY DEF UnspoiltInv
<1> QED
  BY <1>4, <1>5, <1>6, <1>7 DEF OpenerInv

(* The senders' file is read, or is not there.                             *)
LEMMA CloseSecondInv ==
    ASSUME OpenerInv, CloseSecond
    PROVE  OpenerInv'
<1>1. /\ ClosingInv /\ closing.at = "second" /\ closing.group \in GroupName
  BY DEF OpenerInv, CloseSecond, ClosingInv
<1>2. CASE pidFile["sender"] = NoFile
  <2>1. closing' = Returned /\ spoilt' = TRUE /\ UNCHANGED <<chatGroup, window, pidFile>>
    BY <1>2 DEF CloseSecond
  <2> QED
    BY <2>1, ReturnedInv
<1>3. CASE pidFile["sender"] # NoFile
  <2>1. /\ ReadPidFile("sender", closing.group, closing.pid)
        /\ UNCHANGED <<chatGroup, window, pidFile>>
    BY <1>3 DEF CloseSecond
  <2> DEFINE g == closing.group
             pid == closing.pid
  <2>2. /\ ReadPidFile("sender", g, pid) /\ g \in GroupName
        /\ g = closing.group /\ pid = closing.pid
    BY <1>1, <2>1
  <2> HIDE DEF g, pid
  <2>3. "sender" \in Kind
    BY DEF Kind
  <2> QED
    BY <1>1, <1>3, <2>1, <2>2, <2>3, ReadPidFileInv
<1> QED
  BY <1>2, <1>3

(* closeChat begins: the listeners' file is read.                          *)
LEMMA CloseChatInv ==
    ASSUME OpenerInv, NEW g \in GroupName, CloseChat(g)
    PROVE  OpenerInv'
<1>1. /\ closing.at = "returned" /\ pidFile["listener"] # NoFile
      /\ ReadPidFile("listener", g, NoPids)
      /\ UNCHANGED <<chatGroup, window, pidFile>>
  BY DEF CloseChat
<1> DEFINE pid == NoPids
<1>2. pid = NoPids /\ ReadPidFile("listener", g, pid) /\ "listener" \in Kind
  BY <1>1 DEF Kind
<1> HIDE DEF pid
<1> QED
  BY <1>1, <1>2, ReadPidFileInv

-----------------------------------------------------------------------------
(* The two kill() *)

(* Of each kind only the window whose pid was found is hit, and no line    *)
(* is left of it; or, when a pid was not set, the call is spoilt.          *)
LEMMA KillBothInv ==
    ASSUME OpenerInv, KillBoth
    PROVE  OpenerInv'
<1>1. /\ ChatOpenerTypeOK /\ WindowsInv /\ LinesInv /\ BufferInv /\ ClosingInv
      /\ UnspoiltInv /\ closing.at = "kill"
  BY DEF OpenerInv, KillBoth
<1>2. /\ chatGroup' = chatGroup /\ pidFile' = pidFile /\ spoilt' = spoilt
      /\ closing' = Returned
  BY DEF KillBoth
<1>3. PICK l \in Targets("listener", closing.pid["listener"]),
           s \in Targets("sender", closing.pid["sender"]) : window' = Killed(l \union s)
  BY DEF KillBoth
<1> DEFINE hit == l \union s
<1>4. \A kind \in Kind, c \in Chat :
            window'[kind][c] = IF <<kind, c>> \in hit /\ window[kind][c] \in {"starting", "running"}
                               THEN "killed" ELSE window[kind][c]
  BY <1>3 DEF Killed
<1>5. window' \in [Kind -> [Chat -> {"none", "starting", "running", "ended", "killed"}]]
  BY <1>1, <1>3 DEF ChatOpenerTypeOK, Killed
<1>6. \A kind \in Kind, c \in Chat :
            \/ window'[kind][c] = window[kind][c]
            \/ window'[kind][c] = "killed" /\ window[kind][c] \in {"starting", "running"}
  BY <1>4
<1>7. /\ Returned.at = "returned" /\ Returned.kind \in Kind
      /\ Returned.buffer \in Seq(Chat)
      /\ Returned.pid \in [Kind -> Chat \union {NoPid}]
      /\ \A kind \in Kind : Returned.pid[kind] = NoPid
      /\ Returned = Closing("returned", Returned.group, Returned.kind,
                            Returned.buffer, Returned.pid)
  BY ReturnedIs
<1>8. ChatOpenerTypeOK'
  BY <1>1, <1>2, <1>5, <1>7 DEF ChatOpenerTypeOK
<1>9. WindowsInv'
  BY <1>1, <1>2, <1>6 DEF WindowsInv
<1>10. LinesInv'
  <2>1. ASSUME NEW kind \in Kind
        PROVE  /\ NoLineTwice(FileOf(kind)')
               /\ \A c \in Held(FileOf(kind)') : window'[kind][c] \notin {"none", "starting"}
    <3>1. FileOf(kind)' = FileOf(kind)
      BY <1>2 DEF FileOf
    <3>2. Held(FileOf(kind)) \subseteq Chat
      BY FilesTyped
    <3>3. /\ NoLineTwice(FileOf(kind))
          /\ \A c \in Held(FileOf(kind)) : window[kind][c] \notin {"none", "starting"}
      BY <1>1 DEF LinesInv
    <3> QED
      BY <1>6, <3>1, <3>2, <3>3
  <2> QED
    BY <1>1, <1>2, <2>1 DEF LinesInv, NoLineTwice, Held
<1>11. BufferInv' /\ ClosingInv'
  BY <1>2, <1>7 DEF BufferInv, ClosingInv
<1>12. UnspoiltInv'
  <2> SUFFICES ASSUME ~spoilt', NEW kind \in Kind
               PROVE  UnspoiltKind(kind)'
    BY DEF UnspoiltInv
  <2>1. \A k \in Kind : UnspoiltKind(k)
    BY <1>1, <1>2 DEF UnspoiltInv
  <2>2. \A k \in Kind : /\ closing.pid[k] \in DOMAIN chatGroup
                        /\ closing.pid[k] \notin Held(FileOf(k))
    BY <1>1, <2>1 DEF UnspoiltKind, Sought, TakenOut
  <2>3. closing.pid["listener"] # NoPid /\ closing.pid["sender"] # NoPid
    BY <1>1, <2>2 DEF ChatOpenerTypeOK, NoPid, Kind
  <2>4. l \union s = {<<"listener", closing.pid["listener"]>>,
                      <<"sender", closing.pid["sender"]>>}
    BY <2>3 DEF Targets
  <2>5. \A c \in Chat : <<kind, c>> \in hit <=> c = closing.pid[kind]
    BY <2>4 DEF Kind
  <2> HIDE DEF hit
  <2>6. Held(FileOf(kind)) \subseteq Chat /\ FileOf(kind)' = FileOf(kind)
    BY <1>2, FilesTyped DEF FileOf
  <2>7. \A c \in Held(FileOf(kind)) : window'[kind][c] = window[kind][c]
    <3>1. ASSUME NEW c \in Held(FileOf(kind))
          PROVE  window'[kind][c] = window[kind][c]
      <4>1. c \in Chat /\ <<kind, c>> \notin hit
        BY <2>2, <2>5, <2>6
      <4> QED
        BY <1>4, <4>1
    <3> QED
      BY <3>1
  <2>8. ~Sought(kind)' /\ ~TakenOut(kind)' /\ closing'.at # "rewrite"
    BY <1>2, <1>7 DEF Sought, TakenOut
  <2>9. \A c \in Chat : window'[kind][c] = "running" => c \in Held(FileOf(kind))
    <3>1. ASSUME NEW c \in Chat, window'[kind][c] = "running"
          PROVE  c \in Held(FileOf(kind))
      <4>1. window[kind][c] = "running" /\ <<kind, c>> \notin hit
        BY <1>4, <3>1
      <4>2. c # closing.pid[kind]
        BY <2>5, <4>1
      <4> QED
        BY <2>1, <4>1, <4>2 DEF UnspoiltKind
    <3> QED
      BY <3>1
  <2> QED
    BY <2>1, <2>6, <2>7, <2>8, <2>9 DEF UnspoiltKind
<1> QED
  BY <1>8, <1>9, <1>10, <1>11, <1>12 DEF OpenerInv

-----------------------------------------------------------------------------
(* The invariant of the windows, the files and closeChat *)

(* At first there is no window, no file and no call.                       *)
LEMMA OpenerInit ==
    ASSUME ChatOpenerInit
    PROVE  OpenerInv
<1>1. /\ chatGroup = << >> /\ spoilt = FALSE /\ closing = Returned
      /\ window = [kind \in Kind |-> [c \in Chat |-> "none"]]
      /\ pidFile = [kind \in Kind |-> NoFile]
  BY DEF ChatOpenerInit
<1>2. /\ \A kind \in Kind : pidFile[kind] = NoFile /\ FileOf(kind) = << >>
      /\ \A kind \in Kind, c \in Chat : window[kind][c] = "none"
      /\ closing.at = "returned"
  BY <1>1, ReturnedIs DEF FileOf
<1>3. ChatOpenerTypeOK
  <2>1. chatGroup \in Seq(GroupName) /\ Len(chatGroup) = 0 /\ 0 <= MaxChats
    BY <1>1, ChatOpenerAssumption
  <2>2. window \in [Kind -> [Chat -> {"none", "starting", "running", "ended", "killed"}]]
    BY <1>1
  <2> QED
    BY <1>1, <1>2, <2>1, <2>2, ReturnedIs DEF ChatOpenerTypeOK
<1>4. WindowsInv
  BY <1>1, <1>2, ChatOpenerAssumption DEF WindowsInv, Chat
<1>5. LinesInv /\ BufferInv /\ UnspoiltInv
  <2>1. NoLineTwice(<< >>) /\ Held(<< >>) = {}
    BY DEF NoLineTwice, Held
  <2>2. LinesInv
    BY <1>1, <1>2, <2>1 DEF LinesInv
  <2>3. BufferInv
    BY <1>2 DEF BufferInv
  <2>4. UnspoiltInv
    BY <1>2, <2>1 DEF UnspoiltInv, UnspoiltKind, Sought, TakenOut
  <2> QED
    BY <2>2, <2>3, <2>4
<1>6. ClosingInv
  BY <1>1, ReturnedIs DEF ClosingInv
<1> QED
  BY <1>3, <1>4, <1>5, <1>6 DEF OpenerInv

(* A file that is there is never missing again.                            *)
FilesStay == \A kind \in Kind : pidFile[kind] # NoFile => pidFile'[kind] # NoFile

(* Every step keeps the invariant of the windows, and the files.           *)
LEMMA OpenerStep ==
    ASSUME OpenerInv, [ChatOpenerNext]_openerVars
    PROVE  OpenerInv' /\ FilesStay
<1>1. CASE UNCHANGED openerVars
  BY <1>1 DEF openerVars, FilesStay, OpenerInv, ChatOpenerTypeOK, WindowsInv, LinesInv,
              BufferInv, ClosingInv, UnspoiltInv, UnspoiltKind, FileOf, Sought, TakenOut
<1>2. ASSUME NEW g \in GroupName, OpenChat(g)
      PROVE  OpenerInv' /\ FilesStay
  BY <1>2, OpenChatInv DEF OpenChat, FilesStay
<1>3. ASSUME NEW g \in GroupName, CloseChat(g)
      PROVE  OpenerInv' /\ FilesStay
  BY <1>3, CloseChatInv DEF CloseChat, FilesStay
<1>4. CASE RewritePidFile
  BY <1>4, RewritePidFileInv DEF FilesStay
<1>5. CASE CloseSecond
  BY <1>5, CloseSecondInv DEF CloseSecond, FilesStay
<1>6. CASE KillBoth
  BY <1>6, KillBothInv DEF KillBoth, FilesStay
<1>7. CASE ProgramEnds
  BY <1>7, ReturnedInv DEF ProgramEnds, FilesStay
<1>8. ASSUME NEW kind \in Kind, NEW c \in Chat, SavePid(kind, c)
      PROVE  OpenerInv' /\ FilesStay
  BY <1>8, SavePidInv DEF FilesStay
<1>9. ASSUME NEW kind \in Kind, NEW c \in Chat, WindowEnds(kind, c)
      PROVE  OpenerInv' /\ FilesStay
  BY <1>9, WindowEndsInv DEF WindowEnds, FilesStay
<1> QED
  BY <1>1, <1>2, <1>3, <1>4, <1>5, <1>6, <1>7, <1>8, <1>9 DEF ChatOpenerNext

(* What the invariant says of the files and of the two kill().             *)
LEMMA OpenerTellsWindows ==
    ASSUME OpenerInv
    PROVE  FilesTellWindows
<1> SUFFICES ASSUME ~spoilt, NEW kind \in Kind
             PROVE  /\ \A c \in Chat :
                         window[kind][c] = "running" =>
                             c \in LinesOf(kind) \/ closing.pid[kind] = c
                    /\ \A c \in LinesOf(kind) :
                         window[kind][c] \in {"running", "ended"}
  BY DEF FilesTellWindows
<1>1. UnspoiltKind(kind) /\ LinesOf(kind) = Held(FileOf(kind))
  BY FilesTyped DEF OpenerInv, UnspoiltInv
<1> QED
  BY <1>1 DEF UnspoiltKind

(* The pid that was found is that of the only chat there is for the group. *)
LEMMA KillsBothWindows ==
    ASSUME OpenerInv, KillBoth, OpenedOnce(closing.group), ~spoilt
    PROVE  AllKilled
<1> DEFINE Opened == {c \in DOMAIN chatGroup : chatGroup[c] = closing.group}
<1>1. /\ ChatOpenerTypeOK /\ closing.at = "kill"
      /\ \A kind \in Kind : UnspoiltKind(kind)
  BY DEF OpenerInv, UnspoiltInv, KillBoth
<1>2. \A kind \in Kind : closing.pid[kind] \in Opened
  BY <1>1 DEF UnspoiltKind, Sought
<1>3. DOMAIN chatGroup = 1 .. Len(chatGroup) /\ Len(chatGroup) \in Nat
      /\ Len(chatGroup) <= MaxChats
  BY <1>1 DEF ChatOpenerTypeOK
<1>4. IsFiniteSet(Opened)
  <2>1. IsFiniteSet(1 .. Len(chatGroup))
    BY <1>3, FS_Interval
  <2>2. Opened \subseteq 1 .. Len(chatGroup)
    BY <1>3
  <2> QED
    BY <2>1, <2>2, FS_Subset
<1>5. Cardinality(Opened) = 1
  BY DEF OpenedOnce
<1> HIDE DEF Opened
<1>6. PICK only : Opened = {only}
  BY <1>4, <1>5, FS_Singleton
<1>7. \A kind \in Kind : closing.pid[kind] = only
  BY <1>2, <1>6
<1>8. only \in Chat /\ only # NoPid
  BY <1>3, <1>6, ChatOpenerAssumption DEF Opened, Chat, NoPid
<1>9. PICK l \in Targets("listener", closing.pid["listener"]),
           s \in Targets("sender", closing.pid["sender"]) : window' = Killed(l \union s)
  BY DEF KillBoth
<1>10. \A kind \in Kind : <<kind, only>> \in l \union s
  BY <1>7, <1>8 DEF Targets, Kind
<1>11. \A kind \in Kind : window'[kind][only] \notin {"starting", "running"}
  BY <1>8, <1>9, <1>10 DEF Killed
<1> QED
  BY <1>6, <1>11 DEF AllKilled, Opened

-----------------------------------------------------------------------------
(* Steps of the program *)

(* To the windows and the files a program is a sequence of calls of        *)
(* openChat and closeChat, that may be cut short.                          *)
LEMMA ProgramStepIsOpenerStep ==
    ASSUME CountsInv, ClientChatsNext
    PROVE  [ChatOpenerNext]_openerVars
<1>1. ASSUME NEW g \in GroupName, JoinGroup(g)
      PROVE  ChatOpenerNext
  BY <1>1 DEF JoinGroup, ChatOpenerNext
<1>2. ASSUME NEW g \in GroupName, LeaveGroup(g)
      PROVE  [ChatOpenerNext]_openerVars
  BY <1>2 DEF LeaveGroup, CloseFails, ChatOpenerNext
<1>3. CASE LogOutClient
  BY <1>3 DEF LogOutClient
<1>4. CASE CloseAllChats
  <2>1. CASE UNCHANGED openerVars
    BY <2>1
  <2>2. CASE program.groups # << >> /\ CloseChat(program.groups[1])
    <3>1. program.groups[1] \in GroupName
      BY <2>2 DEF CountsInv
    <3> QED
      BY <2>2, <3>1 DEF ChatOpenerNext
  <2> QED
    BY <1>4, <2>1, <2>2 DEF CloseAllChats, CloseFails
<1>5. CASE CloseTheChat
  BY <1>5 DEF CloseTheChat, ChatOpenerNext
<1>6. CASE ProgramKilled
  BY <1>6 DEF ProgramKilled, ChatOpenerNext
<1>7. CASE Restart
  BY <1>7 DEF Restart
<1>8. ASSUME NEW kind \in Kind, NEW c \in Chat, SavePid(kind, c) \/ WindowEnds(kind, c)
      PROVE  ChatOpenerNext
  BY <1>8 DEF ChatOpenerNext
<1> QED
  BY <1>1, <1>2, <1>3, <1>4, <1>5, <1>6, <1>7, <1>8 DEF ClientChatsNext

(* A window that is closed stays closed, as long as no chat is opened.     *)
LEMMA ClosedStays ==
    ASSUME [ChatOpenerNext]_openerVars, OpenerInv, chatGroup' = chatGroup,
           NEW c \in Chat, Closed(c)
    PROVE  Closed(c)'
<1>1. CASE window' = window
  BY <1>1 DEF Closed
<1>2. ASSUME NEW g \in GroupName, OpenChat(g)
      PROVE  FALSE
  <2>1. chatGroup \in Seq(GroupName) /\ chatGroup' = Append(chatGroup, g)
    BY <1>2 DEF OpenChat, OpenerInv, ChatOpenerTypeOK
  <2> QED
    BY <2>1
<1>3. ASSUME NEW k \in Kind, NEW e \in Chat, SavePid(k, e) \/ WindowEnds(k, e)
      PROVE  Closed(c)'
  <2>1. /\ window[k][e] \in {"starting", "running"}
        /\ \/ window' = [window EXCEPT ![k][e] = "running"]
           \/ window' = [window EXCEPT ![k][e] = "ended"]
    BY <1>3 DEF SavePid, WindowEnds
  <2>2. e # c
    BY <2>1 DEF Closed
  <2>3. \A kind \in Kind : window'[kind][c] = window[kind][c]
    BY <2>1, <2>2 DEF OpenerInv, ChatOpenerTypeOK
  <2> QED
    BY <2>3 DEF Closed
<1>4. CASE KillBoth
  <2>1. PICK l \in Targets("listener", closing.pid["listener"]),
             s \in Targets("sender", closing.pid["sender"]) : window' = Killed(l \union s)
    BY <1>4 DEF KillBoth
  <2>2. \A kind \in Kind : window'[kind][c] = window[kind][c]
    BY <2>1 DEF Killed, Closed
  <2> QED
    BY <2>2 DEF Closed
<1> QED
  BY <1>1, <1>2, <1>3, <1>4 DEF ChatOpenerNext, openerVars, CloseChat, RewritePidFile,
     CloseSecond, ProgramEnds

(* The numbers of a program, and of the chats opened so far.               *)
LEMMA CountsTyped ==
    ASSUME OpenerInv, CountsInv
    PROVE  /\ Len(chatGroup) \in Nat /\ MaxChats \in Nat /\ Len(chatGroup) <= MaxChats
           /\ program.since \in Nat /\ program.since >= 1
           /\ program.round \in Nat /\ program.numOfGroups \in Nat
           /\ program.round <= program.numOfGroups
           /\ program.numOfGroups = Len(chatGroup) + 1 - program.since
           /\ Len(program.groups) \in Nat /\ Len(program.groups) <= program.numOfGroups
<1>1. Len(chatGroup) \in Nat /\ MaxChats \in Nat /\ Len(chatGroup) <= MaxChats
  BY ChatOpenerAssumption DEF OpenerInv, ChatOpenerTypeOK
<1>2. program.groups \in Seq(GroupName)
  BY DEF CountsInv
<1>3. Len(program.groups) \in Nat
  BY <1>2
<1>4. /\ program.since \in 1 .. Len(chatGroup) + 1
      /\ program.numOfGroups = Len(chatGroup) + 1 - program.since
      /\ program.round \in 0 .. program.numOfGroups
      /\ Len(program.groups) <= program.numOfGroups
  BY DEF CountsInv
<1> HIDE DEF CountsInv
<1> QED
  BY <1>1, <1>3, <1>4

(* A step at which no chat is opened and no round of the logout ends.      *)
LEMMA LogoutKept ==
    ASSUME OpenerInv, [ChatOpenerNext]_openerVars, CountsInv, chatGroup' = chatGroup,
           program'.groups = program.groups, program'.round = program.round,
           program'.numOfGroups = program.numOfGroups,
           program'.since = program.since,
           ListInv, RoundsClosed
    PROVE  ListInv' /\ RoundsClosed'
<1>1. ListInv'
  BY DEF ListInv
<1>2. RoundsClosed'
  <2>1. ASSUME NEW c \in program.since .. program.since + program.round - 1,
               OpenedOnce(chatGroup[c])
        PROVE  Closed(c)'
    <3>1. c \in Chat
      BY CountsTyped DEF Chat
    <3>2. Closed(c)
      BY <2>1 DEF RoundsClosed
    <3> QED
      BY <3>1, <3>2, ClosedStays
  <2> QED
    BY <2>1 DEF RoundsClosed, OpenedOnce
<1> QED
  BY <1>1, <1>2

(* createGroup or joinGroup.                                               *)
LEMMA JoinGroupInv ==
    ASSUME OpenerInv, ProgramInv, NEW g \in GroupName, JoinGroup(g)
    PROVE  ProgramInv'
<1>1. CountsInv /\ RoundsInv /\ LogoutInv /\ ChatOpenerTypeOK
  BY DEF ProgramInv, OpenerInv
<1>2. /\ program.at = "menu" /\ closing.at = "returned"
      /\ pidFile' = pidFile /\ closing' = closing /\ spoilt' = spoilt
      /\ chatGroup' = Append(chatGroup, g)
      /\ program' = [AddGroup(program, g) EXCEPT !.member = @ \union {g}]
  BY DEF JoinGroup, OpenChat
<1>3. /\ program'.at = "menu" /\ program'.groups = Append(program.groups, g)
      /\ program'.numOfGroups = program.numOfGroups + 1
      /\ program'.round = program.round /\ program'.since = program.since
      /\ program'.left = program.left /\ program'.missed = program.missed
      /\ program' = [at |-> program'.at, groups |-> program'.groups,
                     numOfGroups |-> program'.numOfGroups, member |-> program'.member,
                     round |-> program'.round, since |-> program'.since,
                     left |-> program'.left, missed |-> program'.missed]
  BY <1>1, <1>2 DEF CountsInv, AddGroup
<1>4. /\ program.groups \in Seq(GroupName) /\ chatGroup \in Seq(GroupName)
      /\ program.round = 0
  BY <1>1, <1>2 DEF CountsInv, ChatOpenerTypeOK
<1>5. /\ program'.groups \in Seq(GroupName)
      /\ Len(program'.groups) = Len(program.groups) + 1
      /\ Len(chatGroup') = Len(chatGroup) + 1
      /\ \A i \in 1 .. Len(chatGroup) : chatGroup'[i] = chatGroup[i]
      /\ chatGroup'[Len(chatGroup) + 1] = g
      /\ \A i \in 1 .. Len(program.groups) : program'.groups[i] = program.groups[i]
      /\ program'.groups[Len(program.groups) + 1] = g
  <2>1. chatGroup' = Append(chatGroup, g) /\ program'.groups = Append(program.groups, g)
    BY <1>2, <1>3
  <2> QED
    BY <1>4, <2>1, AppendProperties
<1>6. CountsInv'
  BY <1>1, <1>2, <1>3, <1>4, <1>5, CountsTyped DEF CountsInv
<1>7. RoundsInv'
  <2>1. IF program.left THEN Len(program.groups) + program.round < program.numOfGroups
        ELSE Len(program.groups) + program.round >= program.numOfGroups
    BY <1>1, <1>2 DEF RoundsInv, Running
  <2>2. IF program'.left THEN Len(program'.groups) + program'.round < program'.numOfGroups
        ELSE Len(program'.groups) + program'.round >= program'.numOfGroups
    BY <1>1, <1>3, <1>5, <2>1, CountsTyped
  <2>3. program'.left => \A kind \in Kind : pidFile'[kind] # NoFile
    BY <1>1, <1>2, <1>3 DEF RoundsInv
  <2> QED
    BY <1>3, <2>2, <2>3 DEF RoundsInv
<1>8. LogoutInv'
  <2> SUFFICES ASSUME Faultless'
               PROVE  ListInv' /\ RoundsClosed'
    BY <1>2 DEF LogoutInv
  <2>1. ListInv
    BY <1>1, <1>2, <1>3 DEF LogoutInv, Faultless, Running
  <2>2. ListInv'
    <3>1. Len(program'.groups) = program'.numOfGroups - program'.round
      BY <1>3, <1>5, <2>1, CountsTyped, <1>1 DEF ListInv
    <3>2. ASSUME NEW i \in 1 .. Len(program'.groups)
          PROVE  program'.groups[i] = chatGroup'[program'.since + program'.round + i - 1]
      <4>1. CASE i \in 1 .. Len(program.groups)
        <5>1. program.since + program.round + i - 1 \in 1 .. Len(chatGroup)
          BY <1>1, <1>4, <4>1, CountsTyped
        <5> QED
          BY <1>3, <1>5, <2>1, <4>1, <5>1 DEF ListInv
      <4>2. CASE i = Len(program.groups) + 1
        <5>1. program.since + program.round + i - 1 = Len(chatGroup) + 1
          BY <1>1, <1>4, <2>1, <4>2, CountsTyped DEF ListInv
        <5> QED
          BY <1>3, <1>5, <4>2, <5>1
      <4> QED
        BY <1>1, <1>5, <4>1, <4>2, CountsTyped
    <3> QED
      BY <3>1, <3>2 DEF ListInv
  <2>3. RoundsClosed'
    BY <1>1, <1>3, <1>4, CountsTyped DEF RoundsClosed
  <2> QED
    BY <2>2, <2>3
<1> QED
  BY <1>6, <1>7, <1>8 DEF ProgramInv

(* Most steps leave the list alone, and the number of rounds it stands for.*)
SameList ==
    /\ chatGroup' = chatGroup
    /\ program' = [at |-> program'.at, groups |-> program'.groups,
                   numOfGroups |-> program'.numOfGroups, member |-> program'.member,
                   round |-> program'.round, since |-> program'.since,
                   left |-> program'.left, missed |-> program'.missed]
    /\ program'.groups = program.groups /\ program'.numOfGroups = program.numOfGroups
    /\ program'.since = program.since /\ program'.left = program.left
    /\ program'.missed \in BOOLEAN /\ program'.missed \in {program.missed, TRUE}

(* The counts, over such a step.                                           *)
LEMMA SameListCounts ==
    ASSUME CountsInv, SameList,
           program'.at \in {"menu", "leave", "logout", "out", "gone", "crashed"},
           program'.round \in 0 .. program.numOfGroups,
           closing'.at # "returned" => program'.at \in {"leave", "logout"},
           program'.at = "leave" => closing'.at # "returned",
           program'.at \in {"menu", "leave"} => program'.round = 0
    PROVE  CountsInv'
BY DEF CountsInv, SameList

(* A round that closes no window is one more only before a chat was left.  *)
LEMMA SameListRounds ==
    ASSUME OpenerInv, CountsInv, RoundsInv, SameList, FilesStay,
           Running' => Running,
           \/ program'.round = program.round
           \/ program'.round = program.round + 1 /\ ~program.left,
           program'.at = "logout" /\ closing'.at # "returned" =>
               program.groups # << >> /\ program'.round < program.numOfGroups,
           program'.at = "crashed" => program.left,
           program'.at = "out" => ~program.left /\ program'.round = program.numOfGroups
    PROVE  RoundsInv'
<1>1. program'.left => \A kind \in Kind : pidFile'[kind] # NoFile
  BY DEF RoundsInv, SameList, FilesStay
<1>2. ASSUME Running'
      PROVE  IF program'.left
             THEN Len(program'.groups) + program'.round < program'.numOfGroups
             ELSE Len(program'.groups) + program'.round >= program'.numOfGroups
  <2>1. IF program.left THEN Len(program.groups) + program.round < program.numOfGroups
        ELSE Len(program.groups) + program.round >= program.numOfGroups
    BY <1>2 DEF RoundsInv
  <2> QED
    BY <2>1, CountsTyped DEF SameList
<1> QED
  BY <1>1, <1>2 DEF RoundsInv, SameList

(* The history does not forget.                                            *)
LEMMA SpoiltStays ==
    ASSUME [ChatOpenerNext]_openerVars, spoilt
    PROVE  spoilt'
BY DEF ChatOpenerNext, openerVars, OpenChat, CloseChat, RewritePidFile, CloseSecond,
       KillBoth, ProgramEnds, SavePid, WindowEnds, ReadPidFile

(* What the logout has done, over such a step.                             *)
LEMMA SameListLogout ==
    ASSUME OpenerInv, [ChatOpenerNext]_openerVars, CountsInv, LogoutInv, SameList,
           program'.missed = TRUE \/ program'.round = program.round,
           Running' => Running, program'.at = "out" => Running \/ program.at = "out",
           program'.at = "logout" /\ closing'.at # "returned" =>
               closing'.group = program.groups[1]
    PROVE  LogoutInv'
<1> SUFFICES ASSUME Faultless', Running' \/ program'.at = "out"
             PROVE  ListInv' /\ RoundsClosed'
  BY DEF LogoutInv, SameList
<1>1. program'.missed # TRUE
  BY DEF Faultless
<1>2. Faultless
  BY SpoiltStays DEF Faultless, SameList, CountsInv
<1>3. Running \/ program.at = "out"
  BY DEF Running
<1>4. ListInv /\ RoundsClosed
  BY <1>2, <1>3 DEF LogoutInv
<1> QED
  BY <1>1, <1>4, LogoutKept DEF SameList

(* leaveGroup, up to closeChat or its failing.                             *)
LEMMA LeaveGroupInv ==
    ASSUME OpenerInv, ProgramInv, [ChatOpenerNext]_openerVars, FilesStay,
           NEW g \in GroupName, LeaveGroup(g)
    PROVE  ProgramInv'
<1>1. CountsInv /\ RoundsInv /\ LogoutInv /\ program.at = "menu"
  BY DEF ProgramInv, LeaveGroup
<1>2. program.round = 0 /\ program.numOfGroups \in Nat
  BY <1>1, CountsTyped DEF CountsInv
<1>3. CASE CloseChat(g) /\ program' = [[program EXCEPT !.member = @ \ {g}] EXCEPT !.at = "leave"]
  <2>1. SameList /\ program'.at = "leave" /\ program'.round = program.round
    BY <1>1, <1>3 DEF SameList, CountsInv, CloseChat
  <2>2. closing'.at = "rewrite"
    BY <1>3 DEF CloseChat, ReadPidFile, Closing
  <2>3. CountsInv'
    BY <1>1, <1>2, <2>1, <2>2, SameListCounts
  <2>4. RoundsInv'
    BY <1>1, <2>1, SameListRounds DEF Running
  <2>5. LogoutInv'
    BY <1>1, <2>1, SameListLogout DEF Running
  <2> QED
    BY <2>3, <2>4, <2>5 DEF ProgramInv
<1>4. CASE CloseFails /\ program' = [[program EXCEPT !.member = @ \ {g}] EXCEPT !.missed = TRUE]
  <2>1. /\ SameList /\ program'.at = "menu" /\ program'.round = program.round
        /\ program'.missed = TRUE /\ closing' = closing
    BY <1>1, <1>4 DEF SameList, CountsInv, CloseFails, openerVars
  <2>2. closing.at = "returned"
    BY <1>1 DEF CountsInv
  <2>3. CountsInv'
    BY <1>1, <1>2, <2>1, <2>2, SameListCounts
  <2>4. RoundsInv'
    BY <1>1, <2>1, SameListRounds DEF Running
  <2>5. LogoutInv'
    BY <1>1, <2>1, SameListLogout DEF Running
  <2> QED
    BY <2>3, <2>4, <2>5 DEF ProgramInv
<1> QED
  BY <1>3, <1>4 DEF LeaveGroup

(* The server has answered the logout.                                     *)
LEMMA LogOutClientInv ==
    ASSUME OpenerInv, ProgramInv, [ChatOpenerNext]_openerVars, FilesStay, LogOutClient
    PROVE  ProgramInv'
<1>1. CountsInv /\ RoundsInv /\ LogoutInv /\ program.at = "menu"
  BY DEF ProgramInv, LogOutClient
<1>2. PICK at \in {"logout", "gone"} : program' = [program EXCEPT !.at = at]
  BY DEF LogOutClient
<1>3. /\ SameList /\ program'.at = at /\ program'.round = program.round
      /\ closing' = closing /\ closing.at = "returned"
  BY <1>1, <1>2 DEF SameList, CountsInv, LogOutClient, openerVars
<1>4. program.round \in 0 .. program.numOfGroups
  BY <1>1 DEF CountsInv
<1>5. CountsInv'
  BY <1>1, <1>3, <1>4, SameListCounts
<1>6. RoundsInv'
  BY <1>1, <1>3, SameListRounds DEF Running
<1>7. LogoutInv'
  BY <1>1, <1>3, SameListLogout DEF Running
<1> QED
  BY <1>5, <1>6, <1>7 DEF ProgramInv

(* A round of closeAllChats up to closeChat, or its end.                   *)
LEMMA CloseAllChatsInv ==
    ASSUME OpenerInv, ProgramInv, [ChatOpenerNext]_openerVars, FilesStay, CloseAllChats
    PROVE  ProgramInv'
<1>1. /\ CountsInv /\ RoundsInv /\ LogoutInv
      /\ program.at = "logout" /\ closing.at = "returned"
  BY DEF ProgramInv, CloseAllChats
<1>2. /\ program.round \in Nat /\ program.numOfGroups \in Nat
      /\ program.round <= program.numOfGroups
      /\ Len(program.groups) \in Nat
      /\ program.left => Len(program.groups) + program.round < program.numOfGroups
      /\ ~program.left => Len(program.groups) + program.round >= program.numOfGroups
  BY <1>1, CountsTyped DEF RoundsInv, Running
<1>3. CASE ~MoreRounds /\ program' = [program EXCEPT !.at = "out"] /\ UNCHANGED openerVars
  <2>1. /\ SameList /\ program'.at = "out" /\ program'.round = program.round
        /\ closing' = closing
    BY <1>1, <1>3 DEF SameList, CountsInv, openerVars
  <2>2. program.round = program.numOfGroups /\ ~program.left
    BY <1>2, <1>3 DEF MoreRounds
  <2>3. CountsInv'
    BY <1>1, <1>2, <2>1, SameListCounts
  <2>4. RoundsInv'
    BY <1>1, <2>1, <2>2, SameListRounds DEF Running
  <2>5. LogoutInv'
    BY <1>1, <2>1, SameListLogout DEF Running
  <2> QED
    BY <2>3, <2>4, <2>5 DEF ProgramInv
<1>4. CASE /\ MoreRounds /\ CloseFails
           /\ program' = [program EXCEPT !.round = @ + 1, !.missed = TRUE]
  <2>1. /\ SameList /\ program'.at = "logout" /\ program'.round = program.round + 1
        /\ program'.missed = TRUE /\ closing' = closing
    BY <1>1, <1>4 DEF SameList, CountsInv, CloseFails, openerVars
  <2>2. program.round + 1 \in 0 .. program.numOfGroups
    BY <1>2, <1>4 DEF MoreRounds
  <2>3. ~program.left
    BY <1>1, <1>4 DEF RoundsInv, CloseFails, Kind
  <2>4. CountsInv'
    BY <1>1, <2>1, <2>2, SameListCounts
  <2>5. RoundsInv'
    BY <1>1, <2>1, <2>3, SameListRounds DEF Running
  <2>6. LogoutInv'
    BY <1>1, <2>1, SameListLogout DEF Running
  <2> QED
    BY <2>4, <2>5, <2>6 DEF ProgramInv
<1>5. CASE /\ MoreRounds /\ program.groups = << >>
           /\ program' = [program EXCEPT !.at = "crashed"] /\ UNCHANGED openerVars
  <2>1. /\ SameList /\ program'.at = "crashed" /\ program'.round = program.round
        /\ closing' = closing
    BY <1>1, <1>5 DEF SameList, CountsInv, openerVars
  <2>2. program.left
    <3>1. Len(program.groups) = 0
      BY <1>5
    <3> QED
      BY <1>2, <1>5, <3>1 DEF MoreRounds
  <2>3. CountsInv'
    BY <1>1, <1>2, <2>1, SameListCounts
  <2>4. RoundsInv'
    BY <1>1, <2>1, <2>2, SameListRounds DEF Running
  <2>5. LogoutInv'
    BY <1>1, <2>1, SameListLogout DEF Running
  <2> QED
    BY <2>3, <2>4, <2>5 DEF ProgramInv
<1>6. CASE /\ MoreRounds /\ program.groups # << >>
           /\ CloseChat(program.groups[1]) /\ UNCHANGED program
  <2>1. SameList /\ program' = program
    BY <1>1, <1>6 DEF SameList, CountsInv, CloseChat
  <2>2. closing'.at = "rewrite" /\ closing'.group = program.groups[1]
    BY <1>6 DEF CloseChat, ReadPidFile, Closing
  <2>3. program.round < program.numOfGroups
    BY <1>6 DEF MoreRounds
  <2>4. CountsInv'
    BY <1>1, <1>2, <2>1, SameListCounts
  <2>5. RoundsInv'
    BY <1>1, <1>6, <2>1, <2>3, SameListRounds DEF Running
  <2>6. LogoutInv'
    BY <1>1, <2>1, <2>2, SameListLogout DEF Running
  <2> QED
    BY <2>4, <2>5, <2>6 DEF ProgramInv
<1> QED
  BY <1>3, <1>4, <1>5, <1>6 DEF CloseAllChats

(* closeTheChat, while closeChat runs or when it finds no second file.     *)
LEMMA CloseTheChatGoesOn ==
    ASSUME OpenerInv, ProgramInv, [ChatOpenerNext]_openerVars, FilesStay,
           RewritePidFile \/ CloseSecond, closing'.at # "returned", UNCHANGED program
    PROVE  ProgramInv'
<1>1. CountsInv /\ RoundsInv /\ LogoutInv /\ ClosingInv /\ closing.at # "returned"
  BY DEF ProgramInv, OpenerInv, RewritePidFile, CloseSecond
<1>2. SameList /\ program' = program
  BY <1>1 DEF SameList, CountsInv, RewritePidFile, CloseSecond
<1>3. closing'.group = closing.group
  <2>1. CASE RewritePidFile
    BY <1>1, <2>1 DEF RewritePidFile, ClosingInv, Closing
  <2>2. CASE CloseSecond
    <3>1. pidFile["sender"] # NoFile
      BY <2>2, ReturnedIs DEF CloseSecond
    <3> QED
      BY <2>2, <3>1 DEF CloseSecond, ReadPidFile, Closing
  <2> QED
    BY <2>1, <2>2
<1>4. CountsInv'
  <2>1. program.at # "menu" /\ program.at \in {"leave", "logout"}
    BY <1>1 DEF CountsInv
  <2>2. /\ program.round \in 0 .. program.numOfGroups
        /\ program.at = "leave" => program.round = 0
    BY <1>1 DEF CountsInv
  <2> QED
    BY <1>1, <1>2, <2>1, <2>2, SameListCounts
<1>5. RoundsInv'
  <2>1. program.at = "logout" => program.groups # << >> /\ program.round < program.numOfGroups
    BY <1>1 DEF RoundsInv
  <2>2. /\ program.at = "crashed" => program.left
        /\ program.at = "out" => ~program.left /\ program.round = program.numOfGroups
    BY <1>1 DEF RoundsInv
  <2> QED
    BY <1>1, <1>2, <2>1, <2>2, SameListRounds DEF Running
<1>6. LogoutInv'
  <2>1. CASE Faultless /\ program.at = "logout"
    <3>1. closing.group = program.groups[1]
      BY <1>1, <2>1 DEF LogoutInv, Running
    <3> QED
      BY <1>1, <1>2, <1>3, <3>1, SameListLogout DEF Running
  <2>2. CASE program.at # "logout"
    BY <1>1, <1>2, <2>2, SameListLogout DEF Running
  <2>3. CASE ~Faultless
    <3>1. ~Faultless'
      BY <1>2, <2>3, SpoiltStays DEF Faultless
    <3> QED
      BY <3>1 DEF LogoutInv
  <2> QED
    BY <2>1, <2>2, <2>3
<1> QED
  BY <1>4, <1>5, <1>6 DEF ProgramInv

(* closeChat returns without having killed anybody.                        *)
LEMMA CloseTheChatMisses ==
    ASSUME OpenerInv, ProgramInv, [ChatOpenerNext]_openerVars, FilesStay,
           CloseSecond, closing'.at = "returned",
           program' = Continued([program EXCEPT !.missed = TRUE])
    PROVE  ProgramInv'
<1>1. /\ CountsInv /\ RoundsInv /\ LogoutInv /\ closing.at = "second"
      /\ program.at \in {"leave", "logout"}
  BY DEF ProgramInv, CloseSecond, CountsInv
<1>2. pidFile["sender"] = NoFile
  BY DEF CloseSecond, ReadPidFile, Closing
<1>3. ~program.left
  BY <1>1, <1>2 DEF RoundsInv, Kind
<1>4. /\ SameList /\ program'.missed = TRUE
      /\ \/ program'.at = "menu" /\ program'.round = program.round /\ program.round = 0
         \/ /\ program'.at = "logout" /\ program.at = "logout"
            /\ program'.round = program.round + 1
  <2>1. CASE program.at = "leave"
    BY <1>1, <2>1 DEF SameList, CountsInv, Continued, CloseSecond
  <2>2. CASE program.at = "logout"
    BY <1>1, <2>2 DEF SameList, CountsInv, Continued, CloseSecond
  <2> QED
    BY <1>1, <2>1, <2>2
<1>5. program'.round \in 0 .. program.numOfGroups
  <2>1. /\ program.round \in Nat /\ program.numOfGroups \in Nat
        /\ program.round <= program.numOfGroups
    BY <1>1, CountsTyped
  <2>2. program.at = "logout" => program.round < program.numOfGroups
    BY <1>1 DEF RoundsInv
  <2> QED
    BY <1>4, <2>1, <2>2
<1>6. CountsInv'
  BY <1>1, <1>4, <1>5, SameListCounts
<1>7. RoundsInv'
  BY <1>1, <1>3, <1>4, SameListRounds DEF Running
<1>8. LogoutInv'
  BY <1>1, <1>4, SameListLogout DEF Running
<1> QED
  BY <1>6, <1>7, <1>8 DEF ProgramInv

(* The group goes off the list; in a round of the logout it is the one     *)
(* whose windows are killed.                                               *)
LEMMA CloseTheChatEnds ==
    ASSUME OpenerInv, ProgramInv, [ChatOpenerNext]_openerVars, FilesStay,
           KillBoth,
           program' = Continued([program EXCEPT
                        !.groups = RemoveGroup(@),
                        !.left = @ \/ (program.at = "leave" /\ program.groups # << >>)])
    PROVE  ProgramInv'
<1> DEFINE rest == RemoveGroup(program.groups)
           left == program.left \/ (program.at = "leave" /\ program.groups # << >>)
<1>1. /\ CountsInv /\ RoundsInv /\ LogoutInv /\ ClosingInv /\ closing.at = "kill"
      /\ program.at \in {"leave", "logout"}
  BY DEF ProgramInv, OpenerInv, KillBoth, CountsInv
<1>2. /\ chatGroup' = chatGroup /\ pidFile' = pidFile /\ spoilt' = spoilt
      /\ closing' = Returned /\ closing'.at = "returned"
  BY ReturnedIs DEF KillBoth
<1>3. /\ program' = [at |-> program'.at, groups |-> program'.groups,
                     numOfGroups |-> program'.numOfGroups, member |-> program'.member,
                     round |-> program'.round, since |-> program'.since,
                     left |-> program'.left, missed |-> program'.missed]
      /\ program'.groups = rest /\ program'.left = left
      /\ program'.numOfGroups = program.numOfGroups
      /\ program'.since = program.since /\ program'.missed = program.missed
      /\ \/ /\ program.at = "leave" /\ program'.at = "menu"
            /\ program'.round = program.round
         \/ /\ program.at = "logout" /\ program'.at = "logout"
            /\ program'.round = program.round + 1
  <2>1. CASE program.at = "leave"
    BY <1>1, <2>1 DEF CountsInv, Continued
  <2>2. CASE program.at = "logout"
    BY <1>1, <2>2 DEF CountsInv, Continued
  <2> QED
    BY <1>1, <2>1, <2>2
<1>4. /\ program.groups \in Seq(GroupName) /\ rest \in Seq(GroupName)
      /\ program.groups = << >> => Len(program.groups) = 0 /\ rest = program.groups
      /\ program.groups # << >> =>
            /\ Len(program.groups) >= 1 /\ Len(rest) = Len(program.groups) - 1
            /\ \A i \in 1 .. Len(rest) : rest[i] = program.groups[i + 1]
  <2>1. program.groups \in Seq(GroupName)
    BY <1>1 DEF CountsInv
  <2>2. CASE program.groups = << >>
    BY <2>1, <2>2 DEF RemoveGroup
  <2>3. CASE program.groups # << >>
    <3>1. rest = Tail(program.groups)
      BY <2>3 DEF RemoveGroup
    <3> QED
      BY <2>1, <2>3, <3>1
  <2> QED
    BY <2>1, <2>2, <2>3
<1> HIDE DEF rest
<1>5. /\ program.left \in BOOLEAN /\ program.missed \in BOOLEAN
      /\ program.at = "leave" => program.round = 0
      /\ program.at = "logout" =>
            program.groups # << >> /\ program.round < program.numOfGroups
      /\ program.left => Len(program.groups) + program.round < program.numOfGroups
      /\ ~program.left => Len(program.groups) + program.round >= program.numOfGroups
  BY <1>1 DEF CountsInv, RoundsInv, Running
<1>6. /\ program.round \in Nat /\ program.numOfGroups \in Nat
      /\ Len(program.groups) \in Nat /\ Len(program.groups) <= program.numOfGroups
      /\ program.round <= program.numOfGroups
  BY <1>1, CountsTyped
<1>7. Len(rest) \in Nat /\ Len(rest) <= program.numOfGroups
  BY <1>4, <1>6
<1>8. CountsInv'
  <2>1. program'.round \in 0 .. program.numOfGroups
    BY <1>3, <1>5, <1>6
  <2>2. /\ program.since \in 1 .. Len(chatGroup) + 1
        /\ program.numOfGroups = Len(chatGroup) + 1 - program.since
    BY <1>1 DEF CountsInv
  <2>3. program'.left \in BOOLEAN /\ program'.missed \in BOOLEAN
    BY <1>3, <1>5
  <2> QED
    BY <1>2, <1>3, <1>4, <1>5, <1>7, <2>1, <2>2, <2>3 DEF CountsInv
<1>9. RoundsInv'
  <2>1. \A kind \in Kind : pidFile'[kind] # NoFile
    BY <1>1, <1>2 DEF ClosingInv, Kind
  <2>2. IF program'.left THEN Len(program'.groups) + program'.round < program'.numOfGroups
        ELSE Len(program'.groups) + program'.round >= program'.numOfGroups
    <3>1. CASE program.groups = << >>
      BY <1>3, <1>4, <1>5, <1>6, <3>1
    <3>2. CASE program.groups # << >>
      <4>1. Len(rest) = Len(program.groups) - 1
        BY <1>4, <3>2
      <4>2. CASE program.at = "leave"
        <5>1. program'.left /\ program'.round = 0
          BY <1>3, <1>5, <3>2, <4>2
        <5> QED
          BY <1>3, <1>5, <1>6, <4>1, <4>2, <5>1
      <4>3. CASE program.at = "logout"
        <5>1. program'.left = program.left /\ program'.round = program.round + 1
          BY <1>3, <1>5, <4>3
        <5> QED
          BY <1>3, <1>5, <1>6, <4>1, <5>1
      <4> QED
        BY <1>1, <4>2, <4>3
    <3> QED
      BY <3>1, <3>2
  <2> QED
    BY <1>2, <1>3, <2>1, <2>2 DEF RoundsInv
<1>10. LogoutInv'
  <2> SUFFICES ASSUME Faultless'
               PROVE  ListInv' /\ RoundsClosed'
    BY <1>2 DEF LogoutInv
  <2>1. Faultless /\ ~left
    BY <1>2, <1>3 DEF Faultless
  <2>2. /\ ListInv /\ RoundsClosed
        /\ program.at = "logout" => closing.group = program.groups[1]
    BY <1>1, <2>1 DEF LogoutInv, Running
  <2>3. CASE program.at = "leave"
    <3>1. /\ program'.groups = program.groups /\ program'.round = program.round
          /\ program'.numOfGroups = program.numOfGroups
          /\ program'.since = program.since
      BY <1>3, <1>4, <2>1, <2>3
    <3> QED
      BY <1>1, <1>2, <2>2, <3>1, LogoutKept
  <2>4. CASE program.at = "logout"
    <3> DEFINE r == program.since + program.round
    <3>1. /\ program.since \in Nat /\ program.since >= 1 /\ r \in Nat
          /\ r <= Len(chatGroup) /\ Len(chatGroup) \in Nat
          /\ MaxChats \in Nat /\ Len(chatGroup) <= MaxChats
      BY <1>1, <1>5, <1>6, <2>4, CountsTyped
    <3>2. /\ program'.groups = rest /\ program'.round = program.round + 1
          /\ program'.since = program.since
          /\ program'.since + program'.round = r + 1
          /\ program'.since + program'.round - 1 = r
      BY <1>3, <1>6, <2>4, <3>1
    <3>3. /\ Len(program.groups) = program.numOfGroups - program.round
          /\ \A i \in 1 .. Len(program.groups) : program.groups[i] = chatGroup[r + i - 1]
      BY <2>2 DEF ListInv
    <3>4. closing.group = chatGroup[r]
      <4>1. 1 \in 1 .. Len(program.groups) /\ r + 1 - 1 = r
        BY <1>4, <1>5, <1>6, <2>4, <3>1
      <4> QED
        BY <2>2, <2>4, <3>3, <4>1
    <3>5. ListInv'
      <4>1. Len(rest) = program'.numOfGroups - program'.round
        BY <1>3, <1>4, <1>5, <1>6, <2>4, <3>2, <3>3
      <4>2. ASSUME NEW i \in 1 .. Len(rest)
            PROVE  rest[i] = chatGroup[r + 1 + i - 1]
        <5>1. rest[i] = program.groups[i + 1]
          BY <1>4, <1>5, <2>4
        <5>2. Len(rest) = Len(program.groups) - 1
          BY <1>4, <1>5, <2>4
        <5>3. i \in Nat /\ i >= 1 /\ i <= Len(rest) /\ Len(program.groups) \in Nat
          BY <1>6, <1>7
        <5>4. i + 1 \in 1 .. Len(program.groups)
          <6> DEFINE m == Len(rest)
                     n == Len(program.groups)
          <6>1. m = n - 1 /\ i \in Nat /\ i >= 1 /\ i <= m /\ n \in Nat
            BY <5>2, <5>3
          <6> HIDE DEF m, n
          <6>2. i + 1 \in 1 .. n
            BY <6>1
          <6> QED
            BY <6>2 DEF n
        <5>5. r + (i + 1) - 1 = r + 1 + i - 1
          <6>1. r \in Nat
            BY <3>1
          <6> HIDE DEF r
          <6> QED
            BY <5>3, <6>1
        <5> QED
          BY <3>3, <5>1, <5>4, <5>5
      <4> QED
        BY <1>2, <3>2, <4>1, <4>2 DEF ListInv
    <3>6. RoundsClosed'
      <4>1. ASSUME NEW c \in program.since .. r, OpenedOnce(chatGroup[c])
            PROVE  Closed(c)'
        <5>1. c \in Chat /\ c \in DOMAIN chatGroup
          BY <3>1 DEF Chat, OpenerInv, ChatOpenerTypeOK
        <5>2. CASE c = r
          <6>1. OpenedOnce(closing.group) /\ ~spoilt
            BY <2>1, <3>4, <4>1, <5>2 DEF Faultless
          <6>2. AllKilled
            BY <6>1, KillsBothWindows
          <6> QED
            BY <3>4, <5>1, <5>2, <6>2 DEF AllKilled, Closed
        <5>3. CASE c # r
          <6>1. c \in program.since .. program.since + program.round - 1
            BY <1>6, <3>1, <5>3
          <6>2. Closed(c)
            BY <2>2, <4>1, <6>1 DEF RoundsClosed
          <6> QED
            BY <1>2, <5>1, <6>2, ClosedStays
        <5> QED
          BY <5>2, <5>3
      <4> QED
        BY <1>2, <3>2, <4>1 DEF RoundsClosed, OpenedOnce
    <3> QED
      BY <3>5, <3>6
  <2> QED
    BY <1>1, <2>3, <2>4
<1> QED
  BY <1>8, <1>9, <1>10 DEF ProgramInv

(* All ways closeTheChat may go on.                                        *)
LEMMA CloseTheChatInv ==
    ASSUME OpenerInv, ProgramInv, [ChatOpenerNext]_openerVars, FilesStay, CloseTheChat
    PROVE  ProgramInv'
BY CloseTheChatGoesOn, CloseTheChatMisses, CloseTheChatEnds DEF CloseTheChat

(* The program ends, wherever it is.                                       *)
LEMMA ProgramKilledInv ==
    ASSUME OpenerInv, ProgramInv, [ChatOpenerNext]_openerVars, FilesStay, ProgramKilled
    PROVE  ProgramInv'
<1>1. CountsInv /\ RoundsInv /\ LogoutInv
  BY DEF ProgramInv
<1>2. closing'.at = "returned" /\ chatGroup' = chatGroup
  BY ReturnedIs DEF ProgramKilled, ProgramEnds, openerVars
<1>3. SameList /\ program'.at = "gone" /\ program'.round = program.round
  BY <1>1, <1>2 DEF SameList, CountsInv, ProgramKilled
<1>4. program.round \in 0 .. program.numOfGroups
  BY <1>1 DEF CountsInv
<1>5. CountsInv'
  BY <1>1, <1>2, <1>3, <1>4, SameListCounts
<1>6. RoundsInv'
  BY <1>1, <1>2, <1>3, SameListRounds DEF Running
<1>7. LogoutInv'
  BY <1>1, <1>2, <1>3, SameListLogout DEF Running
<1> QED
  BY <1>5, <1>6, <1>7 DEF ProgramInv

(* A new program has an empty list and no chat of its own.                 *)
LEMMA NewProgramInv ==
    OpenerInv /\ closing.at = "returned" /\ program = NewProgram(Len(chatGroup) + 1)
        => ProgramInv
<1> SUFFICES ASSUME OpenerInv, closing.at = "returned",
                    program = NewProgram(Len(chatGroup) + 1)
             PROVE  ProgramInv
  OBVIOUS
<1>1. /\ program = [at |-> program.at, groups |-> program.groups,
                    numOfGroups |-> program.numOfGroups, member |-> program.member,
                    round |-> program.round, since |-> program.since,
                    left |-> program.left, missed |-> program.missed]
      /\ program.at = "menu" /\ program.groups = << >> /\ program.numOfGroups = 0
      /\ program.round = 0 /\ program.since = Len(chatGroup) + 1
      /\ program.left = FALSE /\ program.missed = FALSE
  BY DEF NewProgram
<1>2. Len(chatGroup) \in Nat
  BY DEF OpenerInv, ChatOpenerTypeOK
<1>3. program.groups \in Seq(GroupName) /\ Len(program.groups) = 0
  <2>1. << >> \in Seq(GroupName) /\ Len(<< >>) = 0
    OBVIOUS
  <2> QED
    BY <1>1, <2>1
<1>4. CountsInv
  <2>1. /\ program.since \in 1 .. Len(chatGroup) + 1
        /\ program.numOfGroups = Len(chatGroup) + 1 - program.since
        /\ Len(program.groups) <= program.numOfGroups
        /\ program.round \in 0 .. program.numOfGroups
    BY <1>1, <1>2, <1>3
  <2>2. program.left \in BOOLEAN /\ program.missed \in BOOLEAN
    BY <1>1
  <2> HIDE DEF NewProgram
  <2> QED
    BY <1>1, <1>3, <2>1, <2>2 DEF CountsInv
<1>5. RoundsInv
  BY <1>1, <1>3 DEF RoundsInv
<1>6. LogoutInv
  BY <1>1, <1>2, <1>3 DEF LogoutInv, ListInv, RoundsClosed
<1> QED
  BY <1>4, <1>5, <1>6 DEF ProgramInv

(* The next program starts.                                                *)
LEMMA RestartInv ==
    ASSUME OpenerInv, OpenerInv', ProgramInv, Restart
    PROVE  ProgramInv'
<1>1. closing.at = "returned"
  BY DEF Restart, Running, ProgramInv, CountsInv
<1>2. (closing.at = "returned" /\ program = NewProgram(Len(chatGroup) + 1))'
  BY <1>1 DEF Restart, openerVars, NewProgram
<1>3. (OpenerInv /\ closing.at = "returned" /\ program = NewProgram(Len(chatGroup) + 1)
        => ProgramInv)'
  BY NewProgramInv, PTL
<1> QED
  BY <1>2, <1>3

(* A window that gets to run, or is closed by its user, changes nothing    *)
(* for the program.                                                        *)
LEMMA WindowStepInv ==
    ASSUME OpenerInv, ProgramInv, [ChatOpenerNext]_openerVars, FilesStay,
           chatGroup' = chatGroup, closing' = closing, program' = program
    PROVE  ProgramInv'
<1>1. CountsInv /\ RoundsInv /\ LogoutInv
  BY DEF ProgramInv
<1>2. SameList
  BY <1>1 DEF SameList, CountsInv
<1>3. CountsInv'
  BY <1>1 DEF CountsInv
<1>4. RoundsInv'
  <2>1. /\ program.at = "logout" /\ closing.at # "returned" =>
                program.groups # << >> /\ program.round < program.numOfGroups
        /\ program.at = "crashed" => program.left
        /\ program.at = "out" => ~program.left /\ program.round = program.numOfGroups
    BY <1>1 DEF RoundsInv
  <2> QED
    BY <1>1, <1>2, <2>1, SameListRounds DEF Running
<1>5. LogoutInv'
  <2> SUFFICES ASSUME Faultless', Running' \/ program'.at = "out"
               PROVE  /\ ListInv' /\ RoundsClosed'
                      /\ program.at = "logout" /\ closing.at # "returned" =>
                            closing.group = program.groups[1]
    BY DEF LogoutInv
  <2>1. Faultless /\ (Running \/ program.at = "out")
    BY SpoiltStays DEF Faultless, Running
  <2> QED
    BY <1>1, <2>1, LogoutKept DEF LogoutInv
<1> QED
  BY <1>3, <1>4, <1>5 DEF ProgramInv

(* The first program starts.                                               *)
LEMMA ClientChatsInitInv ==
    ASSUME ClientChatsInit
    PROVE  ClientChatsInv
<1>1. OpenerInv
  BY OpenerInit DEF ClientChatsInit
<1>2. closing.at = "returned" /\ Len(chatGroup) = 0
  BY ReturnedIs DEF ClientChatsInit, ChatOpenerInit
<1>3. program = NewProgram(Len(chatGroup) + 1)
  BY <1>2 DEF ClientChatsInit
<1> QED
  BY <1>1, <1>2, <1>3, NewProgramInv DEF ClientChatsInv

(* One step of Next after the other.                                       *)
LEMMA ClientChatsStep ==
    ASSUME ClientChatsInv, [ClientChatsNext]_chatsVars
    PROVE  ClientChatsInv'
<1>1. OpenerInv /\ ProgramInv /\ CountsInv
  BY DEF ClientChatsInv, ProgramInv
<1>2. [ChatOpenerNext]_openerVars
  BY <1>1, ProgramStepIsOpenerStep DEF chatsVars
<1>3. OpenerInv' /\ FilesStay
  BY <1>1, <1>2, OpenerStep
<1>4. CASE UNCHANGED chatsVars
  BY <1>1, <1>2, <1>3, <1>4, WindowStepInv DEF chatsVars, openerVars, ClientChatsInv
<1>5. ASSUME NEW g \in GroupName, JoinGroup(g)
      PROVE  ClientChatsInv'
  BY <1>1, <1>3, <1>5, JoinGroupInv DEF ClientChatsInv
<1>6. ASSUME NEW g \in GroupName, LeaveGroup(g)
      PROVE  ClientChatsInv'
  BY <1>1, <1>2, <1>3, <1>6, LeaveGroupInv DEF ClientChatsInv
<1>7. CASE LogOutClient
  BY <1>1, <1>2, <1>3, <1>7, LogOutClientInv DEF ClientChatsInv
<1>8. CASE CloseAllChats
  BY <1>1, <1>2, <1>3, <1>8, CloseAllChatsInv DEF ClientChatsInv
<1>9. CASE CloseTheChat
  BY <1>1, <1>2, <1>3, <1>9, CloseTheChatInv DEF ClientChatsInv
<1>10. CASE ProgramKilled
  BY <1>1, <1>2, <1>3, <1>10, ProgramKilledInv DEF ClientChatsInv
<1>11. CASE Restart
  BY <1>1, <1>3, <1>11, RestartInv DEF ClientChatsInv
<1>12. ASSUME NEW kind \in Kind, NEW c \in Chat, SavePid(kind, c) \/ WindowEnds(kind, c),
              UNCHANGED program
       PROVE  ClientChatsInv'
  BY <1>1, <1>2, <1>3, <1>12, WindowStepInv DEF SavePid, WindowEnds, ClientChatsInv
<1> QED
  BY <1>4, <1>5, <1>6, <1>7, <1>8, <1>9, <1>10, <1>11, <1>12 DEF ClientChatsNext

-----------------------------------------------------------------------------
(* Theorems *)

(* The files, the call of closeChat and the program agree at all times, as *)
(* far as no call missed its line: the inductive invariant.                *)
THEOREM ClientChatsAlwaysInv == ClientChatsSpec => []ClientChatsInv
<1>1. ClientChatsInit => ClientChatsInv
  BY ClientChatsInitInv
<1>2. ClientChatsInv /\ [ClientChatsNext]_chatsVars => ClientChatsInv'
  BY ClientChatsStep
<1> QED
  BY <1>1, <1>2, PTL DEF ClientChatsSpec

(* A client program uses the windows and files as the chat opener's own    *)
(* specification says, with any call at any time.                          *)
THEOREM ProgramsUseChatOpener == ClientChatsSpec => ChatOpenerSpec
<1>1. ClientChatsInit => ChatOpenerInit
  BY DEF ClientChatsInit
<1>2. ClientChatsInv /\ [ClientChatsNext]_chatsVars => [ChatOpenerNext]_openerVars
  BY ProgramStepIsOpenerStep DEF ClientChatsInv, ProgramInv, chatsVars
<1> QED
  BY <1>1, <1>2, ClientChatsAlwaysInv, PTL DEF ClientChatsSpec, ChatOpenerSpec

(* The list of groups is never longer than the count, and the count never  *)
(* more than the chats the program has opened.                             *)
THEOREM ClientChatsTypeCorrect == ClientChatsSpec => []ClientChatsTypeOK
<1>1. ClientChatsInv => ClientChatsTypeOK
  <2> SUFFICES ASSUME ClientChatsInv
               PROVE  ClientChatsTypeOK
    OBVIOUS
  <2>1. OpenerInv /\ CountsInv
    BY DEF ClientChatsInv, ProgramInv
  <2>2. program.numOfGroups <= Len(chatGroup) + 1 - program.since
    BY <2>1, CountsTyped
  <2> QED
    BY <2>1, <2>2 DEF ClientChatsTypeOK, OpenerInv, CountsInv
<1> QED
  BY <1>1, ClientChatsAlwaysInv, PTL

(* The files tell which windows there are, in whatever order openChat,     *)
(* savePid, closeChat and the users of the windows come.                   *)
THEOREM FilesAlwaysTell == ClientChatsSpec => []FilesTellWindows
<1>1. ClientChatsInv => FilesTellWindows
  BY OpenerTellsWindows DEF ClientChatsInv
<1> QED
  BY <1>1, ClientChatsAlwaysInv, PTL

(* closeChat kills both windows of a group that was opened once.           *)
THEOREM WholeChatKilled == ClientChatsSpec => KillsWholeChat
<1>1. ClientChatsInv =>
        [KillBoth /\ OpenedOnce(closing.group) /\ ~spoilt => AllKilled]_openerVars
  BY KillsBothWindows DEF ClientChatsInv
<1> QED
  BY <1>1, ClientChatsAlwaysInv, PTL DEF KillsWholeChat

(* A program crashes in its logout if and only if it has left a group.     *)
THEOREM LeaveCrashesLogout == ClientChatsSpec => []CrashTellsLeave
<1>1. ClientChatsInv => CrashTellsLeave
  BY DEF ClientChatsInv, ProgramInv, RoundsInv, CrashTellsLeave
<1> QED
  BY <1>1, ClientChatsAlwaysInv, PTL

(* A logout that comes to its end has closed the windows of all groups.    *)
THEOREM LogoutClosesAll == ClientChatsSpec => []LogoutClosesChats
<1>1. ClientChatsInv => LogoutClosesChats
  <2> SUFFICES ASSUME ClientChatsInv, program.at = "out", ~spoilt, ~program.missed,
                      NEW c \in program.since .. Len(chatGroup), NEW kind \in Kind,
                      OpenedOnce(chatGroup[c])
               PROVE  window[kind][c] \notin {"starting", "running"}
    BY DEF LogoutClosesChats
  <2>1. OpenerInv /\ CountsInv /\ RoundsInv /\ LogoutInv
    BY DEF ClientChatsInv, ProgramInv
  <2>2. ~program.left /\ program.round = program.numOfGroups
    BY <2>1 DEF RoundsInv
  <2>3. RoundsClosed
    BY <2>1, <2>2 DEF LogoutInv, Faultless
  <2>4. c \in program.since .. program.since + program.round - 1
    BY <2>1, <2>2, CountsTyped
  <2> QED
    BY <2>3, <2>4 DEF RoundsClosed, Closed
<1> QED
  BY <1>1, ClientChatsAlwaysInv, PTL
=============================================================================
