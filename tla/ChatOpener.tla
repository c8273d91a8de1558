------------------------------ MODULE ChatOpener ------------------------------
(***************************************************************************)
(* The chat windows of a client program (chatOpener.c) and the processes   *)
(* in them (listener.c, sender.c), which meet in two files of pids.        *)
(*                                                                         *)
(* openChat has a terminal start a listener and a sender; each appends its *)
(* line when it gets to run.  closeChat looks for the line of a group in   *)
(* the one file and then in the other, takes it out and kills both pids.   *)
(* A chat stands for the pids of its two windows, which the system does    *)
(* not give out again; a line is the chat whose pid it holds, and lines    *)
(* are of one length.  The windows and the files outlive the program.      *)
(*                                                                         *)
(* A name is looked for in what was read of the file only: the buffer has  *)
(* no end mark and strchr() may run on, which at worst is ProgramEnds.     *)
(***************************************************************************)
EXTENDS ChatNames, Integers, Sequences, FiniteSets

CONSTANTS
    LongerName,     \* pairs <<g, h>>: h is another name and starts with g
    NoFile,         \* the file does not exist
    MaxChats        \* bound: chats opened

ASSUME ChatOpenerAssumption ==
    /\ LongerName \subseteq GroupName \X GroupName
    /\ NoFile \notin Seq(Nat)
    /\ MaxChats \in Nat

Kind == {"listener", "sender"}
Chat == 1 .. MaxChats
NoPid == 0          \* a pid variable that was not set

VARIABLES
    chatGroup,      \* the groups chats were opened for, in this order
    window,         \* window[kind][chat]
    pidFile,        \* LISTENER_PID_FNAME and SENDER_PID_FNAME
    closing,        \* the call of closeChat that is running
    spoilt          \* history: a call missed its line, or a line was written
                    \* behind its back

openerVars == <<chatGroup, window, pidFile, closing, spoilt>>

-----------------------------------------------------------------------------
(* closeChat in progress: the group, the next thing it does and to which   *)
(* file, what it has in memory of it, the pids found so far.               *)

Closing(at, g, kind, buffer, pid) ==
    [at |-> at, group |-> g, kind |-> kind, buffer |-> buffer, pid |-> pid]

NoPids == [kind \in Kind |-> NoPid]

Returned == Closing("returned", "", "listener", << >>, NoPids)

ChatOpenerInit ==
    /\ chatGroup = << >>
    /\ window = [kind \in Kind |-> [c \in Chat |-> "none"]]
    /\ pidFile = [kind \in Kind |-> NoFile]
    /\ closing = Returned
    /\ spoilt = FALSE

-----------------------------------------------------------------------------
(* openChat, and the life of a window *)

(* Both commands return before the program in the terminal has run.        *)
OpenChat(g) ==
    /\ closing.at = "returned" /\ Len(chatGroup) < MaxChats
    /\ chatGroup' = Append(chatGroup, g)
    /\ window' = [kind \in Kind |->
                    [window[kind] EXCEPT ![Len(chatGroup) + 1] = "starting"]]
    /\ UNCHANGED <<pidFile, closing, spoilt>>

(* Somebody else writes to a file that is in memory and will be rewritten. *)
Overlaps(kind) == closing.at = "rewrite" /\ closing.kind = kind

(* savePid, of either program: a line at the end of the file.              *)
SavePid(kind, c) ==
    /\ window[kind][c] = "starting"
    /\ window' = [window EXCEPT ![kind][c] = "running"]
    /\ pidFile' = [pidFile EXCEPT ![kind] = IF @ = NoFile THEN <<c>> ELSE Append(@, c)]
    /\ spoilt' = (spoilt \/ Overlaps(kind))
    /\ UNCHANGED <<chatGroup, closing>>

(* The user closes the terminal, or bind(), setsockopt() or sendto()       *)
(* failed: nobody takes the line out of the file.                          *)
WindowEnds(kind, c) ==
    /\ window[kind][c] = "running"
    /\ window' = [window EXCEPT ![kind][c] = "ended"]
    /\ UNCHANGED <<chatGroup, pidFile, closing, spoilt>>

-----------------------------------------------------------------------------
(* closeChat *)

(* strncmp() finds the name in its own line and in that of a longer name.  *)
Matches(g, c) == chatGroup[c] = g \/ <<g, chatGroup[c]>> \in LongerName

(* The lines of file that deleteLine may take for that of g.               *)
MatchingLines(file, g) == {i \in DOMAIN file : Matches(g, file[i])}

FirstMatch(file, g) ==
    CHOOSE i \in MatchingLines(file, g) : \A j \in MatchingLines(file, g) : i <= j

(* Bug variant: memmove() is told one line too few.                        *)
BugRestTooShort(file, g) ==
    IF MatchingLines(file, g) = {} \/ file = << >> THEN << >>
    ELSE LET i == FirstMatch(file, g)
         IN  SubSeq(file, 1, i - 1) \o SubSeq(file, i + 1, Len(file) - 1)

(* What is left of the file.  newSize is 0 when there is no such name.     *)
DeleteLine(file, g) ==
    IF MatchingLines(file, g) = {} THEN << >>
    ELSE LET i == FirstMatch(file, g)
         IN  SubSeq(file, 1, i - 1) \o SubSeq(file, i + 1, Len(file))

(* Bug variant: the pid is read after memmove(), from the next line.       *)
BugPidAfterDelete(file, g) ==
    IF MatchingLines(file, g) = {} THEN NoPid
    ELSE LET i == FirstMatch(file, g)
         IN  IF chatGroup[file[i]] # g THEN NoPid
             ELSE file[IF i < Len(file) THEN i + 1 ELSE i]

(* The pid after the name; sscanf() finds none after the first letters of  *)
(* a longer name, and *_pid stays as it was: uninitialized.                *)
PidFound(file, g) ==
    IF MatchingLines(file, g) = {} THEN NoPid
    ELSE LET c == file[FirstMatch(file, g)]
         IN  IF chatGroup[c] = g THEN c ELSE NoPid

(* removePidFromFile up to the second fopen(): the file is in memory, less *)
(* one line.                                                               *)
ReadPidFile(kind, g, pid) ==
    LET found == PidFound(pidFile[kind], g)
    IN  /\ closing' = Closing("rewrite", g, kind, DeleteLine(pidFile[kind], g),
                              [pid EXCEPT ![kind] = found])
        /\ spoilt' = (spoilt \/ found = NoPid)

(* The listeners' file comes first; without it nothing is done.            *)
CloseChat(g) ==
    /\ closing.at = "returned" /\ pidFile["listener"] # NoFile
    /\ ReadPidFile("listener", g, NoPids)
    /\ UNCHANGED <<chatGroup, window, pidFile>>

(* The rest of removePidFromFile.  A line appended between fopen() and     *)
(* fclose() is overwritten like one appended before, or is beyond what is  *)
(* written, and stays like one appended after: one step shows all of it.   *)
RewritePidFile ==
    /\ closing.at = "rewrite"
    /\ pidFile' = [pidFile EXCEPT ![closing.kind] = closing.buffer]
    /\ closing' = [closing EXCEPT
                    !.at = IF closing.kind = "listener" THEN "second" ELSE "kill",
                    !.buffer = << >>]
    /\ UNCHANGED <<chatGroup, window, spoilt>>

(* The senders' file; without it closeChat returns, and the line of the    *)
(* listener is gone.                                                       *)
CloseSecond ==
    /\ closing.at = "second"
    /\ IF pidFile["sender"] = NoFile
       THEN closing' = Returned /\ spoilt' = TRUE
       ELSE ReadPidFile("sender", closing.group, closing.pid)
    /\ UNCHANGED <<chatGroup, window, pidFile>>

(* Whom kill() may hit with a pid: the window it belongs to, or, when it   *)
(* was never set, anybody or nobody.                                       *)
Targets(kind, pid) ==
    IF pid # NoPid THEN {{<<kind, pid>>}}
    ELSE {{}} \union {{w} : w \in Kind \X Chat}

Killed(victims) ==
    [kind \in Kind |-> [c \in Chat |->
        IF <<kind, c>> \in victims /\ window[kind][c] \in {"starting", "running"}
        THEN "killed" ELSE window[kind][c]]]

KillBoth ==
    /\ closing.at = "kill"
    /\ \E l \in Targets("listener", closing.pid["listener"]),
          s \in Targets("sender", closing.pid["sender"]) :
            window' = Killed(l \union s)
    /\ closing' = Returned
    /\ UNCHANGED <<chatGroup, pidFile, spoilt>>

-----------------------------------------------------------------------------
(* The program is killed in closeChat, or ends and is run again: the files *)
(* and the windows are as they were.                                       *)
ProgramEnds ==
    /\ closing.at # "returned"
    /\ closing' = Returned
    /\ spoilt' = TRUE
    /\ UNCHANGED <<chatGroup, window, pidFile>>

ChatOpenerNext ==
    \/ \E g \in GroupName : OpenChat(g) \/ CloseChat(g)
    \/ RewritePidFile \/ CloseSecond \/ KillBoth \/ ProgramEnds
    \/ \E kind \in Kind, c \in Chat : SavePid(kind, c) \/ WindowEnds(kind, c)

ChatOpenerSpec == ChatOpenerInit /\ [][ChatOpenerNext]_openerVars

-----------------------------------------------------------------------------
(* Properties *)

(* Type invariant.                                                         *)
ChatOpenerTypeOK ==
    /\ chatGroup \in Seq(GroupName) /\ Len(chatGroup) <= MaxChats
    /\ window \in [Kind -> [Chat -> {"none", "starting", "running", "ended", "killed"}]]
    /\ \A kind \in Kind : pidFile[kind] # NoFile => pidFile[kind] \in Seq(Chat)
    /\ closing.at \in {"returned", "rewrite", "second", "kill"}
    /\ closing.kind \in Kind /\ closing.buffer \in Seq(Chat)
    /\ closing.pid \in [Kind -> Chat \union {NoPid}]
    /\ spoilt \in BOOLEAN

(* The chats with a line in a file.                                        *)
LinesOf(kind) ==
    IF pidFile[kind] = NoFile THEN {}
    ELSE {pidFile[kind][i] : i \in DOMAIN pidFile[kind]}

(* The files tell which windows there are, whatever the order in which the *)
(* processes get to run, as long as closeChat found the line it looked for *)
(* and no process wrote to a file it had in memory: a window that runs can *)
(* be found and killed, and a line is of a window that runs, or of one its *)
(* user ended.  Only the window closeChat is about to kill may have lost   *)
(* its line.  So these two races, a missing file and a program killed half *)
(* way are the only ways to be left with a window nobody can close.        *)
FilesTellWindows ==
    ~spoilt => \A kind \in Kind :
        /\ \A c \in Chat :
            window[kind][c] = "running" =>
                c \in LinesOf(kind) \/ closing.pid[kind] = c
        /\ \A c \in LinesOf(kind) :
            window[kind][c] \in {"running", "ended"}

(* No window of the group closeChat was called for is left, running or     *)
(* about to run.                                                           *)
AllKilled ==
    \A kind \in Kind, c \in DOMAIN chatGroup :
        chatGroup[c] = closing.group =>
            window'[kind][c] \notin {"starting", "running"}

OpenedOnce(g) == Cardinality({c \in DOMAIN chatGroup : chatGroup[c] = g}) = 1

(* closeChat kills both windows of a group that was opened but once, under *)
(* the conditions of FilesTellWindows, in whatever order the lines of all  *)
(* chats came into the two files.                                          *)
KillsWholeChat ==
    [][KillBoth /\ OpenedOnce(closing.group) /\ ~spoilt => AllKilled]_openerVars

(* clientApp.h says of leaveGroup that it "kills mains", and leaveGroup    *)
(* has nothing but closeChat for that: a call that comes to its two kill() *)
(* leaves no window of a group behind that was opened but once.            *)
KillsMains == [][KillBoth /\ OpenedOnce(closing.group) => AllKilled]_openerVars
=============================================================================
