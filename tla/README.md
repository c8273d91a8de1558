# Chat server: models and proofs

A verification project for the multicast chat in this repository: TLA+ modules
for its server, TLC runs that check them on small instances, and theorems about
them that TLAPS checks for every value of the constants.

The program. A server (one process, one thread, TCP) keeps user accounts, who is
logged in, and the open chat groups. A client registers, logs in, and creates,
joins, leaves or lists groups; the server gives every open group a multicast
address of a fixed pool. The chat itself does not pass the server: for every
group it is in, a client opens two terminals, a listener and a sender of UDP
multicast, and finds them again through two files of process ids.

## 1. Inventory

| component | source | state | operations |
|---|---|---|---|
| group manager | `groupMng.c`, `group.c` | `m_groups` (name -> group), `m_freeAddr` (queue of addresses), `m_currentNumOfGroups`; per group address and `m_numOfUsers` | add, join, leave, remove, list |
| user manager | `userMng.c`, `userStruct.c` | `m_users` (name -> password, `m_isActive`, `m_groups`), the file `savedUsers.txt` | add, remove, connect, disconnect, group joined, group left, is in group |
| server application | `serverApp.c` | `m_connectedClients` (descriptor -> user name), the two managers | callbacks: new client, message (7 requests), close, fail |
| TCP server | `server.c` | `m_clients`, `m_numOfClients`, `m_connectedSockets`, `m_readySockets`, the iterator | run: select, accept, handle; send, close |
| server process | `serverAppMain.c`, `serverAPPUI.c` | - | start, messages on the console |
| protocol | `protocol.c` (two copies) | none; its bytes are in the server's one `m_buffer` and on the connections | pack and unpack requests and answers, lengths in one signed byte; check a message (not called) |
| client application | `client/clientApp.c`, `client/clientNet.c` | socket, name, list of groups, `m_numOfGroups` | register, login, logout, create, join, leave, list |
| chat opener | `client/chatOpener.c`, `client/chatOpenerMate.c` | the two pid files | open and close a chat |
| listener, sender | `client/listener.c`, `client/sender.c` | their line in a pid file | register the pid; receive, send |
| client UI | `client/clientUI.c`, `client/clientMainUI.c` | - | menus |
| list library | `client/list/...` | nodes between two sentinels | create, destroy, push, pop, size; iterators: begin, end, next, prev, get, set, insert, remove; loops over a range |
| containers | `HashMap.h`, `genQueue.h`, `vector.h`, `list*.h`, `lib_struct.a` | - | shipped as a binary |

How they interact. `ServerRun` (TCP server) calls the application through the
function pointers of `CreateFunc`; the application calls back `ServerSend` and
`ServerClientClose`, and calls both managers, which do not know each other. All
of it is one thread: two callbacks never overlap, but what one left half done
(a key in a map, a seat, a descriptor that is closed) is what the next one
finds. The clients and the file system are the concurrent part.

What is hard here, and what makes each part correct:

- *group manager* - creations that fail half way: no address of the pool is lost
  or handed out twice; the counter, the map and the queue agree; a group exists
  exactly as long as it has members.
- *user manager* - a file appended to without a check and read back at a start:
  what a restart brings back is what was registered, for ever; no group list
  outlives its session.
- *server application* - two managers that must agree about every group through
  rollbacks, logouts and closed connections; answers that tell the truth.
- *TCP server* - a list walked while nodes leave it, a snapshot of ready sockets
  that is older than the list, a counter beside both: the books agree, the
  iterator is valid, `recv()` never blocks the only thread, nobody starves.
- *the server as a whole* - TCP server and application name clients by a
  descriptor that the kernel uses again.
- *client* - a program that blocks in `recv()` for every request and takes what comes
  next for the answer: somebody always answers it, the answer is its own, and what it
  was told (its session, the address of a group) still holds when it acts on it.
- *chat opener, listener, sender* - files rewritten by one process while others append
  to them: no window is lost, and the one that is killed is the one that was meant.
- *protocol* - lengths in signed bytes, and a stream that is cut anywhere into one buffer
  of all clients, with stale bytes behind what came: who sends one request at a time is
  understood, and what the check nobody calls would have told.
- *list library* - pointers relinked at both ends and at iterators: the way back is the way
  forth, an iterator stays with its element, and a range ends where its header says (which
  it does not).

`PROJECT.json` lists the hazards line by line with the properties that cover each, or why none does.

## 2. Modules

    GroupDirectory                 ChatMembership
         ^ implements                    ^ implements
    GroupMngCalls      UserMngCalls      |
         |                 |             |        +-- ChatClient ------ ConnectedGroups
         |                 |             |        |       |                   |
      GroupMng ------- UserMng -------- ServerApp --- ChatSystem         ClientChats
                                          |                                   |
                                      ChatServer -- TcpServer -- Sockets  ChatOpener

                              MessageStream -- Protocol       DoubleLL -> ListADT

The modules of theorems, each over the module it is named for:

    ManagerLemmas ---- ManagerProofs             ClientChatsProofs
         |
    ServerAppProofs -- ChatSystemProofs          MessageStreamProofs
         |
    ChatServerProofs (with TcpServer)            DoubleLLProofs

(lines are EXTENDS or INSTANCE). `ChatSystem` and `ChatServer` compose the application
with its two neighbours: the programs, when the TCP server does what `TcpServer` says,
and the TCP server, when the clients do what it likes. `MessageStream` looks below both,
at the bytes. `ClientChats` puts the client's list of groups over the windows of `ChatOpener`.

| module | models |
|---|---|
| `ChatNames`, `ChatAccounts`, `Descriptors` | the constants two components share: group names, user names and passwords, client descriptors |
| `Containers` | `HashMap` and `Queue` as the server's sources use them (external: the library is a binary) |
| `GroupMng` | the calls of `groupMng.h` as operators on a manager value, and the invariants of such a value |
| `GroupMngCalls` | a group manager on its own, one action per call |
| `GroupDirectory` | abstract: what `groupMng.h` promises, a directory of open groups with an address and a number of seats each |
| `UserMng` | the calls of `userMng.h` as operators on a map of users, and `savedUsers.txt` |
| `UserMngCalls` | a user manager on its own, one action per call, and restarts of the process |
| `ServerApp` | the callbacks of `serverApp.c`, one action per request, over both managers |
| `ChatMembership` | abstract: what a client may rely on: accounts, who is online, one relation "is in", and the answer to each request |
| `Sockets` | the kernel's side of the sockets (external) |
| `TcpServer` | `server.c`: `ServerRun` and everything below it, with an application that may answer anything |
| `ChatServer` | `TcpServer` and `ServerApp` together, tied as `CreateFunc` ties them |
| `ChatClient` | the client programs: `main` of `clientMainUI.c`, `clientApp.c`, `clientNet.c`, and what is under way on their connections |
| `ChatSystem` | `ChatClient` and `ServerApp` together |
| `ChatOpener` | `chatOpener.c`, and the listeners and senders it starts, with the two pid files |
| `ConnectedGroups` | the list of groups of a client program and its counter, for `ChatClient` and `ClientChats` |
| `ClientChats` | `joinGroup`, `leaveGroup` and `LogOutClient` with `closeAllChats` over `ChatOpener`, one program after the other |
| `Protocol` | `protocol.c`: what every pack and unpack function does, byte by byte, and `ProtocolCheck` |
| `MessageStream` | the bytes of requests and answers on the connections, in the server's buffer and in the client, and a server that goes |
| `DoubleLL` | the list library in the client's directory: nodes, links, iterators, loops over a range |
| `ListADT` | abstract: what a list is, a sequence with positions |
| `ManagerLemmas` | what each call of the two managers does to a well-formed manager, and what reading a file gives |
| `ManagerProofs` | theorems about `GroupMngCalls` and `UserMngCalls` |
| `ServerAppProofs` | theorems about `ServerApp`, and its refinement of `ChatMembership` |
| `ChatServerProofs` | theorems about `TcpServer`, with lemmas about lists with an iterator, and about `TcpServer` and `ServerApp` together |
| `ClientChatsProofs` | theorems about `ChatOpener` with the programs of `ClientChats` over it |
| `ChatSystemProofs` | theorems about `ChatSystem`: any number of programs and the server |
| `MessageStreamProofs` | theorems about `MessageStream`, and lemmas about what `Protocol` packs and unpacks |
| `DoubleLLProofs` | theorems about `DoubleLL`, its refinement of `ListADT`, and lemmas about chains of links and walks along them |
| `MC...` | instances for TLC: bounds in the guards, symmetry |

The managers are operators on values rather than actions on variables because a
handler of `serverApp.c` makes several calls in a row (create, then roll back),
and because they are then proved about once.

Definitions called `Bug...` are variants of the definition that follows: what it
would be after a plausible slip. The model does not use them; `PROJECT.json`
("mutants") names the property that each of them breaks.

### How state and actions correspond to the code

*Group manager.* `groupMng` is `[groups, freeAddr, num]` = `m_groups`,
`m_freeAddr`, `m_currentNumOfGroups`. Address `a` stands for `224.0.0.a`. The error
codes are computed by operators of their own (`GroupMngAddErr`, ...) with the tests
in the order of the code; a failure after `QueueRemove` puts the address back at
the tail. `FitName` are the names whose length `GroupCreate` accepts.
`GroupMngRemove`, which the server calls through `GroupMngLeave` only, is an action of
`GroupMngCalls` too (`GroupRemove`, the directory's `Close`): whatever seats the group has go with it.

*User manager.* `users` is a function from names to `[pass, active, groups]`.
`m_groups` is a list without repetitions, kept as a set; `NULL`, the list of an
inactive user, is `{}`. `savedUsers` is the sequence of words `fscanf("%s %s")`
finds in the file, so a name or password without characters would shift all that
follows. `WriteUser` may fail to open the file and tells nobody: the successor
states are the file with and without the line. A restart reads the file with the
first line of a name winning, as `UserAdd` refuses the next. `UserMngRemove` leaves
the file alone (`userMng.h`, TBD 2); the server never calls it.

*Server application.* `clients` maps a descriptor to `[live, userName]`; `live` is
FALSE when the struct has been freed and the key stayed. `userName` of a fresh client
is whatever `malloc` left there, hence any name. `doing` is the loop the thread is in:
the one of a logout takes a group off per turn, the one of a closed connection
(`DisconnectClientGroups`) never moves. `sent` is what the client was answered in the
last step. Every other handler is one step, as nothing can come between its calls.

*TCP server.* `pc` is where `ServerRun` is: `select`, `accept`, `handle`, `stopped`.
`currentItr` is the part of `m_clients` the iterator has not visited. `FailFunc` has
no return statement, so its answer is any value: `DeclineClient(stop)` with either.
`kernel` holds the open client descriptors, how many connections wait, how many
messages wait on each descriptor and whether its client has closed. `accept()`
returns the lowest free descriptor, as POSIX says. `recv()` may return several
messages at once, of which the application treats the first.

*Client.* `programs[p].at` is where `main` is: in the start menu, in the menu of a user
who has logged in, between the two requests of "join" (`join`), in `recv()` (`wait`),
or at its end. A request is a tuple of its type and what it names, an answer its response
and an address. `groups` is `m_connectedGroups`, `numOfGroups` is `m_numOfGroups`, which only
grows. `wire[p]` is the TCP connection: what either side has sent and the other not
received. `recv()` returns any number of whole messages of which both sides treat the
first; the others are lost. Which of the chats `closeChat` closes is left to `ChatOpener`:
here it found its files or not, and `removegroupFromClientsList` runs in the first case
only. The user may end the program at any time. A type error of the source that only
shows in `predicateGrpName` is never reached, as the range it would be called for is empty.

*Client and server.* `ChatSystem` joins each action of `ServerApp` with the message it
receives and the ones it sends. `caller` is the client whose logout is in its loop: its
answer is still to come. `doubled` marks a program after `SendGroupList` answered it
twice for an empty list, until nothing of it is under way any more. `SavedBefore` is what
`savedUsers.txt` holds at the start.

*Chat opener.* A line of a pid file is the chat whose window has the pid. `closing` holds the
local variables of `closeChat` and how far it is: it reads the first file (`CloseChat`),
rewrites it (`RewritePidFile`), reads and rewrites the second (`CloseSecond`,
`RewritePidFile`), and kills (`KillBoth`); between any two of them windows append their
lines. `spoilt` is history: some call did not find its line, or a line was appended to a
file that was in memory. A pid that was never set is a pid of any window, or of none.
`LongerName` says which names start with which others. What is abstracted: pids are not
given out twice; lines have one length (a rewritten file is never longer than what an
append may have left behind it); a name is not looked for in the middle of a line; one
program at a time edits the files.

*Client and its chats.* `program` is the client program that runs: its list and counter
(`ConnectedGroups`), the groups the server has it in (`member`, as the server refuses a
second join), `round`, the `i` of `closeAllChats`, and where it is. `closeTheChat` is the steps
of `ChatOpener` and then `RemoveGroup`, which takes the first group of the list, whichever
was left: `removegroupFromClientsList` passes the begin of the list for both ends of the
range. `LogOutClient` goes to the loop or, when the server's answer is bad, on its
way out. When the list is empty, the loop takes a name from `ListItr_Get` of an empty list,
reads near address 0, and the program is `crashed`. A program may be killed anywhere; the
next one finds the windows and the files, and has an empty list.

*Messages.* A message is a sequence of `char`, -128 to 127; a length byte is `Signed` of what
was assigned to it. Text is what `strncpy` and the end mark leave, so it ends at a zero byte
inside. `m_buffer` is `buffer`: `recv()` of `k` bytes writes over its first `k`
(`WrittenOver`), and `TreatMsg` dispatches on the first byte whatever `k` is. Which
answer a handler gives is `ServerApp`'s business: `AnswersTo` is any it has. A length that
does not fit the handlers' arrays (`Fits`: 20 bytes with the end mark), a list longer than
a `char` counts, or details read from nothing at all, are the end of what the
language says: `overrun`, after which the model stops. `ServerStops` closes all connections;
`recv()` then returns 0, which `recvMsg` takes for success, and the response is any
(`ReceiveNothing`); the second `send()` is `SIGPIPE` (`ProgramKilled`).

*List library.* The sources in `client/list`; the programs are linked with another one, of
`lib_struct.a`. `node` is memory: what is at each address, `Freed` where `malloc` may put a
node; `HeadNode` and `TailNode` are the sentinels inside the list, each its own
neighbour on the far side, which is how the code knows the ends. An iterator is an address.
A call that takes a list gets one from `ListCreate` or `NULL`, and iterators whose node is
there; `malloc` may fail at any push or insertion.

## 3. Runs

| run | instance | distinct states | properties |
|---|---|---|---|
| `libraries` | group manager: 3 addresses, 4 fit names, 1 unfit, up to 3 seats; user manager: 2 names, 2 passwords and the empty text, 1 group, 3 lines; list: 4 nodes, 2 elements and `NULL`, 2 iterators, symmetry | 53 075 (6 216, 38 244 and 8 615) | `GroupMngTypeOK`, `AddressPoolIntact`, `CounterGuardsQueue`, `ImplementsDirectory`; `UserMngTypeOK`, `NoGroupsWithoutSession`, `FileMatchesAccounts`, `SavedAccountsStable`; `DoubleLLTypeOK`, `LinksAgree`, `RangesMissNothing`, `ImplementsList` |
| `server_app` | 2 users, 2 connections, 2 fit names and an unfit one, 2 addresses | 84 707 | `ServerAppTypeOK`, `SeatsMatchLists`, `ImplementsMembership`, `LogoutDisconnects` |
| `tcp_server` | room for 3 clients, 4 descriptors, back log 1, 2 messages per connection | 244 118 | `TcpServerTypeOK`, `BooksAgree`, `NoDescriptorLeaks`, `IteratorValid`, `NeverBlocksInRecv`, `RequestsTreated` |
| `chat_server` | room for 2 clients, 3 descriptors, 1 user, 1 group | 290 090 | `ClientsKnownToBoth`, `StopsForKnownReason` |
| `chat_server_stops` | the same | violation | `StopsOnlyWhenTold` |
| `chat_server_hangs` | the same, with fairness | violation | `RequestsTreated` |
| `chat_system` | 2 programs, 2 accounts, 1 group, 2 addresses; symmetry | 1 522 091 | `ChatSystemTypeOK`, `NeverWaitsInVain`, `AnswersInStep`, `SessionAgrees`, `OpensWhereServerSays` |
| `client_chats` | 2 chats of 2 groups, the name of one being the beginning of the other's, in one program or in several | 1 250 080 | `FilesTellWindows`, `KillsWholeChat`, `ClientChatsTypeOK`, `CrashTellsLeave`, `LogoutClosesChats` |
| `chat_opener_kill` | `ChatOpener` alone, with the same chats | violation | `KillsMains` |
| `message_stream` | 2 clients, 2 requests each, one of all requests arriving in two parts; symmetry | 1 475 461 | `MessageStreamTypeOK`, `LengthsFitWholeRequests`, `MenuMeansSession`, `CheckTellsParts`, `RequestsUnderstood`, `AnswersUnderstood` |
| `message_check` | the same | violation | `CheckTells` |
| `list_ranges` | the list of `libraries` | violation | `RangesAsPromised` |

`libraries` is about the three parts that call no other, so one run asks the three
questions side by side: a behaviour calls one of the parts, and the other two stay as
they began (`MCLibraries`).

Why the bounds are enough. Three addresses let the queue turn around and run dry
while a fit name is left; more only repeat it. Two users on two connections are the
least with one user on both, both on one, and a third name (the empty one) that
stays unknown; two groups are the least with which a logout has a group behind it and
one ahead. Three lines are the least with a name twice and another's line in between
(a name gets its second line after `UserMngRemove`). Three clients make the head, the
middle and the end of the list removable, and the fourth descriptor is the one of a
client turned away. In `chat_server` one client stays while another leaves and comes
back on the same descriptor, and a third finds the server full. In `chat_system` the two
programs compete for one name, one of two is in the group while the other creates or
leaves it, and with two addresses the group gets another one than it had; an answer and a
request may be under way at once (`MaxUnread` = 2), which is what a doubled answer leads
to. In `client_chats` a group is opened twice, or another's line stands before or after the
one that is deleted; two chats are enough for a leave with a group left behind, and for the
logout that follows to count one round too many. In `message_stream` the names have 2 and 8
letters, which are the numbers of `REG_REQ` and `GROUP_CREATE_REQ`, so that the rest of a
cut request passes for a request; the buffer starts as zeros or as letters (`NotWritten`),
and holds 44 bytes, two more than the longest request whose lengths fit (the code's
200 differ from it only in stale bytes no handler reaches); two requests of each client
leave stale bytes of its own and of the other one's; and the lists need exactly 127 and 128
bytes. Four nodes of a list make room for a range whose both ends are inside the list, and
one node on each side.

`CHECK_DEADLOCK FALSE` in `tcp_server`: `ServerRun` really ends, and when it has, and
all clients have closed, nothing is left to happen. In `ChatServer` the process can
be started again. In `chat_system` all programs may have ended; a descriptor is used once
there. In `message_stream` an `overrun`, or the end of all programs, is where the model
stops.

Symmetry (programs in `chat_system`, clients in `message_stream`, addresses, elements and
iterators of the list in `libraries`) is used where no definition orders its values; no liveness is checked
with it.

### What the violations show

- `RequestsTreated` (in `ChatServer`). `DisconnectClientGroups` (`serverApp.c:625`) never
  advances its iterator: a connection that closes while its user is in a group leaves that
  group again and again, and the thread never gets to another client: `server.h:128`
  "treats the connected clients". In `TcpServer`, where every callback returns, the same
  property holds. (The same loop gives up the seats of the other members too, against
  `groupMng.h:90`, "every join should be followed by a leave function"; `SeatsMatchLists`
  exempts the group it is at, and no other.)
- `StopsOnlyWhenTold`. `server.h:128`: "Runs as long no stop sign given from app FAIL
  function". `CloseClientFunc` leaves the key of the client in `m_connectedClients`; the
  next client on that descriptor is refused and its socket closed, while the TCP server
  keeps it in `m_connectedSockets`; the next `select()` fails and the server stops.
  `StopsForKnownReason` says that within the model there is no other reason; outside it is
  `SIGPIPE`, see section 7.
- `KillsMains`. `client/clientApp.h:54`: leaving a group "kills mains". A chat that is
  closed after its listener has registered and before its sender has: `deleteLine` finds no
  name and returns 0, the senders' file is written back empty (so the other chats cannot be
  closed any more either), success is reported, and `kill()` gets a pid nobody set. The
  sender stays. `FilesTellWindows` and `KillsWholeChat` say that nothing but a missed
  line, an overlapping write, a missing second file or a program killed half way leads there;
  what follows from one of these, they leave open.
- `CheckTells`. `protocol.h:17`: "use ProtocolCheck() to check if message received fully".
  The requests for a logout and for the list of groups are two bytes, which the function
  calls too small for a message however long one waits; and the length byte of the details
  of a group, the "Whole Msg Length" of `protocol.c:32`, leaves out the response byte (line
  414), so they are full without their last digit and a part with it. The trace is of a
  request, the shorter of the two; each half is a definition (`CheckTellsRequests`,
  `CheckTellsAnswers`) and refuted for itself when a `.cfg` names it alone. What the check
  does keep is `CheckTellsParts`: other messages are full when they are whole, and of all
  requests no part is.
- `RangesAsPromised`. `DoubleLLItr2.h:46`: "in the half open range [begin..end)", the end
  "not included" and returned when nothing is found. `forAllElements` goes on to the node
  after the end (`DoubleLLItr2.c:74`), so the element at an end inside the list is counted,
  found and acted on. `ListItr_ForEach` returns not "the element where the iteration stoped"
  (line 78) but the one before it. The trace is a list of one element, where both halves
  fail (`RangesHalfOpen`, `ForEachReturnsStop`). `RangesMissNothing` says what callers can
  rely on: no element of a range is missed, and up to the end of the list nothing else is
  counted or found.

What the passing runs say of the same weak spots: the double answer for an empty list
puts a program one answer behind (`AnswersInStep` excludes it by `doubled`), but never makes
it wait for nothing (`NeverWaitsInVain`); and a program's session is safe from other
programs (`SessionAgrees`), because a name that is active is refused, even when its
program ended without a logout.

Some passing runs state the behaviour the code has where its comments or a caller would
expect another:

- a program that has left a group never gets through its logout (`CrashTellsLeave`):
  `m_numOfGroups` (`clientApp.c:358`) counts the joins;
- `LogoutUser` unpacks a name from a request of two bytes and goes by whatever the byte
  behind it is; as long as requests arrive whole, that byte is the length some other request
  left there, and fits (`LengthsFitWholeRequests`);
- a part of a request is treated like a request: afterwards nothing is promised to that
  client, and the checks say so by `pieces`; others still are understood.

Two weak spots have no property. When `WriteUser` cannot open the file, the account exists
and its owner is told so, but the next process does not know it (`userMng.c:364`):
`FileMatchesAccounts` and `SavedAccountsStable` are about the accounts that did get into the
file. And `removegroupFromClientsList` looks for a group between the begin of the list and
the begin of the list (`clientNet.c:121`), so the first group goes, whichever was left: the
properties of `ClientChats` count groups and windows and do not ask which.

## 4. Fairness

- `ServerAppSpec`: weak fairness of `Turn`. A loop that runs is scheduled by the
  operating system; that a request arrives or the process is restarted, nobody promises.
- `TcpServerSpec`, `ChatServerSpec`: weak fairness of the thread's next step as a whole.
  There is one thread; it waits only in `select()`, where its step is not enabled. No
  fairness for clients, and none for one client's turn: that everyone's turn comes
  follows from the walk over the list.

## 5. What is proved

Each theorem below holds for every value of the constants that meets the named
assumptions, and every safety property of the passing runs is one of them, but for those of
section 6: the run shows it on a small instance, the theorem for any number of users, groups,
addresses, connections, chats and nodes. The assumptions are those the code justifies:

| assumption | says |
|---|---|
| `GroupMngAssumption` | the pool has an address (`GroupMngCreate` demands it), and what `GroupCreate` accepts is a name |
| `UserMngAssumption` | the empty text can be typed for a name and a password |
| `SocketsAssumption`, `TcpServerAssumption` | descriptors are numbers, finitely many, one more than the server takes clients; the listening socket is not a client's |
| `ChatOpenerAssumption` | a name that starts with another one is a name; a missing file is no file; a bound is a number |
| `ChatSystemAssumption` | the file the server starts with is one that an earlier run has written (whole lines, of names and passwords); "nobody logged in" is not a name; nor is "no client" a client; bounds are numbers |
| `MessageStreamAssumption`, `NoRequestAssumption` | what is typed in, an address and the digits of a port fit the arrays they are put in and have no zero byte; so do the names of the groups of a list, which came whole, and none is empty (`scanf("%s")` gives no empty word); the buffer holds the longest request whose lengths fit (42 bytes; the code's has 200); "no request" is not a request |
| `DoubleLLAssumption` | `NULL` is neither something stored nor the address of a node; `malloc()` returns neither of the two sentinels, which are part of the list; what stands for freed memory is not a node |

`PartsTold` has a hypothesis of its own, which `scanf()` does not ensure: see below.

Every theorem rests on one inductive invariant per module, named `...Inv`, of which the
property of the run is seldom more than a part. TLC has checked each of them first, on
the run's instance.

**Group manager** (`ManagerProofs`: `GroupMngTypeCorrect`, `AddressPoolStaysIntact`,
`CounterAlwaysGuardsQueue`, `GroupMngImplementsDirectory`). The invariant is
`GroupMngInv`, that is `GroupMngOK` of the manager and a reply that is not
`GROUP_MNG_GET_ADDR_ERR`. None of its parts is inductive alone. That a lease comes back to
the queue exactly once needs that no two groups hold it (`AddressUsedOnce`); that the
queue has room for it needs that queue and map together have the size of the pool
(`CountsAgree`), without which `QueueInsert` would silently drop the address and
`NoAddressLost` fail; and that `QueueRemove` finds an address after the OVERFLOW test needs
`CountsAgree` again (`QueueNeverFoundEmpty`). A creation takes the head and may give
it back, so the lemmas speak of a manager that is *short* of one address (`Short`):
`TakenIsShort` and `RemovedIsShort` lead there, `GiveBackOK` back. For the refinement each
call is shown to be a step of the directory: the queue's head is "some address no
open group holds", and an empty map is `num = 0`.

**User manager** (`UserMngTypeCorrect`, `GroupsNeedSession`, `FileAlwaysMatches`,
`SavedAccountsStay`). `FileMatchesAccounts` says that every line of the file is an account,
but a restart goes by which of the words of a line is the name: `FileOK` (whole lines, no
empty word) is what keeps a new line from shifting the others. The lemmas about the *first*
line of a name (`FirstLine...`) need a least element of a set of line numbers, which is
taken from well-founded induction once.

**Server application** (`ServerAppTypeCorrect`, `ManagersAlwaysAgree`,
`ServerAppImplementsMembership`). `SeatsMatchLists` counts the users that list a group; in
the middle of a logout the user is still listed but a seat is gone, so the invariant
(`SeatsMatch`) counts a user in `doing` for the groups that are still to do, and exempts
only the group a closed connection is at. The counts are of finite sets, so the invariant
carries `IsFiniteSet(DOMAIN users)`. For the refinement each request is matched with the
step of `ChatMembership` it looks like; a rollback (`GroupMngAdd`, then the user is
refused, then `GroupMngLeave`) is shown to end where it began but for the order of the
queue, which `ChatMembership` does not see.

**TCP server** (`TcpServerTypeCorrect`, `BooksAlwaysAgree`, `DescriptorsNeverLeak`,
`IteratorAlwaysValid`, `RecvNeverBlocks`). The invariant says where in the list the
iterator is (`At`: the rest of the walk is the end of the list from some node on), which
survives a removal before it, at it, and a new head; and that a bit of `m_readySockets` the
walk has yet to look at is that of a client that is still readable (`HandlePhase`). The
list has no repetition because `accept()` returns a descriptor that is not open and every
open one is on it (`AcceptPhase`): here a descriptor that leaves `m_clients` without being
closed, or the other way round, would break the induction.

**The server process** (`BothKnowTheClients`, `StopsAreKnown`, `ServerKeepsTcpPromises`,
`ServerImplementsMembership`). `ChatServerInv` joins the two invariants above with: each
descriptor on the TCP server's list has a key in the application's map, be it of a client
that was freed. That is the key which a returning descriptor meets, and the only way
`select()` gets to fail. The steps of the composed process are shown to be steps of its
parts, so the promises of both carry over to it, though here callbacks may never return.

**Client and chat windows** (`ClientChatsTypeCorrect`, `FilesAlwaysTell`, `WholeChatKilled`,
`LeaveCrashesLogout`, `LogoutClosesAll`, `ProgramsUseChatOpener`). `FilesTellWindows`
is about the moments between two calls; during a call one of the files is in memory and
the other one line ahead or behind, which `UnspoiltKind` says for each step of `closeChat`.
`LeaveCrashesLogout` counts: list and rounds together are less than `m_numOfGroups` exactly
if the program has left a group (`RoundsInv`), so the loop runs dry before it ends.
`LogoutClosesAll` needs which chats the list still stands for (`ListInv`), which is so as
long as no group was left, no line missed and no call failed. `ProgramsUseChatOpener` says
that the programs add nothing to `ChatOpener`: what holds there of every caller holds here.

**Programs and server** (`ChatSystemTypeCorrect`, `NobodyWaitsInVain`, `AnswersStayInStep`,
`SessionsAgree`, `ChatsOpenWhereServerSays`). The largest invariant, `ChatSystemInv`. The
first three are local to a client: `ClientOK` relates the place in the program, what it
waits for and what is under way. It needs more than "one request or answer": after a
doubled answer a program runs ahead of the server, so what keeps *that* harmless is that a
request of the start menu is always alone on its connection and a logout always last
(`OnTheWay`); without it a late logout would end the session of the next login. `Sessions`
then says that a session, from the server's answer to a login until the program has asked
to leave, is of an active name that no other connection has, although no program looks: a
name that is active is refused. `Place` carries what the answer to a create or join said
until the program looks; it holds because in between only this user's own requests could
take it out of the group, and there are none, and a group with a member keeps its address
(the `...KeepsAddresses` lemmas). `ServedOK` is what a request handler may do, whichever it
is; each handler is shown to do that (`RegisterHandled` ... `ListHandled`).

**Messages as bytes** (`MessageStreamTypeCorrect`, `MenuAlwaysMeansSession`,
`WholeLengthsFit`, `WholeUnderstood`, `WholeAnswersUnderstood`, `PartsTold`). Two things are
proved of `Protocol`, for all texts that fit: whatever starts with the bytes of a packed
request is unpacked to that request (`RequestRead`), and a client makes of a packed answer what was
meant (`AnswerRead`), which includes a list of names of any length up to 127 bytes, in reverse
(`ListRead`). The names are packed by a recursive function and unpacked by a loop; where each name ends up
(`FlattenIs`, `NamesAt`) and where the loop is after each turn (`TurnsAre`) are inductions
over numbers, made with "a set of numbers that has 0 and with each number the next has all"
(`NoFirstBad`, from well-founded induction), as the induction theorem itself cannot be
instantiated. The invariant `StreamInv` says where the one request of a program is
(`InStep`: on its way, or its answer is, or neither will ever be), as long as none of
its own came in pieces. `MenuMeansSession` needs that an answer that is on its way and says
"connected" comes after the server has said so (`AnswerTo`). `LengthsFitWholeRequests` needs the
one fact about the shared buffer: once anybody has logged in, the third byte is a length some
request with a name left there, since every request that writes over it has one
(`ByteBehindFits`), and a logout writes two bytes only. All of it for any number of clients
and any bytes in the buffer to begin with.

`PartsTold` is about `ProtocolCheck`, which nobody calls: no part of a request
passes for a whole one, and a whole one of more than two bytes does, if no text that is typed
in has a character from 1 to 31 (`TypedPlain`). Without that a part might: the rest of a cut
request starts anywhere, and a control character at its second place may happen to be the
number of bytes left. `scanf("%s")` stops at white space only. The texts of the run meet the
hypothesis. The other half of what the header promises is not so, see section 3.

**List library** (`ListAlwaysInv`, `DoubleLLTypeCorrect`, `LinksAlwaysAgree`,
`ListImplementsSequence`, `RangesAlwaysMissNothing`). What `LinksAgree` says of each node
and its neighbours is not inductive: two nodes that point at each other agree, off the list,
and a call that links in between them would change no content. Its count of the nodes would
tell, but what `Contents` is, is only known once the links are known to lead to the tail. The
invariant (`ListInv`) says that there is a *chain*: a numbering of places, from the head at 0
to the tail at `L + 1`, with links there and back between neighbours, no node twice, and
every node that was not freed at some place; and that `Contents` is what its nodes hold, and
each iterator is at a place. All calls that link come down to one lemma (`ChainLinked`),
those that unlink to another (`ChainUnlinked`); what is left to each call is which places are
its neighbours, among them the sentinels. `ImplementsList` says what the sequence is, and
`Contents` is a function that follows links to the tail, so its value has to be found: a
function with the values the chain gives satisfies the equation (`Walk`), and any that does
has these values, place by place back from the tail; `NoFirstBad` stands for induction again.
Then an insertion into the chain is one into the sequence (`InsertedItems`), the iterators
behind it move up by one (`InsertedPlaced`), and each call is a step of `ListADT`, failures
with it (`PushHeadStep` ... `ItrRemoveStep`). For `RangesMissNothing` the loop of
`forAllElements` is found the same way (`RangeFunction`, `RangeWalk`): it stops at the first
place with an element in `stop` or behind the end, what `CountIf` counts are places, as
no node has two (`CountOfRange`), and what is wanted of the range promised comes first in
the range that is walked (`WantedIsFound`).

A proof that failed changed the model at eight places, all of which now say better what the
code does: the addresses, ports and names that are packed are said to fit; the loop that
unpacks a list goes turn by turn, as the code's does (an empty name in front of the end would
be lost, so it is said that there is none); the names of a list are a definition of their
own, whose size the length byte goes by; the iterator of `m_clients` is removed at its place
and not by its value; `ServerApp` counts members directly; the list's addresses have a name
and hold nothing but nodes or what is not one; `MaxChats` is said to be a number; and the
file a server starts with is said to be one a server has written.

## 6. What is only model-checked

- `LogoutDisconnects` (`ServerApp`) and `RequestsTreated` (`TcpServer`): liveness under
  fairness is out of the prover's reach. So are, of course, the five violations.
- `CheckTellsParts` for texts with control characters is not promised, see section 5.
- What a request in pieces leads to: no property says more than that it is the cause.

## 7. What is not modelled, and why

- Failures of `malloc`, and of library calls that fail for lack of memory only.
- Failures of `accept()` and `send()`: the code keeps their results in unsigned variables
  and tests them for `< 0`, so its error paths are dead (`server.c:311`, `server.c:169`).
  With it `SIGPIPE`, which no source handles: a `send()` of the server to a client that has
  closed and answered an earlier one with a reset (`server.c:167`) ends the process. It would be
  a third reason for the server to stop, beside the two of `StopsForKnownReason`.
- The size of the arrays `UserCreate` copies a name and a password to, 15 bytes, which it does not
  test: `UserFits` has the lower limits only. The repository's client has arrays of 15 itself.
- The two pid files the repository ships in `client/`: `ChatOpenerInit` starts with none. One
  is empty; the other has a line of a process that has long ended, between conflict marks.
- The unpacking functions fail on a NULL argument only; the handlers' answers to such a
  failure are unreachable and left out, and so is a client the map does not know, which
  `ClientsKnownToBoth` rules out.
- Answers that arrive in parts: they are sent by one `send()` of at most 127 bytes to a
  client that waits for them. `addAddressCh` (`groupMng.c:290`) is listed as a hazard.
- In `ServerApp`, `TcpServer` and `ChatSystem` messages are whole; parts, and a server that
  has gone, are `MessageStream`'s, where in turn a handler's answer is any it can give.
- What the program does after undefined behaviour: the models stop there (`overrun`,
  `crashed`), but for a pid that was not set, which `kill()` gets.
- `ProtocolPackUserName`, which nobody calls; `ProtocolEncrypt` and `ProtocolDecrypt`, which do
  nothing; of the list library what `DoubleLLItr2.h` declares and no file defines.
- Two programs in one directory that close chats at the same time; they share the pid files.
- Console input and output; the multicast traffic, in which the programs keep no state;
  `client/clientMain.c`, whose `main` does nothing.
- A client of `ChatServer` sends its next request after the answer to the last one, as
  `clientApp.c` does; in `TcpServer` it sends when it likes.

## 8. Plan

Done: every component modelled and checked, but for what section 7 leaves out, and every
safety property of the passing runs proved, the refinements among them.

Left: the hazards without a property, each with the reason in `PROJECT.json`. The lost account
and the wrong group of section 3 are worth a violation each. For others no comment promises
anything but what the code does, so that a property could only repeat it (the second answer to
an empty list, a loop that goes on after a failure); and some are about single expressions
rather than states (`addAddressCh`, the unsigned results).
