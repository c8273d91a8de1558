--------------------------- MODULE ChatServerProofs ---------------------------
(***************************************************************************)
(* What holds of the TCP server for every number of clients, whatever the  *)
(* application answers and the clients do; and of the server process, for  *)
(* every number of connections, accounts and groups: the TCP server and    *)
(* the application agree about who is connected, and each keeps inside the *)
(* process what it promises alone.                                         *)
(***************************************************************************)
EXTENDS ChatServer, ServerAppProofs

-----------------------------------------------------------------------------
(* TcpServer: lists *)

Distinct(list) == \A i, j \in 1 .. Len(list) : list[i] = list[j] => i = j

(* A list without repetition has as many elements as nodes.                *)
LEMMA DistinctCardinality ==
    ASSUME NEW S, NEW list \in Seq(S), Distinct(list)
    PROVE  Cardinality(Elements(list)) = Len(list)
<1> DEFINE n == Len(list)
<1>1. n \in Nat /\ DOMAIN list = 1 .. n /\ list = [i \in 1 .. n |-> list[i]]
  OBVIOUS
<1>2. Elements(list) = {list[i] : i \in 1 .. n}
  BY <1>1 DEF Elements
<1>3. list \in Bijection(1 .. n, Elements(list))
  BY <1>1, <1>2 DEF Distinct, Bijection, Injection, Surjection, IsInjective
<1>4. ExistsBijection(1 .. n, Elements(list))
  BY <1>3 DEF ExistsBijection
<1> QED
  BY <1>1, <1>4, FS_CountingElements

(* A new head that is not in the list.                                     *)
LEMMA PushHead ==
    ASSUME NEW S, NEW list \in Seq(S), Distinct(list),
           NEW x \in S, x \notin Elements(list)
    PROVE  LET new == <<x>> \o list
           IN  /\ new \in Seq(S)
               /\ Len(new) = Len(list) + 1
               /\ Distinct(new)
               /\ Elements(new) = Elements(list) \union {x}
<1> DEFINE new == <<x>> \o list
           n == Len(list)
<1>1. /\ new \in Seq(S) /\ n \in Nat /\ Len(new) = n + 1
      /\ new[1] = x
      /\ \A i \in 2 .. n + 1 : new[i] = list[i - 1]
      /\ DOMAIN new = 1 .. n + 1 /\ DOMAIN list = 1 .. n
  OBVIOUS
<1> HIDE DEF new
<1>2. \A i \in 1 .. n : list[i] # x
  BY <1>1 DEF Elements
<1>3. ASSUME NEW i \in 1 .. n + 1, NEW j \in 1 .. n + 1, new[i] = new[j]
      PROVE  i = j
  <2>1. CASE i = 1 \/ j = 1
    <3>1. \A k \in 2 .. n + 1 : new[k] # x
      <4> SUFFICES ASSUME NEW k \in 2 .. n + 1 PROVE new[k] # x
        OBVIOUS
      <4>1. k - 1 \in 1 .. n /\ new[k] = list[k - 1]
        BY <1>1
      <4> QED
        BY <4>1, <1>2
    <3> QED
      BY <1>1, <1>3, <2>1, <3>1
  <2>2. CASE i # 1 /\ j # 1
    <3>1. /\ i - 1 \in 1 .. n /\ j - 1 \in 1 .. n
          /\ new[i] = list[i - 1] /\ new[j] = list[j - 1]
      BY <1>1, <2>2
    <3>2. i - 1 = j - 1
      BY <1>3, <3>1 DEF Distinct
    <3> QED
      BY <3>2, <1>1
  <2> QED
    BY <2>1, <2>2
<1>4. Elements(new) = Elements(list) \union {x}
  <2>1. \A i \in 1 .. n : i + 1 \in 1 .. n + 1 /\ new[i + 1] = list[i]
    BY <1>1
  <2>2. \A i \in 1 .. n + 1 : i = 1 \/ (i - 1 \in 1 .. n /\ new[i] = list[i - 1])
    BY <1>1
  <2>3. 1 \in 1 .. n + 1
    BY <1>1
  <2> QED
    BY <1>1, <2>1, <2>2, <2>3 DEF Elements
<1> QED
  BY <1>1, <1>3, <1>4 DEF Distinct, new

(* What is left of a list when the node at a place is removed.             *)
LEMMA RemoveNode ==
    ASSUME NEW S, NEW list \in Seq(S), Distinct(list), NEW p \in 1 .. Len(list)
    PROVE  LET new == ListRemoveAt(list, p)
           IN  /\ new \in Seq(S)
               /\ Len(new) = Len(list) - 1
               /\ Distinct(new)
               /\ Elements(new) = Elements(list) \ {list[p]}
               /\ \A i \in 1 .. Len(list) - 1 :
                    new[i] = IF i < p THEN list[i] ELSE list[i + 1]
<1> DEFINE new == ListRemoveAt(list, p)
           n == Len(list)
<1>1. /\ n \in Nat /\ p \in Nat /\ 1 <= p /\ p <= n
      /\ DOMAIN list = 1 .. n
      /\ \A i \in 1 .. n : list[i] \in S
  OBVIOUS
<1>2. \A i \in 1 .. n - 1 : i \in 1 .. n /\ i + 1 \in 1 .. n
  BY <1>1
<1>3. new = [i \in 1 .. n - 1 |-> IF i < p THEN list[i] ELSE list[i + 1]]
  BY DEF ListRemoveAt
<1>4. new \in [1 .. n - 1 -> S]
  BY <1>1, <1>2, <1>3
<1>5. /\ new \in Seq(S) /\ Len(new) = n - 1 /\ DOMAIN new = 1 .. n - 1
      /\ \A i \in 1 .. n - 1 : new[i] = IF i < p THEN list[i] ELSE list[i + 1]
  <2>1. n - 1 \in Nat
    BY <1>1
  <2>2. new \in Seq(S)
    BY <1>4, <2>1
  <2>3. DOMAIN new = 1 .. n - 1
    BY <1>3
  <2>4. Len(new) = n - 1
    BY <2>1, <2>2, <2>3
  <2> QED
    BY <1>3, <2>2, <2>3, <2>4
<1> HIDE DEF new
<1> DEFINE old(i) == IF i < p THEN i ELSE i + 1
<1>6. \A i \in 1 .. n - 1 : old(i) \in 1 .. n /\ old(i) # p /\ new[i] = list[old(i)]
  BY <1>1, <1>5
<1>7. \A i, j \in 1 .. n - 1 : old(i) = old(j) => i = j
  BY <1>1
<1>8. \A k \in 1 .. n : k # p => \E i \in 1 .. n - 1 : old(i) = k
  <2> SUFFICES ASSUME NEW k \in 1 .. n, k # p
               PROVE  \E i \in 1 .. n - 1 : old(i) = k
    OBVIOUS
  <2>1. CASE k < p
    <3>1. k \in 1 .. n - 1 /\ old(k) = k
      BY <1>1, <2>1
    <3> QED
      BY <3>1
  <2>2. CASE p < k
    <3>1. k - 1 \in 1 .. n - 1 /\ old(k - 1) = k
      BY <1>1, <2>2
    <3> QED
      BY <3>1
  <2> QED
    BY <1>1, <2>1, <2>2
<1> HIDE DEF old
<1>9. Distinct(new)
  BY <1>5, <1>6, <1>7 DEF Distinct
<1>10. Elements(new) = Elements(list) \ {list[p]}
  <2>1. Elements(new) = {new[i] : i \in 1 .. n - 1}
    BY <1>5 DEF Elements
  <2>2. Elements(list) = {list[i] : i \in 1 .. n}
    BY <1>1 DEF Elements
  <2>3. ASSUME NEW i \in 1 .. n - 1
        PROVE  new[i] \in Elements(list) \ {list[p]}
    BY <1>6, <2>2 DEF Distinct
  <2>4. ASSUME NEW k \in 1 .. n, list[k] # list[p]
        PROVE  list[k] \in Elements(new)
    <3>1. PICK i \in 1 .. n - 1 : old(i) = k
      BY <1>8, <2>4
    <3> QED
      BY <1>6, <2>1, <3>1
  <2> QED
    BY <2>1, <2>2, <2>3, <2>4
<1> QED
  BY <1>5, <1>9, <1>10 DEF new

-----------------------------------------------------------------------------
(* The iterator *)

(* It has yet to visit the nodes of the list behind the first k.           *)
At(itr, list, k) ==
    /\ k \in 0 .. Len(list)
    /\ Len(itr) = Len(list) - k
    /\ \A i \in 1 .. Len(list) - k : itr[i] = list[k + i]

(* This is what IteratorValid says of it.                                  *)
LEMMA AtIsSuffix ==
    ASSUME NEW S, NEW list \in Seq(S), NEW itr \in Seq(S), NEW k, At(itr, list, k)
    PROVE  itr = SubSeq(list, k + 1, Len(list))
<1> DEFINE sub == SubSeq(list, k + 1, Len(list))
<1>1. k \in Nat /\ k <= Len(list) /\ Len(list) \in Nat
  BY DEF At
<1>2. /\ sub \in Seq(S) /\ Len(sub) = Len(list) - k
      /\ \A i \in 1 .. Len(list) - k : sub[i] = list[k + i]
  BY <1>1
<1>3. /\ itr = [i \in 1 .. Len(itr) |-> itr[i]]
      /\ sub = [i \in 1 .. Len(sub) |-> sub[i]]
  BY <1>2
<1> HIDE DEF sub
<1>4. Len(itr) = Len(sub) /\ \A i \in 1 .. Len(itr) : itr[i] = sub[i]
  BY <1>2 DEF At
<1> QED
  BY <1>3, <1>4 DEF sub

(* The node the iterator is at, and what it has yet to visit when it moves *)
(* on.                                                                     *)
LEMMA ItrNext ==
    ASSUME NEW S, NEW list \in Seq(S), Distinct(list), NEW itr \in Seq(S),
           itr # << >>, NEW k, At(itr, list, k)
    PROVE  /\ k + 1 \in 1 .. Len(list)
           /\ Head(itr) = list[k + 1]
           /\ k + 1 = Len(list) - Len(itr) + 1
           /\ Tail(itr) \in Seq(S)
           /\ At(Tail(itr), list, k + 1)
           /\ Elements(Tail(itr)) \subseteq Elements(itr) \ {Head(itr)}
           /\ Head(itr) \in Elements(list) /\ Head(itr) \in Elements(itr)
<1> DEFINE n == Len(list)
           t == Tail(itr)
<1>1. /\ n \in Nat /\ k \in Nat /\ k <= n /\ Len(itr) = n - k
      /\ \A i \in 1 .. n - k : itr[i] = list[k + i]
  BY DEF At
<1>2. /\ Len(itr) \in Nat \ {0} /\ Head(itr) = itr[1]
      /\ t \in Seq(S) /\ Len(t) = Len(itr) - 1
      /\ \A i \in 1 .. Len(itr) - 1 : t[i] = itr[i + 1]
      /\ DOMAIN t = 1 .. Len(itr) - 1 /\ DOMAIN itr = 1 .. Len(itr)
      /\ DOMAIN list = 1 .. n
  OBVIOUS
<1> HIDE DEF t
<1>3. 1 \in 1 .. n - k /\ k + 1 \in 1 .. n /\ Head(itr) = list[k + 1]
  BY <1>1, <1>2
<1>4. ASSUME NEW i \in 1 .. n - (k + 1)
      PROVE  /\ i + 1 \in 1 .. n - k /\ k + 1 + i \in 1 .. n
             /\ t[i] = itr[i + 1] /\ t[i] = list[k + 1 + i]
             /\ k + 1 + i # k + 1
  <2>1. i + 1 \in 1 .. n - k /\ i \in 1 .. Len(itr) - 1 /\ k + (i + 1) = k + 1 + i
    BY <1>1
  <2> QED
    BY <1>1, <1>2, <2>1
<1>5. At(t, list, k + 1)
  BY <1>1, <1>2, <1>3, <1>4 DEF At
<1>6. ASSUME NEW i \in 1 .. n - (k + 1)
      PROVE  t[i] \in Elements(itr) \ {Head(itr)}
  <2>1. t[i] \in Elements(itr)
    BY <1>1, <1>2, <1>4 DEF Elements
  <2>2. t[i] # Head(itr)
    BY <1>3, <1>4 DEF Distinct
  <2> QED
    BY <2>1, <2>2
<1>7. Elements(t) = {t[i] : i \in 1 .. n - (k + 1)}
  BY <1>1, <1>2 DEF Elements
<1>8. Head(itr) \in Elements(list) /\ Head(itr) \in Elements(itr)
  BY <1>1, <1>2, <1>3 DEF Elements
<1> QED
  BY <1>1, <1>2, <1>3, <1>5, <1>6, <1>7, <1>8 DEF t

(* The node the iterator has just left can be removed from the list.       *)
LEMMA ItrRemoveLeft ==
    ASSUME NEW S, NEW list \in Seq(S), Distinct(list), NEW itr \in Seq(S),
           NEW k, k + 1 \in 1 .. Len(list), k \in Nat, At(itr, list, k + 1)
    PROVE  At(itr, ListRemoveAt(list, k + 1), k)
<1> DEFINE n == Len(list)
           new == ListRemoveAt(list, k + 1)
<1>1. /\ Len(new) = n - 1
      /\ \A i \in 1 .. n - 1 : new[i] = IF i < k + 1 THEN list[i] ELSE list[i + 1]
  BY RemoveNode
<1>2. n \in Nat /\ k < n
  OBVIOUS
<1> HIDE DEF new
<1>3. \A i \in 1 .. n - (k + 1) : itr[i] = list[k + 1 + i]
  BY DEF At
<1>4. ASSUME NEW i \in 1 .. (n - 1) - k
      PROVE  itr[i] = new[k + i]
  <2>1. i \in 1 .. n - (k + 1) /\ k + i \in 1 .. n - 1 /\ ~ (k + i < k + 1)
        /\ k + i + 1 = k + 1 + i
    BY <1>2
  <2> QED
    BY <1>1, <1>3, <2>1
<1>5. Len(itr) = (n - 1) - k /\ k \in 0 .. n - 1
  BY <1>2 DEF At
<1> QED
  BY <1>1, <1>4, <1>5 DEF At, new
-----------------------------------------------------------------------------
(* The kernel *)

KernelOK(k) ==
    /\ k.open \in SUBSET ClientID
    /\ k.waiting \in 0 .. BackLog
    /\ k.msgs \in [ClientID -> Nat]
    /\ k.fin \in [ClientID -> BOOLEAN]

(* accept() finds a descriptor that is not open.                           *)
LEMMA FreeFdIsFree ==
    ASSUME NEW k, CanAccept(k)
    PROVE  FreeFd(k) \in ClientID \ k.open
<1> DEFINE T == ClientID \ k.open
           R == OpToRel(<, Nat)
<1> USE SocketsAssumption
<1>1. T \in SUBSET Nat /\ T # {}
  BY DEF CanAccept
<1>2. IsWellFoundedOn(R, Nat)
  BY NatLessThanWellFounded, Zenon
<1>3. \A i, j \in Nat : i < j => <<i, j>> \in R
  BY DEF OpToRel
<1> HIDE DEF R
<1>4. PICK x \in T : \A y \in T : ~ (<<y, x>> \in R)
  BY <1>1, <1>2, WFMin
<1>5. ASSUME NEW y \in T
      PROVE  x <= y
  <2>1. x \in Nat /\ y \in Nat /\ ~ (y < x)
    BY <1>1, <1>3, <1>4
  <2> QED
    BY <2>1
<1> QED
  BY <1>4, <1>5 DEF FreeFd

(* What the server does to a socket leaves the others as they are.         *)
SameElsewhere(k, new, fd) ==
    \A s \in ClientID \ {fd} : new.msgs[s] = k.msgs[s] /\ new.fin[s] = k.fin[s]

(* The server's calls: accept(), accept() and close(), recv(), close().    *)
LEMMA ServerCalls ==
    ASSUME NEW k, KernelOK(k), NEW fd \in ClientID
    PROVE  /\ k.waiting > 0 /\ fd = FreeFd(k) =>
                /\ KernelOK(Accepted(k))
                /\ Accepted(k).open = k.open \union {fd}
                /\ SameElsewhere(k, Accepted(k), fd)
           /\ k.waiting > 0 =>
                /\ KernelOK(Declined(k))
                /\ Declined(k).open = k.open
                /\ Declined(k).msgs = k.msgs /\ Declined(k).fin = k.fin
           /\ \A m \in 1 .. k.msgs[fd] :
                /\ KernelOK(Received(k, fd, m))
                /\ Received(k, fd, m).open = k.open
                /\ SameElsewhere(k, Received(k, fd, m), fd)
           /\ /\ KernelOK(Closed(k, fd))
              /\ Closed(k, fd).open = k.open \ {fd}
              /\ SameElsewhere(k, Closed(k, fd), fd)
<1> USE SocketsAssumption
<1>1. /\ k.open \in SUBSET ClientID
      /\ k.waiting \in Nat /\ k.waiting <= BackLog /\ BackLog \in Nat
      /\ k.msgs \in [ClientID -> Nat] /\ k.msgs[fd] \in Nat
      /\ k.fin \in [ClientID -> BOOLEAN]
  BY DEF KernelOK
<1>2. ASSUME k.waiting > 0, fd = FreeFd(k)
      PROVE  /\ KernelOK(Accepted(k))
             /\ Accepted(k).open = k.open \union {fd}
             /\ SameElsewhere(k, Accepted(k), fd)
  <2> DEFINE new == Accepted(k)
  <2>1. /\ new.open = k.open \union {fd} /\ new.waiting = k.waiting - 1
        /\ new.msgs = [k.msgs EXCEPT ![fd] = 0]
        /\ new.fin = [k.fin EXCEPT ![fd] = FALSE]
    BY <1>2 DEF Accepted, Kernel
  <2> HIDE DEF new
  <2>2. KernelOK(new)
    BY <1>1, <1>2, <2>1 DEF KernelOK
  <2>3. SameElsewhere(k, new, fd)
    BY <1>1, <2>1 DEF SameElsewhere
  <2> QED
    BY <2>1, <2>2, <2>3 DEF new
<1>3. ASSUME k.waiting > 0
      PROVE  /\ KernelOK(Declined(k))
             /\ Declined(k).open = k.open
             /\ Declined(k).msgs = k.msgs /\ Declined(k).fin = k.fin
  BY <1>1, <1>3 DEF Declined, Kernel, KernelOK
<1>4. ASSUME NEW m \in 1 .. k.msgs[fd]
      PROVE  /\ KernelOK(Received(k, fd, m))
             /\ Received(k, fd, m).open = k.open
             /\ SameElsewhere(k, Received(k, fd, m), fd)
  <2> DEFINE new == Received(k, fd, m)
  <2>1. /\ new.open = k.open /\ new.waiting = k.waiting /\ new.fin = k.fin
        /\ new.msgs = [k.msgs EXCEPT ![fd] = k.msgs[fd] - m]
    BY DEF Received, Kernel
  <2>2. k.msgs[fd] - m \in Nat
    BY <1>1
  <2> HIDE DEF new
  <2>3. KernelOK(new)
    BY <1>1, <2>1, <2>2 DEF KernelOK
  <2>4. SameElsewhere(k, new, fd)
    BY <1>1, <2>1 DEF SameElsewhere
  <2> QED
    BY <2>1, <2>3, <2>4 DEF new
<1>5. /\ KernelOK(Closed(k, fd))
      /\ Closed(k, fd).open = k.open \ {fd}
      /\ SameElsewhere(k, Closed(k, fd), fd)
  <2> DEFINE new == Closed(k, fd)
  <2>1. /\ new.open = k.open \ {fd} /\ new.waiting = k.waiting
        /\ new.msgs = [k.msgs EXCEPT ![fd] = 0]
        /\ new.fin = [k.fin EXCEPT ![fd] = FALSE]
    BY DEF Closed, Kernel
  <2> HIDE DEF new
  <2>2. KernelOK(new)
    BY <1>1, <2>1 DEF KernelOK
  <2>3. SameElsewhere(k, new, fd)
    BY <1>1, <2>1 DEF SameElsewhere
  <2> QED
    BY <2>1, <2>2, <2>3 DEF new
<1> QED
  BY <1>2, <1>3, <1>4, <1>5

(* What the clients do opens and closes no descriptor of the server, and   *)
(* what can be read stays readable.                                        *)
LEMMA ClientCalls ==
    ASSUME KernelOK(kernel),
           \/ ClientConnects
           \/ \E fd \in ClientID : ClientSends(fd) \/ ClientCloses(fd)
    PROVE  /\ KernelOK(kernel')
           /\ kernel'.open = kernel.open
           /\ \A s \in ClientID : Readable(kernel, s) => Readable(kernel', s)
<1> USE SocketsAssumption
<1>1. /\ kernel.open \in SUBSET ClientID
      /\ kernel.waiting \in Nat /\ kernel.waiting <= BackLog /\ BackLog \in Nat
      /\ kernel.msgs \in [ClientID -> Nat]
      /\ kernel.fin \in [ClientID -> BOOLEAN]
  BY DEF KernelOK
<1>2. CASE ClientConnects
  BY <1>1, <1>2 DEF ClientConnects, Connecting, Kernel, KernelOK, Readable
<1>3. ASSUME NEW fd \in ClientID, ClientSends(fd)
      PROVE  /\ KernelOK(kernel')
             /\ kernel'.open = kernel.open
             /\ \A s \in ClientID : Readable(kernel, s) => Readable(kernel', s)
  <2>1. /\ kernel'.open = kernel.open /\ kernel'.waiting = kernel.waiting
        /\ kernel'.fin = kernel.fin
        /\ kernel'.msgs = [kernel.msgs EXCEPT ![fd] = kernel.msgs[fd] + 1]
    BY <1>3 DEF ClientSends, Sending, Kernel
  <2>2. kernel.msgs[fd] \in Nat
    BY <1>1
  <2>3. KernelOK(kernel')
    BY <1>1, <2>1, <2>2 DEF KernelOK
  <2>4. ASSUME NEW s \in ClientID
        PROVE  kernel.msgs[s] > 0 => kernel'.msgs[s] > 0
    <3>1. CASE s = fd
      <4>1. kernel'.msgs[s] = kernel.msgs[fd] + 1
        BY <1>1, <2>1, <3>1
      <4> QED
        BY <2>2, <3>1, <4>1
    <3>2. CASE s # fd
      <4>1. kernel'.msgs[s] = kernel.msgs[s]
        BY <1>1, <2>1, <3>2
      <4> QED
        BY <4>1
    <3> QED
      BY <3>1, <3>2
  <2> QED
    BY <2>1, <2>3, <2>4 DEF Readable
<1>4. ASSUME NEW fd \in ClientID, ClientCloses(fd)
      PROVE  /\ KernelOK(kernel')
             /\ kernel'.open = kernel.open
             /\ \A s \in ClientID : Readable(kernel, s) => Readable(kernel', s)
  <2>1. /\ kernel'.open = kernel.open /\ kernel'.waiting = kernel.waiting
        /\ kernel'.msgs = kernel.msgs
        /\ kernel'.fin = [kernel.fin EXCEPT ![fd] = TRUE]
    BY <1>4 DEF ClientCloses, Closing, Kernel
  <2>2. KernelOK(kernel')
    BY <1>1, <2>1 DEF KernelOK
  <2>3. \A s \in ClientID : kernel.fin[s] => kernel'.fin[s]
    BY <1>1, <2>1
  <2> QED
    BY <2>1, <2>2, <2>3 DEF Readable
<1> QED
  BY <1>2, <1>3, <1>4

-----------------------------------------------------------------------------
(* The inductive invariant *)

(* The properties need one another and two facts about where ServerRun is: *)
(* between select() and accept() every client of the list is open, so the  *)
(* descriptor accept() returns is not on the list; and a bit of            *)
(* m_readySockets that HandleClients has yet to look at is the bit of a    *)
(* client that was readable when select() returned.                        *)
Books ==
    /\ numOfClients = Len(mClients)
    /\ Distinct(mClients)
    /\ connectedSockets = Elements(mClients) \union {ListenSock}
    /\ kernel.open \subseteq Elements(mClients)

ReadyAmong(fds) == \A fd \in fds : fd \in kernel.open /\ Readable(kernel, fd)

AcceptPhase ==
    /\ Elements(mClients) = kernel.open
    /\ ReadyAmong(readySockets \ {ListenSock})

HandlePhase ==
    /\ \E k \in Nat : At(currentItr, mClients, k)
    /\ ReadyAmong(Elements(currentItr) \intersect readySockets)

TcpServerInv ==
    /\ TcpServerTypeOK
    /\ Books
    /\ pc = "accept" => AcceptPhase
    /\ pc = "handle" => HandlePhase

-----------------------------------------------------------------------------
(* The steps of the server *)

(* MaxClients and the record fields as numbers and sets.                   *)
LEMMA InvFacts ==
    ASSUME TcpServerInv
    PROVE  /\ KernelOK(kernel)
           /\ MaxClients \in Nat
           /\ numOfClients \in Nat
           /\ mClients \in Seq(ClientID) /\ currentItr \in Seq(ClientID)
           /\ Elements(mClients) \subseteq ClientID
           /\ ListenSock \notin Elements(mClients)
<1>1. mClients \in Seq(ClientID)
  BY DEF TcpServerInv, TcpServerTypeOK
<1>2. Elements(mClients) \subseteq ClientID
  BY <1>1 DEF Elements
<1>3. ListenSock \notin Elements(mClients)
  BY <1>2, SocketsAssumption
<1>4. Cardinality(ClientID) \in Nat
  BY SocketsAssumption, FS_CardinalityType
<1>5. MaxClients \in Nat
  BY <1>4, TcpServerAssumption
<1>6. numOfClients \in Nat
  BY <1>5 DEF TcpServerInv, TcpServerTypeOK
<1> QED
  BY <1>1, <1>2, <1>3, <1>5, <1>6 DEF TcpServerInv, TcpServerTypeOK, KernelOK

(* HandleClients starts with the whole list.                               *)
LEMMA WholeList ==
    ASSUME NEW S, NEW list \in Seq(S)
    PROVE  At(list, list, 0)
BY DEF At

(* ServerCreate: nobody is connected.                                      *)
LEMMA TcpServerInitInv == Listening => TcpServerInv
<1> SUFFICES ASSUME Listening
             PROVE  TcpServerInv
  OBVIOUS
<1> USE SocketsAssumption
<1>1. /\ kernel.open = {} /\ kernel.waiting = 0
      /\ kernel.msgs = [fd \in ClientID |-> 0]
      /\ kernel.fin = [fd \in ClientID |-> FALSE]
  BY DEF Listening, KernelBoot, Kernel
<1>2. /\ pc = "select" /\ mClients = << >> /\ currentItr = << >>
      /\ numOfClients = 0 /\ connectedSockets = {ListenSock}
      /\ readySockets = {} /\ toldToStop = FALSE
  BY DEF Listening
<1>3. MaxClients \in Nat
  <2>1. Cardinality(ClientID) \in Nat
    BY FS_CardinalityType
  <2> QED
    BY <2>1, TcpServerAssumption
<1>4. mClients \in Seq(ClientID) /\ currentItr \in Seq(ClientID)
  BY <1>2
<1>5. TcpServerTypeOK
  <2>1. /\ kernel.open \in SUBSET ClientID /\ kernel.waiting \in 0 .. BackLog
        /\ kernel.msgs \in [ClientID -> Nat]
        /\ kernel.fin \in [ClientID -> BOOLEAN]
    BY <1>1
  <2>2. /\ numOfClients \in 0 .. MaxClients
        /\ connectedSockets \in SUBSET (ClientID \union {ListenSock})
        /\ readySockets \in SUBSET (ClientID \union {ListenSock})
    BY <1>2, <1>3
  <2> QED
    BY <1>2, <1>4, <2>1, <2>2 DEF TcpServerTypeOK
<1>6. Elements(mClients) = {} /\ Len(mClients) = 0
  BY <1>2 DEF Elements
<1>7. Books
  BY <1>1, <1>2, <1>6 DEF Books, Distinct
<1> QED
  BY <1>2, <1>5, <1>7 DEF TcpServerInv

(* select() answers for sockets that are all open: that is its guard.      *)
LEMMA SelectInv ==
    ASSUME TcpServerInv, Select
    PROVE  TcpServerInv'
<1>1. /\ KernelOK(kernel) /\ Elements(mClients) \subseteq ClientID
      /\ ListenSock \notin Elements(mClients)
  BY InvFacts
<1>2. /\ connectedSockets = Elements(mClients) \union {ListenSock}
      /\ kernel.open \subseteq Elements(mClients)
  BY DEF TcpServerInv, Books
<1>3. Elements(mClients) \subseteq kernel.open
  BY <1>1, <1>2 DEF Select
<1>4. ASSUME NEW s \in Ready \ {ListenSock}
      PROVE  s \in kernel.open /\ Readable(kernel, s)
  BY <1>2, <1>3 DEF Ready
<1>5. readySockets' = Ready /\ pc' = "accept"
      /\ UNCHANGED <<kernel, bookVars, currentItr, toldToStop>>
  BY DEF Select
<1>6. AcceptPhase'
  BY <1>2, <1>3, <1>4, <1>5 DEF AcceptPhase, ReadyAmong, bookVars
<1>7. TcpServerTypeOK'
  BY <1>1, <1>2, <1>5 DEF TcpServerInv, TcpServerTypeOK, bookVars, Ready
<1>8. Books'
  BY <1>5 DEF TcpServerInv, Books, bookVars
<1> QED
  BY <1>5, <1>6, <1>7, <1>8 DEF TcpServerInv

(* The server goes to the clients without a new one.                       *)
LEMMA HandleOldInv ==
    ASSUME TcpServerInv, pc = "accept",
           KernelOK(kernel'), kernel'.open = kernel.open,
           kernel'.msgs = kernel.msgs, kernel'.fin = kernel.fin,
           UNCHANGED <<bookVars, readySockets>>,
           toldToStop' \in BOOLEAN,
           \/ StartHandling(mClients)
           \/ pc' = "stopped" /\ UNCHANGED currentItr
    PROVE  TcpServerInv'
<1>1. /\ mClients \in Seq(ClientID) /\ Elements(mClients) \subseteq ClientID
      /\ ListenSock \notin Elements(mClients)
  BY InvFacts
<1>2. /\ Elements(mClients) = kernel.open
      /\ ReadyAmong(readySockets \ {ListenSock})
  BY DEF TcpServerInv, AcceptPhase
<1>3. TcpServerTypeOK'
  BY <1>1 DEF TcpServerInv, TcpServerTypeOK, KernelOK, bookVars, StartHandling
<1>4. Books'
  BY DEF TcpServerInv, Books, bookVars
<1>5. pc' \in {"handle", "stopped"}
  BY DEF StartHandling
<1>6. ASSUME pc' = "handle"
      PROVE  HandlePhase'
  <2>1. currentItr' = mClients /\ mClients' = mClients /\ readySockets' = readySockets
    BY <1>6 DEF StartHandling, bookVars
  <2>2. At(currentItr', mClients', 0)
    BY <1>1, <2>1, WholeList
  <2>3. ASSUME NEW s \in Elements(mClients) \intersect readySockets
        PROVE  s \in kernel'.open /\ Readable(kernel', s)
    BY <1>1, <1>2 DEF ReadyAmong, Readable
  <2> QED
    BY <2>1, <2>2, <2>3 DEF HandlePhase, ReadyAmong
<1> QED
  BY <1>3, <1>4, <1>5, <1>6 DEF TcpServerInv

(* A new client: its descriptor was not on the list, and has no bit in     *)
(* m_readySockets.                                                         *)
LEMMA AcceptClientInv ==
    ASSUME TcpServerInv, NEW fd \in ClientID, NEW kept \in BOOLEAN,
           AcceptClient(fd, kept)
    PROVE  TcpServerInv'
<1> DEFINE new == <<fd>> \o mClients
<1>1. /\ KernelOK(kernel) /\ mClients \in Seq(ClientID)
      /\ MaxClients \in Nat /\ numOfClients \in Nat
      /\ Elements(mClients) \subseteq ClientID
      /\ ListenSock \notin Elements(mClients)
  BY InvFacts
<1>2. /\ Elements(mClients) = kernel.open
      /\ ReadyAmong(readySockets \ {ListenSock})
  BY DEF TcpServerInv, AcceptPhase, AcceptClient
<1>3. /\ numOfClients = Len(mClients) /\ Distinct(mClients)
      /\ connectedSockets = Elements(mClients) \union {ListenSock}
  BY DEF TcpServerInv, Books
<1>4. /\ CanAccept(kernel) /\ fd = FreeFd(kernel) /\ kernel.waiting > 0
      /\ numOfClients < MaxClients
      /\ mClients' = new /\ currentItr' = new
      /\ connectedSockets' = connectedSockets \union {fd}
      /\ numOfClients' = numOfClients + 1
      /\ kernel' = Introduced(fd, kept)
      /\ pc' = "handle"
      /\ readySockets' = readySockets /\ toldToStop' = toldToStop
  BY <1>1 DEF AcceptClient, Full, StartHandling, CanAccept
<1>5. fd \notin kernel.open
  BY <1>4, FreeFdIsFree
<1>6. /\ new \in Seq(ClientID) /\ Len(new) = Len(mClients) + 1
      /\ Distinct(new) /\ Elements(new) = Elements(mClients) \union {fd}
  BY <1>1, <1>2, <1>3, <1>5, PushHead
<1> HIDE DEF new
<1>7. /\ KernelOK(kernel')
      /\ kernel.open \subseteq kernel'.open
      /\ kernel'.open \subseteq kernel.open \union {fd}
      /\ SameElsewhere(kernel, kernel', fd)
  <2> DEFINE acc == Accepted(kernel)
  <2>1. /\ KernelOK(acc) /\ acc.open = kernel.open \union {fd}
        /\ SameElsewhere(kernel, acc, fd)
    BY <1>1, <1>4, ServerCalls
  <2> HIDE DEF acc
  <2>2. /\ KernelOK(Closed(acc, fd))
        /\ Closed(acc, fd).open = acc.open \ {fd}
        /\ SameElsewhere(acc, Closed(acc, fd), fd)
    BY <2>1, ServerCalls
  <2>3. SameElsewhere(kernel, Closed(acc, fd), fd)
    BY <2>1, <2>2 DEF SameElsewhere
  <2>4. kernel' = acc \/ kernel' = Closed(acc, fd)
    BY <1>4 DEF Introduced, acc
  <2> QED
    BY <1>5, <2>1, <2>2, <2>3, <2>4
<1>8. TcpServerTypeOK'
  <2>1. numOfClients' \in 0 .. MaxClients
    BY <1>1, <1>4
  <2>2. connectedSockets' \in SUBSET (ClientID \union {ListenSock})
    BY <1>4 DEF TcpServerInv, TcpServerTypeOK
  <2> QED
    BY <1>4, <1>6, <1>7, <2>1, <2>2 DEF TcpServerInv, TcpServerTypeOK, KernelOK
<1>9. Books'
  BY <1>2, <1>3, <1>4, <1>6, <1>7 DEF Books
<1>10. HandlePhase'
  <2>1. At(currentItr', mClients', 0)
    BY <1>4, <1>6, WholeList
  <2>2. ASSUME NEW s \in Elements(new) \intersect readySockets
        PROVE  s \in kernel'.open /\ Readable(kernel', s)
    <3>1. s \in ClientID /\ s # ListenSock
      BY <1>1, <1>6, SocketsAssumption
    <3>2. s \in kernel.open /\ Readable(kernel, s)
      BY <3>1, <1>2 DEF ReadyAmong
    <3> QED
      BY <3>1, <3>2, <1>5, <1>7 DEF SameElsewhere, Readable
  <2> QED
    BY <1>4, <2>1, <2>2 DEF HandlePhase, ReadyAmong
<1> QED
  BY <1>4, <1>8, <1>9, <1>10 DEF TcpServerInv

(* HandleClients moves on from a client it did not remove.                 *)
LEMMA VisitedInv ==
    ASSUME TcpServerInv, NEW fd \in ClientID, AtClient(fd),
           KernelOK(kernel'), kernel'.open = kernel.open,
           SameElsewhere(kernel, kernel', fd),
           currentItr' = Tail(currentItr),
           UNCHANGED <<pc, bookVars, readySockets, toldToStop>>
    PROVE  TcpServerInv'
<1> DEFINE t == Tail(currentItr)
<1>1. mClients \in Seq(ClientID) /\ currentItr \in Seq(ClientID)
      /\ Elements(mClients) \subseteq ClientID
  BY InvFacts
<1>2. pc = "handle" /\ currentItr # << >> /\ fd = Head(currentItr)
  BY DEF AtClient
<1>3. Distinct(mClients)
  BY DEF TcpServerInv, Books
<1>4. PICK k \in Nat : At(currentItr, mClients, k)
  BY <1>2 DEF TcpServerInv, HandlePhase
<1>5. /\ t \in Seq(ClientID) /\ At(t, mClients, k + 1)
      /\ Elements(t) \subseteq Elements(currentItr) \ {fd}
  BY <1>1, <1>2, <1>3, <1>4, ItrNext
<1> HIDE DEF t
<1>6. TcpServerTypeOK'
  BY <1>5 DEF TcpServerInv, TcpServerTypeOK, KernelOK, bookVars, t
<1>7. Books'
  BY DEF TcpServerInv, Books, bookVars
<1>8. HandlePhase'
  <2>1. ASSUME NEW s \in Elements(t) \intersect readySockets
        PROVE  s \in kernel'.open /\ Readable(kernel', s)
    <3>1. s \in kernel.open /\ Readable(kernel, s) /\ s # fd
      BY <1>2, <1>5 DEF TcpServerInv, HandlePhase, ReadyAmong
    <3>2. s \in ClientID
      BY <3>1 DEF TcpServerInv, TcpServerTypeOK
    <3> QED
      BY <3>1, <3>2 DEF SameElsewhere, Readable
  <2>2. At(currentItr', mClients', k + 1) /\ k + 1 \in Nat
    BY <1>4, <1>5 DEF bookVars, t
  <2> QED
    BY <2>1, <2>2 DEF HandlePhase, ReadyAmong, t
<1> QED
  BY <1>2, <1>6, <1>7, <1>8 DEF TcpServerInv

(* A client that is gone is removed behind the iterator.                   *)
LEMMA ReceiveCloseInv ==
    ASSUME TcpServerInv, NEW fd \in ClientID, ReceiveClose(fd)
    PROVE  TcpServerInv'
<1> DEFINE t    == Tail(currentItr)
           list == ListRemoveAt(mClients, ItrPlace)
<1>1. /\ KernelOK(kernel)
      /\ mClients \in Seq(ClientID) /\ currentItr \in Seq(ClientID)
      /\ Elements(mClients) \subseteq ClientID /\ numOfClients \in Nat
      /\ MaxClients \in Nat /\ ListenSock \notin Elements(mClients)
  BY InvFacts
<1>2. /\ pc = "handle" /\ currentItr # << >> /\ fd = Head(currentItr)
      /\ mClients' = list /\ numOfClients' = numOfClients - 1
      /\ connectedSockets' = connectedSockets \ {mClients[ItrPlace]}
      /\ kernel' = Closed(kernel, fd)
      /\ currentItr' = t
      /\ UNCHANGED <<pc, readySockets, toldToStop>>
  BY DEF ReceiveClose, CloseArrives, AtClient, RemoveClient, NextClient
<1>3. /\ numOfClients = Len(mClients) /\ Distinct(mClients)
      /\ connectedSockets = Elements(mClients) \union {ListenSock}
      /\ kernel.open \subseteq Elements(mClients)
  BY DEF TcpServerInv, Books
<1>4. PICK k \in Nat : At(currentItr, mClients, k)
  BY <1>2 DEF TcpServerInv, HandlePhase
<1>5. /\ k + 1 \in 1 .. Len(mClients)
      /\ fd = mClients[k + 1] /\ fd \in Elements(mClients)
      /\ k + 1 = ItrPlace
      /\ t \in Seq(ClientID) /\ At(t, mClients, k + 1)
      /\ Elements(t) \subseteq Elements(currentItr) \ {fd}
  <2>1. /\ k + 1 \in 1 .. Len(mClients)
        /\ Head(currentItr) = mClients[k + 1]
        /\ k + 1 = Len(mClients) - Len(currentItr) + 1
        /\ Tail(currentItr) \in Seq(ClientID)
        /\ At(Tail(currentItr), mClients, k + 1)
        /\ Elements(Tail(currentItr)) \subseteq Elements(currentItr) \ {Head(currentItr)}
        /\ Head(currentItr) \in Elements(mClients)
    BY <1>1, <1>2, <1>3, <1>4, ItrNext
  <2> QED
    BY <1>2, <2>1 DEF ItrPlace
<1>6. At(t, list, k)
  BY <1>1, <1>3, <1>4, <1>5, ItrRemoveLeft
<1>7. /\ list \in Seq(ClientID) /\ Len(list) = Len(mClients) - 1
      /\ Distinct(list) /\ Elements(list) = Elements(mClients) \ {fd}
  BY <1>1, <1>3, <1>5, RemoveNode
<1>8. /\ KernelOK(kernel') /\ kernel'.open = kernel.open \ {fd}
      /\ SameElsewhere(kernel, kernel', fd)
  BY <1>1, <1>2, ServerCalls
<1> HIDE DEF t, list
<1>9. TcpServerTypeOK'
  <2>1. numOfClients' \in 0 .. MaxClients
    BY <1>1, <1>2, <1>3, <1>5 DEF TcpServerInv, TcpServerTypeOK
  <2> QED
    BY <1>2, <1>5, <1>7, <1>8, <2>1 DEF TcpServerInv, TcpServerTypeOK, KernelOK
<1>10. Books'
  BY <1>1, <1>2, <1>3, <1>5, <1>7, <1>8 DEF Books
<1>11. HandlePhase'
  <2>1. ASSUME NEW s \in Elements(t) \intersect readySockets
        PROVE  s \in kernel'.open /\ Readable(kernel', s)
    <3>1. s \in kernel.open /\ Readable(kernel, s) /\ s # fd
      BY <1>2, <1>5 DEF TcpServerInv, HandlePhase, ReadyAmong
    <3>2. s \in ClientID
      BY <3>1, <1>1 DEF KernelOK
    <3> QED
      BY <3>1, <3>2, <1>8 DEF SameElsewhere, Readable
  <2> QED
    BY <1>2, <1>4, <1>6, <2>1 DEF HandlePhase, ReadyAmong
<1> QED
  BY <1>2, <1>9, <1>10, <1>11 DEF TcpServerInv

(* The steps of ServerRun that call no callback but m_failFunc.            *)
LEMMA OwnStepInv ==
    ASSUME TcpServerInv, OwnStep
    PROVE  TcpServerInv'
<1>1. CASE Select
  BY <1>1, SelectInv
<1>2. CASE SelectFails
  <2>1. /\ KernelOK(kernel) /\ Elements(mClients) \subseteq ClientID
    BY InvFacts
  <2>2. /\ readySockets' = connectedSockets /\ pc' = "stopped"
        /\ toldToStop' \in BOOLEAN
        /\ UNCHANGED <<kernel, bookVars, currentItr>>
    BY <1>2 DEF SelectFails, TcpServerInv, TcpServerTypeOK
  <2>3. TcpServerTypeOK'
    BY <2>2 DEF TcpServerInv, TcpServerTypeOK, bookVars
  <2>4. Books'
    BY <2>2 DEF TcpServerInv, Books, bookVars
  <2> QED
    BY <2>2, <2>3, <2>4 DEF TcpServerInv
<1>3. CASE NoNewClient
  <2>1. KernelOK(kernel)
    BY InvFacts
  <2>2. /\ pc = "accept" /\ StartHandling(mClients)
        /\ UNCHANGED <<kernel, bookVars, readySockets, toldToStop>>
    BY <1>3 DEF NoNewClient
  <2>3. toldToStop' \in BOOLEAN /\ KernelOK(kernel')
    BY <2>1, <2>2 DEF TcpServerInv, TcpServerTypeOK
  <2> QED
    BY <2>2, <2>3, HandleOldInv
<1>4. ASSUME NEW stop \in BOOLEAN, DeclineClient(stop)
      PROVE  TcpServerInv'
  <2>1. KernelOK(kernel) /\ ClientID # {}
    BY <1>4, InvFacts DEF DeclineClient, CanAccept
  <2>2. /\ pc = "accept" /\ kernel.waiting > 0
        /\ kernel' = Declined(kernel)
        /\ UNCHANGED <<bookVars, readySockets>>
        /\ StartHandling(mClients) \/ (pc' = "stopped" /\ UNCHANGED currentItr)
    BY <1>4 DEF DeclineClient, DeclineConnection, CanAccept
  <2>3. toldToStop' \in BOOLEAN
    BY <1>4 DEF DeclineClient, TcpServerInv, TcpServerTypeOK
  <2>4. /\ KernelOK(kernel') /\ kernel'.open = kernel.open
        /\ kernel'.msgs = kernel.msgs /\ kernel'.fin = kernel.fin
    BY <2>1, <2>2, ServerCalls
  <2> QED
    BY <2>2, <2>3, <2>4, HandleOldInv
<1>5. ASSUME NEW fd \in ClientID, SkipClient(fd)
      PROVE  TcpServerInv'
  <2>1. KernelOK(kernel)
    BY InvFacts
  <2>2. /\ AtClient(fd) /\ currentItr' = Tail(currentItr)
        /\ UNCHANGED <<kernel, pc, bookVars, readySockets, toldToStop>>
    BY <1>5 DEF SkipClient
  <2>3. KernelOK(kernel') /\ kernel'.open = kernel.open /\ SameElsewhere(kernel, kernel', fd)
    BY <2>1, <2>2 DEF SameElsewhere
  <2> QED
    BY <2>2, <2>3, VisitedInv
<1>6. CASE RoundEnds
  <2>1. /\ pc' = "select"
        /\ UNCHANGED <<kernel, bookVars, readySockets, currentItr, toldToStop>>
    BY <1>6 DEF RoundEnds
  <2>2. TcpServerTypeOK' /\ Books'
    BY <2>1 DEF TcpServerInv, TcpServerTypeOK, Books, bookVars
  <2> QED
    BY <2>1, <2>2 DEF TcpServerInv
<1> QED
  BY <1>1, <1>2, <1>3, <1>4, <1>5, <1>6 DEF OwnStep

(* recv() of at least one message.                                         *)
LEMMA ReceiveMessageInv ==
    ASSUME TcpServerInv, NEW fd \in ClientID, ReceiveMessage(fd)
    PROVE  TcpServerInv'
<1>1. KernelOK(kernel)
  BY InvFacts
<1>2. PICK m \in 1 .. kernel.msgs[fd] : kernel' = Received(kernel, fd, m)
  BY DEF ReceiveMessage
<1>3. /\ AtClient(fd) /\ currentItr' = Tail(currentItr)
      /\ UNCHANGED <<pc, bookVars, readySockets, toldToStop>>
  BY DEF ReceiveMessage, NextClient
<1>4. KernelOK(kernel') /\ kernel'.open = kernel.open /\ SameElsewhere(kernel, kernel', fd)
  BY <1>1, <1>2, ServerCalls
<1> QED
  BY <1>3, <1>4, VisitedInv

(* What the clients do never invalidates a bit of m_readySockets.          *)
LEMMA ClientStepInv ==
    ASSUME TcpServerInv, ClientStep
    PROVE  TcpServerInv'
<1>1. KernelOK(kernel) /\ Elements(mClients) \subseteq ClientID
  BY InvFacts
<1>2. /\ KernelOK(kernel') /\ kernel'.open = kernel.open
      /\ \A s \in ClientID : Readable(kernel, s) => Readable(kernel', s)
  BY <1>1, ClientCalls DEF ClientStep
<1>3. UNCHANGED <<pc, bookVars, readySockets, currentItr, toldToStop>>
  BY DEF ClientStep
<1>4. TcpServerTypeOK' /\ Books'
  BY <1>2, <1>3 DEF TcpServerInv, TcpServerTypeOK, Books, bookVars, KernelOK
<1>5. ASSUME NEW fds, ReadyAmong(fds)
      PROVE  \A fd \in fds : fd \in kernel'.open /\ Readable(kernel', fd)
  BY <1>1, <1>2, <1>5 DEF ReadyAmong, KernelOK
<1>6. pc' = "accept" => AcceptPhase'
  BY <1>2, <1>3, <1>5 DEF TcpServerInv, AcceptPhase, ReadyAmong, bookVars
<1>7. pc' = "handle" => HandlePhase'
  BY <1>2, <1>3, <1>5 DEF TcpServerInv, HandlePhase, ReadyAmong, bookVars
<1> QED
  BY <1>4, <1>6, <1>7 DEF TcpServerInv

(* Every step of the server and its clients keeps the invariant.           *)
LEMMA TcpServerStepInv == TcpServerInv /\ [TcpServerNext]_netVars => TcpServerInv'
<1> SUFFICES ASSUME TcpServerInv, [TcpServerNext]_netVars
             PROVE  TcpServerInv'
  OBVIOUS
<1>1. CASE OwnStep
  BY <1>1, OwnStepInv
<1>2. CASE CallbackStep
  BY <1>2, AcceptClientInv, ReceiveMessageInv, ReceiveCloseInv DEF CallbackStep
<1>3. CASE ClientStep
  BY <1>3, ClientStepInv
<1>4. CASE UNCHANGED netVars
  <2>1. TcpServerTypeOK' /\ Books' /\ pc' = pc
    BY <1>4 DEF TcpServerInv, TcpServerTypeOK, Books, netVars
  <2>2. (AcceptPhase => AcceptPhase') /\ (HandlePhase => HandlePhase')
    BY <1>4 DEF AcceptPhase, HandlePhase, ReadyAmong, netVars
  <2> QED
    BY <2>1, <2>2 DEF TcpServerInv
<1> QED
  BY <1>1, <1>2, <1>3, <1>4 DEF TcpServerNext

(* What the invariant says of the properties, each in its own words.       *)
LEMMA InvPromises ==
    TcpServerInv =>
        BooksAgree /\ NoDescriptorLeaks /\ IteratorValid /\ NeverBlocksInRecv
<1>1. TcpServerInv => BooksAgree
  BY DistinctCardinality DEF TcpServerInv, TcpServerTypeOK, Books, BooksAgree
<1>2. TcpServerInv => NoDescriptorLeaks
  BY DEF TcpServerInv, Books, NoDescriptorLeaks
<1>3. ASSUME TcpServerInv, pc = "handle"
      PROVE  \E k \in 0 .. Len(mClients) :
                currentItr = SubSeq(mClients, k + 1, Len(mClients))
  <2>1. mClients \in Seq(ClientID) /\ currentItr \in Seq(ClientID)
    BY <1>3, InvFacts
  <2>2. PICK k \in Nat : At(currentItr, mClients, k)
    BY <1>3 DEF TcpServerInv, HandlePhase
  <2> QED
    BY <2>1, <2>2, AtIsSuffix DEF At
<1>4. ASSUME TcpServerInv, NEW fd \in ClientID, AtClient(fd), fd \in readySockets
      PROVE  fd \in kernel.open /\ Readable(kernel, fd)
  <2>1. pc = "handle" /\ currentItr # << >> /\ fd = Head(currentItr)
    BY <1>4 DEF AtClient
  <2>2. currentItr \in Seq(ClientID)
    BY <1>4, InvFacts
  <2>3. fd \in Elements(currentItr)
    <3>1. 1 \in DOMAIN currentItr /\ fd = currentItr[1]
      BY <2>1, <2>2
    <3> QED
      BY <3>1 DEF Elements
  <2> QED
    BY <1>4, <2>1, <2>3 DEF TcpServerInv, HandlePhase, ReadyAmong
<1> QED
  BY <1>1, <1>2, <1>3, <1>4 DEF IteratorValid, NeverBlocksInRecv

-----------------------------------------------------------------------------
(* The theorems *)

(* The invariant holds whatever the application and the clients do.        *)
THEOREM TcpServerAlwaysInv == TcpServerSpec => []TcpServerInv
<1> QED
  BY TcpServerInitInv, TcpServerStepInv, PTL DEF TcpServerSpec

(* Every variable keeps its type, and the count of clients its limit.      *)
THEOREM TcpServerTypeCorrect == TcpServerSpec => []TcpServerTypeOK
<1>1. TcpServerInv => TcpServerTypeOK
  BY DEF TcpServerInv
<1> QED
  BY <1>1, TcpServerAlwaysInv, PTL

(* m_clients, m_numOfClients and m_connectedSockets always agree.          *)
THEOREM BooksAlwaysAgree == TcpServerSpec => []BooksAgree
<1> QED
  BY InvPromises, TcpServerAlwaysInv, PTL

(* Nothing the application answers makes the server leak a descriptor.     *)
THEOREM DescriptorsNeverLeak == TcpServerSpec => []NoDescriptorLeaks
<1> QED
  BY InvPromises, TcpServerAlwaysInv, PTL

(* Removing the node behind it leaves the iterator of HandleClients valid. *)
THEOREM IteratorAlwaysValid == TcpServerSpec => []IteratorValid
<1> QED
  BY InvPromises, TcpServerAlwaysInv, PTL

(* recv() never blocks: a bit select() set is still true when it is used.  *)
THEOREM RecvNeverBlocks == TcpServerSpec => []NeverBlocksInRecv
<1> QED
  BY InvPromises, TcpServerAlwaysInv, PTL

-----------------------------------------------------------------------------
(* ChatServer: the inductive invariant *)

(* ClientsKnownToBoth is inductive with two facts beside the invariants of *)
(* the two halves: a descriptor on the list of the TCP server has a key in *)
(* the map of the application, be it the key of a client that was freed;   *)
(* and what StopsForKnownReason says, which needs the first when select()  *)
(* meets a descriptor on the list that is not open.                        *)
ChatServerInv ==
    /\ TcpServerInv
    /\ ServerAppInv
    /\ ClientsKnownToBoth
    /\ Elements(mClients) \subseteq DOMAIN clients
    /\ StopsForKnownReason

(* Both halves start with nobody connected.                                *)
LEMMA ChatServerInitInv == ChatServerInit => ChatServerInv
<1> SUFFICES ASSUME ChatServerInit
             PROVE  ChatServerInv
  OBVIOUS
<1>1. TcpServerInv /\ ServerAppInv
  BY TcpServerInitInv, ServerAppInitInv DEF ChatServerInit
<1>2. /\ kernel.open = {} /\ pc = "select" /\ mClients = << >>
      /\ DOMAIN clients = {}
  BY DEF ChatServerInit, Listening, KernelBoot, Kernel, ServerAppInit, Booted, EmptyMap
<1>3. Elements(mClients) = {}
  BY <1>2 DEF Elements
<1> QED
  BY <1>1, <1>2, <1>3 DEF ChatServerInv, ClientsKnownToBoth, Live, StopsForKnownReason

-----------------------------------------------------------------------------
(* The steps, half by half *)

(* Whatever the process does, the application takes one of its own steps,  *)
(* or none.                                                                *)
LEMMA StepOfApp == [ChatServerNext]_serverVars => [ServerAppNext]_appVars
<1> SUFFICES ASSUME [ChatServerNext]_serverVars
             PROVE  [ServerAppNext]_appVars
  OBVIOUS
<1>1. CASE Thread
  <2>1. CASE NetAlone
    BY <2>1 DEF NetAlone
  <2>2. CASE AppAlone
    BY <2>2 DEF AppAlone, ServerAppNext
  <2>3. ASSUME NEW fd \in ClientID,
               \/ NewClientCalled(fd) \/ GotMessageCalled(fd) \/ CloseClientCalled(fd)
        PROVE  ServerAppNext
    BY <2>3 DEF NewClientCalled, GotMessageCalled, CloseClientCalled, ServerAppNext
  <2> QED
    BY <1>1, <2>1, <2>2, <2>3 DEF Thread
<1>2. CASE ClientAlone
  BY <1>2 DEF ClientAlone, appVars
<1>3. CASE RestartServer
  BY <1>3 DEF RestartServer, ServerAppNext
<1>4. CASE UNCHANGED serverVars
  BY <1>4 DEF serverVars
<1> QED
  BY <1>1, <1>2, <1>3, <1>4 DEF ChatServerNext

(* The invariant of the TCP server survives an application that does not   *)
(* always return, and a restart.                                           *)
LEMMA StepKeepsTcp ==
    ASSUME TcpServerInv, [ChatServerNext]_serverVars
    PROVE  TcpServerInv'
<1>1. ASSUME NEW fd \in ClientID, NewClientCalled(fd)
      PROVE  TcpServerInv'
  BY <1>1, AcceptClientInv DEF NewClientCalled
<1>2. ASSUME NEW fd \in ClientID, GotMessageCalled(fd)
      PROVE  TcpServerInv'
  BY <1>2, ReceiveMessageInv DEF GotMessageCalled
<1>3. ASSUME NEW fd \in ClientID, CloseClientCalled(fd)
      PROVE  TcpServerInv'
  <2>1. CASE ReceiveClose(fd)
    BY <2>1, ReceiveCloseInv
  <2>2. CASE /\ CloseArrives(fd) /\ NextClient
             /\ UNCHANGED <<kernel, bookVars, readySockets, toldToStop>>
    <3>1. KernelOK(kernel)
      BY InvFacts
    <3>2. /\ AtClient(fd) /\ currentItr' = Tail(currentItr)
          /\ UNCHANGED <<pc, bookVars, readySockets, toldToStop>>
      BY <2>2 DEF CloseArrives, NextClient
    <3>3. /\ KernelOK(kernel') /\ kernel'.open = kernel.open
          /\ SameElsewhere(kernel, kernel', fd)
      BY <2>2, <3>1 DEF SameElsewhere
    <3> QED
      BY <3>2, <3>3, VisitedInv
  <2> QED
    BY <1>3, <2>1, <2>2 DEF CloseClientCalled
<1>4. CASE NetAlone
  BY <1>4, OwnStepInv DEF NetAlone
<1>5. CASE ClientAlone
  <2>1. ClientStep
    BY <1>5 DEF ClientAlone, ClientStep
  <2> QED
    BY <2>1, ClientStepInv
<1>6. CASE RestartServer
  <2>1. Listening'
    BY <1>6 DEF RestartServer, Listening
  <2>2. (Listening => TcpServerInv)'
    BY TcpServerInitInv, PTL
  <2> QED
    BY <2>1, <2>2
<1>7. CASE UNCHANGED netVars
  <2>1. [TcpServerNext]_netVars
    BY <1>7
  <2> QED
    BY <2>1, TcpServerStepInv
<1>8. AppAlone \/ UNCHANGED serverVars => UNCHANGED netVars
  BY DEF AppAlone, serverVars
<1> QED
  BY <1>1, <1>2, <1>3, <1>4, <1>5, <1>6, <1>7, <1>8 DEF ChatServerNext, Thread

-----------------------------------------------------------------------------
(* The steps, of both halves together *)

(* A request moves no connection: the descriptors the map has as keys, and *)
(* those of them that are live, stay.                                      *)
LEMMA RequestKeepsClients ==
    ASSUME ServerAppInv, NEW fd \in ClientID, GotMessage(fd)
    PROVE  DOMAIN clients' = DOMAIN clients /\ Live' = Live
<1>1. ASSUME NEW name \in UserName, NEW pass \in Password, LoginUser(fd, name, pass)
      PROVE  DOMAIN clients' = DOMAIN clients /\ Live' = Live
  <2>1. fd \in DOMAIN clients /\ clients[fd].live
    BY <1>1 DEF LoginUser, Serving, Live
  <2>2. clients' = clients \/ clients' = [clients EXCEPT ![fd] = Client(name)]
    BY <1>1 DEF LoginUser, Assigned
  <2> QED
    BY <2>1, <2>2 DEF Client, Live
<1>2. CASE clients' = clients
  BY <1>2 DEF Live
<1>3. (\E name \in UserName, pass \in Password : LoginUser(fd, name, pass))
        \/ clients' = clients
  BY DEF GotMessage, RegisterUser, LogoutUser, CreateGroup, JoinGroup, LeaveGroup,
         SendGroupList, UnknownMessage
<1> QED
  BY <1>1, <1>2, <1>3

(* A step that touches neither the connections nor the list.               *)
LEMMA QuietStepInv ==
    ASSUME ChatServerInv, TcpServerInv', ServerAppInv',
           kernel'.open = kernel.open, mClients' = mClients,
           DOMAIN clients' = DOMAIN clients, Live' = Live,
           pc' = "stopped" => pc = "stopped" /\ toldToStop' = toldToStop
    PROVE  ChatServerInv'
BY DEF ChatServerInv, ClientsKnownToBoth, StopsForKnownReason

(* The steps of the server alone stop it only for the reasons known.       *)
LEMMA NetAloneInv ==
    ASSUME ChatServerInv, TcpServerInv', ServerAppInv', NetAlone
    PROVE  ChatServerInv'
<1>1. clients' = clients /\ Live' = Live
  BY DEF NetAlone, appVars, Live
<1>2. /\ connectedSockets = Elements(mClients) \union {ListenSock}
      /\ Live = kernel.open
      /\ Elements(mClients) \subseteq DOMAIN clients
  BY DEF ChatServerInv, TcpServerInv, Books, ClientsKnownToBoth
<1>3. kernel'.open = kernel.open /\ mClients' = mClients
  <2>1. ASSUME NEW stop \in BOOLEAN, DeclineClient(stop)
        PROVE  kernel'.open = kernel.open /\ mClients' = mClients
    BY <2>1 DEF DeclineClient, DeclineConnection, Declined, Kernel, bookVars
  <2>2. CASE Select \/ SelectFails \/ NoNewClient \/ RoundEnds
                \/ \E fd \in ClientID : SkipClient(fd)
    <3>1. UNCHANGED <<kernel, bookVars>>
      BY <2>2 DEF Select, SelectFails, NoNewClient, RoundEnds, SkipClient
    <3> QED
      BY <3>1 DEF bookVars
  <2> QED
    BY <2>1, <2>2 DEF NetAlone, OwnStep
<1>4. StopsForKnownReason'
  <2>1. CASE SelectFails
    <3>1. PICK s \in Elements(mClients) : s \notin kernel.open
      BY <1>2, <2>1 DEF SelectFails
    <3> QED
      BY <1>1, <1>2, <1>3, <3>1 DEF StopsForKnownReason
  <2>2. ASSUME NEW stop \in BOOLEAN, DeclineClient(stop)
        PROVE  StopsForKnownReason'
    BY <2>2 DEF DeclineClient, StartHandling, StopsForKnownReason
  <2>3. CASE Select \/ NoNewClient \/ RoundEnds \/ \E fd \in ClientID : SkipClient(fd)
    <3>1. pc' # "stopped"
      BY <2>3 DEF Select, NoNewClient, StartHandling, RoundEnds, SkipClient, AtClient
    <3> QED
      BY <3>1 DEF StopsForKnownReason
  <2> QED
    BY <2>1, <2>2, <2>3 DEF NetAlone, OwnStep
<1> QED
  BY <1>1, <1>2, <1>3, <1>4 DEF ChatServerInv, ClientsKnownToBoth

(* accept() gives a descriptor that was not open: it is in the map only as *)
(* the key of a client that left, and then the connection is closed.       *)
LEMMA NewClientCalledInv ==
    ASSUME ChatServerInv, TcpServerInv', ServerAppInv',
           NEW fd \in ClientID, NewClientCalled(fd)
    PROVE  ChatServerInv'
<1>1. /\ KernelOK(kernel) /\ mClients \in Seq(ClientID)
      /\ Live = kernel.open /\ Elements(mClients) \subseteq DOMAIN clients
      /\ Distinct(mClients)
  BY InvFacts DEF ChatServerInv, ClientsKnownToBoth, TcpServerInv, Books
<1>2. PICK kept \in BOOLEAN :
        /\ AcceptClient(fd, kept)
        /\ IF kept THEN NewClient(fd) ELSE RejectClient(fd)
  BY DEF NewClientCalled
<1>3. /\ kernel.waiting > 0 /\ fd = FreeFd(kernel) /\ fd \notin kernel.open
      /\ mClients' = <<fd>> \o mClients /\ pc' = "handle"
      /\ kernel' = Introduced(fd, kept)
  BY <1>2, FreeFdIsFree DEF AcceptClient, CanAccept, StartHandling
<1>4. Elements(mClients') = Elements(mClients) \union {fd}
  <2>1. Elements(mClients) = kernel.open
    BY <1>2 DEF ChatServerInv, TcpServerInv, AcceptPhase, AcceptClient
  <2> QED
    BY <1>1, <1>3, <2>1, PushHead
<1>5. Accepted(kernel).open = kernel.open \union {fd} /\ KernelOK(Accepted(kernel))
  BY <1>1, <1>3, ServerCalls
<1>6. CASE kept
  <2>1. PICK garbage \in UserName :
            clients' = HashMapInsert(clients, fd, Client(garbage))
    BY <1>2, <1>6 DEF NewClient
  <2>2. fd \notin DOMAIN clients
    BY <1>2, <1>6 DEF NewClient
  <2>3. DOMAIN clients' = DOMAIN clients \union {fd} /\ Live' = Live \union {fd}
    BY <2>1, <2>2 DEF HashMapInsert, Client, Live
  <2>4. kernel'.open = kernel.open \union {fd}
    BY <1>3, <1>5, <1>6 DEF Introduced
  <2> QED
    BY <1>1, <1>3, <1>4, <2>3, <2>4
    DEF ChatServerInv, ClientsKnownToBoth, StopsForKnownReason
<1>7. CASE ~kept
  <2>1. clients' = clients /\ fd \in DOMAIN clients /\ Live' = Live
    BY <1>2, <1>7 DEF RejectClient, Live
  <2>2. kernel'.open = (kernel.open \union {fd}) \ {fd}
    BY <1>3, <1>5, <1>7, ServerCalls DEF Introduced
  <2>3. kernel'.open = kernel.open
    BY <1>3, <2>2
  <2> QED
    BY <1>1, <1>3, <1>4, <2>1, <2>3
    DEF ChatServerInv, ClientsKnownToBoth, StopsForKnownReason
<1> QED
  BY <1>6, <1>7

(* The application frees its client exactly when the server closes the     *)
(* socket, or neither does.                                                *)
LEMMA CloseClientCalledInv ==
    ASSUME ChatServerInv, TcpServerInv', ServerAppInv',
           NEW fd \in ClientID, CloseClientCalled(fd)
    PROVE  ChatServerInv'
<1>1. CASE ReceiveClose(fd) /\ CloseClient(fd)
  <2>1. /\ KernelOK(kernel) /\ mClients \in Seq(ClientID)
        /\ Live = kernel.open /\ Elements(mClients) \subseteq DOMAIN clients
        /\ Books /\ pc = "handle" /\ HandlePhase
    BY <1>1, InvFacts
    DEF ChatServerInv, ClientsKnownToBoth, TcpServerInv, ReceiveClose,
        CloseArrives, AtClient
  <2>2. pc' = "handle" /\ kernel' = Closed(kernel, fd)
    BY <1>1, <2>1 DEF ReceiveClose, NextClient
  <2>3. kernel'.open = kernel.open \ {fd}
    BY <2>1, <2>2, ServerCalls
  <2>4. DOMAIN clients' = DOMAIN clients /\ Live' = Live \ {fd}
    <3>1. fd \in DOMAIN clients
            /\ clients' = [clients EXCEPT ![fd] =
                             [live |-> FALSE, userName |-> EmptyString]]
      BY <1>1 DEF CloseClient, Freed, Live
    <3> QED
      BY <3>1 DEF Live
  <2>5. Elements(mClients') \subseteq Elements(mClients)
    <3>1. mClients' = ListRemoveAt(mClients, ItrPlace)
          /\ currentItr # << >> /\ currentItr \in Seq(ClientID)
      BY <1>1, InvFacts
      DEF ChatServerInv, ReceiveClose, CloseArrives, AtClient, RemoveClient
    <3>2. PICK k \in Nat : At(currentItr, mClients, k)
      BY <2>1 DEF HandlePhase
    <3>3. ItrPlace \in 1 .. Len(mClients)
      BY <2>1, <3>1, <3>2, ItrNext DEF ItrPlace, Books
    <3> QED
      BY <2>1, <3>1, <3>3, RemoveNode DEF Books
  <2> QED
    BY <2>1, <2>2, <2>3, <2>4, <2>5
    DEF ChatServerInv, ClientsKnownToBoth, StopsForKnownReason
<1>2. CASE /\ CloseArrives(fd) /\ CloseClientInGroups(fd) /\ NextClient
           /\ UNCHANGED <<kernel, bookVars, readySockets, toldToStop>>
  BY <1>2, QuietStepInv DEF CloseClientInGroups, NextClient, bookVars, Live
<1> QED
  BY <1>1, <1>2 DEF CloseClientCalled

(* Every step of the process and its clients keeps the invariant.          *)
LEMMA ChatServerStepInv ==
    ChatServerInv /\ [ChatServerNext]_serverVars => ChatServerInv'
<1> SUFFICES ASSUME ChatServerInv, [ChatServerNext]_serverVars
             PROVE  ChatServerInv'
  OBVIOUS
<1>1. TcpServerInv' /\ ServerAppInv'
  BY StepKeepsTcp, StepOfApp, ServerAppStepInv DEF ChatServerInv
<1>2. CASE NetAlone
  BY <1>1, <1>2, NetAloneInv
<1>3. CASE AppAlone
  <2>1. clients' = clients /\ Live' = Live
    BY <1>3 DEF AppAlone, Turn, LeaveNextGroup, FinishLogout, LeaveSameGroup, Live
  <2> QED
    BY <1>1, <1>3, <2>1, QuietStepInv DEF AppAlone, netVars
<1>4. ASSUME NEW fd \in ClientID, NewClientCalled(fd)
      PROVE  ChatServerInv'
  BY <1>1, <1>4, NewClientCalledInv
<1>5. ASSUME NEW fd \in ClientID, GotMessageCalled(fd)
      PROVE  ChatServerInv'
  <2>1. DOMAIN clients' = DOMAIN clients /\ Live' = Live
    BY <1>5, RequestKeepsClients DEF GotMessageCalled, ChatServerInv
  <2>2. kernel'.open = kernel.open /\ mClients' = mClients /\ pc' = pc
          /\ toldToStop' = toldToStop
    BY <1>5 DEF GotMessageCalled, ReceiveMessage, Received, Kernel, NextClient, bookVars
  <2> QED
    BY <1>1, <2>1, <2>2, QuietStepInv
<1>6. ASSUME NEW fd \in ClientID, CloseClientCalled(fd)
      PROVE  ChatServerInv'
  BY <1>1, <1>6, CloseClientCalledInv
<1>7. CASE ClientAlone
  <2>1. Live' = Live /\ clients' = clients
    BY <1>7 DEF ClientAlone, appVars, Live
  <2>2. kernel'.open = kernel.open /\ mClients' = mClients /\ pc' = pc
          /\ toldToStop' = toldToStop
    BY <1>7 DEF ClientAlone, ClientConnects, ClientSends, ClientCloses, Connecting,
                Sending, Closing, Kernel, bookVars
  <2> QED
    BY <1>1, <2>1, <2>2, QuietStepInv
<1>8. CASE RestartServer
  <2>1. kernel'.open = {} /\ mClients' = << >> /\ pc' = "select" /\ clients' = EmptyMap
    BY <1>8 DEF RestartServer, Restart, KernelBoot, Kernel
  <2>2. Elements(mClients') = {} /\ Live' = {}
    BY <2>1 DEF Elements, Live, EmptyMap
  <2> QED
    BY <1>1, <2>1, <2>2 DEF ChatServerInv, ClientsKnownToBoth, StopsForKnownReason
<1>9. CASE UNCHANGED serverVars
  BY <1>1, <1>9, QuietStepInv DEF serverVars, netVars, appVars, Live
<1> QED
  BY <1>2, <1>3, <1>4, <1>5, <1>6, <1>7, <1>8, <1>9 DEF ChatServerNext, Thread

-----------------------------------------------------------------------------
(* The theorems *)

(* The TCP server and the application, tied together, keep the invariant.  *)
THEOREM ChatServerAlwaysInv == ChatServerSpec => []ChatServerInv
<1> QED
  BY ChatServerInitInv, ChatServerStepInv, PTL DEF ChatServerSpec

(* The application has a client in memory for exactly the descriptors that *)
(* are open: it is never called about one it has freed.                    *)
THEOREM BothKnowTheClients == ChatServerSpec => []ClientsKnownToBoth
<1>1. ChatServerInv => ClientsKnownToBoth
  BY DEF ChatServerInv
<1> QED
  BY <1>1, ChatServerAlwaysInv, PTL

(* ServerRun ends because FailFunc answered STOP, or because a descriptor  *)
(* was used again whose key CloseClientFunc left in the map.               *)
THEOREM StopsAreKnown == ChatServerSpec => []StopsForKnownReason
<1>1. ChatServerInv => StopsForKnownReason
  BY DEF ChatServerInv
<1> QED
  BY <1>1, ChatServerAlwaysInv, PTL

(* In the process, with callbacks that need not return and restarts, the   *)
(* TCP server keeps all it promises for an arbitrary application.          *)
THEOREM ServerKeepsTcpPromises ==
    ChatServerSpec =>
        [](BooksAgree /\ NoDescriptorLeaks /\ IteratorValid /\ NeverBlocksInRecv)
<1>1. TcpServerInv => BooksAgree /\ NoDescriptorLeaks /\ IteratorValid /\ NeverBlocksInRecv
  BY InvPromises
<1>2. ChatServerInv => TcpServerInv
  BY DEF ChatServerInv
<1> QED
  BY <1>1, <1>2, ChatServerAlwaysInv, PTL

(* What clients see of the process, over sockets that come and go, is the  *)
(* membership relation of ChatMembership: its answers and its refusals.    *)
THEOREM ServerImplementsMembership == ChatServerSpec => ImplementsMembership
<1>1. ChatServerInv => ServerAppInv
  BY DEF ChatServerInv
<1>2. ChatServerInit => ServerAppInit
  BY DEF ChatServerInit
<1> QED
  BY <1>1, <1>2, MembershipInit, MembershipStep, StepOfApp, ChatServerAlwaysInv, PTL
  DEF ChatServerSpec, ImplementsMembership, Membership!ChatSpec
=============================================================================
