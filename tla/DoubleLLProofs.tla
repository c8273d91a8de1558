---------------------------- MODULE DoubleLLProofs ----------------------------
(***************************************************************************)
(* What holds of the doubly linked list for every set of nodes, elements   *)
(* and iterators: its nodes are a chain from the head to the tail, and it  *)
(* is a sequence to its callers.                                           *)
(***************************************************************************)
EXTENDS DoubleLL, SequenceTheorems, FiniteSetTheorems, WellFoundedInduction, TLAPS

-----------------------------------------------------------------------------
(* Chains *)

NodeRecord == [prev : Address, data : Element, next : Address]

UsedIn(nd) == {n \in Node : nd[n] # Freed}

(* Each step from c[0], the head, to c[L + 1], the tail, is a link there   *)
(* and back; no node is on the chain twice, and each that is there is.     *)
Chain(nd, c, L) ==
    /\ L \in Nat
    /\ c \in [0 .. L + 1 -> Address]
    /\ c[0] = HeadNode /\ c[L + 1] = TailNode
    /\ \A k \in 1 .. L : c[k] \in Node
    /\ \A k, m \in 0 .. L + 1 : c[k] = c[m] => k = m
    /\ nd \in [Address -> NodeRecord \union {Freed}]
    /\ \A k \in 0 .. L + 1 : nd[c[k]] \in NodeRecord
    /\ \A n \in Node : nd[n] # Freed => \E k \in 1 .. L : c[k] = n
    /\ \A k \in 0 .. L : nd[c[k]].next = c[k + 1]
    /\ \A k \in 1 .. L + 1 : nd[c[k]].prev = c[k - 1]
    /\ nd[HeadNode].prev = HeadNode /\ nd[TailNode].next = TailNode
    /\ nd[HeadNode].data = Null /\ nd[TailNode].data = Null

(* What is there is not what is not.                                       *)
LEMMA NotFreed == Freed \notin NodeRecord
BY DoubleLLAssumption DEF NodeRecord

(* The nodes on a chain are those that are there.                          *)
LEMMA ChainNodes ==
    ASSUME NEW nd, NEW c, NEW L, Chain(nd, c, L)
    PROVE  /\ \A k \in 1 .. L : c[k] \in UsedIn(nd)
           /\ \A n \in UsedIn(nd) : \E k \in 1 .. L : c[k] = n
           /\ \A n \in UsedIn(nd) \union {TailNode} : \E k \in 1 .. L + 1 : c[k] = n
           /\ \A k \in 1 .. L + 1 : c[k] \in UsedIn(nd) \union {TailNode}
           /\ \A k \in 0 .. L : c[k] \in UsedIn(nd) \union {HeadNode}
<1>1. L \in Nat /\ c[0] = HeadNode /\ c[L + 1] = TailNode
  BY DEF Chain
<1>2. \A k \in 1 .. L : c[k] \in UsedIn(nd)
  BY <1>1, NotFreed DEF Chain, UsedIn
<1>3. \A n \in UsedIn(nd) : \E k \in 1 .. L : c[k] = n
  BY DEF Chain, UsedIn
<1>4. L + 1 \in 1 .. L + 1
  BY <1>1
<1>5. \A k \in 1 .. L : k \in 1 .. L + 1
  BY <1>1
<1>6. \A k \in 1 .. L + 1 : k \in 1 .. L \/ k = L + 1
  BY <1>1
<1>7. \A k \in 0 .. L : k \in 1 .. L \/ k = 0
  BY <1>1
<1> QED
  BY <1>1, <1>2, <1>3, <1>4, <1>5, <1>6, <1>7

(* Node p comes between a and t, which were neighbours.                    *)
Linked(nd, nd2, a, p, t, d) ==
    /\ nd2 \in [Address -> NodeRecord \union {Freed}]
    /\ nd2[a] \in NodeRecord /\ nd2[p] \in NodeRecord /\ nd2[t] \in NodeRecord
    /\ nd2[a].prev = nd[a].prev /\ nd2[a].data = nd[a].data /\ nd2[a].next = p
    /\ nd2[p].prev = a /\ nd2[p].data = d /\ nd2[p].next = t
    /\ nd2[t].prev = p /\ nd2[t].data = nd[t].data /\ nd2[t].next = nd[t].next
    /\ \A x \in Address : x # a /\ x # p /\ x # t => nd2[x] = nd[x]

(* Node n is taken out from between a and t.                               *)
Unlinked(nd, nd2, a, n, t) ==
    /\ nd2 \in [Address -> NodeRecord \union {Freed}]
    /\ nd2[a] \in NodeRecord /\ nd2[t] \in NodeRecord
    /\ nd2[a].prev = nd[a].prev /\ nd2[a].data = nd[a].data /\ nd2[a].next = t
    /\ nd2[n] = Freed
    /\ nd2[t].prev = a /\ nd2[t].data = nd[t].data /\ nd2[t].next = nd[t].next
    /\ \A x \in Address : x # a /\ x # n /\ x # t => nd2[x] = nd[x]

(* A chain with p before its place q, and without place q.                 *)
With(c, L, q, p) ==
    [k \in 0 .. L + 2 |-> IF k < q THEN c[k] ELSE IF k = q THEN p ELSE c[k - 1]]
Without(c, L, q) == [k \in 0 .. L |-> IF k < q THEN c[k] ELSE c[k + 1]]

(* A node that is linked in makes the chain one longer.                    *)
LEMMA ChainLinked ==
    ASSUME NEW nd, NEW nd2, NEW c, NEW L, Chain(nd, c, L),
           NEW q \in 1 .. L + 1, NEW p \in Node, nd[p] = Freed,
           NEW d \in Element, Linked(nd, nd2, c[q - 1], p, c[q], d)
    PROVE  Chain(nd2, With(c, L, q, p), L + 1)
<1> DEFINE e == With(c, L, q, p)
<1>1. /\ L \in Nat /\ q \in Nat /\ q >= 1 /\ q <= L + 1
      /\ \A k \in 0 .. L + 1 : c[k] \in Address
      /\ \A k, m \in 0 .. L + 1 : c[k] = c[m] => k = m
      /\ \A k \in 0 .. L + 1 : nd[c[k]] \in NodeRecord
  BY DEF Chain
<1>2. /\ \A k \in 0 .. L + 1 : k < q => e[k] = c[k]
      /\ e[q] = p
      /\ \A k \in 0 .. L + 1 : k >= q => e[k + 1] = c[k]
  BY <1>1 DEF With
<1>3. \A k \in 0 .. L + 1 : c[k] # p
  BY <1>1, NotFreed
<1>4. /\ e \in [0 .. (L + 1) + 1 -> Address]
  BY <1>1 DEF With, Address
<1>5. \A k \in 0 .. L + 2 : \/ k < q /\ k \in 0 .. L + 1 /\ e[k] = c[k]
                            \/ k = q /\ e[k] = p
                            \/ k > q /\ k - 1 \in 0 .. L + 1 /\ e[k] = c[k - 1]
  BY <1>1 DEF With
<1> HIDE DEF e
<1>6. \A k, m \in 0 .. L + 2 : e[k] = e[m] => k = m
  BY <1>1, <1>3, <1>5
<1>7. \A k \in 0 .. L + 1 : nd2[c[k]] \in NodeRecord
  BY <1>1, <1>3 DEF Linked
<1>8. \A k \in 0 .. L + 2 : nd2[e[k]] \in NodeRecord
  BY <1>1, <1>5, <1>7 DEF Linked
<1>9. e[0] = HeadNode /\ e[(L + 1) + 1] = TailNode
  BY <1>1, <1>2 DEF Chain
<1>10. \A k \in 1 .. L + 1 : e[k] \in Node
  <2> SUFFICES ASSUME NEW k \in 1 .. L + 1 PROVE e[k] \in Node
    OBVIOUS
  <2>1. CASE k < q
    <3>1. k \in 1 .. L /\ e[k] = c[k]
      BY <1>1, <1>2, <2>1
    <3> QED
      BY <3>1 DEF Chain
  <2>2. CASE k = q
    BY <1>2, <2>2
  <2>3. CASE k > q
    <3>1. k - 1 \in 1 .. L /\ e[k] = c[k - 1]
      BY <1>1, <1>5, <2>3
    <3> QED
      BY <3>1 DEF Chain
  <2> QED
    BY <1>1, <2>1, <2>2, <2>3
<1>11. \A n \in Node : nd2[n] # Freed => \E k \in 1 .. L + 1 : e[k] = n
  <2> SUFFICES ASSUME NEW n \in Node, nd2[n] # Freed
               PROVE  \E k \in 1 .. L + 1 : e[k] = n
    OBVIOUS
  <2>1. CASE n = p
    BY <1>1, <1>2, <2>1
  <2>2. CASE n # p
    <3>1. nd[n] # Freed
      <4>1. CASE n = c[q - 1] \/ n = c[q]
        BY <1>1, <4>1, NotFreed
      <4>2. CASE n # c[q - 1] /\ n # c[q]
        BY <2>2, <4>2 DEF Linked, Address
      <4> QED
        BY <4>1, <4>2
    <3>2. PICK k \in 1 .. L : c[k] = n
      BY <3>1 DEF Chain
    <3> QED
      BY <1>1, <1>2, <3>2
  <2> QED
    BY <2>1, <2>2
<1>12. \A k \in 0 .. L + 1 : nd2[e[k]].next = e[k + 1]
  <2> SUFFICES ASSUME NEW k \in 0 .. L + 1 PROVE nd2[e[k]].next = e[k + 1]
    OBVIOUS
  <2>1. CASE k < q - 1
    <3>1. e[k] = c[k] /\ e[k + 1] = c[k + 1] /\ k \in 0 .. L
      BY <1>1, <1>2, <2>1
    <3>2. nd2[c[k]] = nd[c[k]]
      BY <1>1, <1>3, <2>1 DEF Linked
    <3> QED
      BY <3>1, <3>2 DEF Chain
  <2>2. CASE k = q - 1
    <3>1. e[k] = c[q - 1] /\ e[k + 1] = p
      BY <1>1, <1>2, <2>2
    <3> QED
      BY <3>1 DEF Linked
  <2>3. CASE k = q
    <3>1. e[k] = p /\ e[k + 1] = c[q]
      BY <1>1, <1>2, <2>3
    <3> QED
      BY <3>1 DEF Linked
  <2>4. CASE k > q
    <3>1. e[k] = c[k - 1] /\ e[k + 1] = c[k] /\ k - 1 \in 0 .. L
      BY <1>1, <1>5, <1>2, <2>4
    <3>2. nd2[c[k - 1]].next = nd[c[k - 1]].next
      <4>1. CASE k - 1 = q
        BY <4>1 DEF Linked
      <4>2. CASE k - 1 # q
        BY <1>1, <1>3, <2>4, <3>1, <4>2 DEF Linked
      <4> QED
        BY <4>1, <4>2
    <3>3. nd[c[k - 1]].next = c[(k - 1) + 1] /\ (k - 1) + 1 = k
      BY <3>1 DEF Chain
    <3> QED
      BY <3>1, <3>2, <3>3
  <2> QED
    BY <1>1, <2>1, <2>2, <2>3, <2>4
<1>13. \A k \in 1 .. L + 2 : nd2[e[k]].prev = e[k - 1]
  <2> SUFFICES ASSUME NEW k \in 1 .. L + 2 PROVE nd2[e[k]].prev = e[k - 1]
    OBVIOUS
  <2>1. CASE k < q
    <3>1. e[k] = c[k] /\ e[k - 1] = c[k - 1] /\ k \in 1 .. L + 1
      BY <1>1, <1>2, <2>1
    <3>2. nd2[c[k]].prev = nd[c[k]].prev
      <4>1. CASE k = q - 1
        BY <4>1 DEF Linked
      <4>2. CASE k # q - 1
        BY <1>1, <1>3, <2>1, <3>1, <4>2 DEF Linked
      <4> QED
        BY <4>1, <4>2
    <3> QED
      BY <3>1, <3>2 DEF Chain
  <2>2. CASE k = q
    <3>1. e[k] = p /\ e[k - 1] = c[q - 1]
      BY <1>1, <1>2, <2>2
    <3> QED
      BY <3>1 DEF Linked
  <2>3. CASE k = q + 1
    <3>1. e[k] = c[q] /\ e[k - 1] = p
      BY <1>1, <1>2, <2>3
    <3> QED
      BY <3>1 DEF Linked
  <2>4. CASE k > q + 1
    <3>1. /\ e[k] = c[k - 1] /\ e[k - 1] = c[(k - 1) - 1]
          /\ k - 1 \in 1 .. L + 1
      BY <1>1, <1>5, <2>4
    <3>2. nd2[c[k - 1]] = nd[c[k - 1]]
      BY <1>1, <1>3, <2>4, <3>1 DEF Linked
    <3> QED
      BY <3>1, <3>2 DEF Chain
  <2> QED
    BY <1>1, <2>1, <2>2, <2>3, <2>4
<1>14. /\ nd2[HeadNode].prev = HeadNode /\ nd2[HeadNode].data = Null
  <2>1. c[0] = HeadNode /\ nd[HeadNode].prev = HeadNode /\ nd[HeadNode].data = Null
    BY DEF Chain
  <2>2. CASE q - 1 = 0
    BY <2>1, <2>2 DEF Linked
  <2>3. CASE q - 1 # 0
    BY <1>1, <1>3, <2>1, <2>3 DEF Linked
  <2> QED
    BY <2>2, <2>3
<1>15. /\ nd2[TailNode].next = TailNode /\ nd2[TailNode].data = Null
  <2>1. c[L + 1] = TailNode /\ nd[TailNode].next = TailNode /\ nd[TailNode].data = Null
    BY DEF Chain
  <2>2. CASE q = L + 1
    BY <2>1, <2>2 DEF Linked
  <2>3. CASE q # L + 1
    BY <1>1, <1>3, <2>1, <2>3 DEF Linked
  <2> QED
    BY <2>2, <2>3
<1>16. L + 1 \in Nat /\ (L + 1) + 1 = L + 2 /\ nd2 \in [Address -> NodeRecord \union {Freed}]
  BY <1>1 DEF Linked
<1> QED
  BY <1>4, <1>6, <1>8, <1>9, <1>10, <1>11, <1>12, <1>13, <1>14, <1>15, <1>16 DEF Chain, e

(* A node that is taken out makes the chain one shorter.                   *)
LEMMA ChainUnlinked ==
    ASSUME NEW nd, NEW nd2, NEW c, NEW L, Chain(nd, c, L),
           NEW q \in 1 .. L, Unlinked(nd, nd2, c[q - 1], c[q], c[q + 1])
    PROVE  Chain(nd2, Without(c, L, q), L - 1)
<1> DEFINE e == Without(c, L, q)
<1>1. /\ L \in Nat /\ q \in Nat /\ q >= 1 /\ q <= L
      /\ \A k \in 0 .. L + 1 : c[k] \in Address
      /\ \A k, m \in 0 .. L + 1 : c[k] = c[m] => k = m
      /\ \A k \in 0 .. L + 1 : nd[c[k]] \in NodeRecord
  BY DEF Chain
<1>2. /\ \A k \in 0 .. L : k < q => e[k] = c[k]
      /\ \A k \in 0 .. L : k >= q => e[k] = c[k + 1]
  BY <1>1 DEF Without
<1>3. e \in [0 .. (L - 1) + 1 -> Address]
  BY <1>1 DEF Without
<1> HIDE DEF e
<1>4. \A k, m \in 0 .. L : e[k] = e[m] => k = m
  BY <1>1, <1>2
<1>5. \A k \in 0 .. L + 1 : k # q => nd2[c[k]] \in NodeRecord
  BY <1>1 DEF Unlinked
<1>6. \A k \in 0 .. L : nd2[e[k]] \in NodeRecord
  BY <1>1, <1>2, <1>5
<1>7. e[0] = HeadNode /\ e[(L - 1) + 1] = TailNode
  BY <1>1, <1>2 DEF Chain
<1>8. \A k \in 1 .. L - 1 : e[k] \in Node
  <2> SUFFICES ASSUME NEW k \in 1 .. L - 1 PROVE e[k] \in Node
    OBVIOUS
  <2>1. k \in 1 .. L /\ k + 1 \in 1 .. L /\ (e[k] = c[k] \/ e[k] = c[k + 1])
    BY <1>1, <1>2
  <2> QED
    BY <2>1 DEF Chain
<1>9. \A n \in Node : nd2[n] # Freed => \E k \in 1 .. L - 1 : e[k] = n
  <2> SUFFICES ASSUME NEW n \in Node, nd2[n] # Freed
               PROVE  \E k \in 1 .. L - 1 : e[k] = n
    OBVIOUS
  <2>1. n # c[q]
    BY DEF Unlinked
  <2>2. nd[n] # Freed
    <3>1. CASE n = c[q - 1] \/ n = c[q + 1]
      BY <1>1, <3>1, NotFreed
    <3>2. CASE n # c[q - 1] /\ n # c[q + 1]
      BY <2>1, <3>2 DEF Unlinked, Address
    <3> QED
      BY <3>1, <3>2
  <2>3. PICK k \in 1 .. L : c[k] = n
    BY <2>2 DEF Chain
  <2>4. CASE k < q
    <3>1. k \in 1 .. L - 1 /\ e[k] = n
      BY <1>1, <1>2, <2>3, <2>4
    <3> QED
      BY <3>1
  <2>5. CASE k > q
    <3>1. k - 1 \in 1 .. L - 1 /\ e[k - 1] = n
      BY <1>1, <1>2, <2>3, <2>5
    <3> QED
      BY <3>1
  <2> QED
    BY <1>1, <2>1, <2>3, <2>4, <2>5
<1>10. \A k \in 0 .. L - 1 : nd2[e[k]].next = e[k + 1]
  <2> SUFFICES ASSUME NEW k \in 0 .. L - 1 PROVE nd2[e[k]].next = e[k + 1]
    OBVIOUS
  <2>1. CASE k < q - 1
    <3>1. e[k] = c[k] /\ e[k + 1] = c[k + 1] /\ k \in 0 .. L
      BY <1>1, <1>2, <2>1
    <3>2. nd2[c[k]] = nd[c[k]]
      BY <1>1, <2>1 DEF Unlinked
    <3> QED
      BY <3>1, <3>2 DEF Chain
  <2>2. CASE k = q - 1
    <3>1. e[k] = c[q - 1] /\ e[k + 1] = c[q + 1]
      BY <1>1, <1>2, <2>2
    <3> QED
      BY <3>1 DEF Unlinked
  <2>3. CASE k >= q
    <3>1. e[k] = c[k + 1] /\ e[k + 1] = c[(k + 1) + 1] /\ k + 1 \in 0 .. L
      BY <1>1, <1>2, <2>3
    <3>2. nd2[c[k + 1]].next = nd[c[k + 1]].next
      <4>1. CASE k = q
        BY <4>1 DEF Unlinked
      <4>2. CASE k # q
        BY <1>1, <2>3, <4>2 DEF Unlinked
      <4> QED
        BY <4>1, <4>2
    <3> QED
      BY <3>1, <3>2 DEF Chain
  <2> QED
    BY <1>1, <2>1, <2>2, <2>3
<1>11. \A k \in 1 .. L : nd2[e[k]].prev = e[k - 1]
  <2> SUFFICES ASSUME NEW k \in 1 .. L PROVE nd2[e[k]].prev = e[k - 1]
    OBVIOUS
  <2>1. CASE k < q
    <3>1. e[k] = c[k] /\ e[k - 1] = c[k - 1] /\ k \in 1 .. L + 1
      BY <1>1, <1>2, <2>1
    <3>2. nd2[c[k]].prev = nd[c[k]].prev
      <4>1. CASE k = q - 1
        BY <4>1 DEF Unlinked
      <4>2. CASE k # q - 1
        BY <1>1, <2>1, <4>2 DEF Unlinked
      <4> QED
        BY <4>1, <4>2
    <3> QED
      BY <3>1, <3>2 DEF Chain
  <2>2. CASE k = q
    <3>1. e[k] = c[q + 1] /\ e[k - 1] = c[q - 1]
      BY <1>1, <1>2, <2>2
    <3> QED
      BY <3>1 DEF Unlinked
  <2>3. CASE k > q
    <3>1. e[k] = c[k + 1] /\ e[k - 1] = c[(k + 1) - 1] /\ k + 1 \in 1 .. L + 1
      BY <1>1, <1>2, <2>3
    <3>2. nd2[c[k + 1]] = nd[c[k + 1]]
      BY <1>1, <2>3 DEF Unlinked
    <3> QED
      BY <3>1, <3>2 DEF Chain
  <2> QED
    BY <1>1, <2>1, <2>2, <2>3
<1>12. nd2[HeadNode].prev = HeadNode /\ nd2[HeadNode].data = Null
  <2>1. c[0] = HeadNode /\ nd[HeadNode].prev = HeadNode /\ nd[HeadNode].data = Null
    BY DEF Chain
  <2>2. CASE q - 1 = 0
    BY <2>1, <2>2 DEF Unlinked
  <2>3. CASE q - 1 # 0
    BY <1>1, <2>1, <2>3 DEF Unlinked
  <2> QED
    BY <2>2, <2>3
<1>13. nd2[TailNode].next = TailNode /\ nd2[TailNode].data = Null
  <2>1. c[L + 1] = TailNode /\ nd[TailNode].next = TailNode /\ nd[TailNode].data = Null
    BY DEF Chain
  <2>2. CASE q = L
    BY <2>1, <2>2 DEF Unlinked
  <2>3. CASE q # L
    BY <1>1, <2>1, <2>3 DEF Unlinked
  <2> QED
    BY <2>2, <2>3
<1>14. L - 1 \in Nat /\ (L - 1) + 1 = L /\ nd2 \in [Address -> NodeRecord \union {Freed}]
  BY <1>1 DEF Unlinked
<1> QED
  BY <1>3, <1>4, <1>6, <1>7, <1>8, <1>9, <1>10, <1>11, <1>12, <1>13, <1>14 DEF Chain, e

(* Another element is put in the node at place q.                          *)
Replaced(nd, nd2, c, L, q, d) ==
    /\ Chain(nd, c, L) /\ q \in 1 .. L /\ d \in Element
    /\ nd2 = [nd EXCEPT ![c[q]].data = d]

(* Another element in a node leaves the chain as it is.                    *)
LEMMA ChainData ==
    ASSUME NEW nd, NEW nd2, NEW c, NEW L, NEW q, NEW d, Replaced(nd, nd2, c, L, q, d)
    PROVE  /\ Chain(nd2, c, L)
           /\ nd2[c[q]].data = d
           /\ \A k \in 1 .. L : k # q => nd2[c[k]].data = nd[c[k]].data
<1> DEFINE n   == c[q]
<1>1. /\ Chain(nd, c, L) /\ q \in 1 .. L /\ d \in Element
      /\ nd2 = [nd EXCEPT ![c[q]].data = d]
  BY DEF Replaced
<1>2. /\ nd \in [Address -> NodeRecord \union {Freed}]
      /\ n \in Node /\ n \in Address /\ nd[n] \in NodeRecord
      /\ n # HeadNode /\ n # TailNode
  BY <1>1, DoubleLLAssumption DEF Chain, Address
<1>3. nd2 = [nd EXCEPT ![n].data = d]
  BY <1>1
<1> HIDE DEF n
<1>4. [nd[n] EXCEPT !.data = d] \in NodeRecord
  BY <1>1, <1>2 DEF NodeRecord
<1>5. /\ nd2[n] = [nd[n] EXCEPT !.data = d]
      /\ \A x \in Address : x # n => nd2[x] = nd[x]
      /\ nd2 \in [Address -> NodeRecord \union {Freed}]
  BY <1>3, <1>2, <1>4
<1>6. nd2[n].prev = nd[n].prev /\ nd2[n].next = nd[n].next /\ nd2[n].data = d
  BY <1>2, <1>5 DEF NodeRecord
<1>7. \A x \in Address : nd2[x].prev = nd[x].prev /\ nd2[x].next = nd[x].next
  BY <1>5, <1>6
<1>8. \A k \in 0 .. L + 1 : c[k] \in Address
  BY <1>1 DEF Chain
<1>9. /\ \A k \in 0 .. L : k \in 0 .. L + 1
      /\ \A k \in 1 .. L + 1 : k \in 0 .. L + 1
      /\ \A k \in 1 .. L : k \in 0 .. L + 1
  BY <1>1 DEF Chain
<1>10. /\ \A k \in 0 .. L + 1 : nd2[c[k]] \in NodeRecord
       /\ \A x \in Node : nd2[x] # Freed => \E k \in 1 .. L : c[k] = x
       /\ \A k \in 0 .. L : nd2[c[k]].next = c[k + 1]
       /\ \A k \in 1 .. L + 1 : nd2[c[k]].prev = c[k - 1]
  <2>1. \A k \in 0 .. L + 1 : nd2[c[k]] \in NodeRecord
    BY <1>1, <1>4, <1>5, <1>8 DEF Chain
  <2>2. \A x \in Node : nd2[x] # Freed => \E k \in 1 .. L : c[k] = x
    <3> SUFFICES ASSUME NEW x \in Node, nd2[x] # Freed
                 PROVE  \E k \in 1 .. L : c[k] = x
      OBVIOUS
    <3>1. nd[x] # Freed
      BY <1>2, <1>5, NotFreed DEF Address
    <3> QED
      BY <1>1, <3>1 DEF Chain
  <2>3. \A k \in 0 .. L : nd2[c[k]].next = c[k + 1]
    BY <1>1, <1>7, <1>8, <1>9 DEF Chain
  <2>4. \A k \in 1 .. L + 1 : nd2[c[k]].prev = c[k - 1]
    BY <1>1, <1>7, <1>8, <1>9 DEF Chain
  <2> QED
    BY <2>1, <2>2, <2>3, <2>4
<1>11. /\ nd2[HeadNode].prev = HeadNode /\ nd2[TailNode].next = TailNode
       /\ nd2[HeadNode].data = Null /\ nd2[TailNode].data = Null
  <2>1. nd2[HeadNode] = nd[HeadNode] /\ nd2[TailNode] = nd[TailNode]
    BY <1>2, <1>5 DEF Address
  <2>2. /\ nd[HeadNode].prev = HeadNode /\ nd[TailNode].next = TailNode
        /\ nd[HeadNode].data = Null /\ nd[TailNode].data = Null
    BY <1>1 DEF Chain
  <2> QED
    BY <2>1, <2>2
<1>12. Chain(nd2, c, L)
  <2>1. /\ L \in Nat /\ c \in [0 .. L + 1 -> Address]
        /\ c[0] = HeadNode /\ c[L + 1] = TailNode
        /\ \A k \in 1 .. L : c[k] \in Node
        /\ \A k, m \in 0 .. L + 1 : c[k] = c[m] => k = m
    BY <1>1 DEF Chain
  <2> QED
    BY <1>5, <1>10, <1>11, <2>1 DEF Chain
<1>13. \A k \in 1 .. L : k # q => nd2[c[k]].data = nd[c[k]].data
  <2> SUFFICES ASSUME NEW k \in 1 .. L, k # q PROVE nd2[c[k]] = nd[c[k]]
    OBVIOUS
  <2>1. c[k] # n /\ c[k] \in Address
    BY <1>1, <1>8, <1>9 DEF Chain, n
  <2> QED
    BY <1>5, <2>1
<1> QED
  BY <1>6, <1>12, <1>13 DEF n

(* What linking in does to the memory.                                     *)
LEMMA LinkedForm ==
    ASSUME NEW nd \in [Address -> NodeRecord \union {Freed}],
           NEW a \in Address, NEW p \in Address, NEW t \in Address,
           a # p, a # t, p # t, nd[a] \in NodeRecord, nd[t] \in NodeRecord,
           NEW d \in Element
    PROVE  Linked(nd, [nd EXCEPT ![a].next = p, ![t].prev = p, ![p] = NodeOf(a, d, t)],
                  a, p, t, d)
<1> DEFINE nd1 == [nd EXCEPT ![a].next = p]
           nd2 == [nd1 EXCEPT ![t].prev = p]
           nd3 == [nd2 EXCEPT ![p] = NodeOf(a, d, t)]
<1>1. /\ [nd[a] EXCEPT !.next = p] \in NodeRecord
      /\ [nd[t] EXCEPT !.prev = p] \in NodeRecord
      /\ NodeOf(a, d, t) \in NodeRecord
  BY DEF NodeRecord, NodeOf
<1>2. /\ nd1 \in [Address -> NodeRecord \union {Freed}]
      /\ nd1[a] = [nd[a] EXCEPT !.next = p]
      /\ \A x \in Address : x # a => nd1[x] = nd[x]
  BY <1>1
<1> HIDE DEF nd1
<1>3. /\ nd2 \in [Address -> NodeRecord \union {Freed}]
      /\ nd2[t] = [nd[t] EXCEPT !.prev = p]
      /\ \A x \in Address : x # t => nd2[x] = nd1[x]
  BY <1>1, <1>2
<1> HIDE DEF nd2
<1>4. /\ nd3 \in [Address -> NodeRecord \union {Freed}]
      /\ nd3[p] = NodeOf(a, d, t)
      /\ \A x \in Address : x # p => nd3[x] = nd2[x]
  BY <1>1, <1>3
<1>5. /\ [nd[a] EXCEPT !.next = p].prev = nd[a].prev
      /\ [nd[a] EXCEPT !.next = p].data = nd[a].data
      /\ [nd[a] EXCEPT !.next = p].next = p
      /\ [nd[t] EXCEPT !.prev = p].prev = p
      /\ [nd[t] EXCEPT !.prev = p].data = nd[t].data
      /\ [nd[t] EXCEPT !.prev = p].next = nd[t].next
      /\ NodeOf(a, d, t).prev = a /\ NodeOf(a, d, t).data = d /\ NodeOf(a, d, t).next = t
  BY DEF NodeRecord, NodeOf
<1> HIDE DEF nd3
<1>6. /\ nd3[a] = [nd[a] EXCEPT !.next = p]
      /\ nd3[t] = [nd[t] EXCEPT !.prev = p]
      /\ \A x \in Address : x # a /\ x # p /\ x # t => nd3[x] = nd[x]
  BY <1>2, <1>3, <1>4
<1>7. Linked(nd, nd3, a, p, t, d)
  BY <1>1, <1>4, <1>5, <1>6 DEF Linked
<1> QED
  BY <1>7 DEF nd3, nd2, nd1

(* What taking out does to the memory, whichever link is changed first.    *)
LEMMA UnlinkedForm ==
    ASSUME NEW nd \in [Address -> NodeRecord \union {Freed}],
           NEW a \in Address, NEW n \in Address, NEW t \in Address,
           a # n, a # t, n # t, nd[a] \in NodeRecord, nd[t] \in NodeRecord
    PROVE  /\ Unlinked(nd, [nd EXCEPT ![a].next = t, ![t].prev = a, ![n] = Freed], a, n, t)
           /\ Unlinked(nd, [nd EXCEPT ![t].prev = a, ![a].next = t, ![n] = Freed], a, n, t)
<1>1. /\ [nd[a] EXCEPT !.next = t] \in NodeRecord
      /\ [nd[t] EXCEPT !.prev = a] \in NodeRecord
  BY DEF NodeRecord
<1>2. /\ [nd[a] EXCEPT !.next = t].prev = nd[a].prev
      /\ [nd[a] EXCEPT !.next = t].data = nd[a].data
      /\ [nd[a] EXCEPT !.next = t].next = t
      /\ [nd[t] EXCEPT !.prev = a].prev = a
      /\ [nd[t] EXCEPT !.prev = a].data = nd[t].data
      /\ [nd[t] EXCEPT !.prev = a].next = nd[t].next
  BY DEF NodeRecord
<1>3. Unlinked(nd, [nd EXCEPT ![a].next = t, ![t].prev = a, ![n] = Freed], a, n, t)
  <2> DEFINE nd1 == [nd EXCEPT ![a].next = t]
             nd2 == [nd1 EXCEPT ![t].prev = a]
             nd3 == [nd2 EXCEPT ![n] = Freed]
  <2>1. /\ nd1 \in [Address -> NodeRecord \union {Freed}]
        /\ nd1[a] = [nd[a] EXCEPT !.next = t]
        /\ \A x \in Address : x # a => nd1[x] = nd[x]
    BY <1>1
  <2> HIDE DEF nd1
  <2>2. /\ nd2 \in [Address -> NodeRecord \union {Freed}]
        /\ nd2[t] = [nd[t] EXCEPT !.prev = a]
        /\ \A x \in Address : x # t => nd2[x] = nd1[x]
    BY <1>1, <2>1
  <2> HIDE DEF nd2
  <2>3. /\ nd3 \in [Address -> NodeRecord \union {Freed}]
        /\ nd3[n] = Freed
        /\ \A x \in Address : x # n => nd3[x] = nd2[x]
    BY <2>2
  <2> HIDE DEF nd3
  <2>4. /\ nd3[a] = [nd[a] EXCEPT !.next = t]
        /\ nd3[t] = [nd[t] EXCEPT !.prev = a]
        /\ \A x \in Address : x # a /\ x # n /\ x # t => nd3[x] = nd[x]
    BY <2>1, <2>2, <2>3
  <2>5. Unlinked(nd, nd3, a, n, t)
    BY <1>1, <1>2, <2>3, <2>4 DEF Unlinked
  <2> QED
    BY <2>5 DEF nd3, nd2, nd1
<1>4. Unlinked(nd, [nd EXCEPT ![t].prev = a, ![a].next = t, ![n] = Freed], a, n, t)
  <2> DEFINE nd1 == [nd EXCEPT ![t].prev = a]
             nd2 == [nd1 EXCEPT ![a].next = t]
             nd3 == [nd2 EXCEPT ![n] = Freed]
  <2>1. /\ nd1 \in [Address -> NodeRecord \union {Freed}]
        /\ nd1[t] = [nd[t] EXCEPT !.prev = a]
        /\ \A x \in Address : x # t => nd1[x] = nd[x]
    BY <1>1
  <2> HIDE DEF nd1
  <2>2. /\ nd2 \in [Address -> NodeRecord \union {Freed}]
        /\ nd2[a] = [nd[a] EXCEPT !.next = t]
        /\ \A x \in Address : x # a => nd2[x] = nd1[x]
    BY <1>1, <2>1
  <2> HIDE DEF nd2
  <2>3. /\ nd3 \in [Address -> NodeRecord \union {Freed}]
        /\ nd3[n] = Freed
        /\ \A x \in Address : x # n => nd3[x] = nd2[x]
    BY <2>2
  <2> HIDE DEF nd3
  <2>4. /\ nd3[a] = [nd[a] EXCEPT !.next = t]
        /\ nd3[t] = [nd[t] EXCEPT !.prev = a]
        /\ \A x \in Address : x # a /\ x # n /\ x # t => nd3[x] = nd[x]
    BY <2>1, <2>2, <2>3
  <2>5. Unlinked(nd, nd3, a, n, t)
    BY <1>1, <1>2, <2>3, <2>4 DEF Unlinked
  <2> QED
    BY <2>5 DEF nd3, nd2, nd1
<1> QED
  BY <1>3, <1>4

(* Neighbours on a chain are apart, and the way to them is the link.       *)
LEMMA Neighbours ==
    ASSUME NEW nd, NEW c, NEW L, Chain(nd, c, L)
    PROVE  /\ L \in Nat /\ nd \in [Address -> NodeRecord \union {Freed}]
           /\ \A k \in 0 .. L + 1 : c[k] \in Address /\ nd[c[k]] \in NodeRecord
           /\ \A q \in 1 .. L + 1 : /\ c[q - 1] # c[q] /\ nd[c[q]].prev = c[q - 1]
                                    /\ c[q - 1] \in Address /\ c[q] \in Address
                                    /\ nd[c[q - 1]] \in NodeRecord /\ nd[c[q]] \in NodeRecord
           /\ \A q \in 1 .. L : /\ c[q - 1] # c[q + 1] /\ c[q] # c[q + 1]
                                /\ nd[c[q]].next = c[q + 1]
           /\ c[0] = HeadNode /\ c[L + 1] = TailNode
           /\ nd[HeadNode].next = c[1] /\ nd[TailNode].prev = c[L]
<1>1. /\ L \in Nat /\ c[0] = HeadNode /\ c[L + 1] = TailNode
      /\ nd \in [Address -> NodeRecord \union {Freed}]
      /\ \A k, m \in 0 .. L + 1 : c[k] = c[m] => k = m
  BY DEF Chain
<1>2. \A k \in 0 .. L + 1 : c[k] \in Address /\ nd[c[k]] \in NodeRecord
  BY DEF Chain
<1>3. ASSUME NEW q \in 1 .. L + 1
      PROVE  /\ c[q - 1] # c[q] /\ nd[c[q]].prev = c[q - 1]
             /\ c[q - 1] \in Address /\ c[q] \in Address
             /\ nd[c[q - 1]] \in NodeRecord /\ nd[c[q]] \in NodeRecord
  <2>1. q - 1 \in 0 .. L + 1 /\ q \in 0 .. L + 1 /\ q - 1 # q
    BY <1>1
  <2> QED
    BY <1>1, <1>2, <2>1 DEF Chain
<1>4. ASSUME NEW q \in 1 .. L
      PROVE  c[q - 1] # c[q + 1] /\ c[q] # c[q + 1] /\ nd[c[q]].next = c[q + 1]
  <2>1. /\ q - 1 \in 0 .. L + 1 /\ q \in 0 .. L + 1 /\ q + 1 \in 0 .. L + 1 /\ q - 1 # q + 1
        /\ q # q + 1 /\ q \in 0 .. L
    BY <1>1
  <2> QED
    BY <1>1, <2>1 DEF Chain
<1>5. nd[HeadNode].next = c[1]
  <2>1. 0 \in 0 .. L /\ 0 + 1 = 1
    BY <1>1
  <2> QED
    BY <1>1, <2>1 DEF Chain
<1>6. nd[TailNode].prev = c[L]
  <2>1. L + 1 \in 1 .. L + 1 /\ (L + 1) - 1 = L
    BY <1>1
  <2> QED
    BY <1>1, <2>1 DEF Chain
<1> QED
  BY <1>1, <1>2, <1>3, <1>4, <1>5, <1>6

-----------------------------------------------------------------------------
(* Walks *)

(* A set of numbers that is not empty has a smallest.                      *)
LEMMA SmallestNumber ==
    ASSUME NEW T \in SUBSET Nat, T # {}
    PROVE  \E m \in T : \A k \in T : m <= k
<1> DEFINE R == OpToRel(<, Nat)
<1>1. IsWellFoundedOn(R, Nat)
  BY NatLessThanWellFounded, Zenon
<1>2. \A i, j \in Nat : i < j => <<i, j>> \in R
  BY DEF OpToRel
<1> HIDE DEF R
<1>3. PICK m \in T : \A k \in T : ~ (<<k, m>> \in R)
  BY <1>1, WFMin
<1>4. \A k \in T : k \in Nat /\ m \in Nat /\ ~ (k < m)
  BY <1>2, <1>3
<1> QED
  BY <1>3, <1>4

(* The first counterexample there would be among the first n numbers.      *)
LEMMA NoFirstBad ==
    ASSUME NEW n \in Nat, NEW T \in SUBSET (0 .. n), 0 \in T,
           \A m \in 1 .. n : m - 1 \in T => m \in T
    PROVE  T = 0 .. n
<1> SUFFICES ASSUME (0 .. n) \ T # {}
             PROVE  FALSE
  OBVIOUS
<1>1. PICK m \in (0 .. n) \ T : \A k \in (0 .. n) \ T : m <= k
  <2>1. (0 .. n) \ T \in SUBSET Nat
    OBVIOUS
  <2> QED
    BY <2>1, SmallestNumber
<1>2. m \in 1 .. n /\ m - 1 \in 0 .. n /\ ~ (m <= m - 1)
  BY <1>1
<1> QED
  BY <1>1, <1>2

(* A sequence is its first element and the rest.                           *)
LEMMA Prepended ==
    ASSUME NEW T, NEW m \in Nat, NEW g \in [1 .. m + 1 -> T]
    PROVE  g = <<g[1]>> \o [j \in 1 .. m |-> g[j + 1]]
<1> DEFINE rest == [j \in 1 .. m |-> g[j + 1]]
<1>1. rest \in Seq(T) /\ Len(rest) = m /\ \A j \in 1 .. m : rest[j] = g[j + 1]
  OBVIOUS
<1>2. g \in Seq(T) /\ Len(g) = m + 1
  OBVIOUS
<1>3. <<g[1]>> \in Seq(T) /\ Len(<<g[1]>>) = 1 /\ <<g[1]>>[1] = g[1]
  BY <1>2
<1> HIDE DEF rest
<1>4. /\ <<g[1]>> \o rest \in Seq(T) /\ Len(<<g[1]>> \o rest) = 1 + m
      /\ \A j \in 1 .. m + 1 : (<<g[1]>> \o rest)[j] = IF j <= 1 THEN <<g[1]>>[j] ELSE rest[j - 1]
  BY <1>1, <1>3, ConcatProperties
<1>5. \A j \in 1 .. m + 1 : g[j] = (<<g[1]>> \o rest)[j]
  BY <1>1, <1>3, <1>4
<1>6. g = <<g[1]>> \o rest
  BY <1>2, <1>4, <1>5, SeqEqual
<1> QED
  BY <1>6 DEF rest

(* One step of a walk along m_next that lists item of each node, and end   *)
(* when it gets to the tail; f is the walk from the next node on.          *)
WalkStep(nd, item, end, f) ==
    [n \in UsedIn(nd) \union {TailNode} |->
        IF n = TailNode THEN end ELSE <<item[n]>> \o f[nd[n].next]]

(* A walk along a chain, with (e = 1) or without (e = 0) the tail's item.  *)
Walkable(nd, c, L, item, e, end) ==
    /\ Chain(nd, c, L)
    /\ item \in [Address -> {item[x] : x \in Address}]
    /\ e \in {0, 1}
    /\ end = [j \in 1 .. e |-> item[TailNode]]

(* The function a walk is written as exists, and its value is the chain's. *)
LEMMA Walk ==
    ASSUME NEW nd, NEW c, NEW L, NEW item, NEW e, NEW end, Walkable(nd, c, L, item, e, end)
    PROVE  /\ \E f : f = WalkStep(nd, item, end, f)
           /\ \A f : f = WalkStep(nd, item, end, f)
                        => f[c[1]] = [j \in 1 .. L + e |-> item[c[j]]]
<1> DEFINE S      == UsedIn(nd) \union {TailNode}
           T      == {item[x] : x \in Address}
           Def(f) == [n \in S |-> IF n = TailNode THEN end
                                  ELSE <<item[n]>> \o f[nd[n].next]]
           V(k)   == [j \in 1 .. L + 1 + e - k |-> item[c[k + j - 1]]]
           P(n)   == CHOOSE k \in 1 .. L + 1 : c[k] = n
           g      == [n \in S |-> V(P(n))]
<1>0. /\ Chain(nd, c, L) /\ item \in [Address -> T] /\ e \in {0, 1}
      /\ end = [j \in 1 .. e |-> item[TailNode]]
  BY DEF Walkable
<1> HIDE DEF T
<1>1. /\ L \in Nat /\ e \in Nat /\ c[L + 1] = TailNode
      /\ \A k \in 0 .. L + 1 : c[k] \in Address
      /\ \A k, m \in 1 .. L + 1 : c[k] = c[m] => k = m
      /\ \A k \in 1 .. L : nd[c[k]].next = c[k + 1]
  BY <1>0 DEF Chain
<1>2. /\ \A k \in 1 .. L + 1 : c[k] \in S
      /\ \A n \in S : \E k \in 1 .. L + 1 : c[k] = n
  BY <1>0, ChainNodes
<1>3. ASSUME NEW k \in 1 .. L
      PROVE  V(k) = <<item[c[k]]>> \o V(k + 1)
  <2> DEFINE m == L + e - k
             h == [j \in 1 .. m + 1 |-> item[c[k + j - 1]]]
  <2>1. m \in Nat /\ L + 1 + e - k = m + 1 /\ L + 1 + e - (k + 1) = m
    BY <1>1
  <2>2. \A j \in 1 .. m + 1 : k + j - 1 \in 0 .. L + 1
    BY <1>0, <1>1
  <2>3. h \in [1 .. m + 1 -> T]
    BY <1>0, <1>1, <2>2
  <2>4. h[1] = item[c[k]]
    BY <1>1, <2>1
  <2>5. \A j \in 1 .. m : h[j + 1] = item[c[(k + 1) + j - 1]]
    <3> SUFFICES ASSUME NEW j \in 1 .. m PROVE h[j + 1] = item[c[(k + 1) + j - 1]]
      OBVIOUS
    <3>1. j + 1 \in 1 .. m + 1 /\ k + (j + 1) - 1 = (k + 1) + j - 1
      BY <1>1, <2>1
    <3> QED
      BY <3>1
  <2> HIDE DEF h
  <2>6. h = <<h[1]>> \o [j \in 1 .. m |-> h[j + 1]]
    BY <2>1, <2>3, Prepended
  <2>7. [j \in 1 .. m |-> h[j + 1]] = V(k + 1)
    BY <2>1, <2>5
  <2>8. h = V(k)
    BY <2>1 DEF h
  <2> QED
    BY <2>4, <2>6, <2>7, <2>8
<1>4. V(L + 1) = end
  <2>1. L + 1 + e - (L + 1) = e
    BY <1>1
  <2>2. \A j \in 1 .. e : j = 1
    BY <1>0
  <2>3. \A j \in 1 .. e : (L + 1) + j - 1 = L + 1
    BY <1>1, <2>2
  <2> QED
    BY <1>0, <1>1, <2>1, <2>3
<1>5. V(1) = [j \in 1 .. L + e |-> item[c[j]]]
  <2>1. L + 1 + e - 1 = L + e /\ \A j \in 1 .. L + e : 1 + j - 1 = j
    BY <1>1
  <2> QED
    BY <2>1
<1>6. \A k \in 1 .. L + 1 : P(c[k]) = k
  BY <1>1
<1> HIDE DEF V, P
<1>7. g = Def(g)
  <2> SUFFICES ASSUME NEW n \in S
               PROVE  g[n] = IF n = TailNode THEN end ELSE <<item[n]>> \o g[nd[n].next]
    OBVIOUS
  <2>1. PICK k \in 1 .. L + 1 : c[k] = n
    BY <1>2
  <2>2. g[n] = V(k)
    BY <1>6, <2>1
  <2>3. CASE k = L + 1
    BY <1>1, <1>4, <2>1, <2>2, <2>3
  <2>4. CASE k # L + 1
    <3>1. k \in 1 .. L /\ L + 1 \in 1 .. L + 1 /\ k + 1 \in 1 .. L + 1
      BY <1>1, <2>4
    <3>2. n # TailNode
      BY <1>1, <2>1, <2>4, <3>1
    <3>3. nd[n].next = c[k + 1]
      BY <1>1, <2>1, <3>1
    <3>4. g[c[k + 1]] = V(k + 1)
      BY <1>2, <1>6, <3>1
    <3> QED
      BY <1>3, <2>1, <2>2, <3>1, <3>2, <3>3, <3>4
  <2> QED
    BY <2>3, <2>4
<1>8. ASSUME NEW f, f = Def(f)
      PROVE  f[c[1]] = V(1)
  <2> DEFINE Q == {m \in 0 .. L : f[c[L + 1 - m]] = V(L + 1 - m)}
  <2>1. \A n \in S : f[n] = IF n = TailNode THEN end ELSE <<item[n]>> \o f[nd[n].next]
    BY <1>8
  <2>2. 0 \in Q
    <3>1. L + 1 - 0 = L + 1 /\ 0 \in 0 .. L
      BY <1>1
    <3> QED
      BY <1>1, <1>4, <2>1, <3>1
  <2>3. ASSUME NEW m \in 1 .. L, m - 1 \in Q
        PROVE  m \in Q
    <3> DEFINE k == L + 1 - m
    <3>1. /\ k \in 1 .. L /\ L + 1 - (m - 1) = k + 1 /\ k \in 1 .. L + 1
          /\ L + 1 \in 1 .. L + 1 /\ k # L + 1
      BY <1>1
    <3>2. f[c[k + 1]] = V(k + 1)
      BY <2>3, <3>1
    <3> HIDE DEF k
    <3>3. c[k] \in S /\ c[k] # TailNode /\ nd[c[k]].next = c[k + 1]
      BY <1>1, <1>2, <3>1
    <3>4. f[c[k]] = <<item[c[k]]>> \o f[nd[c[k]].next]
      BY <2>1, <3>3
    <3>5. f[c[k]] = V(k)
      BY <1>3, <3>1, <3>2, <3>3, <3>4
    <3> QED
      BY <3>5 DEF k
  <2>4. Q = 0 .. L
    <3> HIDE DEF Q
    <3>1. Q \in SUBSET (0 .. L)
      BY DEF Q
    <3> QED
      BY <1>1, <2>2, <2>3, <3>1, NoFirstBad
  <2>5. L \in 0 .. L /\ L + 1 - L = 1
    BY <1>1
  <2>6. f[c[L + 1 - L]] = V(L + 1 - L)
    BY <2>4, <2>5
  <2> QED
    BY <2>5, <2>6
<1>9. \E f : f = Def(f)
  BY <1>7
<1>10. \A f : f = Def(f) => f[c[1]] = [j \in 1 .. L + e |-> item[c[j]]]
  BY <1>5, <1>8
<1> QED
  BY <1>9, <1>10 DEF WalkStep

(* The elements of a list, and its nodes with the tail, of any memory.     *)
ContentsOf(ex, nd) ==
    LET from[n \in UsedIn(nd) \union {TailNode}] ==
            IF n = TailNode THEN << >> ELSE <<nd[n].data>> \o from[nd[n].next]
    IN  IF ex THEN from[nd[HeadNode].next] ELSE << >>

PlacesOf(ex, nd) ==
    LET from[n \in UsedIn(nd) \union {TailNode}] ==
            IF n = TailNode THEN <<TailNode>> ELSE <<n>> \o from[nd[n].next]
    IN  IF ex THEN from[nd[HeadNode].next] ELSE << >>

(* They are the model's, before and after a call.                          *)
LEMMA WalksOfState ==
    /\ Contents = ContentsOf(exists, node) /\ Contents' = ContentsOf(exists', node')
    /\ Places = PlacesOf(exists, node) /\ Places' = PlacesOf(exists', node')
    /\ Used = UsedIn(node) /\ Used' = UsedIn(node')
<1>1. Used = UsedIn(node) /\ Used' = UsedIn(node')
  BY DEF Used, UsedIn
<1>2. Contents = ContentsOf(exists, node) /\ Contents' = ContentsOf(exists', node')
  BY DEF Contents, ContentsOf, Used, UsedIn
<1>3. Places = PlacesOf(exists, node) /\ Places' = PlacesOf(exists', node')
  BY DEF Places, PlacesOf, Used, UsedIn
<1> QED
  BY <1>1, <1>2, <1>3

(* The elements along a chain.                                             *)
Items(nd, c, L) == [k \in 1 .. L |-> nd[c[k]].data]

(* A walk from the head collects what is along the chain.                  *)
LEMMA ContentsIs ==
    ASSUME NEW nd, NEW c, NEW L, Chain(nd, c, L)
    PROVE  ContentsOf(TRUE, nd) = Items(nd, c, L)
<1> DEFINE S    == UsedIn(nd) \union {TailNode}
           item == [x \in Address |-> nd[x].data]
           e    == 0
           end  == [j \in 1 .. e |-> item[TailNode]]
           W(f) == WalkStep(nd, item, end, f)
           D(f) == [n \in S |-> IF n = TailNode THEN << >> ELSE <<nd[n].data>> \o f[nd[n].next]]
           F    == CHOOSE f : f = D(f)
<1>1. /\ \E f : f = W(f)
      /\ \A f : f = W(f) => f[c[1]] = [j \in 1 .. L + e |-> item[c[j]]]
  <2>1. Walkable(nd, c, L, item, e, end)
    BY DEF Walkable
  <2> HIDE DEF item, e, end, W
  <2> QED
    BY <2>1, Walk DEF W
<1>2. end = << >>
  OBVIOUS
<1>3. \A n \in S : item[n] = nd[n].data
  BY DEF UsedIn, Address
<1> HIDE DEF item, end
<1>4. \A f : W(f) = D(f)
  BY <1>2, <1>3 DEF WalkStep
<1> HIDE DEF W, D
<1>5. (\E f : f = D(f)) /\ \A f : f = D(f) => f = W(f)
  BY <1>1, <1>4
<1>6. F = D(F)
  BY <1>5
<1>7. F[c[1]] = [j \in 1 .. L + e |-> item[c[j]]]
  BY <1>1, <1>5, <1>6
<1>8. nd[HeadNode].next = c[1] /\ L \in Nat /\ \A k \in 0 .. L + 1 : c[k] \in Address
  BY Neighbours
<1>9. [j \in 1 .. L + e |-> item[c[j]]] = Items(nd, c, L)
  <2>1. L + e = L /\ \A j \in 1 .. L : j \in 0 .. L + 1
    BY <1>8
  <2>2. \A j \in 1 .. L : item[c[j]] = nd[c[j]].data
    BY <1>8, <2>1 DEF item
  <2> QED
    BY <2>1, <2>2 DEF Items
<1>10. ContentsOf(TRUE, nd) = F[nd[HeadNode].next]
  BY DEF ContentsOf, F, D, S
<1> QED
  BY <1>7, <1>8, <1>9, <1>10

(* The places along it are its nodes.                                      *)
LEMMA PlacesIs ==
    ASSUME NEW nd, NEW c, NEW L, Chain(nd, c, L)
    PROVE  PlacesOf(TRUE, nd) = [k \in 1 .. L + 1 |-> c[k]]
<1> DEFINE S    == UsedIn(nd) \union {TailNode}
           item == [x \in Address |-> x]
           e    == 1
           end  == [j \in 1 .. e |-> item[TailNode]]
           W(f) == WalkStep(nd, item, end, f)
           D(f) == [n \in S |-> IF n = TailNode THEN <<TailNode>> ELSE <<n>> \o f[nd[n].next]]
           F    == CHOOSE f : f = D(f)
<1>1. /\ \E f : f = W(f)
      /\ \A f : f = W(f) => f[c[1]] = [j \in 1 .. L + e |-> item[c[j]]]
  <2>1. Walkable(nd, c, L, item, e, end)
    BY DEF Walkable
  <2> HIDE DEF item, e, end, W
  <2> QED
    BY <2>1, Walk DEF W
<1>2. end = <<TailNode>>
  BY DEF Address
<1>3. \A n \in S : item[n] = n
  BY DEF UsedIn, Address
<1> HIDE DEF item, end
<1>4. \A f : W(f) = D(f)
  BY <1>2, <1>3 DEF WalkStep
<1> HIDE DEF W, D
<1>5. (\E f : f = D(f)) /\ \A f : f = D(f) => f = W(f)
  BY <1>1, <1>4
<1>6. F = D(F)
  BY <1>5
<1>7. F[c[1]] = [j \in 1 .. L + e |-> item[c[j]]]
  BY <1>1, <1>5, <1>6
<1>8. nd[HeadNode].next = c[1] /\ L \in Nat /\ \A k \in 0 .. L + 1 : c[k] \in Address
  BY Neighbours
<1>9. [j \in 1 .. L + e |-> item[c[j]]] = [k \in 1 .. L + 1 |-> c[k]]
  <2>1. L + e = L + 1 /\ \A j \in 1 .. L + 1 : j \in 0 .. L + 1
    BY <1>8
  <2>2. \A j \in 1 .. L + 1 : item[c[j]] = c[j]
    BY <1>8, <2>1 DEF item
  <2> QED
    BY <2>1, <2>2
<1>10. PlacesOf(TRUE, nd) = F[nd[HeadNode].next]
  BY DEF PlacesOf, F, D, S
<1> QED
  BY <1>7, <1>8, <1>9, <1>10

-----------------------------------------------------------------------------
(* The sequence of a chain *)

(* An element that comes in, by index.                                     *)
LEMMA InsertAtIs ==
    ASSUME NEW T, NEW n \in Nat, NEW s \in [1 .. n -> T], NEW q \in 1 .. n + 1, NEW d \in T
    PROVE  InsertAt(s, q, d)
             = [k \in 1 .. n + 1 |-> IF k < q THEN s[k] ELSE IF k = q THEN d ELSE s[k - 1]]
<1> DEFINE front == SubSeq(s, 1, q - 1)
           back  == SubSeq(s, q, n)
           f     == [k \in 1 .. n + 1 |-> IF k < q THEN s[k] ELSE IF k = q THEN d ELSE s[k - 1]]
<1>1. /\ s \in Seq(T) /\ Len(s) = n /\ \A k \in 1 .. n : s[k] \in T
      /\ q \in Nat /\ q >= 1 /\ q <= n + 1
  OBVIOUS
<1>2. /\ front \in Seq(T) /\ Len(front) = q - 1 /\ \A k \in 1 .. q - 1 : front[k] = s[k]
  <2>1. 1 \in Int /\ q - 1 \in Int /\ \A k \in 1 .. q - 1 : s[k] \in T
    BY <1>1
  <2>2. /\ front \in Seq(T)
        /\ Len(front) = IF 1 <= q - 1 THEN (q - 1) - 1 + 1 ELSE 0
        /\ \A k \in 1 .. (q - 1) - 1 + 1 : front[k] = s[1 + k - 1]
    BY <2>1, SubSeqProperties
  <2> HIDE DEF front
  <2> QED
    BY <1>1, <2>2
<1>3. /\ back \in Seq(T) /\ Len(back) = n + 1 - q
      /\ \A k \in 1 .. n + 1 - q : back[k] = s[q + k - 1]
  <2>1. q \in Int /\ n \in Int /\ \A k \in q .. n : s[k] \in T
    BY <1>1
  <2>2. /\ back \in Seq(T)
        /\ Len(back) = IF q <= n THEN n - q + 1 ELSE 0
        /\ \A k \in 1 .. n - q + 1 : back[k] = s[q + k - 1]
    BY <2>1, SubSeqProperties
  <2> HIDE DEF back
  <2> QED
    BY <1>1, <2>2
<1> HIDE DEF front, back
<1>4. <<d>> \in Seq(T) /\ Len(<<d>>) = 1 /\ <<d>>[1] = d
  OBVIOUS
<1>5. /\ front \o <<d>> \in Seq(T) /\ Len(front \o <<d>>) = q
      /\ \A k \in 1 .. q : (front \o <<d>>)[k] = IF k <= q - 1 THEN s[k] ELSE d
  <2>1. /\ front \o <<d>> \in Seq(T) /\ Len(front \o <<d>>) = (q - 1) + 1
        /\ \A k \in 1 .. (q - 1) + 1 : (front \o <<d>>)[k]
                = IF k <= q - 1 THEN front[k] ELSE <<d>>[k - (q - 1)]
    BY <1>2, <1>4, ConcatProperties
  <2> QED
    BY <1>1, <1>2, <1>4, <2>1
<1> DEFINE fd == front \o <<d>>
<1> HIDE DEF fd
<1>6. /\ fd \o back \in Seq(T) /\ Len(fd \o back) = n + 1
      /\ \A k \in 1 .. n + 1 : (fd \o back)[k] = f[k]
  <2>1. fd \in Seq(T) /\ Len(fd) = q /\ \A k \in 1 .. q : fd[k] = IF k <= q - 1 THEN s[k] ELSE d
    BY <1>5 DEF fd
  <2>2. /\ fd \o back \in Seq(T) /\ Len(fd \o back) = n + 1
        /\ \A k \in 1 .. n + 1 : (fd \o back)[k] = IF k <= q THEN fd[k] ELSE back[k - q]
    <3>1. /\ fd \o back \in Seq(T) /\ Len(fd \o back) = Len(fd) + Len(back)
          /\ \A k \in 1 .. Len(fd) + Len(back) : (fd \o back)[k]
                = IF k <= Len(fd) THEN fd[k] ELSE back[k - Len(fd)]
      BY <1>3, <2>1, ConcatProperties
    <3>2. Len(fd) + Len(back) = n + 1 /\ Len(fd) = q
      BY <1>1, <1>3, <2>1
    <3> QED
      BY <3>1, <3>2
  <2>4. ASSUME NEW k \in 1 .. n + 1
        PROVE  (fd \o back)[k] = f[k]
    <3>1. CASE k <= q
      BY <1>1, <2>1, <2>2, <3>1
    <3>2. CASE ~ (k <= q)
      <4>1. k - q \in 1 .. n + 1 - q /\ q + (k - q) - 1 = k - 1
        BY <1>1, <3>2
      <4>2. back[k - q] = s[k - 1]
        BY <1>3, <4>1
      <4>3. f[k] = s[k - 1]
        BY <1>1, <3>2
      <4>4. (fd \o back)[k] = back[k - q]
        BY <1>1, <2>2, <3>2
      <4> QED
        BY <4>2, <4>3, <4>4
    <3> QED
      BY <3>1, <3>2
  <2> QED
    BY <2>2, <2>4
<1>7. f \in Seq(T) /\ Len(f) = n + 1
  <2>1. \A k \in 1 .. n + 1 : (IF k < q THEN s[k] ELSE IF k = q THEN d ELSE s[k - 1]) \in T
    BY <1>1
  <2> QED
    BY <1>1, <2>1
<1>8. fd \o back = f
  <2> HIDE DEF f
  <2> QED
    BY <1>6, <1>7, SeqEqual
<1>9. InsertAt(s, q, d) = fd \o back
  BY <1>1 DEF InsertAt, fd, front, back
<1> QED
  BY <1>8, <1>9

(* An element that is taken out, by index.                                 *)
LEMMA RemoveAtIs ==
    ASSUME NEW T, NEW n \in Nat, NEW s \in [1 .. n -> T], NEW q \in 1 .. n
    PROVE  RemoveAt(s, q) = [k \in 1 .. n - 1 |-> IF k < q THEN s[k] ELSE s[k + 1]]
<1> DEFINE front == SubSeq(s, 1, q - 1)
           back  == SubSeq(s, q + 1, n)
           f     == [k \in 1 .. n - 1 |-> IF k < q THEN s[k] ELSE s[k + 1]]
<1>1. s \in Seq(T) /\ Len(s) = n /\ q \in Nat /\ q >= 1 /\ q <= n /\ \A k \in 1 .. n : s[k] \in T
  OBVIOUS
<1>2. /\ front \in Seq(T) /\ Len(front) = q - 1 /\ \A k \in 1 .. q - 1 : front[k] = s[k]
  <2>1. 1 \in Int /\ q - 1 \in Int /\ \A k \in 1 .. q - 1 : s[k] \in T
    BY <1>1
  <2>2. /\ front \in Seq(T)
        /\ Len(front) = IF 1 <= q - 1 THEN (q - 1) - 1 + 1 ELSE 0
        /\ \A k \in 1 .. (q - 1) - 1 + 1 : front[k] = s[1 + k - 1]
    BY <2>1, SubSeqProperties
  <2> HIDE DEF front
  <2> QED
    BY <1>1, <2>2
<1>3. /\ back \in Seq(T) /\ Len(back) = n - q
      /\ \A k \in 1 .. n - q : back[k] = s[q + k]
  <2>1. q + 1 \in Int /\ n \in Int /\ \A k \in q + 1 .. n : s[k] \in T
    BY <1>1
  <2>2. /\ back \in Seq(T)
        /\ Len(back) = IF q + 1 <= n THEN n - (q + 1) + 1 ELSE 0
        /\ \A k \in 1 .. n - (q + 1) + 1 : back[k] = s[(q + 1) + k - 1]
    BY <2>1, SubSeqProperties
  <2>3. \A k \in 1 .. n - q : (q + 1) + k - 1 = q + k
    BY <1>1
  <2> HIDE DEF back
  <2> QED
    BY <1>1, <2>2, <2>3
<1> HIDE DEF front, back
<1>4. /\ front \o back \in Seq(T) /\ Len(front \o back) = n - 1
      /\ \A k \in 1 .. n - 1 : (front \o back)[k] = f[k]
  <2>1. /\ front \o back \in Seq(T) /\ Len(front \o back) = n - 1
        /\ \A k \in 1 .. n - 1 : (front \o back)[k]
                = IF k <= q - 1 THEN front[k] ELSE back[k - (q - 1)]
    <3>1. /\ front \o back \in Seq(T) /\ Len(front \o back) = Len(front) + Len(back)
          /\ \A k \in 1 .. Len(front) + Len(back) : (front \o back)[k]
                = IF k <= Len(front) THEN front[k] ELSE back[k - Len(front)]
      BY <1>2, <1>3, ConcatProperties
    <3>2. Len(front) + Len(back) = n - 1 /\ Len(front) = q - 1
      BY <1>1, <1>2, <1>3
    <3> QED
      BY <3>1, <3>2
  <2>3. ASSUME NEW k \in 1 .. n - 1
        PROVE  (front \o back)[k] = f[k]
    <3>1. CASE k <= q - 1
      BY <1>1, <1>2, <2>1, <3>1
    <3>2. CASE ~ (k <= q - 1)
      <4>1. k - (q - 1) \in 1 .. n - q /\ q + (k - (q - 1)) = k + 1
        BY <1>1, <3>2
      <4>2. back[k - (q - 1)] = s[k + 1]
        BY <1>3, <4>1
      <4>3. f[k] = s[k + 1]
        BY <1>1, <3>2
      <4>4. (front \o back)[k] = back[k - (q - 1)]
        BY <1>1, <2>1, <3>2
      <4> QED
        BY <4>2, <4>3, <4>4
    <3> QED
      BY <3>1, <3>2
  <2> QED
    BY <2>1, <2>3
<1>5. f \in Seq(T) /\ Len(f) = n - 1
  <2>1. \A k \in 1 .. n - 1 : (IF k < q THEN s[k] ELSE s[k + 1]) \in T
    BY <1>1
  <2> QED
    BY <1>1, <2>1
<1>6. front \o back = f
  <2> HIDE DEF f
  <2> QED
    BY <1>4, <1>5, SeqEqual
<1>7. RemoveAt(s, q) = front \o back
  BY <1>1 DEF RemoveAt, front, back
<1> QED
  BY <1>6, <1>7

-----------------------------------------------------------------------------
(* Iterators *)

(* Each iterator is at a place of the chain, or has none.                  *)
Placed(nd, it, c, L, pos) ==
    /\ Chain(nd, c, L)
    /\ pos \in [Iterator -> 0 .. L + 1]
    /\ it = [i \in Iterator |-> IF pos[i] = 0 THEN Null ELSE c[pos[i]]]

(* Positions once an element has come in before q, or the one at q is gone.*)
ShiftedFrom(pos, q) == [i \in Iterator |-> IF pos[i] >= q THEN pos[i] + 1 ELSE pos[i]]
ClosedFrom(pos, q) ==
    [i \in Iterator |-> IF pos[i] > q THEN pos[i] - 1 ELSE IF pos[i] = q THEN 0 ELSE pos[i]]

(* What linking in and taking out are done to.                             *)
Inserted(nd, nd2, c, L, q, p, d) ==
    /\ Chain(nd, c, L) /\ q \in 1 .. L + 1 /\ p \in Node /\ nd[p] = Freed /\ d \in Element
    /\ Linked(nd, nd2, c[q - 1], p, c[q], d)

Removed(nd, nd2, c, L, q) ==
    /\ Chain(nd, c, L) /\ q \in 1 .. L
    /\ Unlinked(nd, nd2, c[q - 1], c[q], c[q + 1])

(* The elements of a chain are elements.                                   *)
LEMMA ItemsType ==
    ASSUME NEW nd, NEW c, NEW L, Chain(nd, c, L)
    PROVE  /\ Items(nd, c, L) \in [1 .. L -> Element] /\ Items(nd, c, L) \in Seq(Element)
           /\ Len(Items(nd, c, L)) = L /\ L \in Nat
           /\ DOMAIN Items(nd, c, L) = 1 .. L
           /\ \A k \in 1 .. L : Items(nd, c, L)[k] = nd[c[k]].data
<1>1. L \in Nat /\ \A k \in 1 .. L : nd[c[k]] \in NodeRecord
  BY DEF Chain
<1>2. \A k \in 1 .. L : nd[c[k]].data \in Element
  BY <1>1 DEF NodeRecord
<1> QED
  BY <1>1, <1>2 DEF Items

(* An element that is linked in comes into the sequence.                   *)
LEMMA InsertedItems ==
    ASSUME NEW nd, NEW nd2, NEW c, NEW L, NEW q, NEW p, NEW d, Inserted(nd, nd2, c, L, q, p, d)
    PROVE  /\ Chain(nd2, With(c, L, q, p), L + 1)
           /\ With(c, L, q, p)[q] = p
           /\ Items(nd2, With(c, L, q, p), L + 1) = InsertAt(Items(nd, c, L), q, d)
<1> DEFINE e == With(c, L, q, p)
           s == Items(nd, c, L)
<1>1. /\ Chain(nd, c, L) /\ q \in 1 .. L + 1 /\ p \in Node /\ nd[p] = Freed /\ d \in Element
      /\ Linked(nd, nd2, c[q - 1], p, c[q], d)
  BY DEF Inserted
<1>2. Chain(nd2, e, L + 1)
  BY <1>1, ChainLinked
<1>3. /\ L \in Nat /\ s \in [1 .. L -> Element] /\ \A k \in 1 .. L : s[k] = nd[c[k]].data
  BY <1>1, ItemsType
<1>4. \A k \in 0 .. L + 1 : c[k] \in Address /\ nd[c[k]] \in NodeRecord
  BY <1>1 DEF Chain
<1>5. \A k \in 1 .. L : nd2[c[k]].data = nd[c[k]].data
  <2> SUFFICES ASSUME NEW k \in 1 .. L PROVE nd2[c[k]].data = nd[c[k]].data
    OBVIOUS
  <2>1. c[k] \in Address /\ c[k] # p
    BY <1>1, <1>3, <1>4, NotFreed
  <2> QED
    BY <1>1, <2>1 DEF Linked
<1>6. nd2[p].data = d
  BY <1>1 DEF Linked
<1>7. \A k \in 1 .. L + 1 : e[k] = IF k < q THEN c[k] ELSE IF k = q THEN p ELSE c[k - 1]
  BY <1>1, <1>3 DEF With
<1>8. e[q] = p
  BY <1>1, <1>7
<1> HIDE DEF e, s
<1>9. \A k \in 1 .. L + 1 : nd2[e[k]].data
                              = IF k < q THEN s[k] ELSE IF k = q THEN d ELSE s[k - 1]
  <2> SUFFICES ASSUME NEW k \in 1 .. L + 1
               PROVE  nd2[e[k]].data = IF k < q THEN s[k] ELSE IF k = q THEN d ELSE s[k - 1]
    OBVIOUS
  <2>1. CASE k < q
    <3>1. k \in 1 .. L
      BY <1>1, <1>3, <2>1
    <3> QED
      BY <1>3, <1>5, <1>7, <2>1, <3>1
  <2>2. CASE k = q
    BY <1>6, <1>7, <1>3, <1>1, <2>2
  <2>3. CASE ~ (k < q) /\ k # q
    <3>1. k - 1 \in 1 .. L
      BY <1>1, <1>3, <2>3
    <3> QED
      BY <1>3, <1>5, <1>7, <2>3, <3>1
  <2> QED
    BY <2>1, <2>2, <2>3
<1>10. Items(nd2, e, L + 1)
         = [k \in 1 .. L + 1 |-> IF k < q THEN s[k] ELSE IF k = q THEN d ELSE s[k - 1]]
  BY <1>9 DEF Items
<1>11. InsertAt(s, q, d)
         = [k \in 1 .. L + 1 |-> IF k < q THEN s[k] ELSE IF k = q THEN d ELSE s[k - 1]]
  BY <1>1, <1>3, InsertAtIs
<1>12. Items(nd2, e, L + 1) = InsertAt(s, q, d)
  BY <1>10, <1>11
<1> QED
  BY <1>2, <1>8, <1>12 DEF e, s

(* Iterators stay with their nodes, which are one place further.           *)
LEMMA InsertedPlaced ==
    ASSUME NEW nd, NEW nd2, NEW c, NEW L, NEW q, NEW p, NEW d, Inserted(nd, nd2, c, L, q, p, d),
           NEW it, NEW pos, Placed(nd, it, c, L, pos)
    PROVE  Placed(nd2, it, With(c, L, q, p), L + 1, ShiftedFrom(pos, q))
<1> DEFINE e    == With(c, L, q, p)
           pos2 == ShiftedFrom(pos, q)
<1>1. L \in Nat /\ q \in 1 .. L + 1 /\ Chain(nd2, e, L + 1)
  <2>1. Chain(nd, c, L) /\ q \in 1 .. L + 1
    BY DEF Inserted
  <2>2. L \in Nat
    BY <2>1 DEF Chain
  <2>3. Chain(nd2, e, L + 1)
    BY InsertedItems
  <2> QED
    BY <2>1, <2>2, <2>3
<1>2. /\ pos \in [Iterator -> 0 .. L + 1]
      /\ it = [i \in Iterator |-> IF pos[i] = 0 THEN Null ELSE c[pos[i]]]
  BY DEF Placed
<1>3. \A i \in Iterator : pos2[i] = IF pos[i] >= q THEN pos[i] + 1 ELSE pos[i]
  BY DEF ShiftedFrom
<1>4. pos2 \in [Iterator -> 0 .. (L + 1) + 1]
  <2>1. \A i \in Iterator : pos[i] \in 0 .. L + 1 /\ pos2[i] \in 0 .. (L + 1) + 1
    BY <1>1, <1>2, <1>3
  <2> QED
    BY <2>1 DEF ShiftedFrom
<1>5. \A k \in 0 .. L + 2 : e[k] = IF k < q THEN c[k] ELSE IF k = q THEN p ELSE c[k - 1]
  BY <1>1 DEF With
<1> HIDE DEF e, pos2
<1>6. ASSUME NEW i \in Iterator
      PROVE  it[i] = IF pos2[i] = 0 THEN Null ELSE e[pos2[i]]
  <2>1. pos[i] \in 0 .. L + 1 /\ it[i] = IF pos[i] = 0 THEN Null ELSE c[pos[i]]
    BY <1>2
  <2>2. CASE pos[i] < q
    <3>1. pos2[i] = pos[i]
      BY <1>1, <1>3, <2>1, <2>2
    <3>2. pos[i] \in 0 .. L + 2 /\ e[pos[i]] = c[pos[i]]
      BY <1>1, <1>5, <2>1, <2>2
    <3> QED
      BY <2>1, <3>1, <3>2
  <2>3. CASE pos[i] >= q
    <3>1. pos2[i] = pos[i] + 1 /\ pos[i] + 1 # 0 /\ pos[i] # 0
      BY <1>1, <1>3, <2>1, <2>3
    <3>2. e[pos[i] + 1] = c[(pos[i] + 1) - 1] /\ (pos[i] + 1) - 1 = pos[i]
      BY <1>1, <1>5, <2>1, <2>3
    <3> QED
      BY <2>1, <3>1, <3>2
  <2> QED
    BY <1>1, <2>1, <2>2, <2>3
<1>7. it = [i \in Iterator |-> IF pos2[i] = 0 THEN Null ELSE e[pos2[i]]]
  BY <1>2, <1>6
<1> QED
  BY <1>1, <1>4, <1>7 DEF Placed, e, pos2

(* An element that is taken out leaves the sequence.                       *)
LEMMA RemovedItems ==
    ASSUME NEW nd, NEW nd2, NEW c, NEW L, NEW q, Removed(nd, nd2, c, L, q)
    PROVE  /\ Chain(nd2, Without(c, L, q), L - 1)
           /\ Items(nd2, Without(c, L, q), L - 1) = RemoveAt(Items(nd, c, L), q)
<1> DEFINE e == Without(c, L, q)
           s == Items(nd, c, L)
<1>1. /\ Chain(nd, c, L) /\ q \in 1 .. L /\ Unlinked(nd, nd2, c[q - 1], c[q], c[q + 1])
  BY DEF Removed
<1>2. Chain(nd2, e, L - 1)
  BY <1>1, ChainUnlinked
<1>3. /\ L \in Nat /\ s \in [1 .. L -> Element] /\ \A k \in 1 .. L : s[k] = nd[c[k]].data
  BY <1>1, ItemsType
<1>4. /\ \A k \in 0 .. L + 1 : c[k] \in Address
      /\ \A k, m \in 0 .. L + 1 : c[k] = c[m] => k = m
  BY <1>1 DEF Chain
<1>5. \A k \in 1 .. L : k # q => nd2[c[k]].data = nd[c[k]].data
  <2> SUFFICES ASSUME NEW k \in 1 .. L, k # q PROVE nd2[c[k]].data = nd[c[k]].data
    OBVIOUS
  <2>1. c[k] \in Address /\ c[k] # c[q]
    BY <1>1, <1>3, <1>4
  <2> QED
    BY <1>1, <2>1 DEF Unlinked
<1>6. \A k \in 1 .. L - 1 : e[k] = IF k < q THEN c[k] ELSE c[k + 1]
  BY <1>1, <1>3 DEF Without
<1> HIDE DEF e, s
<1>7. \A k \in 1 .. L - 1 : nd2[e[k]].data = IF k < q THEN s[k] ELSE s[k + 1]
  <2> SUFFICES ASSUME NEW k \in 1 .. L - 1
               PROVE  nd2[e[k]].data = IF k < q THEN s[k] ELSE s[k + 1]
    OBVIOUS
  <2>1. k \in 1 .. L /\ k + 1 \in 1 .. L
    BY <1>3
  <2>2. CASE k < q
    BY <1>1, <1>3, <1>5, <1>6, <2>1, <2>2
  <2>3. CASE ~ (k < q)
    <3>1. k + 1 # q
      BY <1>1, <1>3, <2>3
    <3> QED
      BY <1>3, <1>5, <1>6, <2>1, <2>3, <3>1
  <2> QED
    BY <2>2, <2>3
<1>8. Items(nd2, e, L - 1) = [k \in 1 .. L - 1 |-> IF k < q THEN s[k] ELSE s[k + 1]]
  BY <1>7 DEF Items
<1>9. RemoveAt(s, q) = [k \in 1 .. L - 1 |-> IF k < q THEN s[k] ELSE s[k + 1]]
  BY <1>1, <1>3, RemoveAtIs
<1>10. Items(nd2, e, L - 1) = RemoveAt(s, q)
  BY <1>8, <1>9
<1> QED
  BY <1>2, <1>10 DEF e, s

(* Its iterators are gone, and those behind it are one place nearer.       *)
LEMMA RemovedPlaced ==
    ASSUME NEW nd, NEW nd2, NEW c, NEW L, NEW q, Removed(nd, nd2, c, L, q),
           NEW it, NEW pos, Placed(nd, it, c, L, pos)
    PROVE  Placed(nd2, [i \in Iterator |-> IF it[i] = c[q] THEN Null ELSE it[i]],
                  Without(c, L, q), L - 1, ClosedFrom(pos, q))
<1> DEFINE e    == Without(c, L, q)
           pos2 == ClosedFrom(pos, q)
           it2  == [i \in Iterator |-> IF it[i] = c[q] THEN Null ELSE it[i]]
<1>1. L \in Nat /\ q \in 1 .. L /\ Chain(nd2, e, L - 1)
  <2>1. Chain(nd, c, L) /\ q \in 1 .. L
    BY DEF Removed
  <2>2. L \in Nat
    BY <2>1 DEF Chain
  <2>3. Chain(nd2, e, L - 1)
    BY RemovedItems
  <2> QED
    BY <2>1, <2>2, <2>3
<1>2. /\ pos \in [Iterator -> 0 .. L + 1]
      /\ it = [i \in Iterator |-> IF pos[i] = 0 THEN Null ELSE c[pos[i]]]
      /\ \A k, m \in 0 .. L + 1 : c[k] = c[m] => k = m
      /\ \A k \in 0 .. L + 1 : c[k] \in Address
  BY DEF Placed, Chain
<1>3. \A i \in Iterator : pos2[i] = IF pos[i] > q THEN pos[i] - 1
                                    ELSE IF pos[i] = q THEN 0 ELSE pos[i]
  BY DEF ClosedFrom
<1>4. pos2 \in [Iterator -> 0 .. (L - 1) + 1]
  <2>1. \A i \in Iterator : pos[i] \in 0 .. L + 1 /\ pos2[i] \in 0 .. (L - 1) + 1
    BY <1>1, <1>2, <1>3
  <2> QED
    BY <2>1 DEF ClosedFrom
<1>5. \A k \in 0 .. L : e[k] = IF k < q THEN c[k] ELSE c[k + 1]
  BY <1>1 DEF Without
<1> HIDE DEF e, pos2
<1>6. ASSUME NEW i \in Iterator
      PROVE  (IF it[i] = c[q] THEN Null ELSE it[i]) = IF pos2[i] = 0 THEN Null ELSE e[pos2[i]]
  <2>1. pos[i] \in 0 .. L + 1 /\ it[i] = IF pos[i] = 0 THEN Null ELSE c[pos[i]]
    BY <1>2
  <2>2. CASE pos[i] = 0
    <3>1. pos2[i] = 0
      BY <1>1, <1>3, <2>2
    <3> QED
      BY <2>1, <2>2, <3>1
  <2>3. CASE pos[i] # 0 /\ pos[i] < q
    <3>1. pos2[i] = pos[i]
      BY <1>1, <1>3, <2>1, <2>3
    <3>2. e[pos[i]] = c[pos[i]]
      BY <1>1, <1>5, <2>1, <2>3
    <3>3. c[pos[i]] # c[q]
      BY <1>1, <1>2, <2>1, <2>3
    <3> QED
      BY <2>1, <2>3, <3>1, <3>2, <3>3
  <2>4. CASE pos[i] = q
    <3>1. pos2[i] = 0 /\ q # 0
      BY <1>1, <1>3, <2>4
    <3> QED
      BY <2>1, <2>4, <3>1
  <2>5. CASE pos[i] > q
    <3>1. pos2[i] = pos[i] - 1 /\ pos[i] - 1 # 0 /\ pos[i] # 0
      BY <1>1, <1>3, <2>1, <2>5
    <3>2. e[pos[i] - 1] = c[(pos[i] - 1) + 1] /\ (pos[i] - 1) + 1 = pos[i]
      BY <1>1, <1>5, <2>1, <2>5
    <3>3. c[pos[i]] # c[q]
      BY <1>1, <1>2, <2>1, <2>5
    <3> QED
      BY <2>1, <3>1, <3>2, <3>3
  <2> QED
    BY <1>1, <2>1, <2>2, <2>3, <2>4, <2>5
<1>7. it2 = [i \in Iterator |-> IF pos2[i] = 0 THEN Null ELSE e[pos2[i]]]
  BY <1>6
<1> QED
  BY <1>1, <1>4, <1>7 DEF Placed, e, pos2

-----------------------------------------------------------------------------
(* What the memory represents *)

(* The positions of iterators, of any memory.                              *)
PositionsOf(ex, nd, it) ==
    [i \in Iterator |->
        IF it[i] = Null THEN 0
        ELSE CHOOSE p \in DOMAIN PlacesOf(ex, nd) : PlacesOf(ex, nd)[p] = it[i]]

Positions == [i \in Iterator |-> PositionOf(i)]

(* They are the model's, before and after a call.                          *)
LEMMA PositionsOfState ==
    Positions = PositionsOf(exists, node, itr) /\ Positions' = PositionsOf(exists', node', itr')
<1>1. Positions = PositionsOf(exists, node, itr)
  BY WalksOfState DEF Positions, PositionOf, PositionsOf
<1>2. Positions' = PositionsOf(exists', node', itr')
  BY WalksOfState DEF Positions, PositionOf, PositionsOf
<1> QED
  BY <1>1, <1>2

NoMemory == [n \in Address |-> Freed]
NoPositions == [i \in Iterator |-> 0]

(* A list of these elements with iterators at these positions.             *)
Represents(ex, nd, it, list, position) ==
    \/ /\ ex = TRUE
       /\ \E c, L : Placed(nd, it, c, L, position) /\ list = Items(nd, c, L)
    \/ /\ ex = FALSE
       /\ nd = NoMemory /\ it = NoIterators
       /\ list = << >> /\ position = NoPositions

(* There is one sequence and one position of each iterator it can be.      *)
LEMMA RepresentsIs ==
    ASSUME NEW ex, NEW nd, NEW it, NEW list, NEW position, Represents(ex, nd, it, list, position)
    PROVE  ContentsOf(ex, nd) = list /\ PositionsOf(ex, nd, it) = position
<1>1. CASE ex = TRUE
  <2>1. PICK c, L : Placed(nd, it, c, L, position) /\ list = Items(nd, c, L)
    BY <1>1 DEF Represents
  <2>2. ContentsOf(ex, nd) = list
    BY <1>1, <2>1, ContentsIs DEF Placed
  <2> DEFINE places == [k \in 1 .. L + 1 |-> c[k]]
  <2>3. PlacesOf(ex, nd) = places
    <3>1. Chain(nd, c, L)
      BY <2>1 DEF Placed
    <3>2. PlacesOf(TRUE, nd) = places
      BY <3>1, PlacesIs, Zenon
    <3> QED
      BY <1>1, <3>2
  <2>4. /\ L \in Nat /\ position \in [Iterator -> 0 .. L + 1]
        /\ it = [i \in Iterator |-> IF position[i] = 0 THEN Null ELSE c[position[i]]]
        /\ \A k, m \in 1 .. L + 1 : c[k] = c[m] => k = m
        /\ \A k \in 1 .. L + 1 : c[k] \in Address
    <3>1. /\ L \in Nat /\ \A k \in 0 .. L + 1 : c[k] \in Address
          /\ \A k, m \in 0 .. L + 1 : c[k] = c[m] => k = m
      BY <2>1 DEF Placed, Chain
    <3>2. \A k \in 1 .. L + 1 : k \in 0 .. L + 1
      BY <3>1
    <3> QED
      BY <2>1, <3>1, <3>2 DEF Placed
  <2>5. DOMAIN places = 1 .. L + 1 /\ \A k \in 1 .. L + 1 : places[k] = c[k]
    OBVIOUS
  <2> HIDE DEF places
  <2>6. ASSUME NEW i \in Iterator
        PROVE  (IF it[i] = Null THEN 0 ELSE CHOOSE p \in DOMAIN places : places[p] = it[i])
                 = position[i]
    <3>1. CASE position[i] = 0
      BY <2>4, <3>1
    <3>2. CASE position[i] # 0
      <4>1. position[i] \in 1 .. L + 1 /\ it[i] = c[position[i]]
        BY <2>4, <3>2
      <4>2. it[i] # Null
        BY <2>4, <4>1, DoubleLLAssumption
      <4>3. \A p \in DOMAIN places : places[p] = it[i] <=> p = position[i]
        BY <2>4, <2>5, <4>1
      <4> QED
        BY <2>5, <4>1, <4>2, <4>3
    <3> QED
      BY <3>1, <3>2
  <2>7. PositionsOf(ex, nd, it) = position
    BY <2>3, <2>4, <2>6 DEF PositionsOf
  <2> QED
    BY <2>2, <2>7
<1>2. CASE ex = FALSE
  <2>1. it = NoIterators /\ list = << >> /\ position = NoPositions
    BY <1>2 DEF Represents
  <2>2. ContentsOf(ex, nd) = << >>
    BY <1>2 DEF ContentsOf
  <2>3. PositionsOf(ex, nd, it) = NoPositions
    BY <2>1 DEF PositionsOf, NoIterators, NoPositions
  <2> QED
    BY <2>1, <2>2, <2>3
<1> QED
  BY <1>1, <1>2 DEF Represents

-----------------------------------------------------------------------------
(* The invariant *)

(* The nodes of a list are a chain, and its iterators are on it.           *)
ListInv == Represents(exists, node, itr, Contents, Positions)

(* The next state, by what it represents.                                  *)
LEMMA ListInvNext ==
    ASSUME NEW list, NEW position, Represents(exists', node', itr', list, position)
    PROVE  ListInv' /\ Contents' = list /\ Positions' = position
<1>1. Contents' = list /\ Positions' = position
  BY RepresentsIs, WalksOfState, PositionsOfState
<1> QED
  BY <1>1 DEF ListInv

(* At first there is no list.                                              *)
LEMMA ListInvInit ==
    ASSUME DoubleLLInit
    PROVE  ListInv /\ Contents = << >> /\ Positions = NoPositions /\ Abstract!ListInit
<1>1. Represents(exists, node, itr, << >>, NoPositions)
  BY DEF DoubleLLInit, Represents, NoMemory
<1>2. Contents = << >> /\ Positions = NoPositions
  BY <1>1, RepresentsIs, WalksOfState, PositionsOfState
<1>3. ListInv
  BY <1>1, <1>2 DEF ListInv
<1>4. Abstract!ListInit
  BY <1>2 DEF DoubleLLInit, Abstract!ListInit, Positions, NoPositions
<1> QED
  BY <1>2, <1>3, <1>4

(* A list that is there.                                                   *)
LEMMA ListIs ==
    ASSUME ListInv, exists
    PROVE  \E c, L : Placed(node, itr, c, L, Positions) /\ Contents = Items(node, c, L)
BY DEF ListInv, Represents

-----------------------------------------------------------------------------
(* Calls, one by one: each keeps the invariant and does what the sequence  *)
(* does *)

(* A call that changes neither nodes nor iterators.                        *)
LEMMA SameMemory ==
    ASSUME ListInv, UNCHANGED <<exists, node, itr>>
    PROVE  ListInv' /\ Contents' = Contents /\ Positions' = Positions
<1>1. Represents(exists', node', itr', Contents, Positions)
  BY DEF ListInv
<1> QED
  BY <1>1, ListInvNext

(* A call that fails changes nothing.                                      *)
LEMMA FailsStep ==
    ASSUME ListInv, NEW error \in {<<"NULL_POINTER">>, <<"MALLOC_FAIL">>, <<"item", Null>>},
           Fails(error)
    PROVE  ListInv' /\ Abstract!Fails
<1>1. UNCHANGED <<exists, node, itr>> /\ returned' = error
  BY DEF Fails
<1>2. ListInv' /\ Contents' = Contents /\ Positions' = Positions
  BY <1>1, SameMemory
<1> QED
  BY <1>1, <1>2 DEF Abstract!Fails, Positions

(* The head leads to the tail when there is nothing between them.          *)
LEMMA EmptyIs ==
    ASSUME NEW c, NEW L, Chain(node, c, L)
    PROVE  ListIsEmpty <=> L = 0
<1>1. /\ L \in Nat /\ node[HeadNode].next = c[1] /\ c[L + 1] = TailNode
      /\ \A k, m \in 0 .. L + 1 : c[k] = c[m] => k = m
  BY Neighbours DEF Chain
<1>2. 1 \in 0 .. L + 1 /\ L + 1 \in 0 .. L + 1 /\ (L + 1 = 1 <=> L = 0)
  BY <1>1
<1> QED
  BY <1>1, <1>2 DEF ListIsEmpty

(* A pop from an empty list fails.                                         *)
LEMMA EmptyStep ==
    ASSUME ListInv, exists, ListIsEmpty, Fails(<<"EMPTY_LIST">>)
    PROVE  ListInv' /\ Abstract!Fails
<1>1. UNCHANGED <<exists, node, itr>> /\ returned' = <<"EMPTY_LIST">>
  BY DEF Fails
<1>2. ListInv' /\ Contents' = Contents /\ Positions' = Positions
  BY <1>1, SameMemory
<1>3. Contents = << >>
  <2>1. PICK c, L : Placed(node, itr, c, L, Positions) /\ Contents = Items(node, c, L)
    BY ListIs
  <2>2. L = 0
    BY <2>1, EmptyIs DEF Placed
  <2> QED
    BY <2>1, <2>2 DEF Items
<1> QED
  BY <1>1, <1>2, <1>3 DEF Abstract!Fails, Positions

(* A new list has its sentinels.                                           *)
LEMMA CreateStep ==
    ASSUME ListInv, ListCreate
    PROVE  ListInv' /\ Abstract!Create
<1> DEFINE c == [k \in 0 .. 1 |-> IF k = 0 THEN HeadNode ELSE TailNode]
           r == NodeOf(HeadNode, Null, TailNode)
<1>1. /\ node = NoMemory /\ itr = NoIterators
      /\ Contents = << >> /\ Positions = NoPositions
  BY DEF ListInv, Represents, ListCreate
<1>2. /\ r \in NodeRecord /\ r.prev = HeadNode /\ r.next = TailNode /\ r.data = Null
  BY DEF NodeOf, NodeRecord, Address, Element
<1>3. node' = [NoMemory EXCEPT ![HeadNode] = r, ![TailNode] = r]
  BY <1>1 DEF ListCreate
<1> HIDE DEF r
<1>4. /\ node' \in [Address -> NodeRecord \union {Freed}]
      /\ node'[HeadNode] = r /\ node'[TailNode] = r
      /\ \A n \in Node : node'[n] = Freed
  BY <1>2, <1>3, DoubleLLAssumption DEF NoMemory, Address
<1>5. /\ c \in [0 .. 1 -> Address] /\ c[0] = HeadNode /\ c[1] = TailNode
  BY DEF Address
<1> HIDE DEF c
<1>6. Chain(node', c, 0)
  <2>1. 0 + 1 = 1 /\ 0 \in Nat /\ 1 .. 0 = {} /\ 0 .. 1 = {0, 1} /\ 0 .. 0 = {0} /\ 1 .. 1 = {1}
        /\ 1 - 1 = 0
    OBVIOUS
  <2>2. \A k, m \in 0 .. 1 : c[k] = c[m] => k = m
    BY <1>5, <2>1, DoubleLLAssumption
  <2>3. \A k \in 0 .. 1 : node'[c[k]] \in NodeRecord
    BY <1>2, <1>4, <1>5, <2>1
  <2>4. /\ \A k \in 0 .. 0 : node'[c[k]].next = c[k + 1]
        /\ \A k \in 1 .. 1 : node'[c[k]].prev = c[k - 1]
    BY <1>2, <1>4, <1>5, <2>1
  <2>5. /\ node'[HeadNode].prev = HeadNode /\ node'[TailNode].next = TailNode
        /\ node'[HeadNode].data = Null /\ node'[TailNode].data = Null
    BY <1>2, <1>4
  <2> QED
    BY <1>4, <1>5, <2>1, <2>2, <2>3, <2>4, <2>5 DEF Chain
<1>7. Placed(node', itr', c, 0, NoPositions)
  <2>1. itr' = [i \in Iterator |-> IF NoPositions[i] = 0 THEN Null ELSE c[NoPositions[i]]]
    BY <1>1 DEF ListCreate, NoIterators, NoPositions
  <2>2. NoPositions \in [Iterator -> 0 .. 0 + 1]
    BY DEF NoPositions
  <2> QED
    BY <1>6, <2>1, <2>2 DEF Placed
<1>8. Items(node', c, 0) = << >>
  BY DEF Items
<1>9. Represents(exists', node', itr', << >>, NoPositions)
  BY <1>7, <1>8 DEF Represents, ListCreate
<1>10. ListInv' /\ Contents' = << >> /\ Positions' = NoPositions
  BY <1>9, ListInvNext
<1> QED
  BY <1>1, <1>10 DEF ListCreate, Abstract!Create, Positions

(* A list is destroyed with its nodes and iterators.                       *)
LEMMA DestroyStep ==
    ASSUME ListInv, ListDestroy
    PROVE  ListInv' /\ Abstract!Destroy
<1>1. PICK c, L : Placed(node, itr, c, L, Positions)
  BY ListIs DEF ListDestroy
<1>2. DOMAIN node = Address
  BY <1>1 DEF Placed, Chain
<1>3. Represents(exists', node', itr', << >>, NoPositions)
  BY <1>2 DEF ListDestroy, Represents, NoMemory
<1>4. ListInv' /\ Contents' = << >> /\ Positions' = NoPositions
  BY <1>3, ListInvNext
<1> QED
  BY <1>4 DEF ListDestroy, Abstract!Destroy, Positions, NoPositions

(* The size is that of the sequence.                                       *)
LEMMA SizeStep ==
    ASSUME ListInv, ListSize
    PROVE  ListInv' /\ Abstract!Size
<1>1. ListInv' /\ Contents' = Contents /\ Positions' = Positions
  BY SameMemory DEF ListSize
<1> QED
  BY <1>1 DEF ListSize, Abstract!Size, Positions

(* What linking in before the q-th place is.                               *)
LEMMA LinkCall ==
    ASSUME NEW c, NEW L, Chain(node, c, L), NEW q \in 1 .. L + 1,
           NEW p \in Node \ Used, NEW d \in Element, node' = LinkedBefore(p, c[q], d)
    PROVE  Inserted(node, node', c, L, q, p, d)
<1>1. node[p] = Freed /\ p \in Node /\ p \in Address
  BY DEF Used, Address
<1>2. /\ node \in [Address -> NodeRecord \union {Freed}]
      /\ c[q - 1] # c[q] /\ node[c[q]].prev = c[q - 1]
      /\ c[q - 1] \in Address /\ c[q] \in Address
      /\ node[c[q - 1]] \in NodeRecord /\ node[c[q]] \in NodeRecord
  BY Neighbours
<1>3. c[q - 1] # p /\ c[q] # p
  BY <1>1, <1>2, NotFreed
<1> DEFINE a == c[q - 1]
           t == c[q]
<1>4. node' = [node EXCEPT ![a].next = p, ![t].prev = p, ![p] = NodeOf(a, d, t)]
  BY <1>2 DEF LinkedBefore
<1>5. Linked(node, node', a, p, t, d)
  <2> HIDE DEF a, t
  <2>1. Linked(node, [node EXCEPT ![a].next = p, ![t].prev = p, ![p] = NodeOf(a, d, t)],
               a, p, t, d)
    BY <1>1, <1>2, <1>3, LinkedForm DEF a, t
  <2> QED
    BY <1>4, <2>1
<1> QED
  BY <1>1, <1>5 DEF Inserted

(* An element that comes in, before and after the call.                    *)
LEMMA InsertStep ==
    ASSUME exists, exists' = exists, NEW c, NEW L, Placed(node, itr, c, L, Positions),
           Contents = Items(node, c, L),
           NEW q, NEW p, NEW d, Inserted(node, node', c, L, q, p, d)
    PROVE  /\ itr' = itr
                => /\ ListInv' /\ Contents' = InsertAt(Contents, q, d)
                   /\ Positions' = ShiftedFrom(Positions, q)
           /\ \A i \in Iterator :
                itr' = [itr EXCEPT ![i] = p]
                => /\ ListInv' /\ Contents' = InsertAt(Contents, q, d)
                   /\ Positions' = [ShiftedFrom(Positions, q) EXCEPT ![i] = q]
<1> DEFINE e   == With(c, L, q, p)
           pos == ShiftedFrom(Positions, q)
<1>1. /\ Chain(node', e, L + 1) /\ e[q] = p
      /\ Items(node', e, L + 1) = InsertAt(Contents, q, d)
  BY InsertedItems
<1>2. Placed(node', itr, e, L + 1, pos)
  BY InsertedPlaced
<1>3. L \in Nat /\ q \in 1 .. L + 1
  BY DEF Inserted, Chain
<1> HIDE DEF e, pos
<1>4. ASSUME itr' = itr
      PROVE  /\ ListInv' /\ Contents' = InsertAt(Contents, q, d)
             /\ Positions' = pos
  <2>1. Represents(exists', node', itr', InsertAt(Contents, q, d), pos)
    BY <1>1, <1>2, <1>4 DEF Represents
  <2> QED
    BY <2>1, ListInvNext
<1>5. ASSUME NEW i \in Iterator, itr' = [itr EXCEPT ![i] = p]
      PROVE  /\ ListInv' /\ Contents' = InsertAt(Contents, q, d)
             /\ Positions' = [pos EXCEPT ![i] = q]
  <2> DEFINE pos2 == [pos EXCEPT ![i] = q]
  <2>1. /\ pos \in [Iterator -> 0 .. (L + 1) + 1]
        /\ itr = [j \in Iterator |-> IF pos[j] = 0 THEN Null ELSE e[pos[j]]]
    BY <1>2 DEF Placed
  <2>2. q \in 0 .. (L + 1) + 1 /\ q # 0
    BY <1>3
  <2>3. pos2 \in [Iterator -> 0 .. (L + 1) + 1]
    BY <2>1, <2>2
  <2>4. itr' = [j \in Iterator |-> IF pos2[j] = 0 THEN Null ELSE e[pos2[j]]]
    BY <1>1, <1>5, <2>1, <2>2
  <2> HIDE DEF pos2
  <2>5. Placed(node', itr', e, L + 1, pos2)
    BY <1>1, <2>3, <2>4 DEF Placed
  <2>6. Represents(exists', node', itr', InsertAt(Contents, q, d), pos2)
    BY <1>1, <2>5 DEF Represents
  <2> QED
    BY <2>6, ListInvNext DEF pos2
<1> QED
  BY <1>4, <1>5 DEF pos

(* An element that is taken out, before and after the call.                *)
LEMMA RemoveStep ==
    ASSUME exists, exists' = exists, NEW c, NEW L, Placed(node, itr, c, L, Positions),
           Contents = Items(node, c, L),
           NEW q, Removed(node, node', c, L, q), Free(c[q])
    PROVE  /\ ListInv' /\ Contents' = RemoveAt(Contents, q)
           /\ Positions' = ClosedFrom(Positions, q)
           /\ q \in DOMAIN Contents /\ Contents[q] = node[c[q]].data
<1> DEFINE e == Without(c, L, q)
<1>1. Chain(node', e, L - 1) /\ Items(node', e, L - 1) = RemoveAt(Contents, q)
  BY RemovedItems
<1>2. Placed(node', itr', e, L - 1, ClosedFrom(Positions, q))
  BY RemovedPlaced DEF Free
<1> HIDE DEF e
<1>3. Represents(exists', node', itr', RemoveAt(Contents, q), ClosedFrom(Positions, q))
  BY <1>1, <1>2 DEF Represents
<1>4. q \in 1 .. L /\ Chain(node, c, L)
  BY DEF Removed
<1>5. q \in DOMAIN Contents /\ Contents[q] = node[c[q]].data
  BY <1>4, ItemsType
<1> QED
  BY <1>3, <1>5, ListInvNext

(* The sequences of both modules are changed by the same operators.        *)
LEMMA SequenceOperators ==
    \A s, q, d : /\ Abstract!InsertAt(s, q, d) = InsertAt(s, q, d)
                 /\ Abstract!RemoveAt(s, q) = RemoveAt(s, q)
BY DEF Abstract!InsertAt, Abstract!RemoveAt, InsertAt, RemoveAt

(* Positions move as those of the sequence.                                *)
LEMMA PositionsMove ==
    ASSUME NEW q \in Nat, \A i \in Iterator : Positions[i] \in Nat
    PROVE  /\ Abstract!Shifted(q) = ShiftedFrom(Positions, q)
           /\ Abstract!Closed(q) = ClosedFrom(Positions, q)
<1>1. Abstract!Shifted(q) = ShiftedFrom(Positions, q)
  BY DEF Abstract!Shifted, ShiftedFrom, Positions
<1>2. Abstract!Closed(q) = [i \in Iterator |-> CASE Positions[i] > q -> Positions[i] - 1
                                                 [] Positions[i] = q -> 0
                                                 [] OTHER            -> Positions[i]]
  BY DEF Abstract!Closed, Positions
<1>3. \A i \in Iterator :
        (CASE Positions[i] > q -> Positions[i] - 1
           [] Positions[i] = q -> 0
           [] OTHER            -> Positions[i])
          = IF Positions[i] > q THEN Positions[i] - 1
            ELSE IF Positions[i] = q THEN 0 ELSE Positions[i]
  OBVIOUS
<1> QED
  BY <1>1, <1>2, <1>3 DEF ClosedFrom

(* A push is one to the sequence.                                          *)
LEMMA PushHeadStep ==
    ASSUME ListInv, NEW d \in Element, ListPushHead(d)
    PROVE  ListInv' /\ (Abstract!Fails \/ Abstract!Push(1, d))
<1>1. CASE (~exists \/ d = Null) /\ Fails(<<"NULL_POINTER">>)
  BY <1>1, FailsStep
<1>2. CASE exists /\ d # Null /\ Fails(<<"MALLOC_FAIL">>)
  BY <1>2, FailsStep
<1>3. ASSUME exists, UNCHANGED <<exists, itr>>, returned' = <<"SUCCESS">>, NEW p \in Node \ Used,
             node' = [node EXCEPT ![HeadNode].next = p, ![node[HeadNode].next].prev = p,
                                  ![p] = NodeOf(HeadNode, d, node[HeadNode].next)]
      PROVE  ListInv' /\ Abstract!Push(1, d)
  <2>1. PICK c, L : Placed(node, itr, c, L, Positions) /\ Contents = Items(node, c, L)
    BY <1>3, ListIs
  <2>2. Chain(node, c, L) /\ L \in Nat /\ 1 \in 1 .. L + 1
    BY <2>1 DEF Placed, Chain
  <2>3. c[1] = node[HeadNode].next /\ node[c[1]].prev = HeadNode
    <3>1. 1 - 1 = 0
      OBVIOUS
    <3> QED
      BY <2>2, <3>1, Neighbours
  <2>4. node' = LinkedBefore(p, c[1], d)
    BY <1>3, <2>3 DEF LinkedBefore
  <2>5. Inserted(node, node', c, L, 1, p, d)
    BY <1>3, <2>2, <2>4, LinkCall
  <2>6. /\ ListInv' /\ Contents' = InsertAt(Contents, 1, d)
        /\ Positions' = ShiftedFrom(Positions, 1)
    BY <1>3, <2>1, <2>5, InsertStep
  <2>7. \A i \in Iterator : Positions[i] \in Nat
    BY <2>1, <2>2 DEF Placed
  <2> QED
    BY <1>3, <2>6, <2>7, PositionsMove, SequenceOperators
       DEF Abstract!Push, Abstract!Insert, Positions
<1> QED
  BY <1>1, <1>2, <1>3 DEF ListPushHead

(* ListPushTail is a push at the other end.                                *)
LEMMA PushTailStep ==
    ASSUME ListInv, NEW d \in Element, ListPushTail(d)
    PROVE  ListInv' /\ (Abstract!Fails \/ Abstract!Push(Len(Contents) + 1, d))
<1>1. CASE ~exists /\ Fails(<<"NULL_POINTER">>)
  BY <1>1, FailsStep
<1>2. CASE exists /\ Fails(<<"MALLOC_FAIL">>)
  BY <1>2, FailsStep
<1>3. ASSUME exists, UNCHANGED <<exists, itr>>, returned' = <<"SUCCESS">>, NEW p \in Node \ Used,
             node' = LinkedBefore(p, TailNode, d)
      PROVE  ListInv' /\ Abstract!Push(Len(Contents) + 1, d)
  <2>1. PICK c, L : Placed(node, itr, c, L, Positions) /\ Contents = Items(node, c, L)
    BY <1>3, ListIs
  <2>2. Chain(node, c, L) /\ L \in Nat /\ L + 1 \in 1 .. L + 1 /\ c[L + 1] = TailNode
    <3>1. Chain(node, c, L)
      BY <2>1 DEF Placed
    <3>2. L \in Nat /\ c[L + 1] = TailNode
      BY <3>1, Neighbours
    <3>3. L + 1 \in 1 .. L + 1
      BY <3>2
    <3> QED
      BY <3>1, <3>2, <3>3
  <2>3. Inserted(node, node', c, L, L + 1, p, d)
    BY <1>3, <2>2, LinkCall
  <2>4. /\ ListInv' /\ Contents' = InsertAt(Contents, L + 1, d)
        /\ Positions' = ShiftedFrom(Positions, L + 1)
    BY <1>3, <2>1, <2>3, InsertStep
  <2>5. \A i \in Iterator : Positions[i] \in Nat
    BY <2>1, <2>2 DEF Placed
  <2>6. Len(Contents) = L
    BY <2>1, <2>2, ItemsType
  <2>7. Abstract!Shifted(L + 1) = Positions'
    BY <2>2, <2>4, <2>5, PositionsMove
  <2> QED
    BY <1>3, <2>4, <2>6, <2>7, SequenceOperators
       DEF Abstract!Push, Abstract!Insert, Positions
<1> QED
  BY <1>1, <1>2, <1>3 DEF ListPushTail

(* What taking out the q-th node is.                                       *)
LEMMA UnlinkCall ==
    ASSUME NEW c, NEW L, Chain(node, c, L), NEW q \in 1 .. L,
           \/ node' = [node EXCEPT ![c[q - 1]].next = c[q + 1],
                                   ![c[q + 1]].prev = c[q - 1], ![c[q]] = Freed]
           \/ node' = [node EXCEPT ![c[q + 1]].prev = c[q - 1],
                                   ![c[q - 1]].next = c[q + 1], ![c[q]] = Freed]
    PROVE  Removed(node, node', c, L, q)
<1> DEFINE a == c[q - 1]
           n == c[q]
           t == c[q + 1]
<1>1. /\ node \in [Address -> NodeRecord \union {Freed}]
      /\ a # n /\ a # t /\ n # t
      /\ a \in Address /\ n \in Address /\ t \in Address
      /\ node[a] \in NodeRecord /\ node[t] \in NodeRecord
  <2>1. L \in Nat /\ q \in 1 .. L + 1 /\ q + 1 \in 0 .. L + 1
    BY DEF Chain
  <2> QED
    BY <2>1, Neighbours
<1>2. \/ node' = [node EXCEPT ![a].next = t, ![t].prev = a, ![n] = Freed]
      \/ node' = [node EXCEPT ![t].prev = a, ![a].next = t, ![n] = Freed]
  OBVIOUS
<1> HIDE DEF a, n, t
<1>3. /\ Unlinked(node, [node EXCEPT ![a].next = t, ![t].prev = a, ![n] = Freed], a, n, t)
      /\ Unlinked(node, [node EXCEPT ![t].prev = a, ![a].next = t, ![n] = Freed], a, n, t)
  BY <1>1, UnlinkedForm
<1>4. Unlinked(node, node', a, n, t)
  BY <1>2, <1>3
<1> QED
  BY <1>4 DEF Removed, a, n, t

(* A pop is one from the sequence.                                         *)
LEMMA PopHeadStep ==
    ASSUME ListInv, ListPopHead
    PROVE  ListInv' /\ (Abstract!Fails \/ Abstract!Pop(1))
<1>1. CASE ~exists /\ Fails(<<"NULL_POINTER">>)
  BY <1>1, FailsStep
<1>2. CASE exists /\ ListIsEmpty /\ Fails(<<"EMPTY_LIST">>)
  BY <1>2, EmptyStep
<1> DEFINE n == node[HeadNode].next
<1>3. ASSUME exists, ~ListIsEmpty, exists' = exists, Free(n),
             returned' = <<"SUCCESS", node[n].data>>,
             node' = [node EXCEPT ![HeadNode].next = node[n].next,
                                  ![node[n].next].prev = HeadNode, ![n] = Freed]
      PROVE  ListInv' /\ Abstract!Pop(1)
  <2>1. PICK c, L : Placed(node, itr, c, L, Positions) /\ Contents = Items(node, c, L)
    BY <1>3, ListIs
  <2>2. Chain(node, c, L) /\ L \in Nat
    BY <2>1 DEF Placed, Chain
  <2>3. 1 \in 1 .. L /\ 1 - 1 = 0
    BY <1>3, <2>2, EmptyIs
  <2>4. c[1 - 1] = HeadNode /\ c[1] = n /\ c[1 + 1] = node[n].next
    BY <2>2, <2>3, Neighbours
  <2> HIDE DEF n
  <2>5. node' = [node EXCEPT ![c[1 - 1]].next = c[1 + 1],
                             ![c[1 + 1]].prev = c[1 - 1], ![c[1]] = Freed]
    BY <1>3, <2>4
  <2>6. Removed(node, node', c, L, 1)
    BY <2>2, <2>3, <2>5, UnlinkCall
  <2>7. /\ ListInv' /\ Contents' = RemoveAt(Contents, 1)
        /\ Positions' = ClosedFrom(Positions, 1)
        /\ 1 \in DOMAIN Contents /\ Contents[1] = node[c[1]].data
    BY <1>3, <2>1, <2>4, <2>6, RemoveStep
  <2>8. \A i \in Iterator : Positions[i] \in Nat
    BY <2>1, <2>2 DEF Placed
  <2>9. Abstract!Closed(1) = Positions'
    BY <2>7, <2>8, PositionsMove
  <2> QED
    BY <1>3, <2>4, <2>7, <2>9, SequenceOperators
       DEF Abstract!Pop, Abstract!Take, Positions
<1> QED
  BY <1>1, <1>2, <1>3 DEF ListPopHead

(* ListPopTail takes from the other end.                                   *)
LEMMA PopTailStep ==
    ASSUME ListInv, ListPopTail
    PROVE  ListInv' /\ (Abstract!Fails \/ Abstract!Pop(Len(Contents)))
<1>1. CASE ~exists /\ Fails(<<"NULL_POINTER">>)
  BY <1>1, FailsStep
<1>2. CASE exists /\ ListIsEmpty /\ Fails(<<"EMPTY_LIST">>)
  BY <1>2, EmptyStep
<1> DEFINE n == node[TailNode].prev
<1>3. ASSUME exists, ~ListIsEmpty, exists' = exists, Free(n),
             returned' = <<"SUCCESS", node[n].data>>,
             node' = [node EXCEPT ![TailNode].prev = node[n].prev,
                                  ![node[n].prev].next = TailNode, ![n] = Freed]
      PROVE  ListInv' /\ Abstract!Pop(Len(Contents))
  <2>1. PICK c, L : Placed(node, itr, c, L, Positions) /\ Contents = Items(node, c, L)
    BY <1>3, ListIs
  <2>2. Chain(node, c, L) /\ L \in Nat
    BY <2>1 DEF Placed, Chain
  <2>3. L \in 1 .. L /\ L \in 1 .. L + 1
    BY <1>3, <2>2, EmptyIs
  <2>4. c[L - 1] = node[n].prev /\ c[L] = n /\ c[L + 1] = TailNode
    BY <2>2, <2>3, Neighbours
  <2> HIDE DEF n
  <2>5. node' = [node EXCEPT ![c[L + 1]].prev = c[L - 1],
                             ![c[L - 1]].next = c[L + 1], ![c[L]] = Freed]
    BY <1>3, <2>4
  <2>6. Removed(node, node', c, L, L)
    BY <2>2, <2>3, <2>5, UnlinkCall
  <2>7. /\ ListInv' /\ Contents' = RemoveAt(Contents, L)
        /\ Positions' = ClosedFrom(Positions, L)
        /\ L \in DOMAIN Contents /\ Contents[L] = node[c[L]].data
    BY <1>3, <2>1, <2>4, <2>6, RemoveStep
  <2>8. \A i \in Iterator : Positions[i] \in Nat
    BY <2>1, <2>2 DEF Placed
  <2>9. Abstract!Closed(L) = Positions'
    BY <2>2, <2>7, <2>8, PositionsMove
  <2>10. Len(Contents) = L
    BY <2>1, <2>2, ItemsType
  <2> QED
    BY <1>3, <2>4, <2>7, <2>9, <2>10, SequenceOperators
       DEF Abstract!Pop, Abstract!Take, Positions
<1> QED
  BY <1>1, <1>2, <1>3 DEF ListPopTail

(* An iterator that a program has is at a place of a list.                 *)
LEMMA IteratorIs ==
    ASSUME ListInv, NEW i \in Iterator, itr[i] # Null
    PROVE  /\ exists
           /\ \E c, L : /\ Placed(node, itr, c, L, Positions) /\ Contents = Items(node, c, L)
                        /\ Chain(node, c, L) /\ L \in Nat
                        /\ Positions[i] \in 1 .. L + 1 /\ itr[i] = c[Positions[i]]
<1>1. exists
  BY DEF ListInv, Represents, NoIterators
<1>2. PICK c, L : Placed(node, itr, c, L, Positions) /\ Contents = Items(node, c, L)
  BY <1>1, ListIs
<1>3. Chain(node, c, L) /\ Positions \in [Iterator -> 0 .. L + 1]
  BY <1>2 DEF Placed
<1>4. L \in Nat
  BY <1>3 DEF Chain
<1>5. itr[i] = IF Positions[i] = 0 THEN Null ELSE c[Positions[i]]
  BY <1>2 DEF Placed
<1>6. Positions[i] # 0
  BY <1>5
<1>7. Positions[i] \in 1 .. L + 1
  BY <1>3, <1>4, <1>6
<1> QED
  BY <1>1, <1>2, <1>3, <1>4, <1>5, <1>6, <1>7

(* An iterator that goes to a place has its position.                      *)
LEMMA MoveStep ==
    ASSUME exists, NEW c, NEW L, Placed(node, itr, c, L, Positions), Contents = Items(node, c, L),
           NEW i \in Iterator, NEW k \in 1 .. L + 1, Points(i, c[k])
    PROVE  ListInv' /\ Abstract!Moved(i, k)
<1> DEFINE pos == [Positions EXCEPT ![i] = k]
<1>1. /\ Chain(node, c, L) /\ Positions \in [Iterator -> 0 .. L + 1]
      /\ itr = [j \in Iterator |-> IF Positions[j] = 0 THEN Null ELSE c[Positions[j]]]
  BY DEF Placed
<1>2. L \in Nat
  BY <1>1 DEF Chain
<1>3. k \in 0 .. L + 1 /\ k # 0
  BY <1>2
<1>4. pos \in [Iterator -> 0 .. L + 1]
  BY <1>1, <1>3
<1>5. itr' = [j \in Iterator |-> IF pos[j] = 0 THEN Null ELSE c[pos[j]]]
  BY <1>1, <1>3 DEF Points
<1> HIDE DEF pos
<1>6. exists' = exists /\ node' = node /\ returned' = returned
  BY DEF Points
<1>7. Placed(node', itr', c, L, pos) /\ Contents = Items(node', c, L)
  BY <1>1, <1>4, <1>5, <1>6 DEF Placed
<1>8. Represents(exists', node', itr', Contents, pos)
  BY <1>6, <1>7 DEF Represents
<1>9. ListInv' /\ Contents' = Contents /\ Positions' = pos
  BY <1>8, ListInvNext
<1> QED
  BY <1>6, <1>9 DEF pos, Abstract!Moved, Positions

(* The ends of a list are its first and its last place.                    *)
LEMMA BeginStep ==
    ASSUME ListInv, NEW i \in Iterator, ListItrBegin(i)
    PROVE  ListInv' /\ Abstract!Step(i)
<1>1. PICK c, L : Placed(node, itr, c, L, Positions) /\ Contents = Items(node, c, L)
  BY ListIs DEF ListItrBegin
<1>2. L \in Nat /\ node[HeadNode].next = c[1]
  BY <1>1, Neighbours DEF Placed
<1>3. 1 \in 1 .. L + 1 /\ Points(i, c[1]) /\ exists
  BY <1>2 DEF ListItrBegin
<1>4. ListInv' /\ Abstract!Moved(i, 1)
  BY <1>1, <1>3, MoveStep
<1> QED
  BY <1>3, <1>4 DEF Abstract!Step

(* ListItrEnd goes to the tail: the position behind the last.              *)
LEMMA EndStep ==
    ASSUME ListInv, NEW i \in Iterator, ListItrEnd(i)
    PROVE  ListInv' /\ Abstract!Step(i)
<1>1. PICK c, L : Placed(node, itr, c, L, Positions) /\ Contents = Items(node, c, L)
  BY ListIs DEF ListItrEnd
<1>2. /\ L \in Nat /\ c[L + 1] = TailNode /\ node[TailNode].next = TailNode
      /\ Len(Contents) = L
  <2>1. Chain(node, c, L)
    BY <1>1 DEF Placed
  <2>2. node[TailNode].next = TailNode
    BY <2>1 DEF Chain
  <2> QED
    BY <1>1, <2>1, <2>2, Neighbours, ItemsType
<1>3. L + 1 \in 1 .. L + 1 /\ Points(i, c[L + 1]) /\ exists
  BY <1>2 DEF ListItrEnd
<1>4. ListInv' /\ Abstract!Moved(i, L + 1)
  BY <1>1, <1>3, MoveStep
<1> QED
  BY <1>2, <1>3, <1>4 DEF Abstract!Step

(* One place on, and not beyond the tail.                                  *)
LEMMA NextStep ==
    ASSUME ListInv, NEW i \in Iterator, ListItrNext(i)
    PROVE  ListInv' /\ Abstract!Step(i)
<1> DEFINE k == Positions[i]
<1>1. exists /\ itr[i] # Null /\ Points(i, node[itr[i]].next)
  BY IteratorIs DEF ListItrNext
<1>2. PICK c, L : /\ Placed(node, itr, c, L, Positions) /\ Contents = Items(node, c, L)
                  /\ Chain(node, c, L) /\ L \in Nat
                  /\ k \in 1 .. L + 1 /\ itr[i] = c[k]
  BY <1>1, IteratorIs
<1>3. Len(Contents) = L /\ DOMAIN Contents = 1 .. L
  BY <1>2, ItemsType
<1> HIDE DEF k
<1>4. CASE k = L + 1
  <2>1. node[itr[i]].next = c[L + 1] /\ L + 1 \in 1 .. L + 1
    BY <1>2, <1>4 DEF Chain
  <2>2. ListInv' /\ Abstract!Moved(i, L + 1)
    BY <1>1, <1>2, <2>1, MoveStep
  <2> QED
    BY <1>1, <1>3, <2>2 DEF Abstract!Step
<1>5. CASE k # L + 1
  <2>1. k \in 1 .. L /\ k + 1 \in 1 .. L + 1
    BY <1>2, <1>5
  <2>2. node[itr[i]].next = c[k + 1]
    BY <1>2, <2>1, Neighbours
  <2>3. ListInv' /\ Abstract!Moved(i, k + 1)
    BY <1>1, <1>2, <2>1, <2>2, MoveStep
  <2>4. [j \in Iterator |-> PositionOf(j)][i] = k
    BY DEF k, Positions
  <2> QED
    BY <1>3, <2>1, <2>3, <2>4 DEF Abstract!Step
<1> QED
  BY <1>4, <1>5

(* One place back, and not to the head.                                    *)
LEMMA PrevStep ==
    ASSUME ListInv, NEW i \in Iterator, ListItrPrev(i)
    PROVE  ListInv' /\ Abstract!Step(i)
<1> DEFINE k      == Positions[i]
           before == node[itr[i]].prev
<1>1. exists /\ itr[i] # Null /\ Points(i, IF node[before].prev = before THEN itr[i] ELSE before)
  BY IteratorIs DEF ListItrPrev
<1>2. PICK c, L : /\ Placed(node, itr, c, L, Positions) /\ Contents = Items(node, c, L)
                  /\ Chain(node, c, L) /\ L \in Nat
                  /\ k \in 1 .. L + 1 /\ itr[i] = c[k]
  BY <1>1, IteratorIs
<1> HIDE DEF k
<1>3. before = c[k - 1]
  BY <1>2, Neighbours
<1> HIDE DEF before
<1>4. CASE k = 1
  <2>1. before = HeadNode
    BY <1>2, <1>3, <1>4 DEF Chain
  <2>2. node[before].prev = before
    BY <1>2, <2>1 DEF Chain
  <2>3. Points(i, c[1]) /\ 1 \in 1 .. L + 1
    BY <1>1, <1>2, <1>4, <2>2
  <2>4. ListInv' /\ Abstract!Moved(i, 1)
    BY <1>1, <1>2, <2>3, MoveStep
  <2> QED
    BY <1>1, <2>4 DEF Abstract!Step
<1>5. CASE k # 1
  <2>1. k - 1 \in 1 .. L + 1 /\ k > 1
    BY <1>2, <1>5
  <2>2. node[before].prev # before
    BY <1>2, <1>3, <2>1, Neighbours
  <2>3. Points(i, c[k - 1])
    BY <1>1, <1>3, <2>2
  <2>4. ListInv' /\ Abstract!Moved(i, k - 1)
    BY <1>1, <1>2, <2>1, <2>3, MoveStep
  <2>5. [j \in Iterator |-> PositionOf(j)][i] = k
    BY DEF k, Positions
  <2> QED
    BY <2>1, <2>4, <2>5 DEF Abstract!Step
<1> QED
  BY <1>4, <1>5

(* The tail is the one node that is its own next.                          *)
LEMMA AtEndIs ==
    ASSUME NEW c, NEW L, Chain(node, c, L), NEW k \in 1 .. L + 1
    PROVE  AtEnd(c[k]) <=> k = L + 1
<1>1. L \in Nat /\ c[L + 1] = TailNode /\ node[TailNode].next = TailNode
  <2>1. node[TailNode].next = TailNode
    BY DEF Chain
  <2> QED
    BY <2>1, Neighbours
<1>2. CASE k = L + 1
  BY <1>1, <1>2 DEF AtEnd
<1>3. CASE k # L + 1
  <2>1. k \in 1 .. L
    BY <1>1, <1>3
  <2> QED
    BY <1>3, <2>1, Neighbours DEF AtEnd
<1> QED
  BY <1>2, <1>3

(* What an iterator gives is the element at its place.                     *)
LEMMA GetStep ==
    ASSUME ListInv, NEW i \in Iterator, ListItrGet(i)
    PROVE  ListInv' /\ Abstract!GetHere(i)
<1> DEFINE k == Positions[i]
<1>1. /\ itr[i] # Null /\ UNCHANGED <<exists, node, itr>>
      /\ returned' = <<"item", IF AtEnd(itr[i]) THEN Null ELSE node[itr[i]].data>>
  BY DEF ListItrGet
<1>2. PICK c, L : /\ Placed(node, itr, c, L, Positions) /\ Contents = Items(node, c, L)
                  /\ Chain(node, c, L) /\ L \in Nat
                  /\ k \in 1 .. L + 1 /\ itr[i] = c[k]
  BY <1>1, IteratorIs
<1>3. DOMAIN Contents = 1 .. L /\ \A m \in 1 .. L : Contents[m] = node[c[m]].data
  BY <1>2, ItemsType
<1>4. [j \in Iterator |-> PositionOf(j)][i] = k
  BY DEF Positions
<1> HIDE DEF k
<1>5. AtEnd(itr[i]) <=> k = L + 1
  BY <1>2, AtEndIs
<1>6. returned' = <<"item", IF k \in DOMAIN Contents THEN Contents[k] ELSE Null>>
  <2>1. CASE k = L + 1
    <3>1. k \notin DOMAIN Contents
      BY <1>2, <1>3, <2>1
    <3> QED
      BY <1>1, <1>5, <2>1, <3>1
  <2>2. CASE k # L + 1
    <3>1. k \in 1 .. L
      BY <1>2, <2>2
    <3> QED
      BY <1>1, <1>2, <1>3, <1>5, <2>2, <3>1
  <2> QED
    BY <2>1, <2>2
<1>7. ListInv' /\ Contents' = Contents /\ Positions' = Positions
  BY <1>1, SameMemory
<1>8. k # 0
  BY <1>2
<1> QED
  BY <1>1, <1>4, <1>6, <1>7, <1>8 DEF Abstract!GetHere, Positions

(* What is set is the element at its place.                                *)
LEMMA SetStep ==
    ASSUME ListInv, NEW i \in Iterator, NEW d \in Element, ListItrSet(i, d)
    PROVE  ListInv' /\ (Abstract!Fails \/ (d \in Data /\ Abstract!SetHere(i, d)))
<1>1. CASE itr[i] # Null /\ (d = Null \/ AtEnd(itr[i])) /\ Fails(<<"item", Null>>)
  BY <1>1, FailsStep
<1>2. ASSUME itr[i] # Null, d # Null, ~AtEnd(itr[i]), UNCHANGED <<exists, itr>>,
             node' = [node EXCEPT ![itr[i]].data = d],
             returned' = <<"item", node[itr[i]].data>>
      PROVE  ListInv' /\ d \in Data /\ Abstract!SetHere(i, d)
  <2> DEFINE k == Positions[i]
  <2>1. PICK c, L : /\ Placed(node, itr, c, L, Positions) /\ Contents = Items(node, c, L)
                    /\ Chain(node, c, L) /\ L \in Nat
                    /\ k \in 1 .. L + 1 /\ itr[i] = c[k]
    BY <1>2, IteratorIs
  <2>2. /\ Contents \in [1 .. L -> Element]
        /\ DOMAIN Contents = 1 .. L /\ \A m \in 1 .. L : Contents[m] = node[c[m]].data
    BY <2>1, ItemsType
  <2>3. [j \in Iterator |-> PositionOf(j)][i] = k
    BY DEF Positions
  <2> HIDE DEF k
  <2>4. k \in 1 .. L
    BY <1>2, <2>1, AtEndIs
  <2>5. node' = [node EXCEPT ![c[k]].data = d]
    BY <1>2, <2>1
  <2>6. /\ Chain(node', c, L) /\ node'[c[k]].data = d
        /\ \A m \in 1 .. L : m # k => node'[c[m]].data = node[c[m]].data
    <3>1. Replaced(node, node', c, L, k, d)
      BY <2>1, <2>4, <2>5 DEF Replaced
    <3> QED
      BY <3>1, ChainData
  <2>7. Items(node', c, L) = [Contents EXCEPT ![k] = d]
    <3>1. \A m \in 1 .. L : node'[c[m]].data = IF m = k THEN d ELSE Contents[m]
      BY <2>2, <2>6
    <3>2. [Contents EXCEPT ![k] = d] = [m \in 1 .. L |-> IF m = k THEN d ELSE Contents[m]]
      BY <2>2
    <3> QED
      BY <3>1, <3>2 DEF Items
  <2>8. Placed(node', itr', c, L, Positions)
    BY <1>2, <2>1, <2>6 DEF Placed
  <2>9. exists /\ exists'
    BY <1>2, IteratorIs
  <2>10. Represents(exists', node', itr', [Contents EXCEPT ![k] = d], Positions)
    BY <2>7, <2>8, <2>9 DEF Represents
  <2>11. ListInv' /\ Contents' = [Contents EXCEPT ![k] = d] /\ Positions' = Positions
    BY <2>10, ListInvNext
  <2>12. returned' = <<"item", Contents[k]>>
    BY <1>2, <2>1, <2>2, <2>4
  <2>13. d \in Data
    BY <1>2 DEF Element
  <2> QED
    BY <1>2, <2>2, <2>3, <2>4, <2>11, <2>12, <2>13 DEF Abstract!SetHere, Positions
<1> QED
  BY <1>1, <1>2 DEF ListItrSet

(* An element that comes in at an iterator is the sequence's.              *)
LEMMA InsertBeforeStep ==
    ASSUME ListInv, NEW i \in Iterator, NEW d \in Element, ListItrInsertBefore(i, d)
    PROVE  ListInv' /\ (Abstract!Fails \/ (d \in Data /\ Abstract!InsertHere(i, d)))
<1>1. CASE itr[i] # Null /\ Fails(<<"item", Null>>)
  BY <1>1, FailsStep
<1>2. ASSUME itr[i] # Null, d # Null, NEW p \in Node \ Used, node' = LinkedBefore(p, itr[i], d),
             itr' \in {itr, [itr EXCEPT ![i] = p]}, returned' = <<"SUCCESS">>, exists' = exists
      PROVE  ListInv' /\ d \in Data /\ Abstract!InsertHere(i, d)
  <2> DEFINE k == Positions[i]
  <2>1. exists
    BY <1>2, IteratorIs
  <2>2. PICK c, L : /\ Placed(node, itr, c, L, Positions) /\ Contents = Items(node, c, L)
                    /\ Chain(node, c, L) /\ L \in Nat
                    /\ k \in 1 .. L + 1 /\ itr[i] = c[k]
    BY <1>2, IteratorIs
  <2>3. [j \in Iterator |-> PositionOf(j)][i] = k
    BY DEF Positions
  <2> HIDE DEF k
  <2>4. Inserted(node, node', c, L, k, p, d)
    BY <1>2, <2>2, LinkCall
  <2>5. /\ itr' = itr
            => /\ ListInv' /\ Contents' = InsertAt(Contents, k, d)
               /\ Positions' = ShiftedFrom(Positions, k)
        /\ itr' = [itr EXCEPT ![i] = p]
            => /\ ListInv' /\ Contents' = InsertAt(Contents, k, d)
               /\ Positions' = [ShiftedFrom(Positions, k) EXCEPT ![i] = k]
    BY <1>2, <2>1, <2>2, <2>4, InsertStep
  <2>6. /\ ListInv' /\ Contents' = InsertAt(Contents, k, d)
        /\ Positions' \in {ShiftedFrom(Positions, k), [ShiftedFrom(Positions, k) EXCEPT ![i] = k]}
    BY <1>2, <2>5
  <2>7. \A j \in Iterator : Positions[j] \in Nat
    BY <2>2 DEF Placed
  <2>8. Abstract!Shifted(k) = ShiftedFrom(Positions, k)
    BY <2>2, <2>7, PositionsMove
  <2>9. d \in Data /\ k # 0
    BY <1>2, <2>2 DEF Element
  <2> QED
    BY <1>2, <2>3, <2>6, <2>8, <2>9, SequenceOperators
       DEF Abstract!InsertHere, Abstract!Insert, Positions
<1> QED
  BY <1>1, <1>2 DEF ListItrInsertBefore

(* An element that is taken out at an iterator is the sequence's.          *)
LEMMA ItrRemoveStep ==
    ASSUME ListInv, NEW i \in Iterator, ListItrRemove(i)
    PROVE  ListInv' /\ Abstract!RemoveHere(i)
<1> DEFINE k == Positions[i]
           n == itr[i]
<1>1. /\ n \in Node /\ Free(n) /\ exists' = exists /\ returned' = <<"item", node[n].data>>
      /\ node' = [node EXCEPT ![node[n].prev].next = node[n].next,
                              ![node[n].next].prev = node[n].prev, ![n] = Freed]
  BY DEF ListItrRemove
<1>2. itr[i] # Null
  BY <1>1, DoubleLLAssumption DEF Address
<1>3. exists
  BY <1>2, IteratorIs
<1>4. PICK c, L : /\ Placed(node, itr, c, L, Positions) /\ Contents = Items(node, c, L)
                  /\ Chain(node, c, L) /\ L \in Nat
                  /\ k \in 1 .. L + 1 /\ n = c[k]
  BY <1>2, IteratorIs
<1>5. [j \in Iterator |-> PositionOf(j)][i] = k
  BY DEF Positions
<1> HIDE DEF k, n
<1>6. k \in 1 .. L
  <2>1. c[L + 1] = TailNode
    BY <1>4, Neighbours
  <2>2. k # L + 1
    BY <1>1, <1>4, <2>1, DoubleLLAssumption
  <2> QED
    BY <1>4, <2>2
<1>7. node[n].prev = c[k - 1] /\ node[n].next = c[k + 1]
  BY <1>4, <1>6, Neighbours
<1>8. node' = [node EXCEPT ![c[k - 1]].next = c[k + 1],
                           ![c[k + 1]].prev = c[k - 1], ![c[k]] = Freed]
  BY <1>1, <1>4, <1>7
<1>9. Removed(node, node', c, L, k)
  BY <1>4, <1>6, <1>8, UnlinkCall
<1>10. /\ ListInv' /\ Contents' = RemoveAt(Contents, k)
       /\ Positions' = ClosedFrom(Positions, k)
       /\ k \in DOMAIN Contents /\ Contents[k] = node[c[k]].data
  BY <1>1, <1>3, <1>4, <1>9, RemoveStep
<1>11. \A j \in Iterator : Positions[j] \in Nat
  BY <1>4 DEF Placed
<1>12. Abstract!Closed(k) = Positions'
  BY <1>6, <1>10, <1>11, PositionsMove
<1> QED
  BY <1>1, <1>4, <1>5, <1>10, <1>12, SequenceOperators
     DEF Abstract!RemoveHere, Abstract!Take, Positions

-----------------------------------------------------------------------------
(* Theorems *)

(* A step of the list keeps the invariant and is one of the sequence.      *)
LEMMA ListStep ==
    ASSUME ListInv, [DoubleLLNext]_doubleVars
    PROVE  ListInv' /\ [Abstract!ListNext]_(Abstract!listVars)
<1>1. CASE UNCHANGED doubleVars
  <2>1. UNCHANGED <<exists, node, itr>> /\ returned' = returned
    BY <1>1 DEF doubleVars
  <2>2. ListInv' /\ Contents' = Contents /\ Positions' = Positions
    BY <2>1, SameMemory
  <2> QED
    BY <2>1, <2>2 DEF Abstract!listVars, Positions
<1>2. CASE ListCreate
  BY <1>2, CreateStep DEF Abstract!ListNext
<1>3. CASE ListDestroy
  BY <1>3, DestroyStep DEF Abstract!ListNext
<1>4. CASE ListSize
  BY <1>4, SizeStep DEF Abstract!ListNext
<1>5. CASE ListPopHead
  BY <1>5, PopHeadStep DEF Abstract!ListNext
<1>6. CASE ListPopTail
  BY <1>6, PopTailStep DEF Abstract!ListNext
<1>7. ASSUME NEW d \in Element, ListPushHead(d)
      PROVE  ListInv' /\ [Abstract!ListNext]_(Abstract!listVars)
  BY <1>7, PushHeadStep DEF Abstract!ListNext, Element
<1>8. ASSUME NEW d \in Element, ListPushTail(d)
      PROVE  ListInv' /\ [Abstract!ListNext]_(Abstract!listVars)
  BY <1>8, PushTailStep DEF Abstract!ListNext, Element
<1>9. ASSUME NEW i \in Iterator, ListItrBegin(i)
      PROVE  ListInv' /\ [Abstract!ListNext]_(Abstract!listVars)
  BY <1>9, BeginStep DEF Abstract!ListNext
<1>10. ASSUME NEW i \in Iterator, ListItrEnd(i)
       PROVE  ListInv' /\ [Abstract!ListNext]_(Abstract!listVars)
  BY <1>10, EndStep DEF Abstract!ListNext
<1>11. ASSUME NEW i \in Iterator, ListItrNext(i)
       PROVE  ListInv' /\ [Abstract!ListNext]_(Abstract!listVars)
  BY <1>11, NextStep DEF Abstract!ListNext
<1>12. ASSUME NEW i \in Iterator, ListItrPrev(i)
       PROVE  ListInv' /\ [Abstract!ListNext]_(Abstract!listVars)
  BY <1>12, PrevStep DEF Abstract!ListNext
<1>13. ASSUME NEW i \in Iterator, ListItrGet(i)
       PROVE  ListInv' /\ [Abstract!ListNext]_(Abstract!listVars)
  BY <1>13, GetStep DEF Abstract!ListNext
<1>14. ASSUME NEW i \in Iterator, ListItrRemove(i)
       PROVE  ListInv' /\ [Abstract!ListNext]_(Abstract!listVars)
  BY <1>14, ItrRemoveStep DEF Abstract!ListNext
<1>15. ASSUME NEW i \in Iterator, NEW d \in Element, ListItrSet(i, d)
       PROVE  ListInv' /\ [Abstract!ListNext]_(Abstract!listVars)
  BY <1>15, SetStep DEF Abstract!ListNext
<1>16. ASSUME NEW i \in Iterator, NEW d \in Element, ListItrInsertBefore(i, d)
       PROVE  ListInv' /\ [Abstract!ListNext]_(Abstract!listVars)
  BY <1>16, InsertBeforeStep DEF Abstract!ListNext
<1> QED
  BY <1>1, <1>2, <1>3, <1>4, <1>5, <1>6, <1>7, <1>8, <1>9, <1>10, <1>11, <1>12,
     <1>13, <1>14, <1>15, <1>16 DEF DoubleLLNext

(* Whatever is pushed, popped, linked in and taken out, the nodes are one  *)
(* chain from the head to the tail, there and back, and each iterator is   *)
(* on it.                                                                  *)
THEOREM ListAlwaysInv == DoubleLLSpec => []ListInv
<1>1. DoubleLLInit => ListInv
  BY ListInvInit
<1>2. ListInv /\ [DoubleLLNext]_doubleVars => ListInv'
  BY ListStep
<1> QED
  BY <1>1, <1>2, PTL DEF DoubleLLSpec

(* The nodes implement the sequence of ListADT: every call changes it, and *)
(* returns, what it would, and every iterator stays with its element until *)
(* that is taken out.                                                      *)
THEOREM ListImplementsSequence == DoubleLLSpec => ImplementsList
<1>1. DoubleLLInit => ListInv /\ Abstract!ListInit
  BY ListInvInit
<1>2. ListInv /\ [DoubleLLNext]_doubleVars => ListInv' /\ [Abstract!ListNext]_(Abstract!listVars)
  BY ListStep
<1> QED
  BY <1>1, <1>2, PTL DEF DoubleLLSpec, ImplementsList, Abstract!ListSpec

(* What the invariant says of a list that is there.                        *)
LEMMA ListIsChain ==
    ASSUME ListInv, exists
    PROVE  \E c, L : /\ Placed(node, itr, c, L, Positions) /\ Contents = Items(node, c, L)
                     /\ Chain(node, c, L) /\ L \in Nat /\ Used = UsedIn(node)
                     /\ \A k \in 1 .. L : k \in 0 .. L /\ k \in 1 .. L + 1 /\ k \in 0 .. L + 1
                     /\ \A k \in 0 .. L : k + 1 \in 1 .. L + 1 /\ (k + 1) - 1 = k
                     /\ \A k \in 1 .. L + 1 : k - 1 \in 0 .. L /\ (k - 1) + 1 = k
                     /\ \A k \in 0 .. L : node[c[k]].next = c[k + 1]
                     /\ \A k \in 1 .. L + 1 : node[c[k]].prev = c[k - 1]
<1>1. PICK c, L : Placed(node, itr, c, L, Positions) /\ Contents = Items(node, c, L)
  BY ListIs
<1>2. Chain(node, c, L)
  BY <1>1 DEF Placed
<1>3. L \in Nat
  BY <1>2 DEF Chain
<1>4. /\ \A k \in 1 .. L : k \in 0 .. L /\ k \in 1 .. L + 1 /\ k \in 0 .. L + 1
      /\ \A k \in 0 .. L : k + 1 \in 1 .. L + 1 /\ (k + 1) - 1 = k
      /\ \A k \in 1 .. L + 1 : k - 1 \in 0 .. L /\ (k - 1) + 1 = k
  BY <1>3
<1>5. /\ \A k \in 0 .. L : node[c[k]].next = c[k + 1]
      /\ \A k \in 1 .. L + 1 : node[c[k]].prev = c[k - 1]
  BY <1>2 DEF Chain
<1> QED
  BY <1>1, <1>2, <1>3, <1>4, <1>5, WalksOfState

(* A chain links records, there and back; no list is no records.           *)
LEMMA ListInvTypeOK == ListInv => DoubleLLTypeOK
<1> SUFFICES ASSUME ListInv
             PROVE  DoubleLLTypeOK
  OBVIOUS
<1>1. CASE exists
  <2>1. PICK c, L : /\ Placed(node, itr, c, L, Positions) /\ Contents = Items(node, c, L)
                    /\ Chain(node, c, L) /\ L \in Nat /\ Used = UsedIn(node)
                    /\ \A k \in 1 .. L : k \in 0 .. L /\ k \in 1 .. L + 1 /\ k \in 0 .. L + 1
                    /\ \A k \in 0 .. L : k + 1 \in 1 .. L + 1 /\ (k + 1) - 1 = k
                    /\ \A k \in 1 .. L + 1 : k - 1 \in 0 .. L /\ (k - 1) + 1 = k
                    /\ \A k \in 0 .. L : node[c[k]].next = c[k + 1]
                    /\ \A k \in 1 .. L + 1 : node[c[k]].prev = c[k - 1]
    BY <1>1, ListIsChain
  <2>2. /\ \A n \in Used : \E k \in 1 .. L : c[k] = n
        /\ \A k \in 1 .. L + 1 : c[k] \in Used \union {TailNode}
        /\ \A k \in 0 .. L : c[k] \in Used \union {HeadNode}
    BY <2>1, ChainNodes
  <2>3. /\ \A k \in 0 .. L + 1 : node[c[k]] \in NodeRecord
        /\ c[0] = HeadNode /\ c[L + 1] = TailNode
        /\ node[HeadNode].prev = HeadNode /\ node[TailNode].next = TailNode
        /\ node[HeadNode].data = Null /\ node[TailNode].data = Null
    BY <2>1 DEF Chain
  <2>4. ASSUME NEW n \in Used
        PROVE  node[n] \in [prev : Used \union {HeadNode}, data : Element,
                            next : Used \union {TailNode}]
    <3>1. PICK k \in 1 .. L : c[k] = n
      BY <2>2
    <3>2. node[n].prev \in Used \union {HeadNode} /\ node[n].next \in Used \union {TailNode}
      BY <2>1, <2>2, <3>1
    <3>3. node[n] \in NodeRecord
      BY <2>1, <2>3, <3>1
    <3> QED
      BY <3>2, <3>3 DEF NodeRecord
  <2>5. node[HeadNode] \in [prev : {HeadNode}, data : {Null}, next : Used \union {TailNode}]
    <3>1. node[HeadNode] \in NodeRecord
      BY <2>1, <2>3
    <3>2. node[HeadNode].next \in Used \union {TailNode}
      <4>1. 0 \in 0 .. L /\ 0 + 1 \in 1 .. L + 1
        BY <2>1
      <4> QED
        BY <2>1, <2>2, <2>3, <4>1
    <3> QED
      BY <2>3, <3>1, <3>2 DEF NodeRecord
  <2>6. node[TailNode] \in [prev : Used \union {HeadNode}, data : {Null}, next : {TailNode}]
    <3>1. L + 1 \in 0 .. L + 1 /\ L + 1 \in 1 .. L + 1
      BY <2>1
    <3>2. node[TailNode] \in NodeRecord
      BY <2>3, <3>1
    <3>3. node[TailNode].prev \in Used \union {HeadNode}
      BY <2>1, <2>2, <2>3, <3>1
    <3> QED
      BY <2>3, <3>2, <3>3 DEF NodeRecord
  <2>7. itr \in [Iterator -> Used \union {TailNode, Null}]
    <3>1. /\ Positions \in [Iterator -> 0 .. L + 1]
          /\ itr = [i \in Iterator |-> IF Positions[i] = 0 THEN Null ELSE c[Positions[i]]]
      BY <2>1 DEF Placed
    <3>2. \A i \in Iterator : Positions[i] = 0 \/ Positions[i] \in 1 .. L + 1
      BY <2>1, <3>1
    <3>3. \A i \in Iterator : (IF Positions[i] = 0 THEN Null ELSE c[Positions[i]])
                                \in Used \union {TailNode, Null}
      BY <2>2, <3>2
    <3> QED
      BY <3>1, <3>3
  <2> QED
    BY <1>1, <2>4, <2>5, <2>6, <2>7 DEF DoubleLLTypeOK
<1>2. CASE ~exists
  <2>1. exists = FALSE /\ node = NoMemory /\ itr = NoIterators
    BY <1>2 DEF ListInv, Represents
  <2>2. Used = {}
    BY <2>1 DEF Used, NoMemory, Address
  <2>3. node[HeadNode] = Freed /\ node[TailNode] = Freed
    BY <2>1 DEF NoMemory, Address
  <2>4. itr \in [Iterator -> Used \union {TailNode, Null}]
    BY <2>1 DEF NoIterators
  <2> QED
    BY <2>1, <2>2, <2>3, <2>4 DEF DoubleLLTypeOK
<1> QED
  BY <1>1, <1>2

(* A chain is linked both ways, and its places count the nodes there are.  *)
LEMMA ListInvLinksAgree == ListInv => LinksAgree
<1> SUFFICES ASSUME ListInv
             PROVE  LinksAgree
  OBVIOUS
<1>1. CASE exists
  <2>1. PICK c, L : /\ Placed(node, itr, c, L, Positions) /\ Contents = Items(node, c, L)
                    /\ Chain(node, c, L) /\ L \in Nat /\ Used = UsedIn(node)
                    /\ \A k \in 1 .. L : k \in 0 .. L /\ k \in 1 .. L + 1 /\ k \in 0 .. L + 1
                    /\ \A k \in 0 .. L : k + 1 \in 1 .. L + 1 /\ (k + 1) - 1 = k
                    /\ \A k \in 1 .. L + 1 : k - 1 \in 0 .. L /\ (k - 1) + 1 = k
                    /\ \A k \in 0 .. L : node[c[k]].next = c[k + 1]
                    /\ \A k \in 1 .. L + 1 : node[c[k]].prev = c[k - 1]
    BY <1>1, ListIsChain
  <2>2. /\ \A k \in 1 .. L : c[k] \in Used
        /\ \A n \in Used : \E k \in 1 .. L : c[k] = n
        /\ \A n \in Used \union {TailNode} : \E k \in 1 .. L + 1 : c[k] = n
    BY <2>1, ChainNodes
  <2>3. \A n \in Used \union {HeadNode} : \E k \in 0 .. L : c[k] = n
    <3>1. c[0] = HeadNode /\ 0 \in 0 .. L
      BY <2>1 DEF Chain
    <3> QED
      BY <2>1, <2>2, <3>1
  <2>4. \A n \in Used \union {HeadNode} : node[node[n].next].prev = n
    BY <2>1, <2>3
  <2>5. \A n \in Used \union {TailNode} : node[node[n].prev].next = n
    BY <2>1, <2>2
  <2>6. Cardinality(Used) = Len(Contents)
    <3> DEFINE f == [k \in 1 .. L |-> c[k]]
    <3>1. \A k, m \in 1 .. L : c[k] = c[m] => k = m
      BY <2>1 DEF Chain
    <3>2. f \in Bijection(1 .. L, Used)
      BY <2>2, <3>1 DEF Bijection, Injection, Surjection, IsInjective
    <3>3. ExistsBijection(1 .. L, Used)
      BY <3>2 DEF ExistsBijection
    <3>4. Cardinality(Used) = L
      BY <2>1, <3>3, FS_CountingElements
    <3> QED
      BY <2>1, <3>4, ItemsType
  <2> QED
    BY <2>4, <2>5, <2>6 DEF LinksAgree
<1>2. CASE ~exists
  <2>1. node = NoMemory /\ Contents = << >>
    BY <1>2 DEF ListInv, Represents
  <2>2. Used = {}
    BY <2>1 DEF Used, NoMemory, Address
  <2>3. Cardinality(Used) = Len(Contents)
    BY <2>1, <2>2, FS_EmptySet
  <2> QED
    BY <1>2, <2>3 DEF LinksAgree
<1> QED
  BY <1>1, <1>2

(* Records are where the links of a list that is there lead, and freed     *)
(* memory is nowhere on it.                                                *)
THEOREM DoubleLLTypeCorrect == DoubleLLSpec => []DoubleLLTypeOK
BY ListAlwaysInv, ListInvTypeOK, PTL

(* The way back is the way forth reversed, and every node that was not     *)
(* freed is on it.                                                         *)
THEOREM LinksAlwaysAgree == DoubleLLSpec => []LinksAgree
BY ListAlwaysInv, ListInvLinksAgree, PTL

-----------------------------------------------------------------------------
(* Ranges *)

(* One step of the loop over a range, f the loop from the next node on.    *)
RangeStep(end, stop, f) ==
    [n \in Used \union {TailNode} |->
        IF n = Beyond(end) \/ node[n].data \in stop
        THEN [visited |-> << >>, at |-> n]
        ELSE [f[node[n].next] EXCEPT !.visited = <<n>> \o @]]

(* What the loop has done when it stops at place m.                        *)
Loop(c, k, m) == [visited |-> [t \in 1 .. m - k |-> c[k + t - 1]], at |-> c[m]]

(* A loop from a node it does not stop at is that node, then the loop from *)
(* the next.                                                               *)
LEMMA LoopBack ==
    ASSUME NEW c, NEW L, Chain(node, c, L), NEW k \in 1 .. L, NEW m \in k + 1 .. L + 1
    PROVE  [Loop(c, k + 1, m) EXCEPT !.visited = <<c[k]>> \o @] = Loop(c, k, m)
<1> DEFINE v == [t \in 1 .. m - (k + 1) |-> c[(k + 1) + t - 1]]
           w == [t \in 1 .. m - k |-> c[k + t - 1]]
<1>1. L \in Nat /\ \A x \in 0 .. L + 1 : c[x] \in Address
  BY Neighbours
<1>2. w = <<c[k]>> \o v
  <2> DEFINE n == m - (k + 1)
  <2>1. n \in Nat /\ m - k = n + 1
    BY <1>1
  <2>2. \A t \in 1 .. n + 1 : k + t - 1 \in 0 .. L + 1
    BY <1>1
  <2>3. w \in [1 .. n + 1 -> Address]
    BY <1>1, <2>1, <2>2
  <2>4. w[1] = c[k]
    <3>1. 1 \in 1 .. m - k /\ k + 1 - 1 = k
      BY <1>1
    <3> QED
      BY <3>1
  <2>5. \A t \in 1 .. n : w[t + 1] = c[(k + 1) + t - 1]
    <3> SUFFICES ASSUME NEW t \in 1 .. n PROVE w[t + 1] = c[(k + 1) + t - 1]
      OBVIOUS
    <3>1. t + 1 \in 1 .. m - k /\ k + (t + 1) - 1 = (k + 1) + t - 1
      BY <1>1, <2>1
    <3> QED
      BY <3>1
  <2> HIDE DEF w
  <2>6. w = <<w[1]>> \o [t \in 1 .. n |-> w[t + 1]]
    BY <2>1, <2>3, Prepended
  <2>7. [t \in 1 .. n |-> w[t + 1]] = v
    BY <2>5
  <2> QED
    BY <2>4, <2>6, <2>7
<1> HIDE DEF v, w
<1>3. /\ Loop(c, k + 1, m) = [visited |-> v, at |-> c[m]]
      /\ Loop(c, k, m) = [visited |-> w, at |-> c[m]]
  BY DEF Loop, v, w
<1>4. [[visited |-> v, at |-> c[m]] EXCEPT !.visited = <<c[k]>> \o @]
        = [visited |-> <<c[k]>> \o v, at |-> c[m]]
  <2> DEFINE a  == c[m]
             vv == <<c[k]>> \o v
             r  == [visited |-> v, at |-> a]
  <2>1. r \in [visited : {v, vv}, at : {a}] /\ r.visited = v /\ r.at = a
    OBVIOUS
  <2> HIDE DEF a, vv, r
  <2>2. [r EXCEPT !.visited = vv] = [visited |-> vv, at |-> a]
    BY <2>1
  <2> QED
    BY <2>1, <2>2 DEF a, vv, r
<1> QED
  BY <1>2, <1>3, <1>4

(* The function the loop is written as exists; where the loop never stops, *)
(* behind the end of a range, its value means nothing.                     *)
LEMMA RangeFunction ==
    ASSUME NEW c, NEW L, Chain(node, c, L), NEW end, NEW stop
    PROVE  \E f : f = RangeStep(end, stop, f)
<1> DEFINE S        == Used \union {TailNode}
           Stop(k)  == c[k] = Beyond(end) \/ node[c[k]].data \in stop
           Stops(k) == {m \in k .. L + 1 : Stop(m)}
           First(k) == CHOOSE m \in Stops(k) : \A x \in Stops(k) : m <= x
           Val(k)   == IF Stops(k) = {} THEN << >> ELSE Loop(c, k, First(k))
           P(n)     == CHOOSE k \in 1 .. L + 1 : c[k] = n
           g        == [n \in S |-> Val(P(n))]
<1>1. /\ L \in Nat /\ c[L + 1] = TailNode /\ node[TailNode].next = TailNode
      /\ \A k, m \in 1 .. L + 1 : c[k] = c[m] => k = m
      /\ \A k \in 1 .. L : node[c[k]].next = c[k + 1]
  <2>1. L \in Nat
    BY DEF Chain
  <2>2. \A k \in 1 .. L + 1 : k \in 0 .. L + 1
    BY <2>1
  <2> QED
    BY <2>1, <2>2 DEF Chain
<1>2. /\ \A k \in 1 .. L + 1 : c[k] \in S
      /\ \A n \in S : \E k \in 1 .. L + 1 : c[k] = n
  BY ChainNodes, WalksOfState
<1>3. \A k \in 1 .. L + 1 : P(c[k]) = k
  BY <1>1
<1>4. ASSUME NEW k \in 1 .. L + 1, Stops(k) # {}
      PROVE  First(k) \in Stops(k) /\ \A x \in Stops(k) : First(k) <= x
  <2>1. Stops(k) \in SUBSET Nat
    BY <1>1
  <2>2. \E m \in Stops(k) : \A x \in Stops(k) : m <= x
    BY <1>4, <2>1, SmallestNumber
  <2> QED
    BY <2>2
<1>5. ASSUME NEW k \in 1 .. L + 1, Stop(k)
      PROVE  Val(k) = [visited |-> << >>, at |-> c[k]]
  <2>1. k \in Stops(k) /\ k \in Nat
    BY <1>1, <1>5
  <2>2. First(k) \in Stops(k) /\ First(k) <= k
    BY <1>4, <2>1
  <2>3. First(k) = k
    BY <1>1, <2>2
  <2>4. Loop(c, k, k) = [visited |-> << >>, at |-> c[k]]
    <3>1. 1 .. k - k = {}
      BY <1>1
    <3>2. [t \in 1 .. k - k |-> c[k + t - 1]] = << >>
      BY <3>1
    <3> QED
      BY <3>2 DEF Loop
  <2> QED
    BY <2>1, <2>3, <2>4
<1>6. ASSUME NEW k \in 1 .. L, ~Stop(k)
      PROVE  Val(k) = [Val(k + 1) EXCEPT !.visited = <<c[k]>> \o @]
  <2>1. Stops(k) = Stops(k + 1)
    BY <1>1, <1>6
  <2>2. CASE Stops(k) = {}
    <3>1. Val(k) = << >> /\ Val(k + 1) = << >>
      BY <2>1, <2>2
    <3>2. [<< >> EXCEPT !.visited = <<c[k]>> \o @] = << >>
      OBVIOUS
    <3> QED
      BY <3>1, <3>2
  <2>3. CASE Stops(k) # {}
    <3>1. First(k) = First(k + 1)
      BY <2>1
    <3>2. First(k) \in k + 1 .. L + 1
      <4>1. k \in 1 .. L + 1
        BY <1>1
      <4>2. First(k) \in Stops(k + 1)
        BY <1>4, <2>1, <2>3, <4>1
      <4> QED
        BY <4>2
    <3> DEFINE m == First(k)
    <3>3. Val(k) = Loop(c, k, m) /\ Val(k + 1) = Loop(c, k + 1, m)
      BY <2>1, <2>3, <3>1
    <3> HIDE DEF m, Val
    <3> QED
      BY <3>2, <3>3, LoopBack DEF m
  <2> QED
    BY <2>2, <2>3
<1>7. ~Stop(L + 1) => Val(L + 1) = [Val(L + 1) EXCEPT !.visited = <<c[L + 1]>> \o @]
  <2> SUFFICES ASSUME ~Stop(L + 1)
               PROVE  Val(L + 1) = [Val(L + 1) EXCEPT !.visited = <<c[L + 1]>> \o @]
    OBVIOUS
  <2>1. Stops(L + 1) = {}
    BY <1>1
  <2>2. Val(L + 1) = << >>
    BY <2>1
  <2>3. [<< >> EXCEPT !.visited = <<c[L + 1]>> \o @] = << >>
    OBVIOUS
  <2> QED
    BY <2>2, <2>3
<1> HIDE DEF Val, P
<1>8. ASSUME NEW n \in S
      PROVE  g[n] = IF n = Beyond(end) \/ node[n].data \in stop
                    THEN [visited |-> << >>, at |-> n]
                    ELSE [g[node[n].next] EXCEPT !.visited = <<n>> \o @]
  <2>1. PICK k \in 1 .. L + 1 : c[k] = n
    BY <1>2
  <2>2. g[n] = Val(k) /\ \A m \in 1 .. L + 1 : g[c[m]] = Val(m)
    BY <1>2, <1>3, <2>1
  <2> HIDE DEF g
  <2>3. CASE Stop(k)
    BY <1>5, <2>1, <2>2, <2>3
  <2>4. CASE ~Stop(k) /\ k # L + 1
    <3>1. k \in 1 .. L /\ k + 1 \in 1 .. L + 1
      BY <1>1, <2>4
    <3>2. Val(k) = [Val(k + 1) EXCEPT !.visited = <<c[k]>> \o @]
      BY <1>6, <2>4, <3>1
    <3>3. g[node[n].next] = Val(k + 1)
      BY <1>1, <2>1, <2>2, <3>1
    <3> QED
      BY <2>1, <2>2, <2>4, <3>2, <3>3
  <2>5. CASE ~Stop(k) /\ k = L + 1
    <3>1. g[node[n].next] = Val(L + 1)
      BY <1>1, <2>1, <2>2, <2>5
    <3> QED
      BY <1>7, <2>1, <2>2, <2>5, <3>1
  <2> QED
    BY <2>3, <2>4, <2>5
<1>9. g = RangeStep(end, stop, g)
  BY <1>8 DEF RangeStep
<1> QED
  BY <1>9

(* A loop from place k that gets to place m before one with an element in  *)
(* stop, where it stops: there is one, or b is the end.                    *)
StopsAt(c, L, k, m, b, end, stop) ==
    /\ Chain(node, c, L)
    /\ b \in 1 .. L + 1 /\ Beyond(end) = c[b]
    /\ k \in 1 .. b /\ m \in k .. b
    /\ m = b \/ node[c[m]].data \in stop
    /\ \A x \in k .. m - 1 : node[c[x]].data \notin stop

(* Then the loop visits the places before m: by induction back from m.     *)
LEMMA RangeWalk ==
    ASSUME NEW c, NEW L, NEW k, NEW m, NEW b, NEW end, NEW stop,
           StopsAt(c, L, k, m, b, end, stop)
    PROVE  ForAllElements(c[k], end, stop) = Loop(c, k, m)
<1> DEFINE S == Used \union {TailNode}
           F == CHOOSE f : f = RangeStep(end, stop, f)
<1>1. /\ Chain(node, c, L) /\ b \in 1 .. L + 1 /\ Beyond(end) = c[b]
      /\ k \in 1 .. b /\ m \in k .. b /\ (m = b \/ node[c[m]].data \in stop)
      /\ \A x \in k .. m - 1 : node[c[x]].data \notin stop
  BY DEF StopsAt
<1>2. L \in Nat
  BY <1>1 DEF Chain
<1>3. F = RangeStep(end, stop, F)
  <2>1. \E f : f = RangeStep(end, stop, f)
    BY <1>1, RangeFunction
  <2> QED
    BY <2>1
<1>4. ForAllElements(c[k], end, stop) = F[c[k]]
  BY DEF ForAllElements, F, RangeStep
<1> HIDE DEF F
<1>5. \A n \in S : F[n] = IF n = Beyond(end) \/ node[n].data \in stop
                          THEN [visited |-> << >>, at |-> n]
                          ELSE [F[node[n].next] EXCEPT !.visited = <<n>> \o @]
  BY <1>3 DEF RangeStep
<1>6. /\ \A x \in 1 .. L + 1 : c[x] \in S
      /\ \A x \in 1 .. L : node[c[x]].next = c[x + 1]
      /\ \A x, y \in 1 .. L + 1 : c[x] = c[y] => x = y
  <2>1. \A x \in 1 .. L + 1 : c[x] \in S
    BY <1>1, ChainNodes, WalksOfState
  <2>2. \A x \in 1 .. L : node[c[x]].next = c[x + 1]
    BY <1>1, Neighbours
  <2>3. \A x \in 1 .. L + 1 : x \in 0 .. L + 1
    BY <1>2
  <2> QED
    BY <1>1, <2>1, <2>2, <2>3 DEF Chain
<1> DEFINE T == {d \in 0 .. m - k : F[c[m - d]] = Loop(c, m - d, m)}
<1>7. 0 \in T
  <2>1. m \in 1 .. L + 1 /\ m - 0 = m /\ 0 \in 0 .. m - k
    BY <1>1, <1>2
  <2>2. F[c[m]] = [visited |-> << >>, at |-> c[m]]
    BY <1>1, <1>5, <1>6, <2>1
  <2>3. Loop(c, m, m) = [visited |-> << >>, at |-> c[m]]
    <3>1. 1 .. m - m = {}
      BY <2>1
    <3>2. [t \in 1 .. m - m |-> c[m + t - 1]] = << >>
      BY <3>1
    <3> QED
      BY <3>2 DEF Loop
  <2> QED
    BY <2>1, <2>2, <2>3
<1>8. ASSUME NEW d \in 1 .. m - k, d - 1 \in T
      PROVE  d \in T
  <2> DEFINE x == m - d
  <2>1. /\ x \in 1 .. L /\ x \in 1 .. L + 1 /\ x \in k .. m - 1 /\ m - (d - 1) = x + 1
        /\ m \in x + 1 .. L + 1 /\ x # b /\ d \in 0 .. m - k
    BY <1>1, <1>2
  <2>2. F[c[x + 1]] = Loop(c, x + 1, m)
    BY <1>8, <2>1
  <2> HIDE DEF x
  <2>3. c[x] # Beyond(end) /\ node[c[x]].data \notin stop
    BY <1>1, <1>6, <2>1
  <2>4. F[c[x]] = [F[c[x + 1]] EXCEPT !.visited = <<c[x]>> \o @]
    BY <1>5, <1>6, <2>1, <2>3
  <2>5. [Loop(c, x + 1, m) EXCEPT !.visited = <<c[x]>> \o @] = Loop(c, x, m)
    <3>1. Chain(node, c, L) /\ x \in 1 .. L /\ m \in x + 1 .. L + 1
      BY <1>1, <2>1
    <3> QED
      BY ONLY <3>1, LoopBack
  <2>6. F[c[x]] = Loop(c, x, m)
    BY <2>2, <2>4, <2>5
  <2> QED
    BY <2>1, <2>6 DEF x
<1>9. m - k \in Nat /\ T \in SUBSET (0 .. m - k)
  BY <1>1, <1>2
<1> HIDE DEF T
<1>10. T = 0 .. m - k
  BY <1>7, <1>8, <1>9, NoFirstBad
<1>11. m - k \in T /\ m - (m - k) = k
  BY <1>1, <1>2, <1>9, <1>10
<1>12. F[c[m - (m - k)]] = Loop(c, m - (m - k), m)
  BY <1>11 DEF T
<1> QED
  BY <1>4, <1>11, <1>12

(* The first place of a range with an element in set, or the one behind.   *)
Found(list, i, last, set) == {k \in i .. last : list[k] \in set}
FirstOf(found, last) ==
    IF found = {} THEN last + 1 ELSE CHOOSE k \in found : \A l \in found : k <= l

(* A loop that starts within the range stops there.                        *)
LEMMA FirstOfRange ==
    ASSUME NEW c, NEW L, Chain(node, c, L), NEW i \in 1 .. L + 1, NEW last \in 0 .. L,
           i <= last + 1, NEW end, Beyond(end) = c[last + 1], NEW stop
    PROVE  LET m == FirstOf(Found(Items(node, c, L), i, last, stop), last)
           IN  m \in i .. last + 1 /\ StopsAt(c, L, i, m, last + 1, end, stop)
<1> DEFINE list  == Items(node, c, L)
           found == Found(list, i, last, stop)
           m     == FirstOf(found, last)
<1>1. L \in Nat /\ \A k \in 1 .. L : list[k] = node[c[k]].data
  BY ItemsType
<1>2. found = {k \in i .. last : node[c[k]].data \in stop}
  BY <1>1 DEF Found
<1> HIDE DEF found
<1>3. /\ m \in i .. last + 1 /\ (m = last + 1 \/ node[c[m]].data \in stop)
      /\ \A x \in i .. m - 1 : x \notin found
  <2>1. CASE found = {}
    <3>1. m = last + 1
      BY <2>1 DEF FirstOf
    <3> QED
      BY <2>1, <3>1
  <2>2. CASE found # {}
    <3>1. found \in SUBSET Nat
      BY <1>1, <1>2
    <3>2. \E k \in found : \A l \in found : k <= l
      BY <2>2, <3>1, SmallestNumber
    <3>3. m \in found /\ \A l \in found : m <= l
      BY <2>2, <3>2 DEF FirstOf
    <3> HIDE DEF m
    <3>4. m \in i .. last /\ node[c[m]].data \in stop
      BY <1>2, <3>3
    <3>5. \A x \in i .. m - 1 : x \notin found
      BY <3>3, <3>4
    <3> QED
      BY <3>4, <3>5
  <2> QED
    BY <2>1, <2>2
<1> HIDE DEF m
<1>4. \A x \in i .. m - 1 : node[c[x]].data \notin stop
  <2>1. \A x \in i .. m - 1 : x \in i .. last
    BY <1>3
  <2> QED
    BY <1>2, <1>3, <2>1
<1>5. last + 1 \in 1 .. L + 1 /\ i \in 1 .. last + 1
  BY <1>1
<1>6. StopsAt(c, L, i, m, last + 1, end, stop)
  BY <1>3, <1>4, <1>5 DEF StopsAt
<1> QED
  BY <1>3, <1>6 DEF m, found

(* A call on the range from place i to an end whose next is at place       *)
(* last + 1.                                                               *)
RangeIs(c, L, i, last, end) ==
    /\ Chain(node, c, L) /\ L \in Nat
    /\ i \in 1 .. L + 1 /\ last \in 0 .. L /\ i <= last + 1
    /\ Beyond(end) = c[last + 1]

(* Where the loop stops.                                                   *)
StopOf(c, L, i, last, set) == FirstOf(Found(Items(node, c, L), i, last, set), last)

(* The loop stops at the first place of the range with an element in stop, *)
(* or behind its end.                                                      *)
LEMMA RangeLoop ==
    ASSUME NEW c, NEW L, NEW i, NEW last, NEW end, NEW stop, RangeIs(c, L, i, last, end)
    PROVE  /\ ForAllElements(c[i], end, stop) = Loop(c, i, StopOf(c, L, i, last, stop))
           /\ StopOf(c, L, i, last, stop) \in i .. last + 1
<1>1. /\ Chain(node, c, L) /\ L \in Nat
      /\ i \in 1 .. L + 1 /\ last \in 0 .. L /\ i <= last + 1
      /\ Beyond(end) = c[last + 1]
  BY DEF RangeIs
<1> DEFINE m == StopOf(c, L, i, last, stop)
<1>2. m \in i .. last + 1 /\ StopsAt(c, L, i, m, last + 1, end, stop)
  BY <1>1, FirstOfRange DEF StopOf
<1> HIDE DEF m
<1>3. ForAllElements(c[i], end, stop) = Loop(c, i, m)
  BY ONLY <1>2, RangeWalk
<1> QED
  BY <1>2, <1>3 DEF m

(* CountIf counts the places of the range, each once.                      *)
LEMMA CountOfRange ==
    ASSUME NEW c, NEW L, NEW i, NEW last, NEW end, NEW chosen, RangeIs(c, L, i, last, end)
    PROVE  ListItr_CountIf(c[i], end, chosen)
             = Cardinality(Found(Items(node, c, L), i, last, chosen))
<1> DEFINE B == Found(Items(node, c, L), i, last, chosen)
           v == [t \in 1 .. (last + 1) - i |-> c[i + t - 1]]
           A == {n \in ToSet(v) : node[n].data \in chosen}
           f == [k \in B |-> c[k]]
<1>1. /\ Chain(node, c, L) /\ L \in Nat
      /\ i \in 1 .. L + 1 /\ last \in 0 .. L /\ i <= last + 1
  BY DEF RangeIs
<1>2. ForAllElements(c[i], end, {}).visited = v
  <2>1. ForAllElements(c[i], end, {}) = Loop(c, i, StopOf(c, L, i, last, {}))
    BY RangeLoop
  <2>2. StopOf(c, L, i, last, {}) = last + 1
    BY DEF StopOf, FirstOf, Found
  <2>3. Loop(c, i, last + 1).visited = v
    BY DEF Loop
  <2> QED
    BY <2>1, <2>2, <2>3
<1>3. ListItr_CountIf(c[i], end, chosen) = Cardinality(A)
  BY <1>2 DEF ListItr_CountIf
<1>4. B = {k \in i .. last : node[c[k]].data \in chosen} /\ B \in SUBSET (i .. last)
  <2>1. \A k \in i .. last : Items(node, c, L)[k] = node[c[k]].data
    BY <1>1, ItemsType
  <2> QED
    BY <2>1 DEF Found
<1>5. \A k, l \in i .. last : c[k] = c[l] => k = l
  BY <1>1 DEF Chain
<1>6. ToSet(v) = {c[k] : k \in i .. last}
  <2>1. ToSet(v) = {v[t] : t \in 1 .. (last + 1) - i}
    BY DEF ToSet
  <2>2. \A t \in 1 .. (last + 1) - i : i + t - 1 \in i .. last /\ v[t] = c[i + t - 1]
    BY <1>1
  <2>3. \A k \in i .. last : /\ k - i + 1 \in 1 .. (last + 1) - i
                             /\ i + (k - i + 1) - 1 = k
    BY <1>1
  <2>4. \A k \in i .. last : v[k - i + 1] = c[k]
    BY <2>2, <2>3
  <2> HIDE DEF v
  <2> QED
    BY <2>1, <2>2, <2>3, <2>4
<1> HIDE DEF v, B
<1>7. f \in Bijection(B, A)
  <2>1. \A k \in B : c[k] \in A
    BY <1>4, <1>6
  <2>2. \A n \in A : \E k \in B : c[k] = n
    BY <1>4, <1>6
  <2>3. \A k, l \in B : c[k] = c[l] => k = l
    BY <1>4, <1>5
  <2> HIDE DEF A
  <2> QED
    BY <2>1, <2>2, <2>3 DEF Bijection, Injection, Surjection, IsInjective
<1>8. ExistsBijection(B, A)
  BY <1>7 DEF ExistsBijection
<1>9. IsFiniteSet(B)
  <2>1. IsFiniteSet(i .. last)
    BY <1>1, FS_Interval
  <2> QED
    BY <1>4, <2>1, FS_Subset
<1>10. Cardinality(A) = Cardinality(B)
  BY <1>8, <1>9, FS_Bijection
<1> QED
  BY <1>3, <1>10 DEF B

(* FindFirst returns where the loop stops.                                 *)
LEMMA SearchOfRange ==
    ASSUME NEW c, NEW L, NEW i, NEW last, NEW end, NEW chosen, RangeIs(c, L, i, last, end),
           NEW p, p = StopOf(c, L, i, last, chosen)
    PROVE  p \in i .. last + 1 /\ ListItr_FindFirst(c[i], end, chosen) = c[p]
<1>1. ForAllElements(c[i], end, chosen) = Loop(c, i, p) /\ p \in i .. last + 1
  BY RangeLoop
<1>2. ForAllElements(c[i], end, chosen).at = c[p]
  BY <1>1 DEF Loop
<1> QED
  BY <1>1, <1>2 DEF ListItr_FindFirst

(* The places from a to b that are good, and the least of some.            *)
Among(a, b, good) == {k \in a .. b : k \in good}
Least(places) == CHOOSE k \in places : \A l \in places : k <= l

(* A range of places up to j, and the one the loop takes, which goes on to *)
(* j itself where there is an element: what is wanted of the first is the  *)
(* beginning of what is found in the second.                               *)
LEMMA WantedIsFound ==
    ASSUME NEW i \in Nat, NEW j \in Nat, NEW last \in Nat, last = j - 1 \/ last = j, NEW good,
           NEW wanted, wanted = Among(i, j - 1, good),
           NEW found, found = Among(i, last, good)
    PROVE  /\ Cardinality(found) \in Nat /\ Cardinality(wanted) \in Nat
           /\ Cardinality(found) >= Cardinality(wanted)
           /\ last = j - 1 => found = wanted
           /\ wanted # {} => FirstOf(found, last) = Least(wanted)
           /\ last = j - 1 /\ wanted = {} => FirstOf(found, last) = j
<1>0. wanted = {k \in i .. j - 1 : k \in good} /\ found = {k \in i .. last : k \in good}
  BY DEF Among
<1>1. last \in Nat /\ i \in Nat /\ j \in Nat /\ j - 1 <= last /\ last <= j
  OBVIOUS
<1>2. wanted \in SUBSET found
  BY <1>0, <1>1
<1>3. IsFiniteSet(found)
  <2>1. IsFiniteSet(i .. last) /\ found \in SUBSET (i .. last)
    BY <1>0, <1>1, FS_Interval
  <2> QED
    BY <2>1, FS_Subset
<1>4. IsFiniteSet(wanted) /\ Cardinality(wanted) <= Cardinality(found)
  BY <1>2, <1>3, FS_Subset
<1>5. Cardinality(found) \in Nat /\ Cardinality(wanted) \in Nat
  BY <1>3, <1>4, FS_CardinalityType
<1>6. last = j - 1 => found = wanted
  BY <1>0, <1>1
<1>7. ASSUME wanted # {}
      PROVE  FirstOf(found, last) = Least(wanted)
  <2>1. wanted \in SUBSET Nat /\ found \in SUBSET Nat /\ found # {}
    BY <1>0, <1>1, <1>2, <1>7
  <2>2. PICK k \in wanted : \A l \in wanted : k <= l
    <3>1. \E k \in wanted : \A l \in wanted : k <= l
      BY <1>7, <2>1, SmallestNumber
    <3> QED
      BY <3>1
  <2>3. k \in found /\ k < j
    BY <1>0, <1>1, <1>2, <2>2
  <2>4. \A l \in found : l \in wanted \/ l = j
    BY <1>0, <1>1
  <2>5. \A l \in found : k <= l
    BY <1>1, <2>1, <2>2, <2>3, <2>4
  <2>6. ASSUME NEW m \in found, \A l \in found : m <= l
        PROVE  m = k
    BY <2>1, <2>3, <2>5, <2>6
  <2>7. ASSUME NEW m \in wanted, \A l \in wanted : m <= l
        PROVE  m = k
    BY <2>1, <2>2, <2>7
  <2>8. Least(wanted) = k
    BY <2>2, <2>7 DEF Least
  <2>9. (CHOOSE m \in found : \A l \in found : m <= l) = k
    BY <2>3, <2>5, <2>6
  <2> QED
    BY <2>1, <2>8, <2>9 DEF FirstOf
<1>8. last = j - 1 /\ wanted = {} => FirstOf(found, last) = j
  <2> SUFFICES ASSUME last = j - 1, wanted = {}
               PROVE  FirstOf(found, last) = j
    OBVIOUS
  <2>1. found = {} /\ last + 1 = j
    BY <1>6
  <2> QED
    BY <2>1 DEF FirstOf
<1> QED
  BY <1>4, <1>5, <1>6, <1>7, <1>8

(* Both calls are the loop over a range of the chain's places.             *)
LEMMA ListInvRanges == ListInv => RangesMissNothing
<1> SUFFICES ASSUME ListInv
             PROVE  RangesMissNothing
  OBVIOUS
<1>1. CASE exists
  <2>1. PICK c, L : /\ Chain(node, c, L) /\ L \in Nat /\ Contents = Items(node, c, L)
    BY <1>1, ListIsChain
  <2>2. Places = [k \in 1 .. L + 1 |-> c[k]]
    <3>1. PlacesOf(TRUE, node) = [k \in 1 .. L + 1 |-> c[k]]
      BY <2>1, PlacesIs
    <3> QED
      BY <1>1, <3>1, WalksOfState
  <2>3. DOMAIN Places = 1 .. L + 1 /\ \A k \in 1 .. L + 1 : Places[k] = c[k]
    BY <2>2
  <2>4. Len(Places) = L + 1
    BY <2>1, <2>3
  <2>5. ASSUME NEW i \in DOMAIN Places, NEW j \in DOMAIN Places,
               NEW chosen \in SUBSET Element, i <= j,
               NEW wanted, wanted = InRange(i, j, chosen),
               NEW counted, counted = ListItr_CountIf(Places[i], Places[j], chosen),
               NEW seen, seen = ListItr_FindFirst(Places[i], Places[j], chosen)
        PROVE  /\ counted >= Cardinality(wanted)
               /\ j = Len(Places) => counted = Cardinality(wanted)
               /\ wanted # {} => seen = Places[FirstInRange(i, j, chosen)]
               /\ j = Len(Places) /\ wanted = {} => seen = Places[j]
    <3> DEFINE last  == IF j = L + 1 THEN L ELSE j
               good  == {k \in 1 .. L : Contents[k] \in chosen}
               found == Among(i, last, good)
               p     == FirstOf(found, last)
    <3>1. /\ i \in 1 .. L + 1 /\ j \in 1 .. L + 1 /\ last \in 0 .. L /\ i <= last + 1
          /\ Places[i] = c[i] /\ Places[j] = c[j]
      BY <2>1, <2>3, <2>5
    <3>2. node[c[j]].next = c[last + 1]
      <4>1. CASE j = L + 1
        BY <2>1, <4>1 DEF Chain
      <4>2. CASE j # L + 1
        <5>1. last = j /\ j \in 1 .. L
          BY <2>1, <3>1, <4>2
        <5>2. node[c[j]].next = c[j + 1]
          BY <2>1, <5>1, Neighbours
        <5> QED
          BY <5>1, <5>2
      <4> QED
        BY <4>1, <4>2
    <3>3. last = IF j = L + 1 THEN L ELSE j
      OBVIOUS
    <3> HIDE DEF last
    <3>4. RangeIs(c, L, i, last, Places[j])
      BY <2>1, <3>1, <3>2 DEF RangeIs, Beyond
    <3>5. wanted = Among(i, j - 1, good)
      BY <2>1, <2>5, <3>1 DEF InRange, Among
    <3>6. Found(Items(node, c, L), i, last, chosen) = found
      BY <2>1, <3>1 DEF Found, Among
    <3> HIDE DEF good, found
    <3>7. counted = Cardinality(found)
      <4>1. ListItr_CountIf(c[i], Places[j], chosen)
              = Cardinality(Found(Items(node, c, L), i, last, chosen))
        BY ONLY <3>4, CountOfRange
      <4> QED
        BY <2>5, <3>1, <3>6, <4>1
    <3>8. p = StopOf(c, L, i, last, chosen)
      BY <3>6 DEF StopOf
    <3> HIDE DEF p
    <3>9. p \in i .. last + 1 /\ ListItr_FindFirst(c[i], Places[j], chosen) = c[p]
      BY ONLY <3>4, <3>8, SearchOfRange
    <3>10. p \in 1 .. L + 1 /\ seen = Places[p]
      BY <2>1, <2>3, <2>5, <3>1, <3>9
    <3>11. /\ Cardinality(found) \in Nat /\ Cardinality(wanted) \in Nat
           /\ Cardinality(found) >= Cardinality(wanted)
           /\ last = j - 1 => found = wanted
           /\ wanted # {} => p = Least(wanted)
           /\ last = j - 1 /\ wanted = {} => p = j
      <4>1. /\ i \in Nat /\ j \in Nat /\ last \in Nat /\ (last = j - 1 \/ last = j)
            /\ found = Among(i, last, good)
        BY <2>1, <3>1, <3>3 DEF found
      <4>2. /\ Cardinality(found) \in Nat /\ Cardinality(wanted) \in Nat
            /\ Cardinality(found) >= Cardinality(wanted)
            /\ last = j - 1 => found = wanted
            /\ wanted # {} => FirstOf(found, last) = Least(wanted)
            /\ last = j - 1 /\ wanted = {} => FirstOf(found, last) = j
        BY ONLY <3>5, <4>1, WantedIsFound
      <4> QED
        BY <4>2 DEF p
    <3>12. Least(wanted) = FirstInRange(i, j, chosen)
      BY <2>5 DEF FirstInRange, Least
    <3> QED
      BY <2>1, <2>4, <3>1, <3>3, <3>7, <3>10, <3>11, <3>12
  <2> QED
    BY <2>5 DEF RangesMissNothing
<1>2. CASE ~exists
  <2>1. DOMAIN Places = {}
    BY <1>2 DEF Places
  <2> QED
    BY <2>1 DEF RangesMissNothing
<1> QED
  BY <1>1, <1>2

(* Counting and finding miss no element of the range they are given, find  *)
(* its first, and up to the end of the list count and find nothing else.   *)
THEOREM RangesAlwaysMissNothing == DoubleLLSpec => []RangesMissNothing
BY ListAlwaysInv, ListInvRanges, PTL
=============================================================================
