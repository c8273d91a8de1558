-------------------------------- MODULE DoubleLL --------------------------------
(***************************************************************************)
(* The doubly linked list in the client's directory (DoubleLL.c,           *)
(* DoubleLLItr.c, DoubleLLItr2.c): nodes between two sentinels that are    *)
(* part of the list; an iterator is the address of a node.                 *)
(*                                                                         *)
(* A call gets a list from ListCreate or NULL, and iterators of nodes that *)
(* are there: a program forgets an iterator when its node is freed.        *)
(* ListItrRemove gets no sentinel, which it would free.  What a predicate  *)
(* or an action does is to tell elements apart: it is the set of elements  *)
(* it returns nonzero for.                                                 *)
(***************************************************************************)
EXTENDS Integers, FiniteSets, SequencesExt

CONSTANTS
    Data,           \* what is stored
    Null,           \* NULL
    Iterator,       \* the iterators of a program
    Node,           \* what malloc() may return for a node
    HeadNode, TailNode,     \* &m_head, &m_tail
    Freed           \* what is in memory that is not a node

(* Where a node may be.                                                    *)
Address == Node \union {HeadNode, TailNode}

Element == Data \union {Null}

(* No node is at address 0, and one that is there can be told from memory  *)
(* that is not a node.                                                     *)
ASSUME DoubleLLAssumption ==
    /\ Null \notin Data /\ Null \notin Address
    /\ HeadNode # TailNode /\ HeadNode \notin Node /\ TailNode \notin Node
    /\ Freed \notin [prev : Address, data : Element, next : Address]

VARIABLES
    exists,         \* the program's List pointer is not NULL
    node,           \* address -> what is there
    itr,            \* iterator -> node, Null when the program has none
    returned        \* what the last call returned

doubleVars == <<exists, node, itr, returned>>

Used == {n \in Node : node[n] # Freed}

NoIterators == [i \in Iterator |-> Null]

NodeOf(p, d, n) == [prev |-> p, data |-> d, next |-> n]

DoubleLLInit ==
    /\ exists = FALSE
    /\ node = [n \in Address |-> Freed]
    /\ itr = NoIterators
    /\ returned = <<"nothing">>

Fails(error) == returned' = error /\ UNCHANGED <<exists, node, itr>>

-----------------------------------------------------------------------------
(* Walks along m_next, from a node to the tail *)

(* The elements in order: what ListDestroy hands over, what ListSize counts*)
Contents ==
    LET from[n \in Used \union {TailNode}] ==
            IF n = TailNode THEN << >> ELSE <<node[n].data>> \o from[node[n].next]
    IN  IF exists THEN from[node[HeadNode].next] ELSE << >>

(* Bug variant: a list is never seen to be empty.                          *)
BugNeverEmpty == FALSE

ListIsEmpty == node[HeadNode].next = TailNode

-----------------------------------------------------------------------------
(* DoubleLL.c *)

ListCreate ==
    /\ ~exists /\ exists' = TRUE
    /\ node' = [node EXCEPT ![HeadNode] = NodeOf(HeadNode, Null, TailNode),
                            ![TailNode] = NodeOf(HeadNode, Null, TailNode)]
    /\ returned' = <<"SUCCESS">>
    /\ UNCHANGED itr

ListDestroy ==
    /\ exists /\ exists' = FALSE
    /\ node' = [n \in DOMAIN node |-> Freed]
    /\ itr' = NoIterators
    /\ returned' = <<"destroyed", Contents>>

(* Bug variant: the next node still leads back past the new one.           *)
BugPrevNotSet(p, t, d) ==
    [node EXCEPT ![node[t].prev].next = p, ![p] = NodeOf(node[t].prev, d, t)]

(* A node p for d, before node t.                                          *)
LinkedBefore(p, t, d) ==
    [node EXCEPT ![node[t].prev].next = p, ![t].prev = p,
                 ![p] = NodeOf(node[t].prev, d, t)]

(* malloc() gives any node that is free, or none.                          *)
ListPushHead(d) ==
    \/ (~exists \/ d = Null) /\ Fails(<<"NULL_POINTER">>)
    \/ exists /\ d # Null /\ Fails(<<"MALLOC_FAIL">>)
    \/ /\ exists /\ d # Null
       /\ \E p \in Node \ Used :
            LET t == node[HeadNode].next
            IN  node' = [node EXCEPT ![HeadNode].next = p, ![t].prev = p,
                                     ![p] = NodeOf(HeadNode, d, t)]
       /\ returned' = <<"SUCCESS">>
       /\ UNCHANGED <<exists, itr>>

(* Bug variant: a new element comes before the last.                       *)
BugPushBeforeLast(d) ==
    /\ exists
    /\ \E p \in Node \ Used :
            node' = LinkedBefore(p, IF ListIsEmpty THEN TailNode ELSE node[TailNode].prev, d)
    /\ returned' = <<"SUCCESS">>
    /\ UNCHANGED <<exists, itr>>

(* NULL may be stored this way.                                            *)
ListPushTail(d) ==
    \/ ~exists /\ Fails(<<"NULL_POINTER">>)
    \/ exists /\ Fails(<<"MALLOC_FAIL">>)
    \/ /\ exists
       /\ \E p \in Node \ Used : node' = LinkedBefore(p, TailNode, d)
       /\ returned' = <<"SUCCESS">>
       /\ UNCHANGED <<exists, itr>>

(* free() of a node that is out of the list.                               *)
Free(n) == itr' = [i \in Iterator |-> IF itr[i] = n THEN Null ELSE itr[i]]

ListPopHead ==
    \/ ~exists /\ Fails(<<"NULL_POINTER">>)
    \/ exists /\ ListIsEmpty /\ Fails(<<"EMPTY_LIST">>)
    \/ /\ exists /\ ~ListIsEmpty
       /\ LET n == node[HeadNode].next
          IN  /\ node' = [node EXCEPT ![HeadNode].next = node[n].next,
                                      ![node[n].next].prev = HeadNode, ![n] = Freed]
              /\ Free(n)
              /\ returned' = <<"SUCCESS", node[n].data>>
       /\ UNCHANGED exists

ListPopTail ==
    \/ ~exists /\ Fails(<<"NULL_POINTER">>)
    \/ exists /\ ListIsEmpty /\ Fails(<<"EMPTY_LIST">>)
    \/ /\ exists /\ ~ListIsEmpty
       /\ LET n == node[TailNode].prev
          IN  /\ node' = [node EXCEPT ![TailNode].prev = node[n].prev,
                                      ![node[n].prev].next = TailNode, ![n] = Freed]
              /\ Free(n)
              /\ returned' = <<"SUCCESS", node[n].data>>
       /\ UNCHANGED exists

ListSize ==
    /\ returned' = <<"size", Len(Contents)>>
    /\ UNCHANGED <<exists, node, itr>>

-----------------------------------------------------------------------------
(* DoubleLLItr.c *)

Points(i, n) == itr' = [itr EXCEPT ![i] = n] /\ UNCHANGED <<exists, node, returned>>

ListItrBegin(i) == exists /\ Points(i, node[HeadNode].next)

(* The tail is its own next.                                               *)
ListItrEnd(i) == exists /\ Points(i, node[TailNode].next)

ListItrNext(i) == itr[i] # Null /\ Points(i, node[itr[i]].next)

(* Only the head is its own predecessor: the first node stays.             *)
ListItrPrev(i) ==
    /\ itr[i] # Null
    /\ LET before == node[itr[i]].prev
       IN  Points(i, IF node[before].prev = before THEN itr[i] ELSE before)

AtEnd(n) == node[n].next = n

ListItrGet(i) ==
    /\ itr[i] # Null
    /\ returned' = <<"item", IF AtEnd(itr[i]) THEN Null ELSE node[itr[i]].data>>
    /\ UNCHANGED <<exists, node, itr>>

ListItrSet(i, d) ==
    \/ itr[i] # Null /\ (d = Null \/ AtEnd(itr[i])) /\ Fails(<<"item", Null>>)
    \/ /\ itr[i] # Null /\ d # Null /\ ~AtEnd(itr[i])
       /\ node' = [node EXCEPT ![itr[i]].data = d]
       /\ returned' = <<"item", node[itr[i]].data>>
       /\ UNCHANGED <<exists, itr>>

(* The caller keeps the iterator it is given, or the one it had.           *)
ListItrInsertBefore(i, d) ==
    \/ itr[i] # Null /\ Fails(<<"item", Null>>)
    \/ /\ itr[i] # Null /\ d # Null
       /\ \E p \in Node \ Used :
            /\ node' = LinkedBefore(p, itr[i], d)
            /\ itr' \in {itr, [itr EXCEPT ![i] = p]}
       /\ returned' = <<"SUCCESS">>
       /\ UNCHANGED exists

ListItrRemove(i) ==
    /\ itr[i] \in Node
    /\ LET n == itr[i]
       IN  /\ node' = [node EXCEPT ![node[n].prev].next = node[n].next,
                                   ![node[n].next].prev = node[n].prev, ![n] = Freed]
           /\ Free(n)
           /\ returned' = <<"item", node[n].data>>
    /\ UNCHANGED exists

-----------------------------------------------------------------------------
DoubleLLNext ==
    \/ ListCreate \/ ListDestroy \/ ListSize \/ ListPopHead \/ ListPopTail
    \/ \E d \in Element : ListPushHead(d) \/ ListPushTail(d)
    \/ \E i \in Iterator :
        \/ ListItrBegin(i) \/ ListItrEnd(i) \/ ListItrNext(i) \/ ListItrPrev(i)
        \/ ListItrGet(i) \/ ListItrRemove(i)
        \/ \E d \in Element : ListItrSet(i, d) \/ ListItrInsertBefore(i, d)

DoubleLLSpec == DoubleLLInit /\ [][DoubleLLNext]_doubleVars

-----------------------------------------------------------------------------
(* DoubleLLItr2.c *)

(* The node the loop ends at: the one after the end, which for the tail is *)
(* the tail.                                                               *)
Beyond(end) == node[end].next

(* forAllElements: the nodes the loop visits, up to one with an element in *)
(* stop, and the one it is left at.                                        *)
ForAllElements(start, end, stop) ==
    LET from[n \in Used \union {TailNode}] ==
            IF n = Beyond(end) \/ node[n].data \in stop
            THEN [visited |-> << >>, at |-> n]
            ELSE LET rest == from[node[n].next]
                 IN  [rest EXCEPT !.visited = <<n>> \o @]
    IN  from[start]

ListItr_FindFirst(begin, end, predicate) == ForAllElements(begin, end, predicate).at

(* Bug variant: the loop stops at the first it counts.                     *)
BugCountsOne(begin, end, predicate) ==
    Cardinality({node[ListItr_FindFirst(begin, end, predicate)].data} \intersect predicate)

(* The loop of CountIf never stops early.                                  *)
ListItr_CountIf(begin, end, predicate) ==
    Cardinality({n \in ToSet(ForAllElements(begin, end, {}).visited) :
                    node[n].data \in predicate})

ListItr_ForEach(begin, end, action) ==
    LET element == ForAllElements(begin, end, Element \ action).at
    IN  IF node[element].prev = element THEN element ELSE node[element].prev

-----------------------------------------------------------------------------
(* Properties *)

(* Type invariant.                                                         *)
DoubleLLTypeOK ==
    /\ exists \in BOOLEAN
    /\ \A n \in Used : node[n] \in [prev : Used \union {HeadNode}, data : Element,
                                    next : Used \union {TailNode}]
    /\ node[HeadNode] \in IF exists THEN [prev : {HeadNode}, data : {Null}, next : Used \union {TailNode}]
                      ELSE {Freed}
    /\ node[TailNode] \in IF exists THEN [prev : Used \union {HeadNode}, data : {Null}, next : {TailNode}]
                      ELSE {Freed}
    /\ itr \in [Iterator -> Used \union {TailNode, Null}]

(* The way back is the way forth reversed, and no node that was not freed  *)
(* is off it: through any mix of pushes, pops and iterators.               *)
LinksAgree ==
    /\ exists => \A n \in Used \union {HeadNode} : node[node[n].next].prev = n
    /\ exists => \A n \in Used \union {TailNode} : node[node[n].prev].next = n
    /\ Cardinality(Used) = Len(Contents)

(* The nodes in order, with the tail.                                      *)
Places ==
    LET from[n \in Used \union {TailNode}] ==
            IF n = TailNode THEN <<TailNode>> ELSE <<n>> \o from[node[n].next]
    IN  IF exists THEN from[node[HeadNode].next] ELSE << >>

(* The places of the half open range [i .. j) that hold one of chosen.     *)
InRange(i, j, chosen) == {k \in i .. j - 1 : Contents[k] \in chosen}

(* Of these the first.                                                     *)
FirstInRange(i, j, chosen) ==
    CHOOSE k \in InRange(i, j, chosen) : \A l \in InRange(i, j, chosen) : k <= l

(* What FindFirst and CountIf keep of the promise of half open ranges      *)
(* (DoubleLLItr2.h): whatever calls built the list, no element of a range  *)
(* is missed, the first that is wanted is found before anything else, and  *)
(* up to the end of the list nothing but the range is counted or found.    *)
RangesMissNothing ==
    \A i, j \in DOMAIN Places, chosen \in SUBSET Element :
        LET toEnd   == j = Len(Places)
            wanted  == InRange(i, j, chosen)
            counted == ListItr_CountIf(Places[i], Places[j], chosen)
            found   == ListItr_FindFirst(Places[i], Places[j], chosen)
        IN  i <= j
                => /\ counted >= Cardinality(wanted)
                   /\ toEnd => counted = Cardinality(wanted)
                   /\ wanted # {} => found = Places[FirstInRange(i, j, chosen)]
                   /\ toEnd /\ wanted = {} => found = Places[j]

(* DoubleLLItr2.h:46-52, 59-62 of finding and counting: "in the half open *)
(* range [begin..end)", "_end : end search here - not included", and an    *)
(* iterator "to the first node with data found or to _end if not".         *)
RangesHalfOpen ==
    \A i, j \in DOMAIN Places, chosen \in SUBSET Element :
        LET wanted == InRange(i, j, chosen)
        IN  i <= j
                => /\ ListItr_CountIf(Places[i], Places[j], chosen) = Cardinality(wanted)
                   /\ ListItr_FindFirst(Places[i], Places[j], chosen)
                        = Places[IF wanted = {} THEN j ELSE FirstInRange(i, j, chosen)]

(* DoubleLLItr2.h:71-78: "iteration will stop if Action function returns 0 *)
(* for an element", and what is returned is "the element where the         *)
(* iteration stoped. this might be end iterator".                          *)
ForEachReturnsStop ==
    \A i, j \in DOMAIN Places, action \in SUBSET Element :
        LET refused == Element \ action
        IN  i < j
                => ListItr_ForEach(Places[i], Places[j], action)
                    = Places[IF InRange(i, j, refused) = {} THEN j
                             ELSE FirstInRange(i, j, refused)]

(* What DoubleLLItr2.h promises of ranges.  The loop of forAllElements goes*)
(* on to the node after the end, and ListItr_ForEach returns the node      *)
(* before the one it stopped at: a counterexample is expected.             *)
RangesAsPromised == RangesHalfOpen /\ ForEachReturnsStop

(* The position of an iterator: of its node, or of the end.                *)
PositionOf(i) ==
    IF itr[i] = Null THEN 0 ELSE CHOOSE p \in DOMAIN Places : Places[p] = itr[i]

Abstract == INSTANCE ListADT WITH
    list <- Contents, position <- [i \in Iterator |-> PositionOf(i)]

(* The nodes implement the sequence: every call returns what it would, and *)
(* iterators stay with their elements whatever is linked in and out next to*)
(* them, or at both ends.                                                  *)
ImplementsList == Abstract!ListSpec
=============================================================================
