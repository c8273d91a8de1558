-------------------------------- MODULE ListADT --------------------------------
(***************************************************************************)
(* What the list library of the client promises: a sequence that is changed*)
(* at both ends and at iterators.  An iterator is a position; it stays with*)
(* its element, or with the end, until the element is taken out.           *)
(***************************************************************************)
EXTENDS Integers, SequencesExt

CONSTANTS
    Data,           \* what is stored
    Null,           \* NULL
    Iterator        \* the iterators of a program

VARIABLES
    exists,         \* the list was created
    list,           \* its elements
    position,       \* iterator -> position, Len(list) + 1 at the end, or 0
    returned        \* what the last call returned

listVars == <<exists, list, position, returned>>

ListInit ==
    /\ exists = FALSE /\ list = << >>
    /\ position = [i \in Iterator |-> 0]
    /\ returned = <<"nothing">>

Fails ==
    /\ returned' \in {<<"NULL_POINTER">>, <<"MALLOC_FAIL">>, <<"item", Null>>}
                        \union {error \in {<<"EMPTY_LIST">>} : exists /\ list = << >>}
    /\ UNCHANGED <<exists, list, position>>

Create ==
    /\ ~exists /\ exists' = TRUE
    /\ returned' = <<"SUCCESS">>
    /\ UNCHANGED <<list, position>>

(* Every element is given to its destructor.                               *)
Destroy ==
    /\ exists /\ exists' = FALSE
    /\ list' = << >> /\ position' = [i \in Iterator |-> 0]
    /\ returned' = <<"destroyed", list>>

(* Where iterators are once an element has come in before position p, or   *)
(* the one at p is gone.                                                   *)
Shifted(p) == [i \in Iterator |-> IF position[i] >= p THEN position[i] + 1 ELSE position[i]]
Closed(p) ==
    [i \in Iterator |-> CASE position[i] > p -> position[i] - 1
                          [] position[i] = p -> 0
                          [] OTHER           -> position[i]]

Insert(p, d) ==
    /\ list' = InsertAt(list, p, d)
    /\ UNCHANGED exists

Push(p, d) == exists /\ Insert(p, d) /\ position' = Shifted(p) /\ returned' = <<"SUCCESS">>

Take(p, result) ==
    /\ list' = RemoveAt(list, p)
    /\ position' = Closed(p)
    /\ returned' = result
    /\ UNCHANGED exists

Pop(p) == p \in DOMAIN list /\ Take(p, <<"SUCCESS", list[p]>>)

Moved(i, p) ==
    /\ position' = [position EXCEPT ![i] = p]
    /\ UNCHANGED <<exists, list, returned>>

(* Any position next to that of an iterator: those at the ends stay.       *)
Step(i) ==
    \/ exists /\ (Moved(i, 1) \/ Moved(i, Len(list) + 1))
    \/ position[i] \in DOMAIN list /\ Moved(i, position[i] + 1)
    \/ position[i] > 1 /\ Moved(i, position[i] - 1)

(* The new element's iterator is kept, or the one that was.                *)
InsertHere(i, d) ==
    /\ position[i] # 0 /\ Insert(position[i], d)
    /\ returned' = <<"SUCCESS">>
    /\ position' \in {Shifted(position[i]),
                      [Shifted(position[i]) EXCEPT ![i] = position[i]]}

RemoveHere(i) ==
    position[i] \in DOMAIN list /\ Take(position[i], <<"item", list[position[i]]>>)

GetHere(i) ==
    /\ position[i] # 0
    /\ returned' = <<"item", IF position[i] \in DOMAIN list THEN list[position[i]] ELSE Null>>
    /\ UNCHANGED <<exists, list, position>>

SetHere(i, d) ==
    /\ position[i] \in DOMAIN list
    /\ list' = [list EXCEPT ![position[i]] = d]
    /\ returned' = <<"item", list[position[i]]>>
    /\ UNCHANGED <<exists, position>>

Size ==
    /\ returned' = <<"size", Len(list)>>
    /\ UNCHANGED <<exists, list, position>>

ListNext ==
    \/ Create \/ Destroy \/ Fails \/ Size
    \/ Pop(1) \/ Pop(Len(list))
    \/ \E d \in Data \union {Null} : Push(1, d) \/ Push(Len(list) + 1, d)
    \/ \E i \in Iterator :
        \/ Step(i) \/ RemoveHere(i) \/ GetHere(i)
        \/ \E d \in Data : InsertHere(i, d) \/ SetHere(i, d)

ListSpec == ListInit /\ [][ListNext]_listVars
=============================================================================
