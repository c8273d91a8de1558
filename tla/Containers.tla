------------------------------ MODULE Containers ------------------------------
(***************************************************************************)
(* The containers of lib_struct.a that the server keeps its state in, as   *)
(* its sources use them: the hash map (HashMap.h), the bounded queue       *)
(* (genQueue.h) and the list (list.h, list_itr.h).  The library is shipped *)
(* as a binary, so what is modelled is what its callers in src/ rely on: a *)
(* map is a function over the keys present, a queue is a sequence with a   *)
(* capacity, a list is a sequence.                                         *)
(***************************************************************************)
EXTENDS Integers, Sequences

(* A map without keys (HashMapCreate).                                     *)
EmptyMap == [k \in {} |-> {}]

(* HashMapInsert of a key that is absent; the callers treat a key that is  *)
(* present as an error, and the map is then left alone.                    *)
HashMapInsert(map, key, value) ==
    [k \in DOMAIN map \union {key} |->
        IF k \in DOMAIN map THEN map[k] ELSE value]

(* HashMapRemove; removing an absent key changes nothing.                  *)
HashMapRemove(map, key) == [k \in DOMAIN map \ {key} |-> map[k]]

(* QueueInsert at the tail: a full queue answers QUEUE_OVERFLOW_ERROR and  *)
(* drops the element, and no caller in groupMng.c looks at the answer.     *)
QueueInsert(queue, element, capacity) ==
    IF Len(queue) < capacity THEN Append(queue, element) ELSE queue

(* ListItrRemove of the node at a place of a list: the nodes behind it     *)
(* move up.                                                                *)
ListRemoveAt(list, place) ==
    [i \in 1 .. Len(list) - 1 |-> IF i < place THEN list[i] ELSE list[i + 1]]

(* The elements of a queue.                                                *)
Elements(queue) == {queue[i] : i \in DOMAIN queue}
=============================================================================
