--------------------------- MODULE ManagerLemmas ----------------------------
(***************************************************************************)
(* What the operations of GroupMng preserve, for every pool size and every *)
(* set of names, and what those of UserMng do to a manager and to          *)
(* savedUsers.txt, for every set of names, passwords and groups.           *)
(***************************************************************************)
EXTENDS GroupMng, UserMng, FiniteSetTheorems, WellFoundedInduction, TLAPS

-----------------------------------------------------------------------------
(* The group manager: its queue *)

(* QueueInsert below the capacity adds one element at the tail.            *)
LEMMA QueueInsertAdds ==
    ASSUME NEW S, NEW q \in Seq(S), NEW a \in S, NEW n \in Nat, Len(q) < n
    PROVE  /\ QueueInsert(q, a, n) \in Seq(S)
           /\ Len(QueueInsert(q, a, n)) = Len(q) + 1
           /\ \A i \in 1 .. Len(q) : QueueInsert(q, a, n)[i] = q[i]
           /\ QueueInsert(q, a, n)[Len(q) + 1] = a
           /\ Elements(QueueInsert(q, a, n)) = Elements(q) \union {a}
<1> DEFINE r == QueueInsert(q, a, n)
<1>1. r = Append(q, a)
  BY DEF QueueInsert
<1>2. /\ r \in Seq(S)
      /\ Len(r) = Len(q) + 1
      /\ \A i \in 1 .. Len(q) : r[i] = q[i]
      /\ r[Len(q) + 1] = a
  BY <1>1
<1>3. DOMAIN q = 1 .. Len(q) /\ DOMAIN r = 1 .. Len(q) + 1
  BY <1>2
<1>4. Elements(r) = Elements(q) \union {a}
  BY <1>2, <1>3 DEF Elements
<1> QED
  BY <1>2, <1>4

(* QueueRemove takes the head and keeps the rest.                          *)
LEMMA TailRemoves ==
    ASSUME NEW S, NEW q \in Seq(S), q # << >>
    PROVE  /\ Head(q) \in S
           /\ Tail(q) \in Seq(S)
           /\ Len(Tail(q)) = Len(q) - 1
           /\ \A i \in 1 .. Len(q) - 1 : Tail(q)[i] = q[i + 1]
           /\ Elements(q) = Elements(Tail(q)) \union {Head(q)}
<1>1. /\ Head(q) \in S /\ Head(q) = q[1]
      /\ Tail(q) \in Seq(S)
      /\ Len(q) \in Nat \ {0}
      /\ Len(Tail(q)) = Len(q) - 1
      /\ \A i \in 1 .. Len(q) - 1 : Tail(q)[i] = q[i + 1]
  OBVIOUS
<1>2. DOMAIN q = 1 .. Len(q) /\ DOMAIN Tail(q) = 1 .. Len(q) - 1
  BY <1>1
<1>3. Elements(q) \subseteq Elements(Tail(q)) \union {Head(q)}
  <2> SUFFICES ASSUME NEW i \in 1 .. Len(q), i # 1
               PROVE  q[i] \in Elements(Tail(q))
    BY <1>1, <1>2 DEF Elements
  <2>1. i - 1 \in 1 .. Len(q) - 1 /\ Tail(q)[i - 1] = q[i]
    BY <1>1
  <2> QED
    BY <2>1, <1>2 DEF Elements
<1>4. Elements(Tail(q)) \union {Head(q)} \subseteq Elements(q)
  <2>1. Head(q) \in Elements(q)
    BY <1>1, <1>2 DEF Elements
  <2>2. ASSUME NEW i \in 1 .. Len(q) - 1
        PROVE  Tail(q)[i] \in Elements(q)
    <3>1. i + 1 \in 1 .. Len(q) /\ Tail(q)[i] = q[i + 1]
      BY <1>1
    <3> QED
      BY <3>1, <1>2 DEF Elements
  <2> QED
    BY <2>1, <2>2, <1>2 DEF Elements
<1> QED
  BY <1>1, <1>3, <1>4

-----------------------------------------------------------------------------
(* The group manager: the four operations keep GroupMngOK *)

(* The pool of CreateFreeAddrQ is complete and has no address twice.       *)
LEMMA CreateOK == GroupMngOK(GroupMngCreate)
<1> DEFINE m == GroupMngCreate
<1> USE GroupMngAssumption
<1>1. /\ DOMAIN m.groups = {} /\ m.num = 0
      /\ m.freeAddr = [i \in 1 .. MaxGroups |-> i]
      /\ m = Manager(m.groups, m.freeAddr, m.num)
  BY DEF GroupMngCreate, EmptyMap, CreateFreeAddrQ, Manager
<1>2. m.freeAddr \in Seq(GroupAddress) /\ Len(m.freeAddr) = MaxGroups
  BY <1>1 DEF GroupAddress
<1>3. Elements(m.freeAddr) = GroupAddress /\ Leased(m) = {}
  BY <1>1 DEF Elements, Leased, GroupAddress
<1>4. m.groups \in [DOMAIN m.groups -> Group]
  BY DEF GroupMngCreate, EmptyMap, Manager
<1>5. GroupMngType(m)
  BY <1>1, <1>2, <1>4 DEF GroupMngType
<1>6. AddressUsedOnce(m)
  BY <1>1, <1>3 DEF AddressUsedOnce
<1>7. CountsAgree(m)
  BY <1>1, <1>2, FS_EmptySet DEF CountsAgree
<1> QED
  BY <1>3, <1>5, <1>6, <1>7 DEF GroupMngOK, NoAddressLost

(* An address that nobody holds is put at the tail of the queue.           *)
(* "Short" says of a manager that it is OK but for one address a, which is *)
(* neither leased nor in the queue.                                        *)
Short(mng, a) ==
    /\ GroupMngType(mng)
    /\ AddressUsedOnce(mng)
    /\ a \in GroupAddress \ (Leased(mng) \union Elements(mng.freeAddr))
    /\ Leased(mng) \union Elements(mng.freeAddr) \union {a} = GroupAddress
    /\ IsFiniteSet(DOMAIN mng.groups)
    /\ mng.num = Cardinality(DOMAIN mng.groups)
    /\ mng.num + Len(mng.freeAddr) + 1 = MaxGroups

(* GiveBack restores the invariant: the address short of the queue goes to *)
(* its tail, which has room for it.                                        *)
LEMMA GiveBackOK ==
    ASSUME NEW mng, NEW a, Short(mng, a)
    PROVE  GroupMngOK(GiveBack(mng, a))
<1> DEFINE m == GiveBack(mng, a)
           q == mng.freeAddr
           r == m.freeAddr
<1> USE GroupMngAssumption
<1>1. /\ m.groups = mng.groups /\ m.num = mng.num
      /\ r = QueueInsert(q, a, MaxGroups)
      /\ m = Manager(m.groups, m.freeAddr, m.num)
  BY DEF GiveBack, Manager
<1>2. /\ q \in Seq(GroupAddress) /\ Len(q) \in Nat /\ mng.num \in Nat
      /\ a \in GroupAddress /\ a \notin Elements(q) /\ a \notin Leased(mng)
      /\ MaxGroups \in Nat /\ Len(q) < MaxGroups
      /\ mng.num + Len(q) + 1 = MaxGroups
  BY DEF Short, GroupMngType
<1>3. /\ \A i, j \in 1 .. Len(q) : q[i] = q[j] => i = j
      /\ Leased(mng) \intersect Elements(q) = {}
  BY <1>2 DEF Short, AddressUsedOnce
<1> HIDE DEF m
<1>4. /\ r \in Seq(GroupAddress)
      /\ Len(r) = Len(q) + 1
      /\ \A i \in 1 .. Len(q) : r[i] = q[i]
      /\ r[Len(q) + 1] = a
      /\ Elements(r) = Elements(q) \union {a}
  BY <1>1, <1>2, QueueInsertAdds
<1>5. Leased(m) = Leased(mng)
  BY <1>1 DEF Leased
<1>6. GroupMngType(m)
  BY <1>1, <1>4 DEF Short, GroupMngType
<1>7. \A i, j \in DOMAIN r : r[i] = r[j] => i = j
  <2>1. DOMAIN r = 1 .. Len(q) + 1
    BY <1>2, <1>4
  <2>2. \A k \in 1 .. Len(q) : r[k] # a
    <3>1. DOMAIN q = 1 .. Len(q)
      BY <1>2
    <3>2. \A k \in 1 .. Len(q) : q[k] # a
      BY <3>1, <1>2 DEF Elements
    <3> QED
      BY <3>2, <1>4
  <2>3. \A k \in DOMAIN r : k \in 1 .. Len(q) \/ k = Len(q) + 1
    BY <2>1, <1>2
  <2> HIDE DEF r
  <2> QED
    BY <2>1, <2>2, <2>3, <1>3, <1>4
<1>8. AddressUsedOnce(m)
  <2>1. \A g, h \in DOMAIN m.groups : m.groups[g].addr = m.groups[h].addr => g = h
    BY <1>1 DEF Short, AddressUsedOnce
  <2> QED
    BY <2>1, <1>2, <1>3, <1>4, <1>5, <1>7 DEF AddressUsedOnce
<1>9. NoAddressLost(m)
  BY <1>4, <1>5 DEF Short, NoAddressLost
<1>10. CountsAgree(m)
  BY <1>1, <1>2, <1>4 DEF Short, CountsAgree
<1> QED
  BY <1>6, <1>8, <1>9, <1>10 DEF GroupMngOK, m

(* QueueRemove leaves a manager short of the address it returned.          *)
LEMMA TakenIsShort ==
    ASSUME NEW mng, GroupMngOK(mng), mng.freeAddr # << >>
    PROVE  Short(TakeAddress(mng), Head(mng.freeAddr))
<1> DEFINE m == TakeAddress(mng)
           q == mng.freeAddr
           t == Tail(q)
<1> USE GroupMngAssumption
<1>1. /\ m.groups = mng.groups /\ m.num = mng.num /\ m.freeAddr = t
      /\ m = Manager(m.groups, m.freeAddr, m.num)
  BY DEF TakeAddress, Manager
<1>2. q \in Seq(GroupAddress) /\ mng.num \in Nat /\ q # << >>
  BY DEF GroupMngOK, GroupMngType
<1>3. /\ Head(q) \in GroupAddress
      /\ t \in Seq(GroupAddress)
      /\ Len(t) = Len(q) - 1
      /\ \A i \in 1 .. Len(q) - 1 : t[i] = q[i + 1]
      /\ Elements(q) = Elements(t) \union {Head(q)}
  BY <1>2, TailRemoves
<1>4. /\ \A i, j \in 1 .. Len(q) : q[i] = q[j] => i = j
      /\ Leased(mng) \intersect Elements(q) = {}
  BY <1>2 DEF GroupMngOK, AddressUsedOnce
<1>5. /\ DOMAIN t = 1 .. Len(q) - 1
      /\ Len(q) \in Nat \ {0}
      /\ Head(q) = q[1]
  BY <1>2, <1>3
<1> HIDE DEF m, t
<1>6. Head(q) \notin Elements(t)
  <2>1. ASSUME NEW i \in 1 .. Len(q) - 1
        PROVE  t[i] # Head(q)
    <3>1. i + 1 \in 1 .. Len(q) /\ 1 \in 1 .. Len(q) /\ i + 1 # 1
      BY <1>5
    <3> QED
      BY <3>1, <1>3, <1>4, <1>5
  <2> QED
    BY <2>1, <1>5 DEF Elements
<1>7. Leased(m) = Leased(mng)
  BY <1>1 DEF Leased
<1>8. GroupMngType(m)
  BY <1>1, <1>3 DEF GroupMngOK, GroupMngType
<1>9. AddressUsedOnce(m)
  <2>1. ASSUME NEW i \in 1 .. Len(q) - 1, NEW j \in 1 .. Len(q) - 1,
               t[i] = t[j]
        PROVE  i = j
    <3>1. i + 1 \in 1 .. Len(q) /\ j + 1 \in 1 .. Len(q)
      BY <1>5
    <3>2. q[i + 1] = q[j + 1]
      BY <2>1, <1>3
    <3>3. i + 1 = j + 1
      BY <3>1, <3>2, <1>4
    <3> QED
      BY <3>3, <1>5
  <2>2. \A i, j \in DOMAIN m.freeAddr : m.freeAddr[i] = m.freeAddr[j] => i = j
    BY <2>1, <1>1, <1>5
  <2>3. \A g, h \in DOMAIN m.groups : m.groups[g].addr = m.groups[h].addr => g = h
    BY <1>1 DEF GroupMngOK, AddressUsedOnce
  <2>4. Leased(m) \intersect Elements(m.freeAddr) = {}
    BY <1>1, <1>3, <1>4, <1>7
  <2> QED
    BY <2>2, <2>3, <2>4 DEF AddressUsedOnce
<1>10. Head(q) \notin Leased(mng)
  BY <1>3, <1>4
<1>11. m.num + Len(m.freeAddr) + 1 = MaxGroups
  BY <1>1, <1>2, <1>3, <1>5 DEF GroupMngOK, CountsAgree
<1>12. Leased(m) \union Elements(m.freeAddr) \union {Head(q)} = GroupAddress
  BY <1>1, <1>3, <1>7 DEF GroupMngOK, NoAddressLost
<1>13. IsFiniteSet(DOMAIN m.groups) /\ m.num = Cardinality(DOMAIN m.groups)
  BY <1>1 DEF GroupMngOK, CountsAgree
<1> QED
  BY <1>1, <1>3, <1>6, <1>7, <1>8, <1>9, <1>10, <1>11, <1>12, <1>13 DEF Short, m

(* What the failing paths of GroupMngAdd give back is what they took.      *)
LEMMA AddOK ==
    ASSUME NEW mng, NEW g, GroupMngOK(mng)
    PROVE  GroupMngOK(GroupMngAdd(mng, g))
<1> DEFINE err   == GroupMngAddErr(mng, g)
           addr  == Head(mng.freeAddr)
           taken == TakeAddress(mng)
           done  == Manager(HashMapInsert(taken.groups, g, GroupCreate(addr)),
                            taken.freeAddr, taken.num + 1)
<1> USE GroupMngAssumption
<1>1. CASE err \in {"GROUP_MNG_OVERFLOW", "GROUP_MNG_GET_ADDR_ERR"}
  BY <1>1 DEF GroupMngAdd
<1>2. CASE err \notin {"GROUP_MNG_OVERFLOW", "GROUP_MNG_GET_ADDR_ERR",
                       "GROUP_MNG_SUCCESS"}
  <2>1. mng.freeAddr # << >>
    BY <1>2 DEF GroupMngAddErr
  <2>2. Short(taken, addr)
    BY <2>1, TakenIsShort
  <2>3. GroupMngAdd(mng, g) = GiveBack(taken, addr)
    BY <1>2 DEF GroupMngAdd
  <2> HIDE DEF taken, addr
  <2> QED
    BY <2>2, <2>3, GiveBackOK
<1>3. CASE err = "GROUP_MNG_SUCCESS"
  <2>1. /\ mng.freeAddr # << >> /\ mng.num # MaxGroups
        /\ g \in FitName /\ g \notin DOMAIN mng.groups
    BY <1>3 DEF GroupMngAddErr, IsOpen
  <2>2. Short(taken, addr)
    BY <2>1, TakenIsShort
  <2>3. GroupMngAdd(mng, g) = done
    BY <1>3 DEF GroupMngAdd
  <2>4. taken.groups = mng.groups /\ taken.num = mng.num
    BY DEF TakeAddress, Manager
  <2> HIDE DEF taken, addr
  <2>5. /\ done.groups = HashMapInsert(mng.groups, g, GroupCreate(addr))
        /\ done.num = mng.num + 1
        /\ done.freeAddr = taken.freeAddr
        /\ done = Manager(done.groups, done.freeAddr, done.num)
    BY <2>4 DEF Manager
  <2> HIDE DEF done
  <2>6. /\ DOMAIN done.groups = DOMAIN mng.groups \union {g}
        /\ \A h \in DOMAIN mng.groups : done.groups[h] = mng.groups[h]
        /\ done.groups[g] = [addr |-> addr, users |-> 1]
        /\ done.groups = [h \in DOMAIN done.groups |-> done.groups[h]]
    BY <2>1, <2>5 DEF HashMapInsert, GroupCreate, GroupStruct
  <2>7. /\ addr \in GroupAddress
        /\ addr \notin Leased(mng)
        /\ addr \notin Elements(taken.freeAddr)
    BY <2>2, <2>4 DEF Short, Leased
  <2>8. Leased(done) = Leased(mng) \union {addr}
    BY <2>1, <2>6 DEF Leased
  <2>9. /\ mng.num \in Nat /\ taken.freeAddr \in Seq(GroupAddress)
        /\ Len(taken.freeAddr) \in Nat
        /\ mng.num + Len(taken.freeAddr) + 1 = MaxGroups
    BY <2>2, <2>4 DEF Short, GroupMngType
  <2>10. GroupMngType(done)
    <3>1. DOMAIN done.groups \in SUBSET FitName
      BY <2>1, <2>6 DEF GroupMngOK, GroupMngType
    <3>2. \A h \in DOMAIN mng.groups : done.groups[h] \in Group
      BY <2>6 DEF GroupMngOK, GroupMngType
    <3>3. done.groups[g] \in Group
      BY <2>6, <2>7 DEF Group
    <3> QED
      BY <2>5, <2>6, <2>9, <3>1, <3>2, <3>3 DEF GroupMngType
  <2>11. AddressUsedOnce(done)
    <3>1. ASSUME NEW h \in DOMAIN done.groups, NEW k \in DOMAIN done.groups,
                 done.groups[h].addr = done.groups[k].addr
          PROVE  h = k
      <4>1. \A x \in DOMAIN mng.groups : done.groups[x].addr # done.groups[g].addr
        BY <2>6, <2>7 DEF Leased
      <4>2. \A x, y \in DOMAIN mng.groups :
               done.groups[x].addr = done.groups[y].addr => x = y
        BY <2>6 DEF GroupMngOK, AddressUsedOnce
      <4> QED
        BY <2>6, <3>1, <4>1, <4>2
    <3>2. Leased(done) \intersect Elements(done.freeAddr) = {}
      <4>1. Leased(taken) = Leased(mng)
        BY <2>4 DEF Leased
      <4>2. Leased(mng) \intersect Elements(taken.freeAddr) = {}
        BY <2>2, <4>1 DEF Short, AddressUsedOnce
      <4> QED
        BY <2>5, <2>7, <2>8, <4>2
    <3> QED
      BY <2>2, <2>5, <3>1, <3>2 DEF Short, AddressUsedOnce
  <2>12. NoAddressLost(done)
    BY <2>2, <2>4, <2>5, <2>8 DEF Short, NoAddressLost, Leased
  <2>13. /\ IsFiniteSet(DOMAIN done.groups)
         /\ Cardinality(DOMAIN done.groups) = Cardinality(DOMAIN mng.groups) + 1
    <3>1. IsFiniteSet(DOMAIN mng.groups)
      BY DEF GroupMngOK, CountsAgree
    <3>2. \A S, x : IsFiniteSet(S) /\ x \notin S =>
            IsFiniteSet(S \union {x}) /\ Cardinality(S \union {x}) = Cardinality(S) + 1
      BY FS_AddElement
    <3>3. /\ IsFiniteSet(DOMAIN mng.groups \union {g})
          /\ Cardinality(DOMAIN mng.groups \union {g}) = Cardinality(DOMAIN mng.groups) + 1
      BY <2>1, <3>1, <3>2
    <3> QED
      BY <3>3, <2>6
  <2>14. CountsAgree(done)
    <3>1. mng.num = Cardinality(DOMAIN mng.groups)
      BY DEF GroupMngOK, CountsAgree
    <3> QED
      BY <2>5, <2>9, <2>13, <3>1 DEF CountsAgree
  <2> QED
    BY <2>3, <2>10, <2>11, <2>12, <2>14 DEF GroupMngOK
<1> QED
  BY <1>1, <1>2, <1>3

(* Counting seats leaves everything but m_numOfUsers alone.                *)
LEMMA WithUsersOK ==
    ASSUME NEW mng, NEW g \in DOMAIN mng.groups, NEW n \in Nat \ {0},
           GroupMngOK(mng)
    PROVE  GroupMngOK(WithUsers(mng, g, n))
<1> DEFINE m == WithUsers(mng, g, n)
<1>1. /\ m.groups = [mng.groups EXCEPT ![g] = GroupStruct(mng.groups[g].addr, n)]
      /\ m.freeAddr = mng.freeAddr /\ m.num = mng.num
      /\ m = Manager(m.groups, m.freeAddr, m.num)
  BY DEF WithUsers, Manager
<1> HIDE DEF m
<1>2. mng.groups = [h \in DOMAIN mng.groups |-> mng.groups[h]]
      /\ \A h \in DOMAIN mng.groups : mng.groups[h] \in Group
  BY DEF GroupMngOK, GroupMngType
<1>3. /\ DOMAIN m.groups = DOMAIN mng.groups
      /\ m.groups = [h \in DOMAIN m.groups |-> m.groups[h]]
      /\ \A h \in DOMAIN mng.groups : h # g => m.groups[h] = mng.groups[h]
      /\ m.groups[g] = [addr |-> mng.groups[g].addr, users |-> n]
  BY <1>1, <1>2 DEF GroupStruct
<1>4. \A h \in DOMAIN mng.groups : m.groups[h].addr = mng.groups[h].addr
  BY <1>3
<1>5. Leased(m) = Leased(mng)
  BY <1>3, <1>4 DEF Leased
<1>6. \A h \in DOMAIN m.groups : m.groups[h] \in Group
  BY <1>2, <1>3 DEF Group
<1>7. GroupMngType(m)
  BY <1>1, <1>3, <1>6 DEF GroupMngOK, GroupMngType
<1>8. AddressUsedOnce(m) /\ NoAddressLost(m) /\ CountsAgree(m)
  BY <1>1, <1>3, <1>4, <1>5
  DEF GroupMngOK, AddressUsedOnce, NoAddressLost, CountsAgree
<1> QED
  BY <1>7, <1>8 DEF GroupMngOK, m

(* GroupMngJoin preserves the invariant: it only raises m_numOfUsers.      *)
LEMMA JoinOK ==
    ASSUME NEW mng, NEW g, GroupMngOK(mng)
    PROVE  GroupMngOK(GroupMngJoin(mng, g))
<1>1. CASE IsOpen(mng, g)
  <2>1. g \in DOMAIN mng.groups /\ mng.groups[g].users + 1 \in Nat \ {0}
    BY <1>1 DEF IsOpen, GroupMngOK, GroupMngType, Group
  <2> QED
    BY <1>1, <2>1, WithUsersOK DEF GroupMngJoin, GroupConnect
<1> QED
  BY <1>1 DEF GroupMngJoin

(* Taking an open group out of the map leaves its address in nobody's      *)
(* hands, which is what GroupMngRemove puts right.                         *)
LEMMA RemovedIsShort ==
    ASSUME NEW mng, NEW g \in DOMAIN mng.groups, GroupMngOK(mng)
    PROVE  Short(Manager(HashMapRemove(mng.groups, g), mng.freeAddr, mng.num - 1),
                 mng.groups[g].addr)
<1> DEFINE m == Manager(HashMapRemove(mng.groups, g), mng.freeAddr, mng.num - 1)
           a == mng.groups[g].addr
<1> USE GroupMngAssumption
<1>1. /\ m.groups = HashMapRemove(mng.groups, g)
      /\ m.freeAddr = mng.freeAddr /\ m.num = mng.num - 1
      /\ m = Manager(m.groups, m.freeAddr, m.num)
  BY DEF Manager
<1> HIDE DEF m
<1>2. /\ DOMAIN m.groups = DOMAIN mng.groups \ {g}
      /\ m.groups = [h \in DOMAIN m.groups |-> m.groups[h]]
      /\ \A h \in DOMAIN m.groups : m.groups[h] = mng.groups[h]
  BY <1>1 DEF HashMapRemove
<1>3. /\ \A h \in DOMAIN mng.groups : mng.groups[h] \in Group
      /\ mng.num \in Nat /\ mng.num <= MaxGroups
      /\ mng.freeAddr \in Seq(GroupAddress) /\ Len(mng.freeAddr) \in Nat
  BY DEF GroupMngOK, GroupMngType
<1>4. Leased(mng) = Leased(m) \union {a}
  BY <1>2 DEF Leased
<1>5. a \in GroupAddress /\ a \notin Leased(m)
  BY <1>2, <1>3 DEF Leased, Group, GroupMngOK, AddressUsedOnce
<1>6. a \notin Elements(m.freeAddr)
  BY <1>1, <1>4 DEF GroupMngOK, AddressUsedOnce
<1>7. /\ IsFiniteSet(DOMAIN m.groups)
      /\ Cardinality(DOMAIN mng.groups) = Cardinality(DOMAIN m.groups) + 1
  <2>1. IsFiniteSet(DOMAIN mng.groups)
    BY DEF GroupMngOK, CountsAgree
  <2>2. /\ IsFiniteSet(DOMAIN mng.groups \ {g})
        /\ Cardinality(DOMAIN mng.groups \ {g}) = Cardinality(DOMAIN mng.groups) - 1
        /\ Cardinality(DOMAIN mng.groups) \in Nat
    BY <2>1, FS_RemoveElement, FS_CardinalityType
  <2> QED
    BY <2>2, <1>2
<1>8. /\ m.num \in 0 .. MaxGroups
      /\ m.num = Cardinality(DOMAIN m.groups)
      /\ m.num + Len(m.freeAddr) + 1 = MaxGroups
  <2>1. mng.num = Cardinality(DOMAIN mng.groups) /\ mng.num + Len(mng.freeAddr) = MaxGroups
    BY DEF GroupMngOK, CountsAgree
  <2>2. Cardinality(DOMAIN m.groups) \in Nat
    BY <1>7, FS_CardinalityType
  <2> QED
    BY <1>1, <1>3, <1>7, <2>1, <2>2
<1>9. GroupMngType(m)
  BY <1>1, <1>2, <1>3, <1>8 DEF GroupMngOK, GroupMngType
<1>10. AddressUsedOnce(m)
  BY <1>1, <1>2, <1>4 DEF GroupMngOK, AddressUsedOnce
<1>11. Leased(m) \union Elements(m.freeAddr) \union {a} = GroupAddress
  BY <1>1, <1>4 DEF GroupMngOK, NoAddressLost
<1> QED
  BY <1>5, <1>6, <1>7, <1>8, <1>9, <1>10, <1>11 DEF Short, m

(* The last seat gives the address back; any other only counts down.       *)
LEMMA LeaveOK ==
    ASSUME NEW mng, NEW g, GroupMngOK(mng)
    PROVE  GroupMngOK(GroupMngLeave(mng, g))
<1> DEFINE left == GroupDisconnect(mng, g)
           n    == mng.groups[g].users
<1>1. CASE ~IsOpen(mng, g)
  BY <1>1 DEF GroupMngLeave
<1>2. CASE IsOpen(mng, g)
  <2>1. g \in DOMAIN mng.groups /\ n \in Nat \ {0}
    BY <1>2 DEF IsOpen, GroupMngOK, GroupMngType, Group
  <2>2. mng.groups = [h \in DOMAIN mng.groups |-> mng.groups[h]]
    BY DEF GroupMngOK, GroupMngType
  <2>3. /\ left.groups = [mng.groups EXCEPT ![g] =
                             GroupStruct(mng.groups[g].addr, n - 1)]
        /\ left.freeAddr = mng.freeAddr /\ left.num = mng.num
    BY DEF GroupDisconnect, WithUsers, Manager
  <2>4. /\ DOMAIN left.groups = DOMAIN mng.groups
        /\ left.groups[g] = [addr |-> mng.groups[g].addr, users |-> n - 1]
        /\ \A h \in DOMAIN mng.groups : h # g => left.groups[h] = mng.groups[h]
    BY <2>1, <2>2, <2>3 DEF GroupStruct
  <2>5. CASE n = 1
    <3>1. GroupMngLeave(mng, g) = GroupMngRemove(left, g)
      <4>1. left.groups[g].users = 0
        BY <2>4, <2>5
      <4> QED
        BY <1>2, <4>1 DEF GroupMngLeave
    <3>2. HashMapRemove(left.groups, g) = HashMapRemove(mng.groups, g)
      BY <2>4 DEF HashMapRemove
    <3>3. left.groups[g].addr = mng.groups[g].addr
      BY <2>4
    <3>4. GroupMngRemove(left, g) =
            GiveBack(Manager(HashMapRemove(mng.groups, g), mng.freeAddr, mng.num - 1),
                     mng.groups[g].addr)
      BY <2>3, <3>2, <3>3 DEF GroupMngRemove
    <3> QED
      BY <2>1, <3>1, <3>4, RemovedIsShort, GiveBackOK
  <2>6. CASE n # 1
    <3>1. GroupMngLeave(mng, g) = WithUsers(mng, g, n - 1)
      <4>1. left.groups[g].users # 0
        BY <2>1, <2>4, <2>6
      <4> QED
        BY <1>2, <4>1 DEF GroupMngLeave, GroupDisconnect
    <3>2. n - 1 \in Nat \ {0}
      BY <2>1, <2>6
    <3> QED
      BY <2>1, <3>1, <3>2, WithUsersOK
  <2> QED
    BY <2>5, <2>6
<1> QED
  BY <1>1, <1>2

(* GroupMngRemove of an open group keeps the manager well-formed: its      *)
(* address is nobody's, and comes back.                                    *)
LEMMA RemoveOK ==
    ASSUME NEW mng, NEW g, GroupMngOK(mng), IsOpen(mng, g)
    PROVE  GroupMngOK(GroupMngRemove(mng, g))
<1>1. g \in DOMAIN mng.groups
  BY DEF IsOpen
<1> QED
  BY <1>1, RemovedIsShort, GiveBackOK DEF GroupMngRemove

(* OVERFLOW is answered before the queue can be found empty.               *)
LEMMA QueueNeverFoundEmpty ==
    ASSUME NEW mng, NEW g, GroupMngOK(mng)
    PROVE  GroupMngAddErr(mng, g) \in GroupMngErr \ {"GROUP_MNG_GET_ADDR_ERR"}
<1> USE GroupMngAssumption
<1>1. mng.num # MaxGroups => mng.freeAddr # << >>
  <2>1. mng.num + Len(mng.freeAddr) = MaxGroups /\ mng.num \in Nat
    BY DEF GroupMngOK, GroupMngType, CountsAgree
  <2>2. mng.freeAddr = << >> => Len(mng.freeAddr) = 0
    OBVIOUS
  <2> QED
    BY <2>1, <2>2
<1> QED
  BY <1>1 DEF GroupMngAddErr, GroupMngErr

-----------------------------------------------------------------------------
(* The user manager: reading the file *)

(* The file in whole lines of a name and a password: what FileAgrees says  *)
(* of its words, and which of them is which.                               *)
FileOK(file) ==
    /\ file \in Seq(Word)
    /\ Len(file) % 2 = 0
    /\ \A i \in Line(file) : LineName(file, i) \in UserName
                          /\ LinePass(file, i) \in Password

Named(file) == {LineName(file, i) : i \in Line(file)}

(* A set of line numbers that is not empty has a first one.                *)
LEMMA SmallestElement ==
    ASSUME NEW T \in SUBSET Nat, T # {}
    PROVE  \E m \in T : \A k \in T : m <= k
<1> DEFINE R == OpToRel(<, Nat)
<1>1. IsWellFoundedOn(R, Nat)
  BY NatLessThanWellFounded, Zenon
<1>2. \A i, j \in Nat : i < j => <<i, j>> \in R
  BY DEF OpToRel
<1> HIDE DEF R
<1>3. PICK x \in T : \A y \in T : ~ (<<y, x>> \in R)
  BY <1>1, WFMin
<1>4. ASSUME NEW k \in T
      PROVE  x <= k
  <2>1. x \in Nat /\ k \in Nat
    OBVIOUS
  <2>2. ~ (k < x)
    BY <1>2, <1>3, <2>1
  <2> QED
    BY <2>1, <2>2
<1> QED
  BY <1>4

(* Both words of a line are in the file.                                   *)
LEMMA LineInFile ==
    ASSUME NEW file, Len(file) \in Nat
    PROVE  /\ Line(file) \subseteq Nat \ {0}
           /\ \A i \in Line(file) : /\ 2 * i \in 1 .. Len(file)
                                    /\ 2 * i - 1 \in 1 .. Len(file)
BY DEF Line

(* The CHOOSE of FirstLine chooses: a name of the file has a first line.   *)
LEMMA FirstLineIs ==
    ASSUME NEW file, Len(file) \in Nat, NEW name \in Named(file)
    PROVE  /\ FirstLine(file, name) \in Line(file)
           /\ LineName(file, FirstLine(file, name)) = name
           /\ \A j \in Line(file) :
                LineName(file, j) = name => FirstLine(file, name) <= j
<1> DEFINE T == {i \in Line(file) : LineName(file, i) = name}
<1>1. T \in SUBSET Nat /\ T # {}
  BY LineInFile DEF Named
<1>2. \E m \in T : \A k \in T : m <= k
  BY <1>1, SmallestElement
<1>3. \E i \in Line(file) :
        /\ LineName(file, i) = name
        /\ \A j \in Line(file) : LineName(file, j) = name => i <= j
  BY <1>2
<1> QED
  BY <1>3 DEF FirstLine

(* ... and only one.                                                       *)
LEMMA FirstLineUnique ==
    ASSUME NEW file, Len(file) \in Nat, NEW i \in Line(file),
           \A j \in Line(file) : LineName(file, j) = LineName(file, i) => i <= j
    PROVE  FirstLine(file, LineName(file, i)) = i
<1> DEFINE name == LineName(file, i)
           k == FirstLine(file, name)
<1>1. name \in Named(file)
  BY DEF Named
<1>2. /\ k \in Line(file)
      /\ LineName(file, k) = name
      /\ \A j \in Line(file) : LineName(file, j) = name => k <= j
  BY <1>1, FirstLineIs
<1>3. i \in Nat /\ k \in Nat
  BY <1>2, LineInFile
<1> HIDE DEF k
<1>4. k <= i /\ i <= k
  BY <1>2
<1> QED
  BY <1>3, <1>4 DEF k

(* The account ReadUsers makes of a name.                                  *)
LEMMA ReadUsersIs ==
    ASSUME NEW file
    PROVE  /\ DOMAIN ReadUsers(file) = Named(file)
           /\ \A n \in Named(file) :
                ReadUsers(file)[n] = UserCreate(LinePass(file, FirstLine(file, n)))
BY DEF ReadUsers, Named

-----------------------------------------------------------------------------
(* The user manager: writing the file *)

(* A user that fits is written as one more line.                           *)
LEMMA WriteUserAddsLine ==
    ASSUME NEW file, FileOK(file), NEW name \in UserName, NEW pass \in Password,
           UserFits(name, pass)
    PROVE  LET new  == WriteUser(file, name, pass)
               last == Len(file) \div 2 + 1
           IN  /\ FileOK(new)
               /\ Line(new) = Line(file) \union {last}
               /\ last \notin Line(file) /\ last \in Nat
               /\ \A i \in Line(file) : /\ i < last
                                        /\ LineName(new, i) = LineName(file, i)
                                        /\ LinePass(new, i) = LinePass(file, i)
               /\ LineName(new, last) = name
               /\ LinePass(new, last) = pass
<1> DEFINE new  == WriteUser(file, name, pass)
           len  == Len(file)
           last == len \div 2 + 1
<1>1. file \in Seq(Word) /\ len \in Nat /\ len % 2 = 0
  BY DEF FileOK
<1>2. PICK h \in Nat : len = 2 * h /\ len \div 2 = h
  BY <1>1
<1>3. name \in Word /\ pass \in Word /\ name # EmptyString /\ pass # EmptyString
  BY DEF UserFits, Word
<1>4. new = file \o <<name>> \o <<pass>>
  BY <1>3 DEF WriteUser, Words
<1>5. /\ new \in Seq(Word) /\ Len(new) = len + 2
      /\ \A i \in 1 .. len : new[i] = file[i]
      /\ new[len + 1] = name /\ new[len + 2] = pass
  BY <1>1, <1>3, <1>4
<1> HIDE DEF new
<1>6. Len(new) % 2 = 0 /\ Len(new) \div 2 = h + 1
  BY <1>2, <1>5
<1>7. Line(file) = 1 .. h /\ Line(new) = 1 .. h + 1 /\ last = h + 1
  BY <1>2, <1>6 DEF Line
<1>8. ASSUME NEW i \in Line(file)
      PROVE  /\ i < last
             /\ LineName(new, i) = LineName(file, i)
             /\ LinePass(new, i) = LinePass(file, i)
  <2>1. i < last /\ 2 * i - 1 \in 1 .. len /\ 2 * i \in 1 .. len
    BY <1>2, <1>7
  <2> QED
    BY <1>5, <2>1 DEF LineName, LinePass
<1>9. LineName(new, last) = name /\ LinePass(new, last) = pass
  <2>1. 2 * last - 1 = len + 1 /\ 2 * last = len + 2
    BY <1>2, <1>7
  <2> QED
    BY <1>5, <2>1 DEF LineName, LinePass
<1>10. /\ Line(new) = Line(file) \union {last}
       /\ last \notin Line(file) /\ last \in Nat
  BY <1>2, <1>7
<1>11. FileOK(new)
  BY <1>5, <1>6, <1>8, <1>9, <1>10 DEF FileOK
<1> QED
  BY <1>8, <1>9, <1>10, <1>11 DEF new

(* What is read back after a write: the accounts of before, unchanged, and *)
(* the new one if its name is new.                                         *)
LEMMA WriteUserReads ==
    ASSUME NEW file, FileOK(file), NEW name \in UserName, NEW pass \in Password,
           UserFits(name, pass)
    PROVE  LET old == ReadUsers(file)
               new == ReadUsers(WriteUser(file, name, pass))
           IN  /\ DOMAIN new = DOMAIN old \union {name}
               /\ \A n \in DOMAIN old : new[n] = old[n]
               /\ name \notin DOMAIN old => new[name] = UserCreate(pass)
<1> DEFINE f    == WriteUser(file, name, pass)
           last == Len(file) \div 2 + 1
<1>1. /\ FileOK(f)
      /\ Line(f) = Line(file) \union {last}
      /\ last \notin Line(file) /\ last \in Nat
      /\ \A i \in Line(file) : /\ i < last
                               /\ LineName(f, i) = LineName(file, i)
                               /\ LinePass(f, i) = LinePass(file, i)
      /\ LineName(f, last) = name
      /\ LinePass(f, last) = pass
  BY WriteUserAddsLine
<1>2. Len(file) \in Nat /\ Len(f) \in Nat
  BY <1>1 DEF FileOK
<1> HIDE DEF f, last
<1>3. Named(f) = Named(file) \union {name}
  BY <1>1 DEF Named
<1>4. ASSUME NEW n \in Named(file)
      PROVE  LinePass(f, FirstLine(f, n)) = LinePass(file, FirstLine(file, n))
  <2> DEFINE i == FirstLine(file, n)
  <2>1. /\ i \in Line(file) /\ LineName(file, i) = n
        /\ \A j \in Line(file) : LineName(file, j) = n => i <= j
    BY <1>2, FirstLineIs
  <2>2. i \in Nat
    BY <1>2, <2>1, LineInFile
  <2> HIDE DEF i
  <2>3. /\ i \in Line(f) /\ LineName(f, i) = n
        /\ \A j \in Line(f) : LineName(f, j) = n => i <= j
    BY <1>1, <2>1, <2>2
  <2>4. FirstLine(f, n) = i
    BY <1>2, <2>3, FirstLineUnique
  <2> QED
    BY <1>1, <2>1, <2>4 DEF i
<1>5. ASSUME name \notin Named(file)
      PROVE  LinePass(f, FirstLine(f, name)) = pass
  <2>1. \A j \in Line(file) : LineName(f, j) # name
    BY <1>1, <1>5 DEF Named
  <2>2. last \in Line(f) /\ \A j \in Line(f) : LineName(f, j) = name => last <= j
    BY <1>1, <2>1
  <2>3. FirstLine(f, name) = last
    BY <1>1, <1>2, <2>2, FirstLineUnique
  <2> QED
    BY <1>1, <2>3
<1> QED
  BY <1>3, <1>4, <1>5, ReadUsersIs DEF f

-----------------------------------------------------------------------------
(* The user manager: the accounts *)

UserMngOK(users) == UserMngType(users) /\ ListsNeedSession(users)

(* A struct User is a record of its three fields.                          *)
LEMMA UserStructOK ==
    ASSUME NEW p \in Password \ {EmptyString}, NEW a \in BOOLEAN,
           NEW gs \in SUBSET GroupName
    PROVE  /\ UserStruct(p, a, gs) \in UserRecord
           /\ UserStruct(p, a, gs).pass = p
           /\ UserStruct(p, a, gs).active = a
           /\ UserStruct(p, a, gs).groups = gs
BY DEF UserStruct, UserRecord

(* A new user is inactive and has no list.                                 *)
LEMMA UserCreateOK ==
    ASSUME NEW p \in Password \ {EmptyString}
    PROVE  /\ UserCreate(p) \in UserRecord
           /\ UserCreate(p).pass = p
           /\ UserCreate(p).active = FALSE
           /\ UserCreate(p).groups = {}
BY DEF UserCreate, UserStruct, UserRecord

(* The fields of a user of a manager.                                      *)
LEMMA UserFields ==
    ASSUME NEW users, UserMngType(users), NEW n \in DOMAIN users
    PROVE  /\ n \in UserName \ {EmptyString}
           /\ users[n] \in UserRecord
           /\ users[n].pass \in Password \ {EmptyString}
           /\ users[n].active \in BOOLEAN
           /\ users[n].groups \in SUBSET GroupName
BY DEF UserMngType, UserRecord

(* UserMngCreate on whole lines: nobody is connected or in a group.        *)
LEMMA UserMngCreateOK ==
    ASSUME NEW file, FileOK(file)
    PROVE  /\ UserMngOK(UserMngCreate(file))
           /\ \A n \in DOMAIN UserMngCreate(file) :
                UserMngCreate(file)[n].active = FALSE
<1> DEFINE users == ReadUsers(file)
<1>1. file \in Seq(Word) /\ Len(file) \in Nat
  BY DEF FileOK
<1>2. ASSUME NEW n \in Named(file)
      PROVE  /\ n \in UserName \ {EmptyString}
             /\ users[n] \in UserRecord
             /\ users[n].active = FALSE /\ users[n].groups = {}
  <2> DEFINE i == FirstLine(file, n)
  <2>1. i \in Line(file) /\ LineName(file, i) = n
    BY <1>1, FirstLineIs
  <2> HIDE DEF i
  <2>2. 2 * i \in 1 .. Len(file) /\ 2 * i - 1 \in 1 .. Len(file)
    BY <1>1, <2>1, LineInFile
  <2>3. LineName(file, i) \in Word /\ LinePass(file, i) \in Word
    BY <1>1, <2>2 DEF LineName, LinePass
  <2>4. n \in UserName \ {EmptyString} /\ LinePass(file, i) \in Password \ {EmptyString}
    BY <2>1, <2>3 DEF FileOK, Word
  <2>5. users[n] = UserCreate(LinePass(file, i))
    BY ReadUsersIs DEF i
  <2> QED
    BY <2>4, <2>5, UserCreateOK
<1>3. DOMAIN users = Named(file) /\ users = [n \in DOMAIN users |-> users[n]]
  BY ReadUsersIs DEF ReadUsers
<1> HIDE DEF users
<1>4. UserMngType(users)
  BY <1>2, <1>3 DEF UserMngType
<1>5. ListsNeedSession(users)
  BY <1>2, <1>3 DEF ListsNeedSession
<1> QED
  BY <1>2, <1>3, <1>4, <1>5 DEF UserMngCreate, UserMngOK, users

(* WithUser changes one user.                                              *)
LEMMA WithUserIs ==
    ASSUME NEW users, UserMngType(users), NEW n \in DOMAIN users, NEW user
    PROVE  LET new == WithUser(users, n, user)
           IN  /\ DOMAIN new = DOMAIN users
               /\ new = [k \in DOMAIN new |-> new[k]]
               /\ new[n] = user
               /\ \A k \in DOMAIN users : k # n => new[k] = users[k]
<1>1. users = [k \in DOMAIN users |-> users[k]]
  BY DEF UserMngType
<1>2. WithUser(users, n, user) =
        [k \in DOMAIN users |-> IF k = n THEN user ELSE users[k]]
  BY <1>1 DEF WithUser
<1> QED
  BY <1>2

(* Giving a user another value of its record.                              *)
LEMMA WithUserOK ==
    ASSUME NEW users, UserMngOK(users), NEW n \in DOMAIN users,
           NEW user \in UserRecord, user.groups # {} => user.active
    PROVE  UserMngOK(WithUser(users, n, user))
<1> DEFINE new == WithUser(users, n, user)
<1>1. /\ DOMAIN new = DOMAIN users
      /\ new = [k \in DOMAIN new |-> new[k]]
      /\ new[n] = user
      /\ \A k \in DOMAIN users : k # n => new[k] = users[k]
  BY WithUserIs DEF UserMngOK
<1> HIDE DEF new
<1>2. \A k \in DOMAIN new : new[k] \in UserRecord
  BY <1>1, UserFields DEF UserMngOK
<1>3. UserMngType(new)
  BY <1>1, <1>2 DEF UserMngOK, UserMngType
<1>4. ListsNeedSession(new)
  BY <1>1 DEF UserMngOK, ListsNeedSession
<1> QED
  BY <1>3, <1>4 DEF UserMngOK, new

(* UserMngAdd adds the account it was asked for or nothing.                *)
LEMMA UserAddOK ==
    ASSUME NEW users, UserMngOK(users), NEW name \in UserName, NEW pass \in Password
    PROVE  LET new   == UserAdd(users, name, pass)
               added == UserMngAddErr(users, name, pass) = "USER_MNG_USER_ADDED"
           IN  /\ UserMngOK(new)
               /\ \A n \in DOMAIN users : n \in DOMAIN new /\ new[n] = users[n]
               /\ added => /\ UserFits(name, pass)
                           /\ name \notin DOMAIN users
                           /\ DOMAIN new = DOMAIN users \union {name}
                           /\ new[name] = UserCreate(pass)
               /\ ~added => new = users
<1> DEFINE new   == UserAdd(users, name, pass)
           added == UserMngAddErr(users, name, pass) = "USER_MNG_USER_ADDED"
<1>1. CASE ~added
  BY <1>1 DEF UserAdd
<1>2. CASE added
  <2>1. UserFits(name, pass) /\ name \notin DOMAIN users
    BY <1>2 DEF UserMngAddErr
  <2>2. new = HashMapInsert(users, name, UserCreate(pass))
    BY <1>2 DEF UserAdd
  <2>3. /\ DOMAIN new = DOMAIN users \union {name}
        /\ new[name] = UserCreate(pass)
        /\ \A n \in DOMAIN users : new[n] = users[n]
        /\ new = [n \in DOMAIN new |-> new[n]]
    BY <2>1, <2>2 DEF HashMapInsert
  <2> HIDE DEF new, added
  <2>4. /\ UserCreate(pass) \in UserRecord
        /\ UserCreate(pass).groups = {}
    BY <2>1, UserCreateOK DEF UserFits
  <2>5. \A n \in DOMAIN new : n \in UserName \ {EmptyString} /\ new[n] \in UserRecord
    BY <2>1, <2>3, <2>4, UserFields DEF UserMngOK, UserFits
  <2>6. UserMngType(new)
    BY <2>3, <2>5 DEF UserMngType
  <2>7. ListsNeedSession(new)
    BY <2>3, <2>4 DEF UserMngOK, ListsNeedSession
  <2> QED
    BY <1>2, <2>1, <2>3, <2>6, <2>7 DEF UserMngOK, new, added
<1> QED
  BY <1>1, <1>2

(* UserMngRemove takes one account away and leaves the others as they are. *)
LEMMA UserMngRemoveOK ==
    ASSUME NEW users, UserMngOK(users), NEW name
    PROVE  /\ UserMngOK(UserMngRemove(users, name))
           /\ DOMAIN UserMngRemove(users, name) = DOMAIN users \ {name}
           /\ \A n \in DOMAIN users \ {name} :
                UserMngRemove(users, name)[n] = users[n]
<1> DEFINE new == UserMngRemove(users, name)
<1>1. /\ DOMAIN new = DOMAIN users \ {name}
      /\ \A n \in DOMAIN new : new[n] = users[n]
      /\ new = [n \in DOMAIN new |-> new[n]]
  BY DEF UserMngRemove, HashMapRemove
<1> HIDE DEF new
<1>2. \A n \in DOMAIN new : n \in UserName \ {EmptyString} /\ new[n] \in UserRecord
  BY <1>1, UserFields DEF UserMngOK
<1>3. UserMngType(new)
  BY <1>1, <1>2 DEF UserMngType
<1>4. ListsNeedSession(new)
  BY <1>1 DEF UserMngOK, ListsNeedSession
<1> QED
  BY <1>1, <1>3, <1>4 DEF UserMngOK, new

(* The calls of a session touch no password and no other user.             *)
SameAccounts(users, new) ==
    /\ DOMAIN new = DOMAIN users
    /\ \A n \in DOMAIN users : new[n].pass = users[n].pass

(* The calls give one user another struct, or refuse and change nothing.   *)
LEMMA ConnectIs ==
    ASSUME NEW users, NEW name, NEW pass
    PROVE  LET ok == UserMngConnectErr(users, name, pass) = "USER_MNG_SUCCESS"
           IN  /\ ok => /\ name \in DOMAIN users /\ users[name].pass = pass
                        /\ ~users[name].active
                        /\ UserMngConnect(users, name, pass) =
                             WithUser(users, name, UserStruct(pass, TRUE, {}))
               /\ ~ok => UserMngConnect(users, name, pass) = users
BY DEF UserMngConnect, UserMngConnectErr

(* UserMngDisconnect changes one flag.                                     *)
LEMMA DisconnectIs ==
    ASSUME NEW users, NEW name
    PROVE  /\ name \in DOMAIN users =>
                UserMngDisconnect(users, name) =
                    WithUser(users, name, UserStruct(users[name].pass, FALSE, {}))
           /\ name \notin DOMAIN users => UserMngDisconnect(users, name) = users
BY DEF UserMngDisconnect

(* UserMngGroupJoined adds one name to one list.                           *)
LEMMA GroupJoinedIs ==
    ASSUME NEW users, NEW name, NEW g
    PROVE  LET ok == UserMngGroupJoinedErr(users, name, g) = "USER_MNG_SUCCESS"
           IN  /\ ok => /\ name \in DOMAIN users /\ users[name].active
                        /\ g \notin users[name].groups
                        /\ UserMngGroupJoined(users, name, g) =
                             WithUser(users, name,
                                UserStruct(users[name].pass, TRUE,
                                           users[name].groups \union {g}))
               /\ ~ok => UserMngGroupJoined(users, name, g) = users
BY DEF UserMngGroupJoined, UserMngGroupJoinedErr

(* UserMngGroupLeft takes one name off one list.                           *)
LEMMA GroupLeftIs ==
    ASSUME NEW users, NEW name, NEW g
    PROVE  LET ok == UserMngGroupLeftErr(users, name, g) = "USER_MNG_SUCCESS"
           IN  /\ ok => /\ name \in DOMAIN users /\ g \in users[name].groups
                        /\ UserMngGroupLeft(users, name, g) =
                             WithUser(users, name,
                                UserStruct(users[name].pass, users[name].active,
                                           users[name].groups \ {g}))
               /\ ~ok => UserMngGroupLeft(users, name, g) = users
BY DEF UserMngGroupLeft, UserMngGroupLeftErr

(* A login, logout, join or leave of one name, accepted or refused.        *)
LEMMA SessionCallOK ==
    ASSUME NEW users, UserMngOK(users), NEW name, NEW pass, NEW g, NEW new,
           \/ new = UserMngConnect(users, name, pass)
           \/ new = UserMngDisconnect(users, name)
           \/ g \in GroupName /\ new = UserMngGroupJoined(users, name, g)
           \/ new = UserMngGroupLeft(users, name, g)
    PROVE  /\ UserMngOK(new)
           /\ SameAccounts(users, new)
<1> DEFINE user == users[name]
<1>1. CASE new = users
  BY <1>1 DEF SameAccounts
<1>2. CASE new # users
  <2>1. name \in DOMAIN users
    BY <1>2 DEF UserMngConnect, UserMngConnectErr, UserMngDisconnect,
                UserMngGroupJoined, UserMngGroupJoinedErr,
                UserMngGroupLeft, UserMngGroupLeftErr
  <2>2. /\ user.pass \in Password \ {EmptyString}
        /\ user.active \in BOOLEAN
        /\ user.groups \in SUBSET GroupName
        /\ user.groups # {} => user.active
    BY <2>1, UserFields DEF UserMngOK, ListsNeedSession
  <2>3. \E a \in BOOLEAN, gs \in SUBSET GroupName :
            /\ gs # {} => a
            /\ new = WithUser(users, name, UserStruct(user.pass, a, gs))
    <3>1. CASE new = UserMngConnect(users, name, pass)
      <4>1. new = WithUser(users, name, UserStruct(user.pass, TRUE, {}))
        BY <1>2, <3>1, <2>1 DEF UserMngConnect, UserMngConnectErr
      <4> QED
        BY <4>1
    <3>2. CASE new = UserMngDisconnect(users, name)
      <4>1. new = WithUser(users, name, UserStruct(user.pass, FALSE, {}))
        BY <3>2, <2>1, DisconnectIs
      <4> QED
        BY <4>1
    <3>3. CASE g \in GroupName /\ new = UserMngGroupJoined(users, name, g)
      <4>1. new = WithUser(users, name,
                           UserStruct(user.pass, TRUE, user.groups \union {g}))
        BY <1>2, <3>3, GroupJoinedIs
      <4>2. user.groups \union {g} \in SUBSET GroupName
        BY <2>2, <3>3
      <4> QED
        BY <4>1, <4>2
    <3>4. CASE new = UserMngGroupLeft(users, name, g)
      <4>1. new = WithUser(users, name,
                           UserStruct(user.pass, user.active, user.groups \ {g}))
        BY <1>2, <3>4, GroupLeftIs
      <4>2. /\ user.groups \ {g} \in SUBSET GroupName
            /\ user.groups \ {g} # {} => user.active
        BY <2>2
      <4> QED
        BY <2>2, <4>1, <4>2
    <3> QED
      BY <3>1, <3>2, <3>3, <3>4
  <2>4. PICK a \in BOOLEAN, gs \in SUBSET GroupName :
            /\ gs # {} => a
            /\ new = WithUser(users, name, UserStruct(user.pass, a, gs))
    BY <2>3
  <2> DEFINE u == UserStruct(user.pass, a, gs)
  <2>5. /\ u \in UserRecord /\ u.pass = user.pass /\ u.active = a /\ u.groups = gs
    BY <2>2, UserStructOK
  <2> HIDE DEF u
  <2>6. u.groups # {} => u.active
    BY <2>4, <2>5
  <2>7. UserMngOK(new)
    BY <2>1, <2>4, <2>5, <2>6, WithUserOK DEF u
  <2>8. /\ DOMAIN new = DOMAIN users
        /\ new[name] = u
        /\ \A k \in DOMAIN users : k # name => new[k] = users[k]
    BY <2>1, <2>4, WithUserIs DEF UserMngOK, u
  <2> QED
    BY <2>5, <2>7, <2>8 DEF SameAccounts
<1> QED
  BY <1>1, <1>2

-----------------------------------------------------------------------------
(* The user manager: the accounts and the file *)

(* FileAgrees keeps holding when the file does not change, as long as the  *)
(* accounts it brings back keep their passwords.                           *)
LEMMA SameFileAgrees ==
    ASSUME NEW file, NEW old, NEW kept, FileAgrees(file, old, kept),
           NEW new, NEW still, still \subseteq kept,
           \A n \in still \intersect DOMAIN old :
                n \in DOMAIN new /\ new[n].pass = old[n].pass
    PROVE  FileAgrees(file, new, still)
BY DEF FileAgrees

(* A restart reads nothing but what the file says.                         *)
LEMMA FileAgreesWithItself ==
    ASSUME NEW file, FileOK(file), NEW kept
    PROVE  FileAgrees(file, UserMngCreate(file), kept)
BY DEF FileOK, FileAgrees, UserMngCreate

(* Adding a user, written or not: a name of the file that is added again   *)
(* is one that FileAgrees promises nothing of.                             *)
LEMMA SavedAfterAddOK ==
    ASSUME NEW users, UserMngOK(users), NEW file, FileOK(file),
           NEW kept, FileAgrees(file, users, kept),
           NEW name \in UserName, NEW pass \in Password,
           NEW saved \in SavedAfterAdd(users, file, name, pass)
    PROVE  FileOK(saved) /\ FileAgrees(saved, UserAdd(users, name, pass), kept)
<1> DEFINE more  == UserAdd(users, name, pass)
           added == UserMngAddErr(users, name, pass) = "USER_MNG_USER_ADDED"
<1>1. /\ \A n \in DOMAIN users : n \in DOMAIN more /\ more[n] = users[n]
      /\ added => /\ UserFits(name, pass)
                  /\ name \notin DOMAIN users
                  /\ DOMAIN more = DOMAIN users \union {name}
                  /\ more[name] = UserCreate(pass)
  BY UserAddOK
<1>2. saved = file \/ (added /\ saved = WriteUser(file, name, pass))
  BY DEF SavedAfterAdd
<1> HIDE DEF more, added
<1>3. CASE saved = file
  <2>1. FileAgrees(file, more, kept)
    BY <1>1, SameFileAgrees
  <2> QED
    BY <1>3, <2>1 DEF more
<1>4. CASE added /\ saved = WriteUser(file, name, pass)
  <2> DEFINE old == ReadUsers(file)
             new == ReadUsers(saved)
  <2>1. FileOK(saved)
    BY <1>1, <1>4, WriteUserAddsLine
  <2>2. /\ DOMAIN new = DOMAIN old \union {name}
        /\ \A n \in DOMAIN old : new[n] = old[n]
        /\ name \notin DOMAIN old => new[name] = UserCreate(pass)
    <3>1. UserFits(name, pass)
      BY <1>1, <1>4
    <3>2. LET now   == ReadUsers(file)
              after == ReadUsers(WriteUser(file, name, pass))
          IN  /\ DOMAIN after = DOMAIN now \union {name}
              /\ \A n \in DOMAIN now : after[n] = now[n]
              /\ name \notin DOMAIN now => after[name] = UserCreate(pass)
      BY <3>1, WriteUserReads
    <3> QED
      BY <1>4, <3>2
  <2>3. \A n \in kept \intersect DOMAIN old :
            n \in DOMAIN users /\ old[n].pass = users[n].pass
    BY DEF FileAgrees
  <2> HIDE DEF old, new
  <2>4. \A n \in kept \intersect DOMAIN new :
            n \in DOMAIN more /\ new[n].pass = more[n].pass
    BY <1>1, <1>4, <2>2, <2>3
  <2> QED
    BY <2>1, <2>4 DEF FileOK, FileAgrees, new, more
<1> QED
  BY <1>2, <1>3, <1>4
=============================================================================
