-------------------------- MODULE OrderLockProofs --------------------------
(***************************************************************************)
(* Theorems about OrderLock, for any number of workers, nodes and orders.   *)
(***************************************************************************)
EXTENDS OrderLock, FiniteSetTheorems, TLAPS

(* The references to a mutex are finitely many. *)
LEMMA ReferencesFinite ==
    ASSUME NEW m
    PROVE  IsFiniteSet(References(m)) /\ Cardinality(References(m)) \in Nat
<1>1. References(m) \subseteq Workers
  BY DEF References
<1> QED
  BY <1>1, LockAssumption, FS_Subset, FS_CardinalityType

(* A worker that takes a reference raises the number by one. *)
LEMMA ReferenceTaken ==
    ASSUME NEW w \in Workers, NEW m, LockTypeOK, rcm[w] # m,
           rcm' = [rcm EXCEPT ![w] = m]
    PROVE  Cardinality(References(m)') = Cardinality(References(m)) + 1
<1>1. References(m)' = References(m) \cup {w}
  BY DEF References, LockTypeOK
<1>2. w \notin References(m)
  BY DEF References
<1> QED
  BY <1>1, <1>2, ReferencesFinite, FS_AddElement

(* A worker that drops its reference lowers it by one. *)
LEMMA ReferenceDropped ==
    ASSUME NEW w \in Workers, NEW m \in Mutexes, LockTypeOK, rcm[w] = m,
           rcm' = [rcm EXCEPT ![w] = NoMutex]
    PROVE  Cardinality(References(m)') = Cardinality(References(m)) - 1
<1>1. References(m)' = References(m) \ {w}
  BY LockAssumption DEF References, LockTypeOK
<1>2. w \in References(m)
  BY DEF References
<1> QED
  BY <1>1, <1>2, ReferencesFinite, FS_RemoveElement

(* References to other mutexes stay what they are. *)
LEMMA ReferencesElsewhere ==
    ASSUME NEW w \in Workers, NEW m, NEW k, LockTypeOK, k # m, k # rcm[w],
           rcm' = [rcm EXCEPT ![w] = m]
    PROVE  References(k)' = References(k)
BY DEF References, LockTypeOK
-----------------------------------------------------------------------------
(* Every action keeps the types. *)
LEMMA LockTypeStep ==
    ASSUME LockInv, LockNext
    PROVE  LockTypeOK'
<1> USE LockAssumption DEF LockInv, LockTypeOK
<1>0. PICK w \in Workers : \/ \E o \in Orders : LockOrder(w, o)
                           \/ LockMutex(w) \/ UnlockMutex(w) \/ DropReference(w)
  BY DEF LockNext
<1>1. ASSUME NEW o \in Orders, LockOrder(w, o) PROVE LockTypeOK'
  <2>1. PICK m \in Mutexes :
         /\ orderLocks' = [orderLocks EXCEPT ![node[w]][o] = m]
         /\ refCount' = [refCount EXCEPT ![m] =
                (IF orderLocks[node[w]][o] = m THEN @ ELSE 0) + 1]
         /\ mu' = [mu EXCEPT ![m] = orderLocks[node[w]][o] = m /\ @]
         /\ rcm' = [rcm EXCEPT ![w] = m]
    BY <1>1 DEF LockOrder
  <2>2. mu' \in [Mutexes -> BOOLEAN]
    BY <2>1, Zenon
  <2> QED
    BY <1>1, <2>1, <2>2 DEF LockOrder
<1>2. CASE LockMutex(w)
  BY <1>2 DEF LockMutex, EntryInv
<1>3. CASE UnlockMutex(w)
  <2>1. lockPc[w] = "in" /\ lockOf[w] \in Orders
    BY <1>3 DEF UnlockMutex, EntryInv
  <2> QED
    BY <1>3, <2>1 DEF UnlockMutex
<1>4. CASE DropReference(w)
  <2>1. /\ lockOf[w] \in Orders /\ rcm[w] \in Mutexes
        /\ orderLocks[node[w]][lockOf[w]] = rcm[w]
        /\ refCount[rcm[w]] > 0
    BY <1>4 DEF DropReference, EntryInv
  <2>2. refCount[rcm[w]] - 1 \in Nat
    BY <2>1
  <2> QED
    BY <1>4, <2>1, <2>2 DEF DropReference
<1> QED
  BY <1>0, <1>1, <1>2, <1>3, <1>4

(* LockOrder keeps the invariant. *)
LEMMA LockOrderStep ==
    ASSUME LockInv, NEW w \in Workers, NEW o \in Orders, LockOrder(w, o), LockTypeOK'
    PROVE  EntryInv' /\ OwnerInv'
<1> USE LockAssumption
<1>1. PICK m \in Mutexes :
         /\ \/ orderLocks[node[w]][o] = m
            \/ orderLocks[node[w]][o] = NoMutex /\ Fresh(m)
         /\ orderLocks' = [orderLocks EXCEPT ![node[w]][o] = m]
         /\ refCount' = [refCount EXCEPT ![m] =
                (IF orderLocks[node[w]][o] = m THEN @ ELSE 0) + 1]
         /\ mu' = [mu EXCEPT ![m] = orderLocks[node[w]][o] = m /\ @]
         /\ rcm' = [rcm EXCEPT ![w] = m]
  BY DEF LockOrder
<1>2. /\ LockTypeOK /\ EntryInv /\ OwnerInv
      /\ lockPc[w] = "out" /\ rcm[w] = NoMutex /\ node' = node
      /\ lockPc' = [lockPc EXCEPT ![w] = "wait"]
      /\ lockOf' = [lockOf EXCEPT ![w] = o]
  BY DEF LockOrder, LockInv, EntryInv
<1>3. ASSUME NEW n \in Nodes, NEW p \in Orders, n # node[w] \/ p # o
      PROVE  orderLocks'[n][p] = orderLocks[n][p] /\ orderLocks[n][p] # m
  BY <1>1, <1>2, <1>3 DEF LockTypeOK, EntryInv, Fresh
<1>4. orderLocks'[node[w]][o] = m
  BY <1>1, <1>2 DEF LockTypeOK
<1>5. \A v \in Workers : v # w => /\ rcm'[v] = rcm[v] /\ lockPc'[v] = lockPc[v]
                                  /\ lockOf'[v] = lockOf[v]
  BY <1>1, <1>2 DEF LockTypeOK
<1>6. rcm'[w] = m /\ lockPc'[w] = "wait" /\ lockOf'[w] = o
  BY <1>1, <1>2 DEF LockTypeOK
<1>7. ASSUME NEW v \in Workers
      PROVE  IF lockPc'[v] = "out"
             THEN rcm'[v] = NoMutex /\ lockOf'[v] = NoOrder
             ELSE /\ lockOf'[v] \in Orders
                  /\ rcm'[v] \in Mutexes
                  /\ orderLocks'[node'[v]][lockOf'[v]] = rcm'[v]
  <2>1. CASE v = w
    BY <1>2, <1>4, <1>6, <2>1
  <2>2. CASE v # w /\ lockPc[v] # "out"
    <3>1. CASE node[v] = node[w] /\ lockOf[v] = o
      <4>1. orderLocks[node[w]][o] = rcm[v] /\ rcm[v] \in Mutexes
        BY <1>2, <2>2, <3>1 DEF EntryInv
      <4>2. orderLocks[node[w]][o] = m
        BY <1>1, <4>1
      <4> QED
        BY <1>2, <1>4, <1>5, <2>2, <3>1, <4>1, <4>2 DEF EntryInv
    <3>2. CASE node[v] # node[w] \/ lockOf[v] # o
      <4>1. lockOf[v] \in Orders /\ node[v] \in Nodes
        BY <1>2, <2>2 DEF EntryInv, LockTypeOK
      <4> QED
        BY <1>2, <1>3, <1>5, <2>2, <3>2, <4>1 DEF EntryInv
    <3> QED
      BY <3>1, <3>2
  <2>3. CASE v # w /\ lockPc[v] = "out"
    BY <1>2, <1>5, <2>3 DEF EntryInv
  <2> QED
    BY <2>1, <2>2, <2>3
<1>8. ASSUME NEW n1 \in Nodes, NEW n2 \in Nodes, NEW o1 \in Orders, NEW o2 \in Orders,
             orderLocks'[n1][o1] = orderLocks'[n2][o2], orderLocks'[n1][o1] # NoMutex
      PROVE  n1 = n2 /\ o1 = o2
  <2>1. CASE n1 = node[w] /\ o1 = o
    BY <1>3, <1>4, <1>8, <2>1
  <2>2. CASE n2 = node[w] /\ o2 = o
    BY <1>3, <1>4, <1>8, <2>2
  <2>3. CASE (n1 # node[w] \/ o1 # o) /\ (n2 # node[w] \/ o2 # o)
    BY <1>2, <1>3, <1>8, <2>3 DEF EntryInv
  <2> QED
    BY <2>1, <2>2, <2>3
<1>9. refCount'[m] = Cardinality(References(m)') /\ refCount'[m] > 0
  <2>1. Cardinality(References(m)') = Cardinality(References(m)) + 1
    BY <1>1, <1>2, ReferenceTaken
  <2>2. CASE orderLocks[node[w]][o] = m
    <3>1. refCount[m] = Cardinality(References(m)) /\ refCount[m] > 0
      <4>1. node[w] \in Nodes
        BY <1>2 DEF LockTypeOK
      <4> QED
        BY <1>2, <2>2, <4>1 DEF EntryInv
    <3>2. refCount'[m] = refCount[m] + 1
      BY <1>1, <1>2, <2>2 DEF LockTypeOK
    <3> QED
      BY <1>2, <2>1, <3>1, <3>2 DEF LockTypeOK
  <2>3. CASE orderLocks[node[w]][o] # m
    <3>1. References(m) = {}
      BY <1>1, <2>3 DEF References, Fresh
    <3>2. refCount'[m] = 1
      BY <1>1, <1>2, <2>3 DEF LockTypeOK
    <3> QED
      <4>1. Cardinality(References(m)) = 0
        BY <3>1, FS_EmptySet
      <4> QED
        BY <2>1, <3>2, <4>1
  <2> QED
    BY <2>2, <2>3
<1>10. ASSUME NEW n \in Nodes, NEW p \in Orders, NEW k \in Mutexes, orderLocks'[n][p] = k
       PROVE  refCount'[k] = Cardinality(References(k)') /\ refCount'[k] > 0
  <2>1. CASE n = node[w] /\ p = o
    BY <1>4, <1>9, <1>10, <2>1
  <2>2. CASE n # node[w] \/ p # o
    <3>1. orderLocks[n][p] = k /\ k # m /\ k # rcm[w]
      BY <1>2, <1>3, <1>10, <2>2
    <3>2. References(k)' = References(k)
      BY <1>1, <1>2, <3>1, ReferencesElsewhere
    <3>3. refCount'[k] = refCount[k]
      BY <1>1, <1>2, <3>1 DEF LockTypeOK
    <3> QED
      BY <1>2, <3>1, <3>2, <3>3 DEF EntryInv
  <2> QED
    BY <2>1, <2>2
<1>11. EntryInv'
  BY <1>7, <1>8, <1>10 DEF EntryInv
<1>12. ASSUME NEW v \in Workers, lockPc'[v] = "in" PROVE mu'[rcm'[v]]
  <2>1. v # w /\ lockPc[v] = "in" /\ rcm'[v] = rcm[v]
    BY <1>5, <1>6, <1>12
  <2>2. mu[rcm[v]] /\ rcm[v] \in Mutexes
    BY <1>2, <2>1 DEF OwnerInv, EntryInv
  <2>3. rcm[v] = m => orderLocks[node[w]][o] = m
    BY <1>1, <2>2 DEF Fresh
  <2>4. CASE rcm[v] = m
    <3>1. mu'[m] = (orderLocks[node[w]][o] = m /\ mu[m])
      BY <1>1, <1>2 DEF LockTypeOK
    <3> QED
      BY <2>1, <2>2, <2>3, <2>4, <3>1
  <2>5. CASE rcm[v] # m
    BY <1>1, <1>2, <2>1, <2>2, <2>5 DEF LockTypeOK
  <2> QED
    BY <2>4, <2>5
<1>13. OwnerInv'
  BY <1>2, <1>5, <1>6, <1>12 DEF OwnerInv
<1> QED
  BY <1>11, <1>13

(* Locking the mutex keeps it: it was free, so nobody was inside. *)
LEMMA LockMutexStep ==
    ASSUME LockInv, NEW w \in Workers, LockMutex(w)
    PROVE  EntryInv' /\ OwnerInv'
<1>1. /\ LockTypeOK /\ EntryInv /\ OwnerInv
      /\ lockPc[w] = "wait" /\ ~mu[rcm[w]] /\ rcm[w] \in Mutexes
      /\ mu' = [mu EXCEPT ![rcm[w]] = TRUE]
      /\ lockPc' = [lockPc EXCEPT ![w] = "in"]
      /\ UNCHANGED <<node, orderLocks, refCount, lockOf, rcm>>
  BY DEF LockMutex, LockInv, EntryInv
<1>2. \A m : References(m)' = References(m)
  BY <1>1 DEF References
<1>3. \A v \in Workers : v # w => lockPc'[v] = lockPc[v]
  BY <1>1 DEF LockTypeOK
<1>4. lockPc'[w] = "in"
  BY <1>1 DEF LockTypeOK
<1>5. EntryInv'
  BY <1>1, <1>2, <1>3, <1>4 DEF EntryInv
<1>6. \A m \in Mutexes : mu[m] => mu'[m]
  BY <1>1 DEF LockTypeOK
<1>7. mu'[rcm[w]]
  BY <1>1 DEF LockTypeOK
<1>8. ASSUME NEW v \in Workers, lockPc'[v] = "in" PROVE mu'[rcm'[v]]
  <2>1. CASE v = w
    BY <1>1, <1>7, <2>1
  <2>2. CASE v # w
    <3>1. lockPc[v] = "in" /\ mu[rcm[v]] /\ rcm[v] \in Mutexes
      BY <1>1, <1>3, <1>8, <2>2 DEF OwnerInv, EntryInv
    <3> QED
      BY <1>1, <1>6, <3>1
  <2> QED
    BY <2>1, <2>2
<1>9. ASSUME NEW v \in Workers, lockPc[v] = "in" PROVE rcm[v] # rcm[w]
  BY <1>1, <1>9 DEF OwnerInv
<1>10. OwnerInv'
  BY <1>1, <1>3, <1>4, <1>8, <1>9 DEF OwnerInv
<1> QED
  BY <1>5, <1>10

(* UnlockOrder unlocks the mutex it locked, whose only owner it was. *)
LEMMA UnlockMutexStep ==
    ASSUME LockInv, NEW w \in Workers, UnlockMutex(w)
    PROVE  EntryInv' /\ OwnerInv'
<1>1. /\ LockTypeOK /\ EntryInv /\ OwnerInv
      /\ lockPc[w] = "in" /\ rcm[w] \in Mutexes
      /\ orderLocks[node[w]][lockOf[w]] = rcm[w]
  BY DEF UnlockMutex, LockInv, EntryInv
<1>2. /\ mu' = [mu EXCEPT ![rcm[w]] = FALSE]
      /\ rcm' = rcm
      /\ lockPc' = [lockPc EXCEPT ![w] = "left"]
      /\ lockOf' = lockOf
      /\ UNCHANGED <<node, orderLocks, refCount>>
  BY <1>1, LockAssumption DEF UnlockMutex, LockTypeOK
<1>3. \A m : References(m)' = References(m)
  BY <1>2 DEF References
<1>4. \A v \in Workers : v # w => lockPc'[v] = lockPc[v]
  BY <1>1, <1>2 DEF LockTypeOK
<1>5. lockPc'[w] = "left"
  BY <1>1, <1>2 DEF LockTypeOK
<1>6. EntryInv'
  BY <1>1, <1>2, <1>3, <1>4, <1>5 DEF EntryInv
<1>7. ASSUME NEW v \in Workers, lockPc'[v] = "in" PROVE mu'[rcm'[v]]
  <2>1. v # w /\ lockPc[v] = "in" /\ mu[rcm[v]] /\ rcm[v] \in Mutexes /\ rcm[v] # rcm[w]
    BY <1>1, <1>4, <1>5, <1>7 DEF OwnerInv, EntryInv
  <2> QED
    BY <1>1, <1>2, <2>1 DEF LockTypeOK
<1>8. OwnerInv'
  BY <1>1, <1>2, <1>4, <1>5, <1>7 DEF OwnerInv
<1> QED
  BY <1>6, <1>8

(* The entry is removed with the last reference to it and not before. *)
LEMMA DropReferenceStep ==
    ASSUME LockInv, NEW w \in Workers, DropReference(w), LockTypeOK'
    PROVE  EntryInv' /\ OwnerInv'
<1> USE LockAssumption
<1>0. PICK m \in Mutexes, o \in Orders : m = rcm[w] /\ o = lockOf[w]
  BY DEF DropReference, LockInv, EntryInv
<1> DEFINE last == refCount[m] = 1
<1>1. /\ LockTypeOK /\ EntryInv /\ OwnerInv
      /\ lockPc[w] = "left" /\ m \in Mutexes /\ o \in Orders /\ node[w] \in Nodes
      /\ orderLocks[node[w]][o] = m
      /\ refCount[m] = Cardinality(References(m)) /\ refCount[m] > 0
  <2>1. LockTypeOK /\ EntryInv /\ OwnerInv /\ lockPc[w] = "left"
    BY DEF DropReference, LockInv
  <2>2. node[w] \in Nodes
    BY <2>1 DEF LockTypeOK
  <2>3. orderLocks[node[w]][o] = m
    BY <1>0, <2>1 DEF EntryInv
  <2>4. refCount[m] = Cardinality(References(m)) /\ refCount[m] > 0
    BY <2>1, <2>2, <2>3 DEF EntryInv
  <2> QED
    BY <2>1, <2>2, <2>3, <2>4
<1>2. /\ refCount' = [refCount EXCEPT ![m] = @ - 1]
      /\ orderLocks' = [orderLocks EXCEPT ![node[w]][o] = IF last THEN NoMutex ELSE @]
      /\ lockPc' = [lockPc EXCEPT ![w] = "out"]
      /\ lockOf' = [lockOf EXCEPT ![w] = NoOrder]
      /\ rcm' = [rcm EXCEPT ![w] = NoMutex]
      /\ UNCHANGED <<node, mu>>
  BY <1>0 DEF DropReference
<1>3. Cardinality(References(m)') = Cardinality(References(m)) - 1
  BY <1>0, <1>1, <1>2, ReferenceDropped
<1>4. refCount'[m] = Cardinality(References(m)') /\ refCount[m] \in Nat
  BY <1>1, <1>2, <1>3 DEF LockTypeOK
<1>5. ASSUME NEW n \in Nodes, NEW p \in Orders, n # node[w] \/ p # o
      PROVE  /\ orderLocks'[n][p] = orderLocks[n][p]
             /\ orderLocks[n][p] # m
  BY <1>1, <1>2, <1>5 DEF LockTypeOK, EntryInv
<1>6. orderLocks'[node[w]][o] = IF last THEN NoMutex ELSE m
  BY <1>1, <1>2 DEF LockTypeOK
<1>7. \A v \in Workers : v # w => /\ rcm'[v] = rcm[v] /\ lockPc'[v] = lockPc[v]
                                  /\ lockOf'[v] = lockOf[v]
  BY <1>1, <1>2 DEF LockTypeOK
<1>8. rcm'[w] = NoMutex /\ lockPc'[w] = "out" /\ lockOf'[w] = NoOrder
  BY <1>1, <1>2 DEF LockTypeOK
<1>9. ASSUME NEW v \in Workers, v # w, rcm[v] = m PROVE ~last
  <2>1. v \in References(m)'
    <3>1. rcm'[v] = m
      BY <1>7, <1>9
    <3> QED
      BY <3>1 DEF References
  <2>2. Cardinality(References(m)') # 0
    <3>1. IsFiniteSet(References(m)')
      <4>1. References(m)' \subseteq Workers
        BY DEF References
      <4> QED
        BY <4>1, FS_Subset
    <3> QED
      BY <2>1, <3>1, FS_EmptySet
  <2> QED
    BY <1>1, <1>3, <2>2
<1> HIDE DEF last
<1>10. ASSUME NEW v \in Workers
       PROVE  IF lockPc'[v] = "out"
              THEN rcm'[v] = NoMutex /\ lockOf'[v] = NoOrder
              ELSE /\ lockOf'[v] \in Orders
                   /\ rcm'[v] \in Mutexes
                   /\ orderLocks'[node'[v]][lockOf'[v]] = rcm'[v]
  <2>1. CASE v = w
    BY <1>8, <2>1
  <2>2. CASE v # w /\ lockPc[v] = "out"
    BY <1>1, <1>7, <2>2 DEF EntryInv
  <2>3. CASE v # w /\ lockPc[v] # "out"
    <3>1. /\ lockOf[v] \in Orders /\ rcm[v] \in Mutexes /\ node[v] \in Nodes
          /\ orderLocks[node[v]][lockOf[v]] = rcm[v]
      BY <1>1, <2>3 DEF EntryInv, LockTypeOK
    <3>2. CASE node[v] = node[w] /\ lockOf[v] = o
      <4>1. rcm[v] = m
        BY <1>1, <3>1, <3>2
      <4> QED
        BY <1>2, <1>6, <1>7, <1>9, <2>3, <3>1, <3>2, <4>1
    <3>3. CASE node[v] # node[w] \/ lockOf[v] # o
      BY <1>2, <1>5, <1>7, <2>3, <3>1, <3>3
    <3> QED
      BY <3>2, <3>3
  <2> QED
    BY <2>1, <2>2, <2>3
<1>11. ASSUME NEW n1 \in Nodes, NEW n2 \in Nodes, NEW o1 \in Orders, NEW o2 \in Orders,
              orderLocks'[n1][o1] = orderLocks'[n2][o2], orderLocks'[n1][o1] # NoMutex
       PROVE  n1 = n2 /\ o1 = o2
  <2>1. CASE n1 = node[w] /\ o1 = o
    BY <1>5, <1>6, <1>11, <2>1
  <2>2. CASE n2 = node[w] /\ o2 = o
    BY <1>5, <1>6, <1>11, <2>2
  <2>3. CASE (n1 # node[w] \/ o1 # o) /\ (n2 # node[w] \/ o2 # o)
    BY <1>1, <1>5, <1>11, <2>3 DEF EntryInv
  <2> QED
    BY <2>1, <2>2, <2>3
<1>12. ASSUME NEW n \in Nodes, NEW p \in Orders, NEW k \in Mutexes, orderLocks'[n][p] = k
       PROVE  refCount'[k] = Cardinality(References(k)') /\ refCount'[k] > 0
  <2>1. CASE n = node[w] /\ p = o
    <3>1. k = m /\ ~last
      BY <1>6, <1>12, <2>1
    <3>2. refCount'[m] = refCount[m] - 1
      BY <1>1, <1>2 DEF LockTypeOK
    <3>3. refCount[m] # 1
      BY <3>1 DEF last
    <3>4. refCount[m] \in Nat /\ refCount[m] > 0
      BY <1>1, <1>4
    <3>5. refCount'[m] > 0
      BY <3>2, <3>3, <3>4
    <3> QED
      BY <1>4, <3>1, <3>5
  <2>2. CASE n # node[w] \/ p # o
    <3>1. orderLocks[n][p] = k /\ k # m /\ k # NoMutex
      BY <1>5, <1>12, <2>2
    <3>2. References(k)' = References(k)
      BY <1>0, <1>1, <1>2, <3>1, ReferencesElsewhere
    <3>3. refCount'[k] = refCount[k]
      BY <1>1, <1>2, <3>1 DEF LockTypeOK
    <3> QED
      BY <1>1, <3>1, <3>2, <3>3 DEF EntryInv
  <2> QED
    BY <2>1, <2>2
<1>13. EntryInv'
  BY <1>10, <1>11, <1>12 DEF EntryInv
<1>14. OwnerInv'
  BY <1>1, <1>2, <1>7, <1>8 DEF OwnerInv
<1> QED
  BY <1>13, <1>14

(* Every step of LockOrder and UnlockOrder keeps the invariant. *)
LEMMA LockStep ==
    ASSUME LockInv, [LockNext]_lockVars
    PROVE  LockInv'
<1>1. CASE LockNext
  <2>1. LockTypeOK'
    BY <1>1, LockTypeStep
  <2>2. EntryInv' /\ OwnerInv'
    BY <1>1, <2>1, LockOrderStep, LockMutexStep, UnlockMutexStep, DropReferenceStep DEF LockNext
  <2> QED
    BY <2>1, <2>2 DEF LockInv
<1>2. CASE UNCHANGED lockVars
  BY <1>2 DEF lockVars, LockInv, LockTypeOK, EntryInv, OwnerInv, References
<1> QED
  BY <1>1, <1>2

\* No lock is held at the start.
LEMMA LockStart == LockInit => LockInv
<1> SUFFICES ASSUME LockInit PROVE LockInv
  OBVIOUS
<1>1. LockTypeOK
  BY DEF LockInit, LockTypeOK
<1>2. EntryInv
  BY LockAssumption DEF LockInit, EntryInv
<1>3. OwnerInv
  BY DEF LockInit, OwnerInv
<1> QED
  BY <1>1, <1>2, <1>3 DEF LockInv

\* The invariant gives mutual exclusion per order, and UnlockOrder its mutex.
LEMMA LockInvExcludes == LockInv => OrderExclusion /\ UnlockFindsItsMutex
<1> SUFFICES ASSUME LockInv PROVE OrderExclusion /\ UnlockFindsItsMutex
  OBVIOUS
<1>1. UnlockFindsItsMutex
  BY DEF LockInv, EntryInv, OwnerInv, UnlockFindsItsMutex
<1>2. OrderExclusion
  BY DEF LockInv, EntryInv, OwnerInv, OrderExclusion
<1> QED
  BY <1>1, <1>2

(* LockOrder excludes: two handlers of one process never both hold the lock *)
(* of one order, for any number of goroutines, orders and mutex objects.    *)
THEOREM LockOrderExcludes == LockSpec => []OrderExclusion
<1>1. LockSpec => []LockInv
  BY LockStart, LockStep, PTL DEF LockSpec
<1> QED
  BY <1>1, LockInvExcludes, PTL

(* UnlockOrder always finds, locked, the mutex its LockOrder locked.        *)
THEOREM UnlockOrderFindsItsMutex == LockSpec => []UnlockFindsItsMutex
<1>1. LockSpec => []LockInv
  BY LockStart, LockStep, PTL DEF LockSpec
<1> QED
  BY <1>1, LockInvExcludes, PTL
=============================================================================
