----------------------------- MODULE OrderLock -----------------------------
(***************************************************************************)
(* The per-order mutex of the payment handlers: LockOrder and UnlockOrder   *)
(* of src/controller/topup.go.  One process keeps a map from trade number   *)
(* to a reference-counted mutex; a handler takes a reference under          *)
(* createLock, then blocks on the mutex itself, and the last handler to     *)
(* drop its reference removes the entry.  The map is process memory, so a   *)
(* deployment with several nodes has one map per node.                      *)
(*                                                                          *)
(* A mutex is an object: two handlers exclude each other only if the map    *)
(* gave both the same one.  The model therefore keeps the identity of the   *)
(* objects, and a removed entry is followed by a fresh object.              *)
(***************************************************************************)
EXTENDS Naturals, FiniteSets

CONSTANTS
    Workers,    \* goroutines that run payment handlers
    Nodes,      \* processes of the deployment
    Orders,     \* trade numbers
    Mutexes,    \* refCountedMutex objects in memory
    NoMutex,    \* the answer of orderLocks.Load for a missing entry
    NoOrder     \* a worker outside LockOrder/UnlockOrder

ASSUME LockAssumption ==
    /\ IsFiniteSet(Workers)
    /\ NoMutex \notin Mutexes
    /\ NoOrder \notin Orders

VARIABLES
    node,       \* the process each worker runs in; it never changes
    orderLocks, \* per node: trade number -> mutex object or NoMutex
    refCount,   \* refCountedMutex.refCount
    mu,         \* refCountedMutex.mu: TRUE while locked
    lockPc,     \* where a worker is: "out", "wait", "in" or "left"
    lockOf,     \* the trade number of its LockOrder call
    rcm         \* its local variable rcm

lockVars == <<node, orderLocks, refCount, mu, lockPc, lockOf, rcm>>

(* A mutex nobody can reach any more, or one not allocated yet. *)
Fresh(m) ==
    /\ \A n \in Nodes, o \in Orders : orderLocks[n][o] # m
    /\ \A w \in Workers : rcm[w] # m

LockInit ==
    /\ node \in [Workers -> Nodes]
    /\ orderLocks = [n \in Nodes |-> [o \in Orders |-> NoMutex]]
    /\ refCount = [m \in Mutexes |-> 0]
    /\ mu = [m \in Mutexes |-> FALSE]
    /\ lockPc = [w \in Workers |-> "out"]
    /\ lockOf = [w \in Workers |-> NoOrder]
    /\ rcm = [w \in Workers |-> NoMutex]

(* The createLock section of LockOrder: find or store the entry and take a  *)
(* reference.  A new object has refCount 0 and an unlocked mutex.           *)
LockOrder(w, o) ==
    /\ lockPc[w] = "out"
    /\ \E m \in Mutexes :
         /\ \/ orderLocks[node[w]][o] = m
            \/ orderLocks[node[w]][o] = NoMutex /\ Fresh(m)
         /\ orderLocks' = [orderLocks EXCEPT ![node[w]][o] = m]
         /\ refCount' = [refCount EXCEPT ![m] =
                (IF orderLocks[node[w]][o] = m THEN @ ELSE 0) + 1]
         /\ mu' = [mu EXCEPT ![m] = orderLocks[node[w]][o] = m /\ @]
         /\ rcm' = [rcm EXCEPT ![w] = m]
    /\ lockPc' = [lockPc EXCEPT ![w] = "wait"]
    /\ lockOf' = [lockOf EXCEPT ![w] = o]
    /\ UNCHANGED node

(* rcm.mu.Lock() at the end of LockOrder. *)
LockMutex(w) ==
    /\ lockPc[w] = "wait"
    /\ ~mu[rcm[w]]
    /\ mu' = [mu EXCEPT ![rcm[w]] = TRUE]
    /\ lockPc' = [lockPc EXCEPT ![w] = "in"]
    /\ UNCHANGED <<node, orderLocks, refCount, lockOf, rcm>>

(* The first half of UnlockOrder: it looks the entry up again.  Without an  *)
(* entry it returns at once and the mutex stays locked.                     *)
UnlockMutex(w) ==
    LET m == orderLocks[node[w]][lockOf[w]] IN
    /\ lockPc[w] = "in"
    /\ mu' = IF m = NoMutex THEN mu ELSE [mu EXCEPT ![m] = FALSE]
    /\ rcm' = [rcm EXCEPT ![w] = m]
    /\ lockPc' = [lockPc EXCEPT ![w] = IF m = NoMutex THEN "out" ELSE "left"]
    /\ lockOf' = [lockOf EXCEPT ![w] = IF m = NoMutex THEN NoOrder ELSE @]
    /\ UNCHANGED <<node, orderLocks, refCount>>

(* Mutant: the entry is removed without asking for other references. *)
DropEntry(w) ==
    /\ lockPc[w] = "left"
    /\ refCount' = [refCount EXCEPT ![rcm[w]] = IF @ > 0 THEN @ - 1 ELSE @]
    /\ orderLocks' = [orderLocks EXCEPT ![node[w]][lockOf[w]] = NoMutex]
    /\ lockPc' = [lockPc EXCEPT ![w] = "out"]
    /\ lockOf' = [lockOf EXCEPT ![w] = NoOrder]
    /\ rcm' = [rcm EXCEPT ![w] = NoMutex]
    /\ UNCHANGED <<node, mu>>

(* The createLock section of UnlockOrder: drop the reference, and the entry *)
(* with the last one.                                                       *)
DropReference(w) ==
    /\ lockPc[w] = "left"
    /\ refCount' = [refCount EXCEPT ![rcm[w]] = @ - 1]
    /\ orderLocks' = [orderLocks EXCEPT ![node[w]][lockOf[w]] =
           IF refCount[rcm[w]] = 1 THEN NoMutex ELSE @]
    /\ lockPc' = [lockPc EXCEPT ![w] = "out"]
    /\ lockOf' = [lockOf EXCEPT ![w] = NoOrder]
    /\ rcm' = [rcm EXCEPT ![w] = NoMutex]
    /\ UNCHANGED <<node, mu>>

LockNext ==
    \E w \in Workers :
        \/ \E o \in Orders : LockOrder(w, o)
        \/ LockMutex(w)
        \/ UnlockMutex(w)
        \/ DropReference(w)

LockSpec == LockInit /\ [][LockNext]_lockVars
-----------------------------------------------------------------------------
LockTypeOK ==
    /\ node \in [Workers -> Nodes]
    /\ orderLocks \in [Nodes -> [Orders -> Mutexes \cup {NoMutex}]]
    /\ refCount \in [Mutexes -> Nat]
    /\ mu \in [Mutexes -> BOOLEAN]
    /\ lockPc \in [Workers -> {"out", "wait", "in", "left"}]
    /\ lockOf \in [Workers -> Orders \cup {NoOrder}]
    /\ rcm \in [Workers -> Mutexes \cup {NoMutex}]

(* The workers that hold a reference to m. *)
References(m) == {w \in Workers : rcm[w] = m}

(* A worker inside LockOrder/UnlockOrder works on the entry of its own      *)
(* order, and an entry is in the map exactly while someone refers to it.    *)
EntryInv ==
    /\ \A w \in Workers :
         IF lockPc[w] = "out"
         THEN rcm[w] = NoMutex /\ lockOf[w] = NoOrder
         ELSE /\ lockOf[w] \in Orders
              /\ rcm[w] \in Mutexes
              /\ orderLocks[node[w]][lockOf[w]] = rcm[w]
    /\ \A n1, n2 \in Nodes, o1, o2 \in Orders :
         orderLocks[n1][o1] = orderLocks[n2][o2] /\ orderLocks[n1][o1] # NoMutex
             => n1 = n2 /\ o1 = o2
    /\ \A n \in Nodes, o \in Orders, m \in Mutexes :
         orderLocks[n][o] = m =>
             refCount[m] = Cardinality(References(m)) /\ refCount[m] > 0

(* A locked mutex has one owner, the worker between Lock and Unlock. *)
OwnerInv ==
    /\ \A w \in Workers : lockPc[w] = "in" => mu[rcm[w]]
    /\ \A v, w \in Workers :
         lockPc[v] = "in" /\ lockPc[w] = "in" /\ rcm[v] = rcm[w] => v = w

LockInv == LockTypeOK /\ EntryInv /\ OwnerInv

(* Two handlers of one process are never both inside the critical section   *)
(* of one order, whatever the interleaving of the lookups, the reference    *)
(* counting and the removal of entries.                                     *)
OrderExclusion ==
    \A v, w \in Workers :
        /\ lockPc[v] = "in" /\ lockPc[w] = "in"
        /\ node[v] = node[w] /\ lockOf[v] = lockOf[w]
        => v = w

(* UnlockOrder finds the entry it locked through, and finds it locked:      *)
(* sync.Mutex.Unlock of an unlocked mutex is a fatal error of the process,  *)
(* and a missing entry would leave the mutex locked for ever.               *)
UnlockFindsItsMutex ==
    \A w \in Workers : lockPc[w] = "in" =>
        /\ orderLocks[node[w]][lockOf[w]] = rcm[w]
        /\ mu[rcm[w]]
=============================================================================
