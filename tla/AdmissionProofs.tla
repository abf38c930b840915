-------------------------- MODULE AdmissionProofs --------------------------
(***************************************************************************)
(* Proofs about Admission: what the three limiters count is right in every *)
(* state, for any set of requests, processes, keys, counters and channels. *)
(* AdmissionInv, RedisAccounts and ChannelExact together are inductive.    *)
(***************************************************************************)
EXTENDS Admission, FiniteSetTheorems, TLAPS

-----------------------------------------------------------------------------
(* Counting *)

\* A set of requests is finite and has a size.
LEMMA Sized ==
  ASSUME NEW S \in SUBSET Requests
  PROVE  IsFiniteSet(S) /\ Cardinality(S) \in Nat
BY AdmissionAssumption, FS_Subset, FS_CardinalityType DEF AdmissionAssumption

\* One request more is counted once.
LEMMA Grow ==
  ASSUME NEW S \in SUBSET Requests, NEW T, NEW r, r \notin S, T = S \cup {r}
  PROVE  Cardinality(T) = Cardinality(S) + 1
BY Sized, FS_AddElement

\* One request less is counted once less.
LEMMA Shrink ==
  ASSUME NEW S \in SUBSET Requests, NEW T, NEW r, r \in S, T = S \ {r}
  PROVE  Cardinality(T) = Cardinality(S) - 1 /\ Cardinality(S) >= 1 /\ Cardinality(T) \in Nat
<1>1. Cardinality(T) = Cardinality(S) - 1
  BY Sized, FS_RemoveElement
<1>2. Cardinality(T) \in Nat /\ Cardinality(S) \in Nat
  BY Sized
<1> QED
  BY <1>1, <1>2

-----------------------------------------------------------------------------
(* What a step may leave alone *)

InSlot == Places \ {"new", "slot", "drop", "gone"}

\* Where the requests with a key stand, as far as the key limiter tells places apart.
SamePlace ==
  \A r \in Requests : KeyOf[r] \in Keys =>
    /\ pc'[r] = "new" <=> pc[r] = "new"
    /\ pc'[r] = "gone" <=> pc[r] = "gone"
    /\ pc'[r] \in InSlot <=> pc[r] \in InSlot

\* A step outside the key limiter keeps what it counts.
LEMMA KeyFrame ==
  ASSUME TypeOK, KeyInv, EntryInv, UNCHANGED <<nodeOf, keyVars>>, SamePlace
  PROVE  KeyInv' /\ EntryInv'
<1>0. UNCHANGED <<nodeOf, entries, refs, slots, mine>>
  BY DEF keyVars
<1>1. ASSUME NEW n \in Nodes, NEW k \in Keys
      PROVE  Referring(n, k)' = Referring(n, k) /\ WithSlot(n, k)' = WithSlot(n, k)
  BY <1>0, <1>1 DEF Referring, WithSlot, SamePlace, InSlot
<1>2. KeyInv'
  BY <1>0, <1>1 DEF KeyInv, KeyAt
<1>3. EntryInv'
  <2>1. ASSUME NEW n \in Nodes, NEW k \in Keys, entries'[n][k] # None
        PROVE  /\ nodeOf'[entries'[n][k]] = n /\ KeyOf[entries'[n][k]] = k
               /\ pc'[entries'[n][k]] # "new"
    BY <1>0, <2>1 DEF EntryInv, SamePlace, TypeOK
  <2> QED
    BY <1>0, <2>1 DEF EntryInv
<1> QED
  BY <1>2, <1>3

\* The process-local counters.
LEMMA LocalFrame ==
  ASSUME LocalExact, UNCHANGED <<nodeOf, holds, local>>
  PROVE  LocalExact'
BY DEF LocalExact, LocalHolders, LocalClaims

\* The counters in Redis.
LEMMA RedisFrame ==
  ASSUME RedisAccounts, UNCHANGED <<holds, redis, leaked, lapsed>>
  PROVE  RedisAccounts'
BY DEF RedisAccounts, Holders

\* The channel tracker.
LEMMA ChannelFrame ==
  ASSUME ChannelExact, UNCHANGED <<nodeOf, active, users, on>>,
         \A r \in Requests : on[r] # None => pc'[r] \in {"held", "use"} \/ r \in panicked'
  PROVE  ChannelExact'
<1>1. ASSUME NEW n \in Nodes, NEW ch \in Channels, NEW r \in Requests, on[r] = ch
      PROVE  pc'[r] \in {"held", "use"} \/ r \in panicked'
  BY <1>1, AdmissionAssumption DEF AdmissionAssumption
<1> QED
  BY <1>1 DEF ChannelExact, Occupants, UserOn

AInv == AdmissionInv /\ RedisAccounts /\ ChannelExact

-----------------------------------------------------------------------------
(* The key limiter *)

\* A step of r on the entry e of its key leaves the other keys alone.
LEMMA OtherKeys ==
  ASSUME TypeOK, KeyInv, EntryInv, nodeOf' = nodeOf,
         NEW r \in Requests, NEW e \in Requests, nodeOf[e] = nodeOf[r], KeyOf[e] = KeyOf[r],
         \A x \in Requests : x # r => pc'[x] = pc[x] /\ mine'[x] = mine[x],
         \A x \in Requests : x # e => refs'[x] = refs[x] /\ slots'[x] = slots[x],
         NEW n \in Nodes, NEW k \in Keys, n # nodeOf[r] \/ k # KeyOf[r],
         entries'[n][k] = entries[n][k]
  PROVE  KeyAt(n, k)'
<1>1. Referring(n, k)' = Referring(n, k) /\ WithSlot(n, k)' = WithSlot(n, k)
  BY DEF Referring, WithSlot
<1>2. \A x \in Referring(n, k) : mine'[x] = mine[x]
  BY DEF Referring
<1>3. entries[n][k] # None => entries[n][k] \in Requests \ {e}
  BY DEF EntryInv, TypeOK
<1> QED
  BY <1>1, <1>2, <1>3 DEF KeyInv, KeyAt

\* acquire counts the request at the entry of its key, found or made.
LEMMA KeyEnterInv ==
  ASSUME TypeOK, PlaceInv, KeyInv, EntryInv, NEW r \in Requests, KeyEnter(r), nodeOf' = nodeOf
  PROVE  KeyInv' /\ EntryInv'
<1>a. PICK n \in Nodes, k \in Keys, e \in Requests :
        n = nodeOf[r] /\ k = KeyOf[r] /\ e = IF entries[n][k] = None THEN r ELSE entries[n][k]
  BY DEF KeyEnter, TypeOK
<1>0. pc[r] = "new" /\ r # None /\ entries[n][k] \in Requests \cup {None}
  BY AdmissionAssumption DEF KeyEnter, At, TypeOK, AdmissionAssumption
<1>1. nodeOf[e] = n /\ KeyOf[e] = k
  BY <1>0, <1>a DEF EntryInv
<1>2. /\ refs[e] = Cardinality(Referring(n, k)) /\ slots[e] = Cardinality(WithSlot(n, k))
      /\ \A x \in Referring(n, k) : mine[x] = e
  <2>1. CASE entries[n][k] = None
    <3>1. Referring(n, k) = {} /\ e = r
      BY <1>a, <1>0, <2>1 DEF KeyInv, KeyAt
    <3>2. WithSlot(n, k) = {}
      BY <3>1 DEF WithSlot, Referring
    <3>3. refs[r] = 0 /\ slots[r] = 0
      BY <1>a, <1>0, <2>1 DEF EntryInv
    <3> QED
      BY <3>1, <3>2, <3>3, FS_EmptySet
  <2>2. CASE entries[n][k] # None
    BY <1>a, <1>0, <2>2 DEF KeyInv, KeyAt
  <2> QED
    BY <2>1, <2>2
<1>3. /\ entries' = [entries EXCEPT ![n][k] = e] /\ refs' = [refs EXCEPT ![e] = @ + 1]
      /\ mine' = [mine EXCEPT ![r] = e] /\ pc' = [pc EXCEPT ![r] = "slot"] /\ slots' = slots
  BY <1>a DEF KeyEnter, Go
<1>4. /\ entries'[n][k] = e /\ mine'[r] = e /\ pc'[r] = "slot"
      /\ \A m \in Nodes, j \in Keys : m # n \/ j # k => entries'[m][j] = entries[m][j]
      /\ \A x \in Requests : x # r => pc'[x] = pc[x] /\ mine'[x] = mine[x]
      /\ \A x \in Requests : x # e => refs'[x] = refs[x]
      /\ refs'[e] = refs[e] + 1
  BY <1>0, <1>1, <1>3 DEF TypeOK
<1>5. /\ r \notin Referring(n, k) /\ Referring(n, k)' = Referring(n, k) \cup {r}
      /\ WithSlot(n, k)' = WithSlot(n, k)
  BY <1>a, <1>0, <1>4 DEF Referring, WithSlot
<1>6. KeyAt(n, k)'
  <2>1. Cardinality(Referring(n, k)') = Cardinality(Referring(n, k)) + 1
    BY <1>5, Grow DEF Referring
  <2>2. e # None
    BY <1>1, AdmissionAssumption DEF AdmissionAssumption
  <2>3. \A x \in Referring(n, k)' : mine'[x] = e
    BY <1>2, <1>4, <1>5 DEF Referring
  <2> QED
    BY <1>2, <1>3, <1>4, <1>5, <2>1, <2>2, <2>3 DEF KeyAt
<1>7. KeyInv'
  <2>1. ASSUME NEW m \in Nodes, NEW j \in Keys, m # n \/ j # k
        PROVE  KeyAt(m, j)'
    <3>1. /\ nodeOf[e] = nodeOf[r] /\ KeyOf[e] = KeyOf[r] /\ (m # nodeOf[r] \/ j # KeyOf[r])
          /\ entries'[m][j] = entries[m][j]
      BY <1>a, <1>1, <1>4, <2>1
    <3>2. /\ \A x \in Requests : x # r => pc'[x] = pc[x] /\ mine'[x] = mine[x]
          /\ \A x \in Requests : x # e => refs'[x] = refs[x] /\ slots'[x] = slots[x]
      BY <1>3, <1>4
    <3> QED
      BY <3>1, <3>2, OtherKeys
  <2> QED
    BY <1>6, <2>1 DEF KeyInv
<1>8. EntryInv'
  <2>1. ASSUME NEW m \in Nodes, NEW j \in Keys, entries'[m][j] # None
        PROVE  nodeOf[entries'[m][j]] = m /\ KeyOf[entries'[m][j]] = j /\ pc'[entries'[m][j]] # "new"
    <3>1. CASE m = n /\ j = k
      <4>1. pc'[e] # "new"
        BY <1>0, <1>4, <1>a DEF EntryInv
      <4> QED
        BY <1>1, <1>4, <3>1, <4>1
    <3>2. CASE m # n \/ j # k
      BY <1>4, <2>1, <3>2 DEF EntryInv, TypeOK
    <3> QED
      BY <3>1, <3>2
  <2>2. ASSUME NEW x \in Requests, refs'[x] # 0 \/ slots'[x] # 0
        PROVE  KeyOf[x] \in Keys /\ entries'[nodeOf[x]][KeyOf[x]] = x
    <3>1. CASE x = e
      BY <1>0, <1>1, <1>4, <3>1
    <3>2. CASE x # e
      <4>1. KeyOf[x] \in Keys /\ entries[nodeOf[x]][KeyOf[x]] = x /\ nodeOf[x] \in Nodes
        BY <1>3, <1>4, <2>2, <3>2 DEF EntryInv, TypeOK
      <4>2. nodeOf[x] # n \/ KeyOf[x] # k
        BY <3>2, <4>1, AdmissionAssumption, <1>a DEF AdmissionAssumption
      <4> QED
        BY <1>4, <4>1, <4>2
    <3> QED
      BY <3>1, <3>2
  <2> QED
    BY <1>3, <2>1, <2>2 DEF EntryInv
<1> QED
  BY <1>7, <1>8

\* A request that the key limiter let in stands at the entry of its key.
LEMMA AtEntry ==
  ASSUME TypeOK, PlaceInv, KeyInv, EntryInv, NEW r \in Requests,
         KeyOf[r] \in Keys, pc[r] \notin {"new", "gone"}
  PROVE  \E n \in Nodes, k \in Keys, e \in Requests :
           /\ n = nodeOf[r] /\ k = KeyOf[r] /\ e = mine[r] /\ e = entries[n][k] /\ e # None
           /\ nodeOf[e] = n /\ KeyOf[e] = k /\ r \in Referring(n, k)
           /\ refs[e] = Cardinality(Referring(n, k)) /\ slots[e] = Cardinality(WithSlot(n, k))
<1>1. nodeOf[r] \in Nodes /\ r \in Referring(nodeOf[r], KeyOf[r])
  BY DEF TypeOK, Referring
<1>2. /\ mine[r] = entries[nodeOf[r]][KeyOf[r]] /\ mine[r] \in Requests /\ mine[r] # None
      /\ refs[mine[r]] = Cardinality(Referring(nodeOf[r], KeyOf[r]))
      /\ slots[mine[r]] = Cardinality(WithSlot(nodeOf[r], KeyOf[r]))
  BY <1>1 DEF KeyInv, KeyAt, PlaceInv, TypeOK
<1>3. nodeOf[mine[r]] = nodeOf[r] /\ KeyOf[mine[r]] = KeyOf[r]
  BY <1>1, <1>2 DEF EntryInv
<1> QED
  BY <1>1, <1>2, <1>3

\* Sending on the channel of the entry and receiving from it: the slots of the entry
\* change by one with the requests that hold them.
LEMMA SlotInv ==
  ASSUME TypeOK, PlaceInv, KeyInv, EntryInv, NEW r \in Requests, nodeOf' = nodeOf,
         KeyOf[r] \in Keys, UNCHANGED <<entries, refs, mine>>, NEW x \in Places,
         pc' = [pc EXCEPT ![r] = x],
         \/ /\ pc[r] = "slot" /\ x \in InSlot /\ slots[mine[r]] < KeyLimit
            /\ slots' = [slots EXCEPT ![mine[r]] = @ + 1]
         \/ /\ pc[r] \in InSlot /\ x = "drop" /\ slots' = [slots EXCEPT ![mine[r]] = @ - 1]
  PROVE  KeyInv' /\ EntryInv' /\ slots' \in [Requests -> Nat]
<1>0. pc[r] \notin {"new", "gone"} /\ x \notin {"new", "gone"}
  BY DEF InSlot
<1>1. PICK n \in Nodes, k \in Keys, e \in Requests :
        /\ n = nodeOf[r] /\ k = KeyOf[r] /\ e = mine[r] /\ e = entries[n][k] /\ e # None
        /\ nodeOf[e] = n /\ KeyOf[e] = k /\ r \in Referring(n, k)
        /\ refs[e] = Cardinality(Referring(n, k)) /\ slots[e] = Cardinality(WithSlot(n, k))
  BY <1>0, AtEntry
<1>2. /\ pc'[r] = x /\ \A q \in Requests : q # r => pc'[q] = pc[q]
      /\ \A q \in Requests : q # e => slots'[q] = slots[q]
  BY <1>1 DEF TypeOK
<1>3. Referring(n, k)' = Referring(n, k)
  BY <1>0, <1>2 DEF Referring
<1>4. slots'[e] = Cardinality(WithSlot(n, k)') /\ slots'[e] \in 0..KeyLimit
  <2>0. WithSlot(n, k) \in SUBSET Requests /\ KeyLimit \in Nat
    BY AdmissionAssumption DEF WithSlot, AdmissionAssumption
  <2>1. CASE pc[r] = "slot" /\ x \in InSlot
    <3>1. r \notin WithSlot(n, k) /\ WithSlot(n, k)' = WithSlot(n, k) \cup {r}
      BY <1>1, <1>2, <2>1 DEF WithSlot, InSlot
    <3>2. slots'[e] = slots[e] + 1 /\ slots[e] < KeyLimit
      BY <1>1, <2>1 DEF TypeOK, InSlot
    <3>3. slots[e] \in Nat
      BY DEF TypeOK
    <3> QED
      BY <1>1, <2>0, <3>1, <3>2, <3>3, Grow
  <2>2. CASE pc[r] \in InSlot /\ x = "drop"
    <3>1. r \in WithSlot(n, k) /\ WithSlot(n, k)' = WithSlot(n, k) \ {r}
      BY <1>1, <1>2, <2>2 DEF WithSlot, InSlot
    <3>2. slots'[e] = slots[e] - 1
      BY <1>1, <2>2 DEF TypeOK, InSlot
    <3>3. slots[e] \in Nat /\ slots[e] <= KeyLimit
      BY DEF TypeOK, EntryInv
    <3>4. Cardinality(WithSlot(n, k)') = slots[e] - 1 /\ slots[e] >= 1
      BY <1>1, <2>0, <3>1, Shrink
    <3> QED
      BY <2>0, <3>2, <3>3, <3>4
  <2> QED
    BY <2>1, <2>2 DEF InSlot
<1>5. KeyInv'
  <2>1. KeyAt(n, k)'
    BY <1>1, <1>3, <1>4 DEF KeyAt, KeyInv
  <2>2. ASSUME NEW m \in Nodes, NEW j \in Keys, m # n \/ j # k
        PROVE  KeyAt(m, j)'
    <3>1. /\ nodeOf[e] = nodeOf[r] /\ KeyOf[e] = KeyOf[r] /\ (m # nodeOf[r] \/ j # KeyOf[r])
          /\ entries'[m][j] = entries[m][j]
      BY <1>1, <2>2
    <3>2. /\ \A q \in Requests : q # r => pc'[q] = pc[q] /\ mine'[q] = mine[q]
          /\ \A q \in Requests : q # e => refs'[q] = refs[q] /\ slots'[q] = slots[q]
      BY <1>2
    <3> QED
      BY <3>1, <3>2, OtherKeys
  <2> QED
    BY <2>1, <2>2 DEF KeyInv
<1>6. EntryInv'
  <2>1. ASSUME NEW m \in Nodes, NEW j \in Keys, entries[m][j] # None
        PROVE  pc'[entries[m][j]] # "new"
    BY <1>0, <1>2, <2>1 DEF EntryInv, TypeOK
  <2>2. ASSUME NEW q \in Requests
        PROVE  slots'[q] <= KeyLimit /\ (q # e => slots'[q] = slots[q])
    BY <1>2, <1>4 DEF EntryInv
  <2> QED
    BY <1>1, <2>1, <2>2 DEF EntryInv
<1>7. slots' \in [Requests -> Nat]
  <2>1. PICK y : slots' = [slots EXCEPT ![e] = y]
    BY <1>1
  <2>2. y \in Nat
    BY <1>4, <2>1 DEF TypeOK
  <2> QED
    BY <2>1, <2>2 DEF TypeOK
<1> QED
  BY <1>5, <1>6, <1>7

\* dropRef: the entry leaves the map with its last reference, and then without slots.
LEMMA KeyDropInv ==
  ASSUME TypeOK, PlaceInv, KeyInv, EntryInv, NEW r \in Requests, KeyDrop(r), nodeOf' = nodeOf
  PROVE  KeyInv' /\ EntryInv' /\ refs' \in [Requests -> Nat]
<1>0. pc[r] = "drop" /\ KeyOf[r] \in Keys
  BY DEF KeyDrop, At, PlaceInv
<1>1. PICK n \in Nodes, k \in Keys, e \in Requests :
        /\ n = nodeOf[r] /\ k = KeyOf[r] /\ e = mine[r] /\ e = entries[n][k] /\ e # None
        /\ nodeOf[e] = n /\ KeyOf[e] = k /\ r \in Referring(n, k)
        /\ refs[e] = Cardinality(Referring(n, k)) /\ slots[e] = Cardinality(WithSlot(n, k))
  BY <1>0, AtEntry
<1>2. /\ refs' = [refs EXCEPT ![e] = @ - 1] /\ slots' = slots
      /\ entries' = IF refs[e] = 1 THEN [entries EXCEPT ![n][k] = None] ELSE entries
      /\ mine' = [mine EXCEPT ![r] = None] /\ pc' = [pc EXCEPT ![r] = "gone"]
  BY <1>1 DEF KeyDrop, Droppable, Go
<1>3. /\ pc'[r] = "gone"
      /\ \A q \in Requests : q # r => pc'[q] = pc[q] /\ mine'[q] = mine[q]
      /\ \A q \in Requests : q # e => refs'[q] = refs[q] /\ slots'[q] = slots[q]
      /\ refs'[e] = refs[e] - 1
      /\ \A m \in Nodes, j \in Keys : m # n \/ j # k => entries'[m][j] = entries[m][j]
      /\ entries'[n][k] = IF refs[e] = 1 THEN None ELSE e
  BY <1>1, <1>2 DEF TypeOK
<1>4. Referring(n, k)' = Referring(n, k) \ {r} /\ WithSlot(n, k)' = WithSlot(n, k)
  BY <1>0, <1>1, <1>3 DEF Referring, WithSlot
<1>5. /\ Cardinality(Referring(n, k)') = refs[e] - 1 /\ Cardinality(Referring(n, k)') \in Nat
      /\ refs[e] = 1 <=> Referring(n, k)' = {}
  <2>1. Referring(n, k) \in SUBSET Requests /\ Referring(n, k)' \in SUBSET Requests
    BY <1>4 DEF Referring
  <2>2. /\ Cardinality(Referring(n, k)') = refs[e] - 1 /\ refs[e] >= 1
        /\ Cardinality(Referring(n, k)') \in Nat
    BY <1>1, <1>4, <2>1, Shrink
  <2>3. Cardinality(Referring(n, k)') = 0 <=> Referring(n, k)' = {}
    BY <2>1, Sized, FS_EmptySet
  <2> QED
    BY <2>2, <2>3 DEF TypeOK
<1>6. refs[e] = 1 => slots[e] = 0
  <2>1. Referring(n, k)' = {} => WithSlot(n, k) = {}
    BY <1>0, <1>4 DEF Referring, WithSlot
  <2> QED
    BY <1>1, <1>5, <2>1, FS_EmptySet
<1>7. KeyInv'
  <2>1. KeyAt(n, k)'
    <3>1. \A q \in Referring(n, k)' : mine'[q] = e
      BY <1>1, <1>3, <1>4 DEF Referring, KeyInv, KeyAt
    <3>2. Referring(n, k)' # {} => entries'[n][k] = e
      BY <1>3, <1>5
    <3> QED
      BY <1>1, <1>2, <1>3, <1>4, <1>5, <3>1, <3>2 DEF KeyAt
  <2>2. ASSUME NEW m \in Nodes, NEW j \in Keys, m # n \/ j # k
        PROVE  KeyAt(m, j)'
    <3>1. /\ nodeOf[e] = nodeOf[r] /\ KeyOf[e] = KeyOf[r] /\ (m # nodeOf[r] \/ j # KeyOf[r])
          /\ entries'[m][j] = entries[m][j]
      BY <1>1, <1>3, <2>2
    <3> QED
      BY <1>3, <3>1, OtherKeys
  <2> QED
    BY <2>1, <2>2 DEF KeyInv
<1>8. EntryInv'
  <2>1. ASSUME NEW m \in Nodes, NEW j \in Keys, entries'[m][j] # None
        PROVE  nodeOf[entries'[m][j]] = m /\ KeyOf[entries'[m][j]] = j /\ pc'[entries'[m][j]] # "new"
    <3>1. entries'[m][j] = entries[m][j] /\ entries[m][j] \in Requests
      BY <1>1, <1>3, <2>1 DEF TypeOK
    <3> QED
      BY <1>3, <2>1, <3>1 DEF EntryInv
  <2>2. ASSUME NEW q \in Requests, refs'[q] # 0 \/ slots'[q] # 0
        PROVE  KeyOf[q] \in Keys /\ entries'[nodeOf[q]][KeyOf[q]] = q
    <3>1. CASE q = e
      <4>1. refs[e] # 1
        BY <1>2, <1>3, <1>6, <2>2, <3>1
      <4> QED
        BY <1>1, <1>3, <3>1, <4>1
    <3>2. CASE q # e
      <4>1. KeyOf[q] \in Keys /\ nodeOf[q] \in Nodes /\ entries[nodeOf[q]][KeyOf[q]] = q
        BY <1>3, <2>2, <3>2 DEF EntryInv, TypeOK
      <4> QED
        BY <1>1, <1>3, <3>2, <4>1
    <3> QED
      BY <3>1, <3>2
  <2> QED
    BY <1>2, <2>1, <2>2 DEF EntryInv
<1>9. refs' \in [Requests -> Nat]
  <2>1. refs[e] - 1 \in Nat
    BY <1>5
  <2> QED
    BY <1>2, <2>1 DEF TypeOK
<1> QED
  BY <1>7, <1>8, <1>9

\* A crash empties the limiter of its process and no other.
LEMMA KeyCrashInv ==
  ASSUME TypeOK, PlaceInv, KeyInv, EntryInv, NEW n \in Nodes, Crash(n), nodeOf' = nodeOf
  PROVE  KeyInv' /\ EntryInv'
<1>1. /\ \A m \in Nodes, k \in Keys : entries'[m][k] = IF m = n THEN None ELSE entries[m][k]
      /\ \A q \in Requests :
           /\ refs'[q] = IF nodeOf[q] = n THEN 0 ELSE refs[q]
           /\ slots'[q] = IF nodeOf[q] = n THEN 0 ELSE slots[q]
           /\ nodeOf[q] # n => pc'[q] = pc[q] /\ mine'[q] = mine[q]
           /\ nodeOf[q] = n => pc'[q] \in {"new", "gone"}
           /\ pc'[q] = "new" => pc[q] = "new"
  BY DEF Crash, TypeOK
<1>2. ASSUME NEW k \in Keys PROVE KeyAt(n, k)'
  <2>1. Referring(n, k)' = {}
    BY <1>1 DEF Referring
  <2> QED
    BY <1>1, <2>1 DEF KeyAt
<1>3. ASSUME NEW m \in Nodes, NEW k \in Keys, m # n PROVE KeyAt(m, k)'
  <2>1. Referring(m, k)' = Referring(m, k) /\ WithSlot(m, k)' = WithSlot(m, k)
    BY <1>1, <1>3 DEF Referring, WithSlot
  <2>2. \A q \in Referring(m, k) : mine'[q] = mine[q]
    BY <1>1, <1>3 DEF Referring
  <2>3. entries[m][k] # None => entries[m][k] \in Requests /\ nodeOf[entries[m][k]] = m
    BY DEF EntryInv, TypeOK
  <2> QED
    BY <1>1, <1>3, <2>1, <2>2, <2>3 DEF KeyInv, KeyAt
<1>4. KeyInv'
  BY <1>2, <1>3 DEF KeyInv
<1>5. EntryInv'
  <2>1. ASSUME NEW m \in Nodes, NEW k \in Keys, entries'[m][k] # None
        PROVE  nodeOf[entries'[m][k]] = m /\ KeyOf[entries'[m][k]] = k /\ pc'[entries'[m][k]] # "new"
    BY <1>1, <2>1 DEF EntryInv, TypeOK
  <2>2. ASSUME NEW q \in Requests
        PROVE  /\ slots'[q] <= KeyLimit
               /\ refs'[q] # 0 \/ slots'[q] # 0 =>
                    KeyOf[q] \in Keys /\ entries'[nodeOf[q]][KeyOf[q]] = q
    <3>1. KeyLimit \in Nat /\ nodeOf[q] \in Nodes
      BY AdmissionAssumption DEF AdmissionAssumption, TypeOK
    <3> QED
      BY <1>1, <3>1 DEF EntryInv
  <2> QED
    BY <2>1, <2>2 DEF EntryInv
<1> QED
  BY <1>4, <1>5

-----------------------------------------------------------------------------
(* The counters *)

\* What acquiring and releasing add to a counter.
LEMMA PlusMinus ==
  ASSUME NEW count \in [Counters -> Nat], NEW cs
  PROVE  /\ Plus(count, cs) \in [Counters -> Nat] /\ Minus(count, cs) \in [Counters -> Nat]
         /\ \A c \in Counters :
              /\ Plus(count, cs)[c] = IF c \in cs THEN count[c] + 1 ELSE count[c]
              /\ Minus(count, cs)[c] = IF c \in cs /\ count[c] > 0 THEN count[c] - 1 ELSE count[c]
BY DEF Plus, Minus

\* The fallback admits r, which held nothing: its counters rise within their limits.
LEMMA LocalAdmit ==
  ASSUME TypeOK, LocalExact, NEW r \in Requests, holds[r] = "none", nodeOf' = nodeOf,
         Free(local[nodeOf[r]], LocalClaims(r)),
         local' = [local EXCEPT ![nodeOf[r]] = Plus(@, LocalClaims(r))],
         holds' = [holds EXCEPT ![r] = "local"]
  PROVE  LocalExact' /\ local' \in [Nodes -> [Counters -> Nat]]
<1>0. nodeOf[r] \in Nodes /\ local[nodeOf[r]] \in [Counters -> Nat] /\ LocalClaims(r) \in SUBSET Counters
  BY AdmissionAssumption DEF TypeOK, AdmissionAssumption, LocalClaims
<1>1. /\ Plus(local[nodeOf[r]], LocalClaims(r)) \in [Counters -> Nat]
      /\ \A c \in Counters : Plus(local[nodeOf[r]], LocalClaims(r))[c] =
           IF c \in LocalClaims(r) THEN local[nodeOf[r]][c] + 1 ELSE local[nodeOf[r]][c]
  BY <1>0, PlusMinus
<1>2. local' \in [Nodes -> [Counters -> Nat]]
  BY <1>0, <1>1 DEF TypeOK
<1>3. ASSUME NEW n \in Nodes, NEW c \in Counters
      PROVE  local'[n][c] = Cardinality(LocalHolders(n, c)') /\ local'[n][c] <= Limit[c]
  <2>0. /\ holds'[r] = "local" /\ \A q \in Requests : q # r => holds'[q] = holds[q]
        /\ local[n][c] = Cardinality(LocalHolders(n, c)) /\ local[n][c] <= Limit[c]
        /\ local[n][c] \in Nat /\ Limit[c] \in Nat
    BY AdmissionAssumption DEF TypeOK, LocalExact, AdmissionAssumption
  <2>1. CASE n = nodeOf[r] /\ c \in LocalClaims(r)
    <3>1. local'[n][c] = local[n][c] + 1 /\ local[n][c] < Limit[c]
      BY <1>0, <1>1, <2>1 DEF Free, TypeOK
    <3>2. /\ r \notin LocalHolders(n, c) /\ LocalHolders(n, c)' = LocalHolders(n, c) \cup {r}
          /\ LocalHolders(n, c) \in SUBSET Requests
      BY <2>0, <2>1 DEF LocalHolders, LocalClaims
    <3> QED
      BY <2>0, <3>1, <3>2, Grow
  <2>2. CASE ~(n = nodeOf[r] /\ c \in LocalClaims(r))
    <3>1. local'[n][c] = local[n][c]
      BY <1>0, <1>1, <2>2 DEF TypeOK
    <3>2. LocalHolders(n, c)' = LocalHolders(n, c)
      BY <2>0, <2>2 DEF LocalHolders, LocalClaims
    <3> QED
      BY <2>0, <3>1, <3>2
  <2> QED
    BY <2>1, <2>2
<1> QED
  BY <1>2, <1>3 DEF LocalExact

\* The release of r, which the fallback had admitted, undoes that.
LEMMA LocalRelease ==
  ASSUME TypeOK, LocalExact, NEW r \in Requests, holds[r] = "local", nodeOf' = nodeOf,
         local' = [local EXCEPT ![nodeOf[r]] = Minus(@, LocalClaims(r))],
         holds' = [holds EXCEPT ![r] = "none"]
  PROVE  LocalExact' /\ local' \in [Nodes -> [Counters -> Nat]]
<1>0. nodeOf[r] \in Nodes /\ local[nodeOf[r]] \in [Counters -> Nat] /\ LocalClaims(r) \in SUBSET Counters
  BY AdmissionAssumption DEF TypeOK, AdmissionAssumption, LocalClaims
<1>1. /\ Minus(local[nodeOf[r]], LocalClaims(r)) \in [Counters -> Nat]
      /\ \A c \in Counters :
           /\ c \notin LocalClaims(r) => Minus(local[nodeOf[r]], LocalClaims(r))[c] = local[nodeOf[r]][c]
           /\ c \in LocalClaims(r) /\ local[nodeOf[r]][c] > 0 =>
                Minus(local[nodeOf[r]], LocalClaims(r))[c] = local[nodeOf[r]][c] - 1
  BY <1>0, PlusMinus
<1>2. local' \in [Nodes -> [Counters -> Nat]]
  BY <1>0, <1>1 DEF TypeOK
<1>3. ASSUME NEW n \in Nodes, NEW c \in Counters
      PROVE  local'[n][c] = Cardinality(LocalHolders(n, c)') /\ local'[n][c] <= Limit[c]
  <2>0. /\ holds'[r] = "none" /\ \A q \in Requests : q # r => holds'[q] = holds[q]
        /\ local[n][c] = Cardinality(LocalHolders(n, c)) /\ local[n][c] <= Limit[c]
        /\ local[n][c] \in Nat /\ Limit[c] \in Nat
    BY AdmissionAssumption DEF TypeOK, LocalExact, AdmissionAssumption
  <2>1. CASE n = nodeOf[r] /\ c \in LocalClaims(r)
    <3>1. /\ r \in LocalHolders(n, c) /\ LocalHolders(n, c)' = LocalHolders(n, c) \ {r}
          /\ LocalHolders(n, c) \in SUBSET Requests
      BY <2>0, <2>1 DEF LocalHolders, LocalClaims
    <3>2. Cardinality(LocalHolders(n, c)') = local[n][c] - 1 /\ local[n][c] >= 1
      BY <2>0, <3>1, Shrink
    <3>3. local'[n][c] = local[n][c] - 1
      BY <1>0, <1>1, <2>0, <2>1, <3>2 DEF TypeOK
    <3> QED
      BY <2>0, <3>2, <3>3
  <2>2. CASE ~(n = nodeOf[r] /\ c \in LocalClaims(r))
    <3>1. local'[n][c] = local[n][c]
      BY <1>0, <1>1, <2>2 DEF TypeOK
    <3>2. LocalHolders(n, c)' = LocalHolders(n, c)
      BY <2>0, <2>2 DEF LocalHolders, LocalClaims
    <3> QED
      BY <2>0, <3>1, <3>2
  <2> QED
    BY <2>1, <2>2
<1> QED
  BY <1>2, <1>3 DEF LocalExact

\* A request that moves between holding nothing and holding Redis is no local holder.
LEMMA LocalOther ==
  ASSUME TypeOK, LocalExact, NEW r \in Requests, nodeOf' = nodeOf, local' = local,
         holds[r] # "local", NEW x \in {"none", "redis", "again"}, holds' = [holds EXCEPT ![r] = x]
  PROVE  LocalExact'
<1>1. ASSUME NEW n \in Nodes, NEW c \in Counters PROVE LocalHolders(n, c)' = LocalHolders(n, c)
  BY DEF LocalHolders, TypeOK, LocalClaims
<1> QED
  BY <1>1 DEF LocalExact

\* Redis admits r: it is one holder more of each of its counters.
LEMMA HolderJoins ==
  ASSUME TypeOK, NEW r \in Requests, holds[r] # "redis", holds' = [holds EXCEPT ![r] = "redis"],
         NEW c \in Counters
  PROVE  Cardinality(Holders(c)') =
           IF c \in Claims[r] THEN Cardinality(Holders(c)) + 1 ELSE Cardinality(Holders(c))
<1>0. holds'[r] = "redis" /\ \A q \in Requests : q # r => holds'[q] = holds[q]
  BY DEF TypeOK
<1>1. CASE c \in Claims[r]
  <2>1. /\ Holders(c) \in SUBSET Requests /\ r \notin Holders(c)
        /\ Holders(c)' = Holders(c) \cup {r}
    BY <1>0, <1>1 DEF Holders
  <2> QED
    BY <1>1, <2>1, Grow
<1>2. CASE c \notin Claims[r]
  <2>1. Holders(c)' = Holders(c)
    BY <1>0, <1>2 DEF Holders
  <2> QED
    BY <1>2, <2>1
<1> QED
  BY <1>1, <1>2

\* r gives up what Redis admitted it for: one holder less, and there was one.
LEMMA HolderLeaves ==
  ASSUME TypeOK, NEW r \in Requests, holds[r] = "redis",
         NEW h \in {"none", "again"}, holds' = [holds EXCEPT ![r] = h], NEW c \in Counters
  PROVE  /\ Cardinality(Holders(c)') =
              IF c \in Claims[r] THEN Cardinality(Holders(c)) - 1 ELSE Cardinality(Holders(c))
         /\ c \in Claims[r] => Cardinality(Holders(c)) >= 1
<1>0. holds'[r] # "redis" /\ \A q \in Requests : q # r => holds'[q] = holds[q]
  BY DEF TypeOK
<1>1. CASE c \in Claims[r]
  <2>1. /\ Holders(c) \in SUBSET Requests /\ r \in Holders(c)
        /\ Holders(c)' = Holders(c) \ {r}
    BY <1>0, <1>1 DEF Holders
  <2> QED
    BY <1>1, <2>1, Shrink
<1>2. CASE c \notin Claims[r]
  <2>1. Holders(c)' = Holders(c)
    BY <1>0, <1>2 DEF Holders
  <2> QED
    BY <1>2, <2>1
<1> QED
  BY <1>1, <1>2

\* The sizes RedisAccounts speaks of are numbers.
LEMMA RedisTypes ==
  ASSUME TypeOK, NEW c \in Counters
  PROVE  /\ Cardinality(Holders(c)) \in Nat /\ redis[c] \in Nat /\ leaked[c] \in Nat
         /\ Limit[c] \in Nat /\ lapsed[c] \in BOOLEAN
<1>1. Holders(c) \in SUBSET Requests
  BY DEF Holders
<1> QED
  BY <1>1, Sized, AdmissionAssumption DEF TypeOK, AdmissionAssumption

\* The acquire script ran: its counts belong to r, or to nobody when its answer was lost.
LEMMA RedisAcquire ==
  ASSUME TypeOK, RedisAccounts, NEW r \in Requests, holds[r] # "redis",
         Free(redis, Claims[r]), redis' = Plus(redis, Claims[r]), lapsed' = lapsed,
         \/ holds' = [holds EXCEPT ![r] = "redis"] /\ leaked' = leaked
         \/ holds' = holds /\ leaked' = Plus(leaked, Claims[r])
  PROVE  RedisAccounts' /\ redis' \in [Counters -> Nat] /\ leaked' \in [Counters -> Nat]
<1>0. /\ redis \in [Counters -> Nat] /\ leaked \in [Counters -> Nat]
      /\ Claims[r] \in SUBSET Counters
  BY AdmissionAssumption DEF TypeOK, AdmissionAssumption
<1>1. redis' \in [Counters -> Nat] /\ leaked' \in [Counters -> Nat]
  BY <1>0, PlusMinus
<1>2. ASSUME NEW c \in Counters
      PROVE  /\ redis'[c] <= Cardinality(Holders(c)') + leaked'[c]
             /\ ~lapsed'[c] => /\ redis'[c] = Cardinality(Holders(c)') + leaked'[c]
                               /\ Cardinality(Holders(c)') + leaked'[c] <= Limit[c]
  <2>0. /\ Cardinality(Holders(c)) \in Nat /\ redis[c] \in Nat /\ leaked[c] \in Nat
        /\ Limit[c] \in Nat
    BY RedisTypes
  <2>1. Cardinality(Holders(c)') + leaked'[c] =
          IF c \in Claims[r] THEN Cardinality(Holders(c)) + leaked[c] + 1
          ELSE Cardinality(Holders(c)) + leaked[c]
    <3>1. CASE holds' = [holds EXCEPT ![r] = "redis"] /\ leaked' = leaked
      <4>1. Cardinality(Holders(c)') =
              IF c \in Claims[r] THEN Cardinality(Holders(c)) + 1 ELSE Cardinality(Holders(c))
        BY <3>1, HolderJoins
      <4> QED
        BY <2>0, <3>1, <4>1
    <3>2. CASE holds' = holds /\ leaked' = Plus(leaked, Claims[r])
      <4>1. Holders(c)' = Holders(c)
        BY <3>2 DEF Holders
      <4> QED
        BY <1>0, <2>0, <3>2, <4>1, PlusMinus
    <3> QED
      BY <3>1, <3>2
  <2>2. redis'[c] = IF c \in Claims[r] THEN redis[c] + 1 ELSE redis[c]
    BY <1>0, PlusMinus
  <2>3. c \in Claims[r] => redis[c] < Limit[c]
    BY DEF Free
  <2> QED
    BY <2>0, <2>1, <2>2, <2>3 DEF RedisAccounts
<1> QED
  BY <1>1, <1>2 DEF RedisAccounts

\* The release script ran for r, or did not reach Redis and its counts are lost.
LEMMA RedisRelease ==
  ASSUME TypeOK, RedisAccounts, NEW r \in Requests, holds[r] = "redis",
         NEW h \in {"none", "again"}, holds' = [holds EXCEPT ![r] = h], lapsed' = lapsed,
         \/ redis' = Minus(redis, Claims[r]) /\ leaked' = leaked
         \/ redis' = redis /\ leaked' = Plus(leaked, Claims[r])
  PROVE  RedisAccounts' /\ redis' \in [Counters -> Nat] /\ leaked' \in [Counters -> Nat]
<1>0. redis \in [Counters -> Nat] /\ leaked \in [Counters -> Nat]
  BY DEF TypeOK
<1>1. redis' \in [Counters -> Nat] /\ leaked' \in [Counters -> Nat]
  BY <1>0, PlusMinus
<1>2. ASSUME NEW c \in Counters
      PROVE  /\ redis'[c] <= Cardinality(Holders(c)') + leaked'[c]
             /\ ~lapsed'[c] => /\ redis'[c] = Cardinality(Holders(c)') + leaked'[c]
                               /\ Cardinality(Holders(c)') + leaked'[c] <= Limit[c]
  <2>0. /\ Cardinality(Holders(c)) \in Nat /\ redis[c] \in Nat /\ leaked[c] \in Nat
        /\ Limit[c] \in Nat
    BY RedisTypes
  <2>1. /\ Cardinality(Holders(c)') =
             IF c \in Claims[r] THEN Cardinality(Holders(c)) - 1 ELSE Cardinality(Holders(c))
        /\ c \in Claims[r] => Cardinality(Holders(c)) >= 1
    BY HolderLeaves
  <2>2. \/ /\ redis'[c] = IF c \in Claims[r] /\ redis[c] > 0 THEN redis[c] - 1 ELSE redis[c]
           /\ leaked'[c] = leaked[c]
        \/ /\ redis'[c] = redis[c]
           /\ leaked'[c] = IF c \in Claims[r] THEN leaked[c] + 1 ELSE leaked[c]
    BY <1>0, PlusMinus
  <2> QED
    BY <2>0, <2>1, <2>2 DEF RedisAccounts
<1> QED
  BY <1>1, <1>2 DEF RedisAccounts

\* What LapsedAgain adds to the history.
LEMMA LapsedFacts ==
  ASSUME TypeOK, NEW r \in Requests
  PROVE  /\ LapsedAgain(r) \in [Counters -> BOOLEAN]
         /\ holds[r] # "again" => LapsedAgain(r) = lapsed
         /\ \A c \in Counters : LapsedAgain(r)[c] =
              (lapsed[c] \/ (holds[r] = "again" /\ c \in Claims[r] /\ redis[c] > 0))
<1>1. \A c \in Counters : LapsedAgain(r)[c] =
        (lapsed[c] \/ (holds[r] = "again" /\ c \in Claims[r] /\ redis[c] > 0))
  BY DEF LapsedAgain
<1>2. LapsedAgain(r) \in [Counters -> BOOLEAN]
  BY Zenon DEF LapsedAgain
<1>3. ASSUME holds[r] # "again" PROVE LapsedAgain(r) = lapsed
  <2>1. lapsed \in [Counters -> BOOLEAN]
    BY DEF TypeOK
  <2>2. \A c \in Counters : LapsedAgain(r)[c] = lapsed[c]
    BY <1>1, <1>3, <2>1, Zenon
  <2>3. /\ LapsedAgain(r) = [c \in Counters |-> LapsedAgain(r)[c]]
        /\ lapsed = [c \in Counters |-> lapsed[c]]
    BY <1>2, <2>1
  <2> QED
    BY <2>2, <2>3, Zenon
<1> QED
  BY <1>1, <1>2, <1>3

\* The release script ran for r once more: it takes from other holders, and says so.
LEMMA RedisAgain ==
  ASSUME TypeOK, RedisAccounts, NEW r \in Requests, holds[r] = "again",
         holds' = [holds EXCEPT ![r] = "none"], leaked' = leaked,
         redis' = Minus(redis, Claims[r]), lapsed' = LapsedAgain(r)
  PROVE  RedisAccounts' /\ redis' \in [Counters -> Nat] /\ leaked' \in [Counters -> Nat]
<1>0. redis \in [Counters -> Nat] /\ leaked \in [Counters -> Nat]
  BY DEF TypeOK
<1>1. redis' \in [Counters -> Nat] /\ leaked' \in [Counters -> Nat]
  BY <1>0, PlusMinus
<1>2. ASSUME NEW c \in Counters
      PROVE  /\ redis'[c] <= Cardinality(Holders(c)') + leaked'[c]
             /\ ~lapsed'[c] => /\ redis'[c] = Cardinality(Holders(c)') + leaked'[c]
                               /\ Cardinality(Holders(c)') + leaked'[c] <= Limit[c]
  <2>0. /\ Cardinality(Holders(c)) \in Nat /\ redis[c] \in Nat /\ leaked[c] \in Nat
        /\ Limit[c] \in Nat
    BY RedisTypes
  <2>1. Holders(c)' = Holders(c)
    BY DEF Holders, TypeOK
  <2>2. redis'[c] = IF c \in Claims[r] /\ redis[c] > 0 THEN redis[c] - 1 ELSE redis[c]
    BY <1>0, PlusMinus
  <2>3. ~lapsed'[c] => ~lapsed[c] /\ ~(c \in Claims[r] /\ redis[c] > 0)
    BY LapsedFacts
  <2> QED
    BY <2>0, <2>1, <2>2, <2>3 DEF RedisAccounts
<1> QED
  BY <1>1, <1>2 DEF RedisAccounts

\* A request that moves between holding nothing and the fallback is no holder in Redis.
LEMMA RedisOther ==
  ASSUME TypeOK, RedisAccounts, NEW r \in Requests, UNCHANGED <<redis, leaked, lapsed>>,
         holds[r] # "redis", NEW x \in {"none", "local"}, holds' = [holds EXCEPT ![r] = x]
  PROVE  RedisAccounts'
<1>1. ASSUME NEW c \in Counters PROVE Holders(c)' = Holders(c)
  BY DEF Holders, TypeOK
<1> QED
  BY <1>1 DEF RedisAccounts

\* A lease that runs out empties its counter; with holders left it is marked as lapsed.
LEMMA RedisExpire ==
  ASSUME TypeOK, RedisAccounts, NEW d \in Counters, LeaseExpires(d)
  PROVE  RedisAccounts' /\ redis' \in [Counters -> Nat] /\ leaked' \in [Counters -> Nat]
<1>0. /\ redis' = [redis EXCEPT ![d] = 0] /\ leaked' = [leaked EXCEPT ![d] = 0] /\ holds' = holds
      /\ lapsed'[d] = (lapsed[d] \/ Holders(d) # {})
      /\ \A c \in Counters : c # d => lapsed'[c] = lapsed[c]
  BY DEF LeaseExpires, TypeOK
<1>1. redis' \in [Counters -> Nat] /\ leaked' \in [Counters -> Nat]
  BY <1>0 DEF TypeOK
<1>2. ASSUME NEW c \in Counters
      PROVE  /\ redis'[c] <= Cardinality(Holders(c)') + leaked'[c]
             /\ ~lapsed'[c] => /\ redis'[c] = Cardinality(Holders(c)') + leaked'[c]
                               /\ Cardinality(Holders(c)') + leaked'[c] <= Limit[c]
  <2>0. /\ Cardinality(Holders(c)) \in Nat /\ redis[c] \in Nat /\ leaked[c] \in Nat
        /\ Limit[c] \in Nat /\ Holders(c)' = Holders(c)
    BY <1>0, RedisTypes DEF Holders
  <2>1. CASE c = d
    <3>1. redis'[c] = 0 /\ leaked'[c] = 0
      BY <1>0, <2>1 DEF TypeOK
    <3>2. ~lapsed'[c] => Cardinality(Holders(c)) = 0
      BY <1>0, <2>1, FS_EmptySet
    <3> QED
      BY <2>0, <3>1, <3>2
  <2>2. CASE c # d
    <3>1. redis'[c] = redis[c] /\ leaked'[c] = leaked[c] /\ lapsed'[c] = lapsed[c]
      BY <1>0, <2>2 DEF TypeOK
    <3> QED
      BY <2>0, <3>1 DEF RedisAccounts
  <2> QED
    BY <2>1, <2>2
<1> QED
  BY <1>1, <1>2 DEF RedisAccounts

\* A crash leaves the counts of its requests in Redis, now leaked.
LEMMA RedisCrash ==
  ASSUME TypeOK, PlaceInv, RedisAccounts, NEW n \in Nodes, Crash(n)
  PROVE  RedisAccounts' /\ leaked' \in [Counters -> Nat]
<1> DEFINE dead == {r \in Requests : nodeOf[r] = n /\ pc[r] \notin {"new", "gone"}}
<1>0. /\ leaked' = [c \in Counters |-> leaked[c] + Cardinality(Holders(c) \cap dead)]
      /\ holds' = [r \in Requests |-> IF r \in dead THEN "none" ELSE holds[r]]
      /\ redis' = redis /\ lapsed' = lapsed
  BY DEF Crash
<1> HIDE DEF dead
<1>1. ASSUME NEW c \in Counters
      PROVE  /\ Cardinality(Holders(c)') + leaked'[c] = Cardinality(Holders(c)) + leaked[c]
             /\ leaked'[c] \in Nat
  <2>0. Holders(c) \in SUBSET Requests /\ Holders(c) \cap dead \in SUBSET Requests
    BY DEF Holders
  <2>1. Holders(c)' = Holders(c) \ dead
    BY <1>0 DEF Holders
  <2>2. Cardinality(Holders(c) \ dead) = Cardinality(Holders(c)) - Cardinality(Holders(c) \cap dead)
    BY <2>0, Sized, FS_Difference
  <2>3. Cardinality(Holders(c)) \in Nat /\ Cardinality(Holders(c) \cap dead) \in Nat
    BY <2>0, Sized
  <2>4. leaked'[c] = leaked[c] + Cardinality(Holders(c) \cap dead) /\ leaked[c] \in Nat
    BY <1>0 DEF TypeOK
  <2> QED
    BY <2>1, <2>2, <2>3, <2>4
<1>2. leaked' \in [Counters -> Nat]
  BY <1>0, <1>1
<1> QED
  BY <1>0, <1>1, <1>2 DEF RedisAccounts

\* A crash empties the fallback counters of its process, and its requests hold no more.
LEMMA LocalCrash ==
  ASSUME TypeOK, PlaceInv, LocalExact, NEW n \in Nodes, Crash(n), nodeOf' = nodeOf
  PROVE  LocalExact'
<1>1. /\ \A m \in Nodes, c \in Counters : local'[m][c] = IF m = n THEN 0 ELSE local[m][c]
      /\ \A q \in Requests : nodeOf[q] # n => holds'[q] = holds[q]
  BY DEF Crash, TypeOK
<1>2. \A q \in Requests : nodeOf[q] = n => holds'[q] = "none"
  <2>1. ASSUME NEW q \in Requests, nodeOf[q] = n PROVE holds'[q] = "none"
    <3>1. CASE pc[q] \in {"new", "gone"}
      BY <2>1, <3>1 DEF Crash, PlaceInv
    <3>2. CASE pc[q] \notin {"new", "gone"}
      BY <2>1, <3>2 DEF Crash
    <3> QED
      BY <3>1, <3>2
  <2> QED
    BY <2>1
<1>3. ASSUME NEW m \in Nodes, NEW c \in Counters
      PROVE  local'[m][c] = Cardinality(LocalHolders(m, c)') /\ local'[m][c] <= Limit[c]
  <2>1. CASE m = n
    <3>1. LocalHolders(m, c)' = {}
      BY <1>2, <2>1 DEF LocalHolders, LocalClaims
    <3>2. Limit[c] \in Nat
      BY AdmissionAssumption DEF AdmissionAssumption
    <3> QED
      BY <1>1, <2>1, <3>1, <3>2, FS_EmptySet
  <2>2. CASE m # n
    <3>1. LocalHolders(m, c)' = LocalHolders(m, c)
      BY <1>1, <2>2 DEF LocalHolders, LocalClaims
    <3> QED
      BY <1>1, <2>2, <3>1 DEF LocalExact
  <2> QED
    BY <2>1, <2>2
<1> QED
  BY <1>3 DEF LocalExact

-----------------------------------------------------------------------------
(* The channel tracker *)

\* The occupants of a channel, and those of one user, are sets of requests.
LEMMA ChannelTypes ==
  ASSUME TypeOK, NEW n \in Nodes, NEW ch \in Channels
  PROVE  /\ Occupants(n, ch) \in SUBSET Requests /\ active[n][ch] \in Nat
         /\ \A u \in Users : /\ UserOn(n, ch, u) \in SUBSET Requests
                             /\ users[n][ch][u] \in Nat
BY DEF Occupants, UserOn, TypeOK

\* One count of the tracker changes.
LEMMA Update ==
  ASSUME NEW f \in [Nodes -> [Channels -> Nat]], NEW g \in [Nodes -> [Channels -> [Users -> Nat]]],
         NEW n \in Nodes, NEW ch \in Channels, NEW v \in Users, NEW x \in Nat, NEW y \in Nat
  PROVE  LET f2 == [f EXCEPT ![n][ch] = x]
             g2 == [g EXCEPT ![n][ch][v] = y]
         IN  /\ f2 \in [Nodes -> [Channels -> Nat]]
             /\ g2 \in [Nodes -> [Channels -> [Users -> Nat]]]
             /\ \A m \in Nodes, c \in Channels :
                  f2[m][c] = IF m = n /\ c = ch THEN x ELSE f[m][c]
             /\ \A m \in Nodes, c \in Channels, u \in Users :
                  g2[m][c][u] = IF m = n /\ c = ch /\ u = v THEN y ELSE g[m][c][u]
<1>1. g[n][ch] \in [Users -> Nat] /\ g[n] \in [Channels -> [Users -> Nat]] /\ f[n] \in [Channels -> Nat]
  OBVIOUS
<1>2. [g[n][ch] EXCEPT ![v] = y] \in [Users -> Nat]
  BY <1>1
<1>3. [g[n] EXCEPT ![ch] = [g[n][ch] EXCEPT ![v] = y]] \in [Channels -> [Users -> Nat]]
  BY <1>1, <1>2
<1>4. [g EXCEPT ![n][ch][v] = y] \in [Nodes -> [Channels -> [Users -> Nat]]]
  BY <1>3
<1>5. \A m \in Nodes, c \in Channels, u \in Users :
        [g EXCEPT ![n][ch][v] = y][m][c][u] = IF m = n /\ c = ch /\ u = v THEN y ELSE g[m][c][u]
  OBVIOUS
<1> QED
  BY <1>1, <1>4, <1>5

\* begin: the channel was free for r, so one occupant more is within both limits.
LEMMA ChannelBegin ==
  ASSUME TypeOK, PlaceInv, ChannelExact, NEW r \in Requests, NEW ch \in Channels, BeginUse(r, ch),
         nodeOf' = nodeOf
  PROVE  /\ ChannelExact'
         /\ active' \in [Nodes -> [Channels -> Nat]]
         /\ users' \in [Nodes -> [Channels -> [Users -> Nat]]]
<1>a. PICK n \in Nodes, v \in Users : n = nodeOf[r] /\ v = UserOf[r]
  BY AdmissionAssumption DEF TypeOK, AdmissionAssumption
<1>0. on[r] = None /\ active[n][ch] < ChannelLimit[ch] /\ users[n][ch][v] < UserChannelLimit[ch]
  BY <1>a DEF BeginUse, At, PlaceInv, Allowed
<1>1. /\ active' = [active EXCEPT ![n][ch] = @ + 1] /\ users' = [users EXCEPT ![n][ch][v] = @ + 1]
      /\ on' = [on EXCEPT ![r] = ch] /\ pc' = [pc EXCEPT ![r] = "held"]
      /\ panicked' = panicked
  BY <1>a DEF BeginUse, Go
<1>2. /\ active' \in [Nodes -> [Channels -> Nat]]
      /\ users' \in [Nodes -> [Channels -> [Users -> Nat]]]
      /\ \A m \in Nodes, c \in Channels :
           active'[m][c] = IF m = n /\ c = ch THEN active[n][ch] + 1 ELSE active[m][c]
      /\ \A m \in Nodes, c \in Channels, u \in Users :
           users'[m][c][u] = IF m = n /\ c = ch /\ u = v THEN users[n][ch][v] + 1 ELSE users[m][c][u]
  <2>1. active[n][ch] + 1 \in Nat /\ users[n][ch][v] + 1 \in Nat
    BY DEF TypeOK
  <2> QED
    BY <1>1, <2>1, Update DEF TypeOK
<1>3. /\ on'[r] = ch /\ pc'[r] = "held" /\ \A q \in Requests : q # r => on'[q] = on[q] /\ pc'[q] = pc[q]
      /\ ch # None
  BY <1>1, AdmissionAssumption DEF TypeOK, AdmissionAssumption
<1>4. ASSUME NEW m \in Nodes, NEW c \in Channels
      PROVE  /\ active'[m][c] = Cardinality(Occupants(m, c)') /\ active'[m][c] <= ChannelLimit[c]
             /\ \A u \in Users :
                  /\ users'[m][c][u] = Cardinality(UserOn(m, c, u)')
                  /\ users'[m][c][u] <= UserChannelLimit[c]
             /\ \A q \in Occupants(m, c)' : pc'[q] \in {"held", "use"} \/ q \in panicked'
  <2>0. /\ ChannelLimit[c] \in Nat /\ UserChannelLimit[c] \in Nat
        /\ Occupants(m, c) \in SUBSET Requests /\ active[m][c] \in Nat
        /\ \A u \in Users : /\ UserOn(m, c, u) \in SUBSET Requests
                            /\ users[m][c][u] \in Nat
    BY ChannelTypes, AdmissionAssumption DEF AdmissionAssumption
  <2>1. CASE m = n /\ c = ch
    <3>1. r \notin Occupants(m, c) /\ Occupants(m, c)' = Occupants(m, c) \cup {r}
      BY <1>a, <1>0, <1>3, <2>1 DEF Occupants
    <3>2. active'[m][c] = active[m][c] + 1
      BY <1>2, <2>1
    <3>3. active'[m][c] = Cardinality(Occupants(m, c)') /\ active'[m][c] <= ChannelLimit[c]
      BY <1>0, <2>0, <2>1, <3>1, <3>2, Grow DEF ChannelExact
    <3>4. ASSUME NEW u \in Users
          PROVE  /\ users'[m][c][u] = Cardinality(UserOn(m, c, u)')
                 /\ users'[m][c][u] <= UserChannelLimit[c]
      <4>1. CASE u = v
        <5>1. /\ r \notin UserOn(m, c, u)
              /\ UserOn(m, c, u)' = UserOn(m, c, u) \cup {r}
          BY <1>a, <3>1, <4>1 DEF UserOn
        <5>2. users'[m][c][u] = users[m][c][u] + 1 /\ users[m][c][u] < UserChannelLimit[c]
          BY <1>0, <1>2, <2>1, <4>1
        <5>3. users[m][c][u] = Cardinality(UserOn(m, c, u))
          BY DEF ChannelExact
        <5> QED
          BY <2>0, <5>1, <5>2, <5>3, Grow
      <4>2. CASE u # v
        <5>1. UserOn(m, c, u)' = UserOn(m, c, u)
          BY <1>a, <3>1, <4>2 DEF UserOn
        <5>2. users'[m][c][u] = users[m][c][u]
          BY <1>2, <4>2
        <5> QED
          BY <5>1, <5>2 DEF ChannelExact
      <4> QED
        BY <4>1, <4>2
    <3>5. ASSUME NEW q \in Occupants(m, c)' PROVE pc'[q] \in {"held", "use"} \/ q \in panicked'
      <4>1. CASE q = r
        BY <1>3, <4>1
      <4>2. CASE q # r
        <5>1. q \in Occupants(m, c) /\ q \in Requests
          BY <2>0, <3>1, <4>2
        <5>2. pc[q] \in {"held", "use"} \/ q \in panicked
          BY <5>1 DEF ChannelExact
        <5> QED
          BY <1>1, <1>3, <4>2, <5>1, <5>2
      <4> QED
        BY <4>1, <4>2
    <3> QED
      BY <3>3, <3>4, <3>5
  <2>2. CASE m # n \/ c # ch
    <3>1. Occupants(m, c)' = Occupants(m, c) /\ r \notin Occupants(m, c)
      BY <1>a, <1>0, <1>3, <2>2, AdmissionAssumption DEF Occupants, AdmissionAssumption
    <3>a. \A u \in Users : UserOn(m, c, u)' = UserOn(m, c, u)
      BY <3>1 DEF UserOn
    <3>2. active'[m][c] = active[m][c] /\ \A u \in Users : users'[m][c][u] = users[m][c][u]
      BY <1>2, <2>2
    <3>3. \A q \in Occupants(m, c) : pc'[q] = pc[q]
      BY <1>3, <3>1 DEF Occupants
    <3> QED
      BY <1>1, <3>1, <3>a, <3>2, <3>3 DEF ChannelExact
  <2> QED
    BY <2>1, <2>2
<1> QED
  BY <1>2, <1>4 DEF ChannelExact

\* end: one occupant less, whatever the request does next.
LEMMA ChannelEnd ==
  ASSUME TypeOK, PlaceInv, ChannelExact, NEW r \in Requests, End(r), pc[r] \in {"held", "use"},
         \A q \in Requests : q # r => pc'[q] = pc[q], nodeOf' = nodeOf
  PROVE  /\ ChannelExact'
         /\ active' \in [Nodes -> [Channels -> Nat]]
         /\ users' \in [Nodes -> [Channels -> [Users -> Nat]]]
         /\ on' \in [Requests -> Channels \cup {None}]
         /\ on'[r] = None /\ \A q \in Requests : q # r => on'[q] = on[q]
<1>0. on[r] # None /\ on[r] \in Channels
  BY DEF PlaceInv, TypeOK
<1>a. PICK n \in Nodes, v \in Users, ch \in Channels : n = nodeOf[r] /\ v = UserOf[r] /\ ch = on[r]
  BY <1>0, AdmissionAssumption DEF TypeOK, AdmissionAssumption
<1>b. r \in Occupants(n, ch) /\ r \in UserOn(n, ch, v)
  BY <1>a DEF Occupants, UserOn
<1>1. /\ active' = [active EXCEPT ![n][ch] = @ - 1] /\ users' = [users EXCEPT ![n][ch][v] = @ - 1]
      /\ on' = [on EXCEPT ![r] = None] /\ panicked' = panicked
  BY <1>a DEF End
<1>2. /\ active' \in [Nodes -> [Channels -> Nat]]
      /\ users' \in [Nodes -> [Channels -> [Users -> Nat]]]
      /\ \A m \in Nodes, c \in Channels :
           active'[m][c] = IF m = n /\ c = ch THEN active[n][ch] - 1 ELSE active[m][c]
      /\ \A m \in Nodes, c \in Channels, u \in Users :
           users'[m][c][u] = IF m = n /\ c = ch /\ u = v THEN users[n][ch][v] - 1 ELSE users[m][c][u]
  <2>0. /\ Occupants(n, ch) \in SUBSET Requests /\ UserOn(n, ch, v) \in SUBSET Requests
        /\ active[n][ch] \in Nat /\ users[n][ch][v] \in Nat
    BY ChannelTypes
  <2>1. active[n][ch] = Cardinality(Occupants(n, ch)) /\ users[n][ch][v] = Cardinality(UserOn(n, ch, v))
    BY DEF ChannelExact
  <2>2. Cardinality(Occupants(n, ch)) >= 1 /\ Cardinality(UserOn(n, ch, v)) >= 1
    BY <1>b, <2>0, Shrink
  <2>3. active[n][ch] - 1 \in Nat /\ users[n][ch][v] - 1 \in Nat
    BY <2>0, <2>1, <2>2
  <2> QED
    BY <1>1, <2>3, Update DEF TypeOK
<1>3. /\ on'[r] = None /\ \A q \in Requests : q # r => on'[q] = on[q]
      /\ on' \in [Requests -> Channels \cup {None}]
  BY <1>1 DEF TypeOK
<1>4. ASSUME NEW m \in Nodes, NEW c \in Channels
      PROVE  /\ active'[m][c] = Cardinality(Occupants(m, c)') /\ active'[m][c] <= ChannelLimit[c]
             /\ \A u \in Users :
                  /\ users'[m][c][u] = Cardinality(UserOn(m, c, u)')
                  /\ users'[m][c][u] <= UserChannelLimit[c]
             /\ \A q \in Occupants(m, c)' : pc'[q] \in {"held", "use"} \/ q \in panicked'
  <2>0. /\ ChannelLimit[c] \in Nat /\ UserChannelLimit[c] \in Nat /\ c # None
        /\ Occupants(m, c) \in SUBSET Requests /\ active[m][c] \in Nat
        /\ \A u \in Users : /\ UserOn(m, c, u) \in SUBSET Requests
                            /\ users[m][c][u] \in Nat
    BY ChannelTypes, AdmissionAssumption DEF AdmissionAssumption
  <2>1. Occupants(m, c)' = Occupants(m, c) \ {r}
    BY <1>3, <2>0 DEF Occupants
  <2>2. \A u \in Users : UserOn(m, c, u)' = UserOn(m, c, u) \ {r}
    BY <2>1 DEF UserOn
  <2>3. ASSUME NEW q \in Occupants(m, c)' PROVE pc'[q] \in {"held", "use"} \/ q \in panicked'
    <3>1. q \in Occupants(m, c) /\ q \in Requests /\ q # r
      BY <2>0, <2>1
    <3>2. pc[q] \in {"held", "use"} \/ q \in panicked
      BY <3>1 DEF ChannelExact
    <3> QED
      BY <1>1, <3>1, <3>2
  <2>4. active'[m][c] = Cardinality(Occupants(m, c)') /\ active'[m][c] <= ChannelLimit[c]
    <3>0. active[m][c] = Cardinality(Occupants(m, c)) /\ active[m][c] <= ChannelLimit[c]
      BY DEF ChannelExact
    <3>1. CASE m = n /\ c = ch
      <4>1. active'[m][c] = active[m][c] - 1
        BY <1>2, <3>1
      <4>2. Cardinality(Occupants(m, c)') = Cardinality(Occupants(m, c)) - 1
        BY <1>b, <2>0, <2>1, <3>1, Shrink
      <4> QED
        BY <2>0, <3>0, <4>1, <4>2
    <3>2. CASE m # n \/ c # ch
      <4>1. r \notin Occupants(m, c)
        BY <1>a, <3>2 DEF Occupants
      <4>2. Occupants(m, c)' = Occupants(m, c)
        BY <2>1, <4>1
      <4>3. active'[m][c] = active[m][c]
        BY <1>2, <3>2
      <4> QED
        BY <3>0, <4>2, <4>3
    <3> QED
      BY <3>1, <3>2
  <2>5. ASSUME NEW u \in Users
        PROVE  users'[m][c][u] = Cardinality(UserOn(m, c, u)') /\ users'[m][c][u] <= UserChannelLimit[c]
    <3>0. users[m][c][u] = Cardinality(UserOn(m, c, u)) /\ users[m][c][u] <= UserChannelLimit[c]
      BY DEF ChannelExact
    <3>1. CASE m = n /\ c = ch /\ u = v
      <4>1. users'[m][c][u] = users[m][c][u] - 1
        BY <1>2, <3>1
      <4>2. Cardinality(UserOn(m, c, u)') = Cardinality(UserOn(m, c, u)) - 1
        BY <1>b, <2>0, <2>2, <3>1, Shrink
      <4>3. users[m][c][u] \in Nat
        BY <2>0
      <4> QED
        BY <2>0, <3>0, <4>1, <4>2, <4>3
    <3>2. CASE ~(m = n /\ c = ch /\ u = v)
      <4>1. r \notin UserOn(m, c, u)
        BY <1>a, <3>2 DEF UserOn, Occupants
      <4>2. UserOn(m, c, u)' = UserOn(m, c, u)
        BY <2>2, <4>1
      <4>3. users'[m][c][u] = users[m][c][u]
        BY <1>2, <3>2
      <4> QED
        BY <3>0, <4>2, <4>3
    <3> QED
      BY <3>1, <3>2
  <2> QED
    BY <2>3, <2>4, <2>5
<1> QED
  BY <1>2, <1>3, <1>4 DEF ChannelExact

\* A crash empties the tracker of its process, and its requests are on no channel.
LEMMA ChannelCrash ==
  ASSUME TypeOK, PlaceInv, ChannelExact, NEW n \in Nodes, Crash(n), nodeOf' = nodeOf
  PROVE  ChannelExact'
<1>1. /\ \A m \in Nodes, c \in Channels : active'[m][c] = IF m = n THEN 0 ELSE active[m][c]
      /\ \A m \in Nodes, c \in Channels, u \in Users :
           users'[m][c][u] = IF m = n THEN 0 ELSE users[m][c][u]
      /\ \A q \in Requests : nodeOf[q] # n =>
           on'[q] = on[q] /\ pc'[q] = pc[q] /\ (q \in panicked' <=> q \in panicked)
  BY DEF Crash, TypeOK
<1>2. \A q \in Requests : nodeOf[q] = n => on'[q] = None
  BY DEF Crash
<1>3. ASSUME NEW m \in Nodes, NEW c \in Channels
      PROVE  /\ active'[m][c] = Cardinality(Occupants(m, c)') /\ active'[m][c] <= ChannelLimit[c]
             /\ \A u \in Users :
                  /\ users'[m][c][u] = Cardinality(UserOn(m, c, u)')
                  /\ users'[m][c][u] <= UserChannelLimit[c]
             /\ \A q \in Occupants(m, c)' : pc'[q] \in {"held", "use"} \/ q \in panicked'
  <2>0. ChannelLimit[c] \in Nat /\ UserChannelLimit[c] \in Nat /\ c # None
    BY AdmissionAssumption DEF AdmissionAssumption
  <2>1. CASE m = n
    <3>1. Occupants(m, c)' = {}
      BY <1>2, <2>0, <2>1 DEF Occupants
    <3>2. \A u \in Users : UserOn(m, c, u)' = {}
      BY <3>1 DEF UserOn
    <3>3. active'[m][c] = 0 /\ \A u \in Users : users'[m][c][u] = 0
      BY <1>1, <2>1
    <3>4. active'[m][c] = Cardinality(Occupants(m, c)') /\ active'[m][c] <= ChannelLimit[c]
      BY <2>0, <3>1, <3>3, FS_EmptySet
    <3>5. \A u \in Users : /\ users'[m][c][u] = Cardinality(UserOn(m, c, u)')
                          /\ users'[m][c][u] <= UserChannelLimit[c]
      BY <2>0, <3>2, <3>3, FS_EmptySet
    <3> QED
      BY <3>1, <3>4, <3>5
  <2>2. CASE m # n
    <3>1. Occupants(m, c)' = Occupants(m, c)
      BY <1>1, <2>2 DEF Occupants
    <3>2. \A u \in Users : UserOn(m, c, u)' = UserOn(m, c, u)
      BY <3>1 DEF UserOn
    <3>3. \A q \in Occupants(m, c) : pc'[q] = pc[q] /\ (q \in panicked' <=> q \in panicked)
      BY <1>1, <2>2 DEF Occupants
    <3>4. active'[m][c] = active[m][c] /\ \A u \in Users : users'[m][c][u] = users[m][c][u]
      BY <1>1, <2>2
    <3> QED
      BY <3>1, <3>2, <3>3, <3>4 DEF ChannelExact
  <2> QED
    BY <2>1, <2>2
<1> QED
  BY <1>3 DEF ChannelExact

-----------------------------------------------------------------------------
(* A request moves *)

\* Only r moves.
LEMMA Moved ==
  ASSUME TypeOK, NEW r \in Requests, NEW x \in Places, Go(r, x)
  PROVE  /\ pc' \in [Requests -> Places] /\ pc'[r] = x
         /\ \A q \in Requests : q # r => pc'[q] = pc[q]
BY DEF Go, TypeOK

\* The move is none the key limiter would notice.
KeepsKey(r, x) ==
  KeyOf[r] \in Keys => /\ x = "new" <=> pc[r] = "new"
                       /\ x = "gone" <=> pc[r] = "gone"
                       /\ x \in InSlot <=> pc[r] \in InSlot

\* A move that leaves a request on the same side of its key entry and slot keeps the key's books.
LEMMA KeyMove ==
  ASSUME TypeOK, KeyInv, EntryInv, NEW r \in Requests, NEW x \in Places, Go(r, x),
         KeepsKey(r, x), UNCHANGED <<nodeOf, keyVars>>
  PROVE  KeyInv' /\ EntryInv'
<1>1. SamePlace
  BY Moved DEF SamePlace, KeepsKey
<1> QED
  BY <1>1, KeyFrame

\* A request that occupies a channel keeps to the places of those that do.
LEMMA ChannelMove ==
  ASSUME TypeOK, PlaceInv, ChannelExact, NEW r \in Requests, NEW x \in Places, Go(r, x),
         pc[r] \in {"held", "use"} => x \in {"held", "use"}, UNCHANGED <<nodeOf, channelVars>>
  PROVE  ChannelExact'
<1>0. UNCHANGED <<active, users, on, panicked>>
  BY DEF channelVars
<1>1. ASSUME NEW q \in Requests, on[q] # None
      PROVE  pc'[q] \in {"held", "use"} \/ q \in panicked'
  <2>1. pc[q] \in {"held", "use"} \/ q \in panicked
    BY <1>1 DEF PlaceInv
  <2> QED
    BY <1>0, <2>1, Moved
<1> QED
  BY <1>0, <1>1, ChannelFrame

\* What r holds fits the place it moves to.
LEMMA PlaceMove ==
  ASSUME TypeOK, PlaceInv, NEW r \in Requests, NEW x \in Places, Go(r, x),
         \A q \in Requests : q # r => holds'[q] = holds[q] /\ on'[q] = on[q] /\ mine'[q] = mine[q],
         holds'[r] # "none" => x \in {"route", "held", "use", "leave"},
         \A q \in Requests : q # r => (q \in panicked' <=> q \in panicked),
         on'[r] # None <=> x \in {"held", "use"} \/ r \in panicked',
         r \in panicked' => x \in {"leave", "unkey", "drop", "gone"},
         mine'[r] # None <=> KeyOf[r] \in Keys /\ x \notin {"new", "gone"},
         x \in {"slot", "drop"} => KeyOf[r] \in Keys
  PROVE  PlaceInv'
<1>1. pc'[r] = x /\ \A q \in Requests : q # r => pc'[q] = pc[q]
  BY Moved
<1>2. ASSUME NEW q \in Requests
      PROVE  /\ holds'[q] # "none" => pc'[q] \in {"route", "held", "use", "leave"}
             /\ on'[q] # None <=> pc'[q] \in {"held", "use"} \/ q \in panicked'
             /\ q \in panicked' => pc'[q] \in {"leave", "unkey", "drop", "gone"}
             /\ mine'[q] # None <=> KeyOf[q] \in Keys /\ pc'[q] \notin {"new", "gone"}
             /\ pc'[q] \in {"slot", "drop"} => KeyOf[q] \in Keys
  <2>1. CASE q = r
    BY <1>1, <2>1
  <2>2. CASE q # r
    <3>1. /\ pc'[q] = pc[q] /\ holds'[q] = holds[q] /\ on'[q] = on[q] /\ mine'[q] = mine[q]
          /\ q \in panicked' <=> q \in panicked
      BY <1>1, <2>2
    <3> QED
      BY <3>1 DEF PlaceInv
  <2> QED
    BY <2>1, <2>2
<1> QED
  BY <1>2 DEF PlaceInv

\* Continue counts an attempt and goes to the next route or ends the loop.
LEMMA ContinueFacts ==
  ASSUME TypeOK, NEW r \in Requests, NEW counted \in {0, 1}, Continue(r, counted)
  PROVE  used' \in [Requests -> Nat] /\ \E x \in {"route", "leave"} : Go(r, x)
<1>1. used[r] \in Nat /\ used[r] + 1 - counted \in Nat
  BY DEF TypeOK
<1>2. used' = [used EXCEPT ![r] = used[r] + 1 - counted]
  BY DEF Continue
<1>3. used' \in [Requests -> Nat]
  BY <1>1, <1>2 DEF TypeOK
<1>4. \E x \in {"route", "leave"} : Go(r, x)
  BY DEF Continue, Goes
<1> QED
  BY <1>3, <1>4

\* A step that only moves r and touches what no limiter counts.
LEMMA QuietMove ==
  ASSUME AInv, NEW r \in Requests, NEW x \in Places, Go(r, x), KeepsKey(r, x),
         UNCHANGED <<nodeOf, keyVars, counterVars, channelVars, troubles, cancelled>>,
         excluded' \in [Requests -> SUBSET Channels], used' \in [Requests -> Nat],
         holds[r] # "none" => x \in {"route", "held", "use", "leave"},
         x \in {"held", "use"} <=> pc[r] \in {"held", "use"},
         KeyOf[r] \notin Keys \/ (x \notin {"new", "gone"} <=> pc[r] \notin {"new", "gone"}),
         x \in {"slot", "drop"} => KeyOf[r] \in Keys,
         pc[r] \notin {"leave", "unkey", "drop", "gone"}
  PROVE  AInv'
<1>0. /\ TypeOK /\ PlaceInv /\ KeyInv /\ EntryInv /\ LocalExact /\ RedisAccounts /\ ChannelExact
      /\ UNCHANGED <<entries, refs, slots, mine, up, redis, local, holds, leaked, lapsed,
                     active, users, on, panicked>>
  BY DEF AInv, AdmissionInv, keyVars, counterVars, channelVars
<1>1. TypeOK'
  <2>1. pc' \in [Requests -> Places]
    BY <1>0, Moved
  <2> QED
    BY <1>0, <2>1 DEF TypeOK
<1>2. PlaceInv'
  <2>1. /\ r \notin panicked /\ (on[r] # None <=> x \in {"held", "use"})
        /\ mine[r] # None <=> KeyOf[r] \in Keys /\ x \notin {"new", "gone"}
    BY <1>0 DEF PlaceInv
  <2> QED
    BY <1>0, <2>1, PlaceMove
<1>3. KeyInv' /\ EntryInv'
  BY <1>0, KeyMove
<1>4. LocalExact' /\ RedisAccounts'
  BY <1>0, LocalFrame, RedisFrame
<1>5. ChannelExact'
  BY <1>0, ChannelMove
<1> QED
  BY <1>1, <1>2, <1>3, <1>4, <1>5 DEF AInv, AdmissionInv

\* Steps that take and return nothing: no key, a cancelled wait, no limit, no channel, the call.
LEMMA QuietSteps ==
  ASSUME AInv, NEW r \in Requests, nodeOf' = nodeOf,
         \/ NoKeyNeeded(r) \/ KeyCancelled(r) \/ Unlimited(r) \/ SelectFails(r) \/ CallUpstream(r)
         \/ \E ch \in Channels : ChannelFull(r, ch)
  PROVE  AInv'
<1>0. /\ TypeOK /\ PlaceInv /\ excluded \in [Requests -> SUBSET Channels] /\ used \in [Requests -> Nat]
      /\ {"keyed", "drop", "route", "leave", "use"} \subseteq Places
  BY DEF AInv, AdmissionInv, TypeOK, Places
<1>1. CASE NoKeyNeeded(r)
  <2>1. /\ Go(r, "keyed") /\ pc[r] = "new" /\ KeyOf[r] \notin Keys
        /\ UNCHANGED <<keyVars, counterVars, channelVars, troubles, cancelled, excluded, used>>
    BY <1>1, AdmissionAssumption DEF NoKeyNeeded, At, AdmissionAssumption, routeVars
  <2>2. holds[r] = "none" /\ KeepsKey(r, "keyed")
    BY <1>0, <2>1 DEF PlaceInv, KeepsKey
  <2> QED
    BY <1>0, <2>1, <2>2, QuietMove
<1>2. CASE KeyCancelled(r)
  <2>1. /\ Go(r, "drop") /\ pc[r] = "slot"
        /\ UNCHANGED <<keyVars, counterVars, channelVars, troubles, cancelled, excluded, used>>
    BY <1>2 DEF KeyCancelled, At, routeVars
  <2>2. holds[r] = "none" /\ KeepsKey(r, "drop") /\ KeyOf[r] \in Keys
    BY <1>0, <2>1 DEF PlaceInv, KeepsKey, InSlot
  <2> QED
    BY <1>0, <2>1, <2>2, QuietMove
<1>3. CASE Unlimited(r)
  <2>1. /\ Go(r, "route") /\ pc[r] = "keyed"
        /\ UNCHANGED <<keyVars, counterVars, channelVars, troubles, cancelled, excluded, used>>
    BY <1>3 DEF Unlimited, At, routeVars
  <2>2. KeepsKey(r, "route")
    BY <2>1 DEF KeepsKey, InSlot, Places
  <2> QED
    BY <1>0, <2>1, <2>2, QuietMove
<1>4. ASSUME NEW x \in {"route", "leave"}, Go(r, x), pc[r] = "route",
             UNCHANGED <<keyVars, counterVars, channelVars, troubles, cancelled>>,
             excluded' \in [Requests -> SUBSET Channels], used' \in [Requests -> Nat]
      PROVE  AInv'
  <2>1. KeepsKey(r, x)
    BY <1>4 DEF KeepsKey, InSlot, Places
  <2>2. x \in Places
    BY <1>0
  <2> QED
    BY <1>4, <2>1, <2>2, QuietMove
<1>5. CASE SelectFails(r)
  <2>1. /\ pc[r] = "route" /\ Continue(r, 0)
        /\ UNCHANGED <<keyVars, counterVars, channelVars, troubles, cancelled, excluded>>
    BY <1>5 DEF SelectFails, At
  <2> QED
    BY <1>0, <1>4, <2>1, ContinueFacts
<1>6. ASSUME NEW ch \in Channels, ChannelFull(r, ch) PROVE AInv'
  <2>1. /\ pc[r] = "route" /\ Continue(r, 0)
        /\ UNCHANGED <<keyVars, counterVars, channelVars, troubles, cancelled>>
        /\ excluded' = [excluded EXCEPT ![r] = @ \cup {ch}]
    BY <1>6 DEF ChannelFull, At
  <2>2. excluded' \in [Requests -> SUBSET Channels]
    BY <1>0, <2>1
  <2> QED
    BY <1>0, <1>4, <2>1, <2>2, ContinueFacts
<1>7. CASE CallUpstream(r)
  <2>1. /\ Go(r, "use") /\ pc[r] = "held" /\ used' = [used EXCEPT ![r] = @ + 1]
        /\ UNCHANGED <<keyVars, counterVars, channelVars, troubles, cancelled, excluded>>
    BY <1>7 DEF CallUpstream, At
  <2>2. KeepsKey(r, "use")
    BY <2>1 DEF KeepsKey, InSlot, Places
  <2>3. used' \in [Requests -> Nat]
    BY <1>0, <2>1
  <2> QED
    BY <1>0, <2>1, <2>2, <2>3, QuietMove
<1> QED
  BY <1>1, <1>2, <1>3, <1>5, <1>6, <1>7

-----------------------------------------------------------------------------
(* The steps of the key limiter *)

\* What a step of the key limiter leaves alone stays right.
LEMMA KeySide ==
  ASSUME AInv, NEW r \in Requests, NEW x \in Places, Go(r, x), pc[r] \notin {"held", "use"},
         UNCHANGED <<nodeOf, counterVars, channelVars>>
  PROVE  LocalExact' /\ RedisAccounts' /\ ChannelExact'
<1>0. /\ TypeOK /\ PlaceInv /\ LocalExact /\ RedisAccounts /\ ChannelExact
      /\ UNCHANGED <<redis, local, holds, leaked, lapsed>>
  BY DEF AInv, AdmissionInv, counterVars
<1>1. LocalExact' /\ RedisAccounts'
  BY <1>0, LocalFrame, RedisFrame
<1> QED
  BY <1>0, <1>1, ChannelMove

\* model-request-isolation.go: the request gets its key's entry, a new one or one in use.
LEMMA KeyEnterStep ==
  ASSUME AInv, NEW r \in Requests, KeyEnter(r), nodeOf' = nodeOf
  PROVE  AInv'
<1>0. /\ TypeOK /\ PlaceInv /\ KeyInv /\ EntryInv /\ "slot" \in Places
      /\ Go(r, "slot") /\ pc[r] = "new" /\ KeyOf[r] \in Keys
      /\ UNCHANGED <<counterVars, channelVars>>
      /\ UNCHANGED <<slots, up, redis, local, holds, leaked, lapsed, active, users, on, panicked,
                     cancelled, excluded, used, troubles>>
  BY DEF AInv, AdmissionInv, Places, KeyEnter, At, counterVars, channelVars, routeVars
<1>1. PICK n \in Nodes, k \in Keys, e \in Requests :
        /\ n = nodeOf[r] /\ k = KeyOf[r]
        /\ entries' = [entries EXCEPT ![n][k] = e] /\ refs' = [refs EXCEPT ![e] = @ + 1]
        /\ mine' = [mine EXCEPT ![r] = e]
  <2>1. nodeOf[r] \in Nodes /\ entries[nodeOf[r]][KeyOf[r]] \in Requests \cup {None}
    BY <1>0 DEF TypeOK
  <2>2. PICK e \in Requests :
          e = IF entries[nodeOf[r]][KeyOf[r]] = None THEN r ELSE entries[nodeOf[r]][KeyOf[r]]
    BY <2>1
  <2> QED
    BY <1>0, <2>1, <2>2 DEF KeyEnter
<1>2. /\ mine' \in [Requests -> Requests \cup {None}] /\ refs' \in [Requests -> Nat]
      /\ mine'[r] = e /\ \A q \in Requests : q # r => mine'[q] = mine[q]
      /\ entries' \in [Nodes -> [Keys -> Requests \cup {None}]]
  BY <1>0, <1>1 DEF TypeOK
<1>3. TypeOK'
  <2>1. pc' \in [Requests -> Places]
    BY <1>0, Moved
  <2> QED
    BY <1>0, <1>2, <2>1 DEF TypeOK
<1>4. PlaceInv'
  <2>1. holds[r] = "none" /\ on[r] = None /\ r \notin panicked /\ e # None
    BY <1>0, AdmissionAssumption DEF PlaceInv, AdmissionAssumption
  <2> QED
    BY <1>0, <1>2, <2>1, PlaceMove
<1>5. KeyInv' /\ EntryInv'
  BY <1>0, KeyEnterInv
<1>6. LocalExact' /\ RedisAccounts' /\ ChannelExact'
  BY <1>0, KeySide
<1> QED
  BY <1>3, <1>4, <1>5, <1>6 DEF AInv, AdmissionInv

\* The request takes a slot of the entry's semaphore.
LEMMA KeySlotStep ==
  ASSUME AInv, NEW r \in Requests, KeySlot(r), nodeOf' = nodeOf
  PROVE  AInv'
<1>0. /\ TypeOK /\ PlaceInv /\ KeyInv /\ EntryInv
      /\ pc[r] = "slot" /\ slots[mine[r]] < KeyLimit /\ slots' = [slots EXCEPT ![mine[r]] = @ + 1]
      /\ UNCHANGED <<counterVars, channelVars>>
      /\ UNCHANGED <<entries, refs, mine, up, redis, local, holds, leaked, lapsed,
                     active, users, on, panicked, cancelled, excluded, used, troubles>>
  BY DEF AInv, AdmissionInv, KeySlot, At, counterVars, channelVars, routeVars
<1>1. PICK x \in {"unkey", "keyed"} : Go(r, x)
  BY DEF KeySlot
<1>2. x \in Places /\ x \in InSlot
  BY DEF Places, InSlot
<1>3. holds[r] = "none" /\ on[r] = None /\ r \notin panicked /\ KeyOf[r] \in Keys /\ mine[r] # None
  BY <1>0 DEF PlaceInv
<1>4. KeyInv' /\ EntryInv' /\ slots' \in [Requests -> Nat]
  <2>1. pc' = [pc EXCEPT ![r] = x]
    BY <1>1 DEF Go
  <2> QED
    BY <1>0, <1>2, <1>3, <2>1, SlotInv
<1>5. TypeOK'
  <2>1. pc' \in [Requests -> Places]
    BY <1>0, <1>1, <1>2, Moved
  <2> QED
    BY <1>0, <1>4, <2>1 DEF TypeOK
<1>6. PlaceInv'
  BY <1>0, <1>1, <1>2, <1>3, PlaceMove
<1>7. LocalExact' /\ RedisAccounts' /\ ChannelExact'
  BY <1>0, <1>1, <1>2, KeySide
<1> QED
  BY <1>4, <1>5, <1>6, <1>7 DEF AInv, AdmissionInv

\* The request gives its slot back before it drops its reference.
LEMMA KeyReleaseStep ==
  ASSUME AInv, NEW r \in Requests, KeyRelease(r), nodeOf' = nodeOf
  PROVE  AInv'
<1>0. /\ TypeOK /\ PlaceInv /\ KeyInv /\ EntryInv /\ pc[r] = "unkey"
      /\ UNCHANGED <<counterVars, channelVars>>
      /\ UNCHANGED <<entries, refs, mine, up, redis, local, holds, leaked, lapsed,
                     active, users, on, panicked, excluded, used, troubles>>
      /\ {"gone", "drop"} \subseteq Places
  BY DEF AInv, AdmissionInv, KeyRelease, At, counterVars, channelVars, routeVars, Places
<1>1. holds[r] = "none" /\ (on[r] # None <=> r \in panicked) /\ (mine[r] # None <=> KeyOf[r] \in Keys)
  BY <1>0 DEF PlaceInv
<1>2. CASE mine[r] = None
  <2>1. Go(r, "gone") /\ ForgetContext(r) /\ UNCHANGED keyVars
    BY <1>0, <1>2 DEF KeyRelease, keyVars
  <2>2. KeyInv' /\ EntryInv'
    BY <1>0, <1>1, <1>2, <2>1, KeyMove DEF KeepsKey
  <2>3. TypeOK'
    <3>1. pc' \in [Requests -> Places] /\ cancelled' \in [Requests -> BOOLEAN]
      BY <1>0, <2>1, Moved DEF ForgetContext, TypeOK
    <3> QED
      BY <1>0, <2>1, <3>1 DEF TypeOK, keyVars
  <2>4. PlaceInv'
    BY <1>0, <1>1, <1>2, <2>1, PlaceMove
  <2>5. LocalExact' /\ RedisAccounts' /\ ChannelExact'
    BY <1>0, <2>1, KeySide
  <2> QED
    BY <2>2, <2>3, <2>4, <2>5 DEF AInv, AdmissionInv
<1>3. CASE mine[r] # None
  <2>1. Go(r, "drop") /\ UNCHANGED cancelled /\ slots' = [slots EXCEPT ![mine[r]] = @ - 1]
    BY <1>3 DEF KeyRelease
  <2>2. KeyInv' /\ EntryInv' /\ slots' \in [Requests -> Nat]
    <3>1. pc' = [pc EXCEPT ![r] = "drop"] /\ pc[r] \in InSlot
      BY <1>0, <2>1 DEF Go, InSlot, Places
    <3> QED
      BY <1>0, <1>1, <1>3, <2>1, <3>1, SlotInv
  <2>3. TypeOK'
    <3>1. pc' \in [Requests -> Places]
      BY <1>0, <2>1, Moved
    <3> QED
      BY <1>0, <2>1, <2>2, <3>1 DEF TypeOK
  <2>4. PlaceInv'
    BY <1>0, <1>1, <1>3, <2>1, PlaceMove
  <2>5. LocalExact' /\ RedisAccounts' /\ ChannelExact'
    BY <1>0, <2>1, KeySide
  <2> QED
    BY <2>2, <2>3, <2>4, <2>5 DEF AInv, AdmissionInv
<1> QED
  BY <1>2, <1>3

\* The last reference to an entry removes it from the map.
LEMMA KeyDropStep ==
  ASSUME AInv, NEW r \in Requests, KeyDrop(r), nodeOf' = nodeOf
  PROVE  AInv'
<1>0. /\ TypeOK /\ PlaceInv /\ KeyInv /\ EntryInv /\ "gone" \in Places
      /\ Go(r, "gone") /\ ForgetContext(r) /\ pc[r] = "drop"
      /\ mine' = [mine EXCEPT ![r] = None]
      /\ UNCHANGED <<counterVars, channelVars>>
      /\ UNCHANGED <<slots, up, redis, local, holds, leaked, lapsed, active, users, on,
                     panicked, excluded, used, troubles>>
  BY DEF AInv, AdmissionInv, Places, KeyDrop, At, counterVars, channelVars, routeVars
<1>1. holds[r] = "none" /\ (on[r] # None <=> r \in panicked) /\ KeyOf[r] \in Keys
  BY <1>0 DEF PlaceInv
<1>2. /\ mine' \in [Requests -> Requests \cup {None}]
      /\ mine'[r] = None /\ \A q \in Requests : q # r => mine'[q] = mine[q]
  BY <1>0 DEF TypeOK
<1>3. entries' \in [Nodes -> [Keys -> Requests \cup {None}]]
  <2>0. nodeOf[r] \in Nodes
    BY <1>0 DEF TypeOK
  <2>1. entries' = entries \/ entries' = [entries EXCEPT ![nodeOf[r]][KeyOf[r]] = None]
    BY DEF KeyDrop
  <2>2. /\ entries \in [Nodes -> [Keys -> Requests \cup {None}]]
        /\ [entries[nodeOf[r]] EXCEPT ![KeyOf[r]] = None] \in [Keys -> Requests \cup {None}]
    BY <1>0, <1>1, <2>0 DEF TypeOK
  <2> QED
    BY <2>0, <2>1, <2>2
<1>4. KeyInv' /\ EntryInv' /\ refs' \in [Requests -> Nat]
  BY <1>0, KeyDropInv
<1>5. TypeOK'
  <2>1. pc' \in [Requests -> Places] /\ cancelled' \in [Requests -> BOOLEAN]
    BY <1>0, Moved DEF ForgetContext, TypeOK
  <2> QED
    BY <1>0, <1>2, <1>3, <1>4, <2>1 DEF TypeOK
<1>6. PlaceInv'
  BY <1>0, <1>1, <1>2, PlaceMove
<1>7. LocalExact' /\ RedisAccounts' /\ ChannelExact'
  BY <1>0, KeySide
<1> QED
  BY <1>4, <1>5, <1>6, <1>7 DEF AInv, AdmissionInv

-----------------------------------------------------------------------------
(* The steps of the counters *)

\* A step of the counters moves r between places that hold a slot of its key and no
\* channel; what is left to show is what the counters say.
LEMMA CounterStep ==
  ASSUME AInv, NEW r \in Requests, NEW x \in {"keyed", "local", "route", "unkey", "leave"},
         Go(r, x), pc[r] \in {"keyed", "local", "leave"},
         pc[r] = "leave" => x \in {"unkey", "leave"},
         UNCHANGED <<nodeOf, keyVars, channelVars, cancelled, up>>,
         troubles' \in Nat, lapsed' \in [Counters -> BOOLEAN],
         redis' \in [Counters -> Nat], leaked' \in [Counters -> Nat],
         local' \in [Nodes -> [Counters -> Nat]], used' \in [Requests -> Nat],
         excluded' \in [Requests -> SUBSET Channels],
         NEW h \in {"none", "redis", "local", "again"}, holds' = [holds EXCEPT ![r] = h],
         h # "none" => x \in {"route", "leave"},
         LocalExact', RedisAccounts'
  PROVE  AInv'
<1>0. /\ TypeOK /\ PlaceInv /\ KeyInv /\ EntryInv /\ ChannelExact
      /\ UNCHANGED <<entries, refs, slots, mine, active, users, on, panicked>>
      /\ x \in Places /\ KeepsKey(r, x)
  BY DEF AInv, AdmissionInv, keyVars, channelVars, Places, KeepsKey, InSlot
<1>1. /\ holds' \in [Requests -> {"none", "redis", "local", "again"}]
      /\ holds'[r] = h /\ \A q \in Requests : q # r => holds'[q] = holds[q]
  BY <1>0 DEF TypeOK
<1>2. TypeOK'
  <2>1. pc' \in [Requests -> Places]
    BY <1>0, Moved
  <2> QED
    BY <1>0, <1>1, <2>1 DEF TypeOK
<1>3. PlaceInv'
  <2>1. /\ r \in panicked => pc[r] = "leave"
        /\ (on[r] # None <=> r \in panicked) /\ (mine[r] # None <=> KeyOf[r] \in Keys)
    BY <1>0 DEF PlaceInv
  <2> QED
    BY <1>0, <1>1, <2>1, PlaceMove
<1>4. KeyInv' /\ EntryInv'
  BY <1>0, KeyMove
<1>5. ChannelExact'
  BY <1>0, ChannelMove
<1> QED
  BY <1>2, <1>3, <1>4, <1>5 DEF AInv, AdmissionInv

\* Acquire counts a request in Redis, or on its node when Redis cannot answer.
LEMMA AcquireSteps ==
  ASSUME AInv, NEW r \in Requests, nodeOf' = nodeOf,
         AdmitRedis(r) \/ RedisFails(r) \/ AdmitLocal(r) \/ AcquireRepeats(r)
  PROVE  AInv'
<1>0. /\ TypeOK /\ PlaceInv /\ LocalExact /\ RedisAccounts /\ pc[r] \in {"keyed", "local"}
      /\ UNCHANGED <<keyVars, channelVars, cancelled, up, lapsed, excluded, used>> /\ troubles' \in Nat
      /\ redis \in [Counters -> Nat] /\ leaked \in [Counters -> Nat]
      /\ local \in [Nodes -> [Counters -> Nat]] /\ used \in [Requests -> Nat]
      /\ excluded \in [Requests -> SUBSET Channels]
      /\ holds \in [Requests -> {"none", "redis", "local", "again"}] /\ lapsed \in [Counters -> BOOLEAN]
  BY DEF AInv, AdmissionInv, AdmitRedis, RedisFails, AdmitLocal, AcquireRepeats, At,
         routeVars, Trouble, TypeOK
<1>1. holds[r] = "none" /\ holds = [holds EXCEPT ![r] = "none"]
  BY <1>0 DEF PlaceInv
<1>2. ASSUME NEW x \in {"local", "unkey"}, Go(r, x), UNCHANGED <<redis, local, holds, leaked>>
      PROVE  AInv'
  <2>1. LocalExact' /\ RedisAccounts' /\ holds' = [holds EXCEPT ![r] = "none"]
    BY <1>0, <1>1, <1>2, LocalFrame, RedisFrame
  <2>2. /\ redis' \in [Counters -> Nat] /\ leaked' \in [Counters -> Nat]
        /\ local' \in [Nodes -> [Counters -> Nat]] /\ lapsed' \in [Counters -> BOOLEAN]
        /\ used' \in [Requests -> Nat] /\ excluded' \in [Requests -> SUBSET Channels]
    BY <1>0, <1>2
  <2>3. CASE x = "local"
    BY <1>0, <1>2, <2>1, <2>2, <2>3, CounterStep
  <2>4. CASE x = "unkey"
    BY <1>0, <1>2, <2>1, <2>2, <2>4, CounterStep
  <2> QED
    BY <2>3, <2>4
<1>3. CASE AdmitRedis(r)
  <2>0. UNCHANGED <<local, leaked>>
    BY <1>3 DEF AdmitRedis
  <2>1. CASE Free(redis, Claims[r])
    <3>1. /\ redis' = Plus(redis, Claims[r]) /\ holds' = [holds EXCEPT ![r] = "redis"]
          /\ Go(r, "route")
      BY <1>3, <2>1 DEF AdmitRedis
    <3>2. RedisAccounts' /\ redis' \in [Counters -> Nat]
      BY <1>0, <1>1, <2>0, <2>1, <3>1, RedisAcquire
    <3>3. LocalExact'
      BY <1>0, <1>1, <2>0, <3>1, LocalOther
    <3> QED
      BY <1>0, <2>0, <3>1, <3>2, <3>3, CounterStep
  <2>2. CASE ~Free(redis, Claims[r])
    <3>1. Go(r, "unkey") /\ UNCHANGED <<redis, holds>>
      BY <1>3, <2>2 DEF AdmitRedis
    <3> QED
      BY <1>2, <2>0, <3>1
  <2> QED
    BY <2>1, <2>2
<1>4. CASE RedisFails(r)
  <2>0. Go(r, "local") /\ UNCHANGED <<local, holds>>
    BY <1>4 DEF RedisFails
  <2>1. CASE UNCHANGED <<redis, leaked>>
    BY <1>2, <2>0, <2>1
  <2>2. CASE /\ Free(redis, Claims[r]) /\ redis' = Plus(redis, Claims[r])
             /\ leaked' = Plus(leaked, Claims[r])
    <3>1. RedisAccounts' /\ redis' \in [Counters -> Nat] /\ leaked' \in [Counters -> Nat]
      BY <1>0, <1>1, <2>0, <2>2, RedisAcquire
    <3>2. LocalExact' /\ holds' = [holds EXCEPT ![r] = "none"]
      BY <1>0, <1>1, <2>0, LocalFrame
    <3> QED
      BY <1>0, <2>0, <3>1, <3>2, CounterStep
  <2> QED
    BY <1>4, <2>1, <2>2 DEF RedisFails
<1>5. CASE AdmitLocal(r)
  <2>0. UNCHANGED <<redis, leaked>>
    BY <1>5 DEF AdmitLocal
  <2>1. CASE Free(local[nodeOf[r]], LocalClaims(r))
    <3>1. /\ local' = [local EXCEPT ![nodeOf[r]] = Plus(@, LocalClaims(r))]
          /\ holds' = [holds EXCEPT ![r] = "local"] /\ Go(r, "route")
      BY <1>5, <2>1 DEF AdmitLocal
    <3>2. LocalExact' /\ local' \in [Nodes -> [Counters -> Nat]]
      BY <1>0, <1>1, <2>1, <3>1, LocalAdmit
    <3>3. RedisAccounts'
      BY <1>0, <1>1, <2>0, <3>1, RedisOther
    <3> QED
      BY <1>0, <2>0, <3>1, <3>2, <3>3, CounterStep
  <2>2. CASE ~Free(local[nodeOf[r]], LocalClaims(r))
    <3>1. Go(r, "unkey") /\ UNCHANGED <<local, holds>>
      BY <1>5, <2>2 DEF AdmitLocal
    <3> QED
      BY <1>2, <2>0, <3>1
  <2> QED
    BY <2>1, <2>2
<1>6. CASE AcquireRepeats(r)
  <2>1. /\ pc[r] = "keyed" /\ Free(redis, Claims[r]) /\ UNCHANGED <<pc, local, holds>>
        /\ redis' = Plus(redis, Claims[r]) /\ leaked' = Plus(leaked, Claims[r])
    BY <1>6 DEF AcquireRepeats, At
  <2>2. Go(r, "keyed")
    BY <1>0, <2>1 DEF Go, TypeOK
  <2>3. RedisAccounts' /\ redis' \in [Counters -> Nat] /\ leaked' \in [Counters -> Nat]
    BY <1>0, <1>1, <2>1, RedisAcquire
  <2>4. LocalExact' /\ holds' = [holds EXCEPT ![r] = "none"]
    BY <1>0, <1>1, <2>1, LocalFrame
  <2> QED
    BY <1>0, <2>1, <2>2, <2>3, <2>4, CounterStep
<1> QED
  BY <1>3, <1>4, <1>5, <1>6

\* Release takes a request out of the counter that admitted it.
LEMMA ReleaseSteps ==
  ASSUME AInv, NEW r \in Requests, nodeOf' = nodeOf, Release(r) \/ ReleaseFails(r)
  PROVE  AInv'
<1>0. /\ TypeOK /\ PlaceInv /\ LocalExact /\ RedisAccounts /\ pc[r] = "leave" /\ Go(r, "unkey")
      /\ UNCHANGED <<keyVars, channelVars, cancelled, up>>
      /\ holds' = [holds EXCEPT ![r] = "none"] /\ troubles' \in Nat
      /\ redis \in [Counters -> Nat] /\ leaked \in [Counters -> Nat]
      /\ lapsed \in [Counters -> BOOLEAN] /\ local \in [Nodes -> [Counters -> Nat]]
      /\ holds[r] \in {"none", "redis", "local", "again"}
  BY DEF AInv, AdmissionInv, Release, ReleaseFails, At, TypeOK
<1>a. /\ LapsedAgain(r) \in [Counters -> BOOLEAN]
      /\ holds[r] # "again" => LapsedAgain(r) = lapsed
  BY <1>0, LapsedFacts
<1>1. /\ used' \in [Requests -> Nat] /\ excluded' \in [Requests -> SUBSET Channels]
      /\ lapsed' \in [Counters -> BOOLEAN]
  <2>1. used' = [used EXCEPT ![r] = 0] /\ excluded' = [excluded EXCEPT ![r] = {}]
    BY DEF Release, ReleaseFails, ForgetRoute
  <2>2. lapsed' = lapsed \/ lapsed' = LapsedAgain(r)
    BY DEF Release, ReleaseFails
  <2>3. lapsed' \in [Counters -> BOOLEAN]
    BY <1>0, <1>a, <2>2
  <2> QED
    BY <1>0, <2>1, <2>3 DEF TypeOK
<1>2. ASSUME LocalExact', RedisAccounts', redis' \in [Counters -> Nat],
             leaked' \in [Counters -> Nat], local' \in [Nodes -> [Counters -> Nat]]
      PROVE  AInv'
  BY <1>0, <1>1, <1>2, CounterStep
<1>3. CASE holds[r] = "redis"
  <2>1. /\ local' = local /\ lapsed' = lapsed
        /\ \/ redis' = Minus(redis, Claims[r]) /\ leaked' = leaked
           \/ redis' = redis /\ leaked' = Plus(leaked, Claims[r])
    BY <1>3, <1>a DEF Release, ReleaseScript, ReleaseFails
  <2>2. RedisAccounts' /\ redis' \in [Counters -> Nat] /\ leaked' \in [Counters -> Nat]
    BY <1>0, <1>3, <2>1, RedisRelease
  <2>3. LocalExact'
    BY <1>0, <1>3, <2>1, LocalOther
  <2> QED
    BY <1>0, <1>2, <2>1, <2>2, <2>3
<1>4. CASE holds[r] = "again"
  <2>1. /\ local' = local /\ leaked' = leaked
        /\ \/ redis' = Minus(redis, Claims[r]) /\ lapsed' = LapsedAgain(r)
           \/ redis' = redis /\ lapsed' = lapsed
    BY <1>4 DEF Release, ReleaseScript, ReleaseFails
  <2>2. RedisAccounts' /\ redis' \in [Counters -> Nat]
    <3>1. CASE redis' = Minus(redis, Claims[r]) /\ lapsed' = LapsedAgain(r)
      BY <1>0, <1>4, <2>1, <3>1, RedisAgain
    <3>2. CASE redis' = redis /\ lapsed' = lapsed
      BY <1>0, <1>4, <2>1, <3>2, RedisOther
    <3> QED
      BY <2>1, <3>1, <3>2
  <2>3. LocalExact'
    BY <1>0, <1>4, <2>1, LocalOther
  <2> QED
    BY <1>0, <1>2, <2>1, <2>2, <2>3
<1>5. CASE holds[r] = "local"
  <2>1. /\ UNCHANGED <<redis, leaked, lapsed>>
        /\ local' = [local EXCEPT ![nodeOf[r]] = Minus(@, LocalClaims(r))]
    BY <1>5, <1>a DEF Release, ReleaseFails, ReleaseScript
  <2>2. LocalExact' /\ local' \in [Nodes -> [Counters -> Nat]]
    BY <1>0, <1>5, <2>1, LocalRelease
  <2>3. RedisAccounts'
    BY <1>0, <1>5, <2>1, RedisOther
  <2> QED
    BY <1>0, <1>2, <2>1, <2>2, <2>3
<1>6. CASE holds[r] = "none"
  <2>1. UNCHANGED <<redis, leaked, lapsed, local>>
    BY <1>6, <1>a DEF Release, ReleaseFails, ReleaseScript
  <2>2. LocalExact' /\ RedisAccounts'
    BY <1>0, <1>6, <2>1, LocalOther, RedisOther
  <2> QED
    BY <1>0, <1>2, <2>1, <2>2
<1> QED
  BY <1>0, <1>3, <1>4, <1>5, <1>6

\* The script ran and its answer is lost: the request gave up its counts and will ask again.
LEMMA ReleaseRepeatsStep ==
  ASSUME AInv, NEW r \in Requests, nodeOf' = nodeOf, ReleaseRepeats(r)
  PROVE  AInv'
<1>0. /\ TypeOK /\ LocalExact /\ RedisAccounts /\ pc[r] = "leave" /\ holds[r] = "redis"
      /\ UNCHANGED <<pc, keyVars, channelVars, cancelled, up, lapsed, local, leaked, excluded, used>>
      /\ redis' = Minus(redis, Claims[r]) /\ holds' = [holds EXCEPT ![r] = "again"]
      /\ troubles' \in Nat
  BY DEF AInv, AdmissionInv, ReleaseRepeats, ReleaseScript, At, routeVars, Trouble, TypeOK
<1>1. /\ Go(r, "leave") /\ used' \in [Requests -> Nat] /\ excluded' \in [Requests -> SUBSET Channels]
      /\ lapsed' \in [Counters -> BOOLEAN] /\ local' \in [Nodes -> [Counters -> Nat]]
  BY <1>0 DEF Go, TypeOK
<1>2. RedisAccounts' /\ redis' \in [Counters -> Nat] /\ leaked' \in [Counters -> Nat]
  BY <1>0, RedisRelease
<1>3. LocalExact'
  BY <1>0, LocalOther
<1> QED
  BY <1>0, <1>1, <1>2, <1>3, CounterStep

-----------------------------------------------------------------------------
(* The steps of the relay loop and of the environment *)

\* A step of the relay loop on its channel.
LEMMA LoopStep ==
  ASSUME AInv, NEW r \in Requests, NEW x \in {"held", "route", "leave"}, Go(r, x),
         pc[r] \in {"route", "held", "use"},
         UNCHANGED <<nodeOf, keyVars, counterVars, cancelled>>, troubles' \in Nat,
         used' \in [Requests -> Nat], excluded' \in [Requests -> SUBSET Channels],
         on' \in [Requests -> Channels \cup {None}], panicked' \subseteq Requests,
         on'[r] # None <=> x = "held" \/ r \in panicked', r \in panicked' => x = "leave",
         \A q \in Requests : q # r => (q \in panicked' <=> q \in panicked),
         \A q \in Requests : q # r => on'[q] = on[q],
         active' \in [Nodes -> [Channels -> Nat]],
         users' \in [Nodes -> [Channels -> [Users -> Nat]]],
         ChannelExact'
  PROVE  AInv'
<1>0. /\ TypeOK /\ PlaceInv /\ KeyInv /\ EntryInv /\ LocalExact /\ RedisAccounts
      /\ UNCHANGED <<entries, refs, slots, mine, up, redis, local, holds, leaked, lapsed>>
      /\ x \in Places /\ KeepsKey(r, x)
  BY DEF AInv, AdmissionInv, keyVars, counterVars, Places, KeepsKey, InSlot
<1>1. TypeOK'
  <2>1. pc' \in [Requests -> Places]
    BY <1>0, Moved
  <2> QED
    BY <1>0, <2>1 DEF TypeOK
<1>2. PlaceInv'
  <2>1. mine[r] # None <=> KeyOf[r] \in Keys
    BY <1>0 DEF PlaceInv
  <2> QED
    BY <1>0, <2>1, PlaceMove
<1>3. KeyInv' /\ EntryInv'
  BY <1>0, KeyMove
<1>4. LocalExact' /\ RedisAccounts'
  BY <1>0, LocalFrame, RedisFrame
<1> QED
  BY <1>1, <1>2, <1>3, <1>4 DEF AInv, AdmissionInv

\* A channel slot is taken for one user of the channel.
LEMMA BeginStep ==
  ASSUME AInv, NEW r \in Requests, NEW ch \in Channels, BeginUse(r, ch), nodeOf' = nodeOf
  PROVE  AInv'
<1>0. /\ TypeOK /\ PlaceInv /\ ChannelExact /\ Go(r, "held") /\ pc[r] = "route"
      /\ on' = [on EXCEPT ![r] = ch]
      /\ UNCHANGED <<panicked, keyVars, counterVars, cancelled, troubles, excluded, used>>
      /\ r \notin panicked /\ panicked \subseteq Requests /\ troubles \in Nat
  BY DEF AInv, AdmissionInv, BeginUse, At, routeVars, PlaceInv, TypeOK
<1>1. /\ on' \in [Requests -> Channels \cup {None}] /\ on'[r] = ch /\ ch # None
      /\ \A q \in Requests : q # r => on'[q] = on[q]
  BY <1>0, AdmissionAssumption DEF TypeOK, AdmissionAssumption
<1>2. used' \in [Requests -> Nat] /\ excluded' \in [Requests -> SUBSET Channels]
  BY <1>0 DEF TypeOK
<1>3. /\ ChannelExact' /\ active' \in [Nodes -> [Channels -> Nat]]
      /\ users' \in [Nodes -> [Channels -> [Users -> Nat]]]
  BY <1>0, ChannelBegin
<1> QED
  BY <1>0, <1>1, <1>2, <1>3, LoopStep

\* Every way out of an attempt returns its channel slot.
LEMMA EndSteps ==
  ASSUME AInv, NEW r \in Requests, BillingFails(r) \/ BodyFails(r) \/ UpstreamEnds(r),
         nodeOf' = nodeOf
  PROVE  AInv'
<1>0. /\ TypeOK /\ PlaceInv /\ ChannelExact /\ End(r) /\ pc[r] \in {"held", "use"}
      /\ UNCHANGED <<panicked, keyVars, counterVars, cancelled, troubles>>
      /\ r \notin panicked /\ panicked \subseteq Requests /\ troubles \in Nat
      /\ used \in [Requests -> Nat] /\ excluded \in [Requests -> SUBSET Channels]
  BY DEF AInv, AdmissionInv, BillingFails, BodyFails, UpstreamEnds, At, End, PlaceInv, TypeOK
<1>1. on[r] \in Channels
  BY <1>0 DEF PlaceInv, TypeOK
<1>2. /\ used' \in [Requests -> Nat] /\ excluded' \in [Requests -> SUBSET Channels]
      /\ \E x \in {"route", "leave"} : Go(r, x)
  <2>1. CASE Go(r, "leave") /\ UNCHANGED routeVars
    BY <1>0, <2>1 DEF routeVars
  <2>2. CASE /\ excluded' = [excluded EXCEPT ![r] = @ \cup {on[r]}]
             /\ Continue(r, 0) \/ Continue(r, 1)
    <3>1. excluded' \in [Requests -> SUBSET Channels]
      BY <1>0, <1>1, <2>2
    <3> QED
      BY <1>0, <2>2, <3>1, ContinueFacts
  <2> QED
    BY <2>1, <2>2 DEF BillingFails, BodyFails, UpstreamEnds
<1>3. PICK x \in {"route", "leave"} : Go(r, x)
  BY <1>2
<1>4. x \in Places /\ \A q \in Requests : q # r => pc'[q] = pc[q]
  <2>1. x \in Places
    BY DEF Places
  <2> QED
    BY <1>0, <1>3, <2>1, Moved
<1>5. /\ ChannelExact' /\ active' \in [Nodes -> [Channels -> Nat]]
      /\ users' \in [Nodes -> [Channels -> [Users -> Nat]]]
      /\ on' \in [Requests -> Channels \cup {None}]
      /\ on'[r] = None /\ \A q \in Requests : q # r => on'[q] = on[q]
  BY <1>0, <1>4, ChannelEnd
<1> QED
  BY <1>0, <1>2, <1>3, <1>5, LoopStep

\* A panic keeps the slot of the channel, and the history says so.
LEMMA PanicStep ==
  ASSUME AInv, NEW r \in Requests, Panics(r), nodeOf' = nodeOf
  PROVE  AInv'
<1>0. /\ TypeOK /\ PlaceInv /\ ChannelExact /\ Go(r, "leave") /\ pc[r] = "held"
      /\ panicked' = panicked \cup {r} /\ panicked \subseteq Requests /\ troubles' \in Nat
      /\ UNCHANGED <<keyVars, counterVars, cancelled, active, users, on, excluded, used>>
      /\ "leave" \in Places
  BY DEF AInv, AdmissionInv, Panics, At, routeVars, Trouble, TypeOK, Places
<1>1. /\ on' \in [Requests -> Channels \cup {None}] /\ used' \in [Requests -> Nat]
      /\ excluded' \in [Requests -> SUBSET Channels] /\ active' \in [Nodes -> [Channels -> Nat]]
      /\ users' \in [Nodes -> [Channels -> [Users -> Nat]]] /\ on'[r] # None
  BY <1>0 DEF TypeOK, PlaceInv
<1>2. ChannelExact'
  <2>1. ASSUME NEW q \in Requests, on[q] # None
        PROVE  pc'[q] \in {"held", "use"} \/ q \in panicked'
    <3>1. pc[q] \in {"held", "use"} \/ q \in panicked
      BY <1>0, <2>1 DEF PlaceInv
    <3> QED
      BY <1>0, <3>1, Moved
  <2> QED
    BY <1>0, <2>1, ChannelFrame
<1> QED
  BY <1>0, <1>1, <1>2, LoopStep

\* A client that leaves, and Redis that stops or answers again, change no count; the
\* end of a lease changes one counter.
LEMMA TroubleSteps ==
  ASSUME AInv, nodeOf' = nodeOf,
         \/ \E r \in Requests : Disconnect(r)
         \/ \E c \in Counters : LeaseExpires(c)
         \/ Outage \/ Recovery
  PROVE  AInv'
<1>0. /\ TypeOK /\ PlaceInv /\ KeyInv /\ EntryInv /\ LocalExact /\ RedisAccounts /\ ChannelExact
      /\ UNCHANGED <<pc, keyVars, local, holds, channelVars, excluded, used>>
      /\ UNCHANGED <<entries, refs, slots, mine, active, users, on, panicked>>
  BY DEF AInv, AdmissionInv, Disconnect, LeaseExpires, Outage, Recovery, keyVars, channelVars,
         routeVars, counterVars
<1>1. PlaceInv'
  BY <1>0 DEF PlaceInv
<1>2. KeyInv' /\ EntryInv'
  <2>1. SamePlace
    BY <1>0 DEF SamePlace
  <2> QED
    BY <1>0, <2>1, KeyFrame
<1>3. LocalExact'
  BY <1>0, LocalFrame
<1>4. ChannelExact'
  <2>1. \A r \in Requests : on[r] # None => pc'[r] \in {"held", "use"} \/ r \in panicked'
    BY <1>0 DEF PlaceInv
  <2> QED
    BY <1>0, <2>1, ChannelFrame
<1>5. troubles' \in Nat
  BY <1>0 DEF Disconnect, LeaseExpires, Outage, Recovery, Trouble, TypeOK
<1>6. RedisAccounts' /\ TypeOK'
  <2>1. ASSUME NEW c \in Counters, LeaseExpires(c) PROVE RedisAccounts' /\ TypeOK'
    <3>1. RedisAccounts' /\ redis' \in [Counters -> Nat] /\ leaked' \in [Counters -> Nat]
      BY <1>0, <2>1, RedisExpire
    <3>2. /\ lapsed' = [lapsed EXCEPT ![c] = lapsed[c] \/ Holders(c) # {}]
          /\ UNCHANGED <<up, cancelled>>
      BY <2>1 DEF LeaseExpires
    <3>3. (lapsed[c] \/ Holders(c) # {}) \in BOOLEAN
      OBVIOUS
    <3>4. lapsed' \in [Counters -> BOOLEAN]
      BY <1>0, <3>2, <3>3 DEF TypeOK
    <3> QED
      BY <1>0, <1>5, <3>1, <3>2, <3>4 DEF TypeOK
  <2>2. ASSUME NEW r \in Requests, Disconnect(r) PROVE RedisAccounts' /\ TypeOK'
    <3>1. /\ UNCHANGED <<up, redis, leaked, lapsed>>
          /\ cancelled' = [cancelled EXCEPT ![r] = TRUE]
      BY <2>2 DEF Disconnect, counterVars
    <3>2. cancelled' \in [Requests -> BOOLEAN]
      BY <1>0, <3>1 DEF TypeOK
    <3> QED
      BY <1>0, <1>5, <3>1, <3>2, RedisFrame DEF TypeOK
  <2>3. CASE Outage \/ Recovery
    <3>1. up' \in BOOLEAN /\ UNCHANGED <<cancelled, redis, leaked, lapsed>>
      BY <2>3 DEF Outage, Recovery
    <3> QED
      BY <1>0, <1>5, <3>1, RedisFrame DEF TypeOK
  <2> QED
    BY <2>1, <2>2, <2>3
<1> QED
  BY <1>1, <1>2, <1>3, <1>4, <1>6 DEF AInv, AdmissionInv

\* A crash leaves no trace in its process, and its counts in Redis.
LEMMA CrashStep ==
  ASSUME AInv, NEW n \in Nodes, Crash(n), nodeOf' = nodeOf
  PROVE  AInv'
<1>0. /\ TypeOK /\ PlaceInv /\ KeyInv /\ EntryInv /\ LocalExact /\ RedisAccounts /\ ChannelExact
  BY DEF AInv, AdmissionInv
<1>1. KeyInv' /\ EntryInv' /\ LocalExact' /\ ChannelExact' /\ RedisAccounts'
      /\ leaked' \in [Counters -> Nat]
  BY <1>0, KeyCrashInv, LocalCrash, ChannelCrash, RedisCrash
<1>2. PICK dead \in SUBSET Requests :
        /\ dead = {r \in Requests : nodeOf[r] = n /\ pc[r] \notin {"new", "gone"}}
        /\ pc' = [r \in Requests |-> IF r \in dead THEN "gone" ELSE pc[r]]
        /\ refs' = [e \in Requests |-> IF nodeOf[e] = n THEN 0 ELSE refs[e]]
        /\ slots' = [e \in Requests |-> IF nodeOf[e] = n THEN 0 ELSE slots[e]]
        /\ mine' = [r \in Requests |-> IF r \in dead THEN None ELSE mine[r]]
        /\ holds' = [r \in Requests |-> IF r \in dead THEN "none" ELSE holds[r]]
        /\ on' = [r \in Requests |-> IF nodeOf[r] = n THEN None ELSE on[r]]
        /\ panicked' = {r \in panicked : nodeOf[r] # n}
        /\ cancelled' = [r \in Requests |-> r \notin dead /\ cancelled[r]]
        /\ excluded' = [r \in Requests |-> IF r \in dead THEN {} ELSE excluded[r]]
        /\ used' = [r \in Requests |-> IF r \in dead THEN 0 ELSE used[r]]
  BY DEF Crash
<1>3. PlaceInv'
  <2>1. ASSUME NEW q \in Requests
        PROVE  /\ holds'[q] # "none" => pc'[q] \in {"route", "held", "use", "leave"}
               /\ on'[q] # None <=> pc'[q] \in {"held", "use"} \/ q \in panicked'
               /\ q \in panicked' => pc'[q] \in {"leave", "unkey", "drop", "gone"}
               /\ mine'[q] # None <=> KeyOf[q] \in Keys /\ pc'[q] \notin {"new", "gone"}
               /\ pc'[q] \in {"slot", "drop"} => KeyOf[q] \in Keys
    <3>1. CASE q \in dead
      <4>1. /\ pc'[q] = "gone" /\ holds'[q] = "none" /\ on'[q] = None /\ mine'[q] = None
            /\ q \notin panicked'
        BY <1>2, <3>1
      <4> QED
        BY <4>1
    <3>2. CASE q \notin dead
      <4>1. pc'[q] = pc[q] /\ holds'[q] = holds[q] /\ mine'[q] = mine[q]
        BY <1>2, <3>2
      <4>2. CASE nodeOf[q] = n
        <5>1. pc[q] \in {"new", "gone"} /\ on'[q] = None /\ q \notin panicked'
          BY <1>2, <3>2, <4>2
        <5> QED
          BY <1>0, <4>1, <5>1 DEF PlaceInv
      <4>3. CASE nodeOf[q] # n
        <5>1. on'[q] = on[q] /\ (q \in panicked' <=> q \in panicked)
          BY <1>2, <4>3
        <5> QED
          BY <1>0, <4>1, <5>1 DEF PlaceInv
      <4> QED
        BY <4>2, <4>3
    <3> QED
      BY <3>1, <3>2
  <2> QED
    BY <2>1 DEF PlaceInv
<1>4. TypeOK'
  <2>1. /\ pc' \in [Requests -> Places] /\ "gone" \in Places
        /\ mine' \in [Requests -> Requests \cup {None}]
    BY <1>0, <1>2 DEF TypeOK, Places
  <2>2. /\ refs' \in [Requests -> Nat] /\ slots' \in [Requests -> Nat]
        /\ used' \in [Requests -> Nat]
    BY <1>0, <1>2 DEF TypeOK
  <2>3. /\ holds' \in [Requests -> {"none", "redis", "local", "again"}]
        /\ on' \in [Requests -> Channels \cup {None}] /\ panicked' \subseteq Requests
        /\ excluded' \in [Requests -> SUBSET Channels]
    BY <1>0, <1>2 DEF TypeOK
  <2>4. cancelled' \in [Requests -> BOOLEAN]
    BY <1>2
  <2>5. /\ entries' \in [Nodes -> [Keys -> Requests \cup {None}]]
        /\ local' \in [Nodes -> [Counters -> Nat]]
    BY <1>0 DEF Crash, TypeOK
  <2>6. /\ active' \in [Nodes -> [Channels -> Nat]]
        /\ users' \in [Nodes -> [Channels -> [Users -> Nat]]]
    BY <1>0 DEF Crash, TypeOK
  <2>7. UNCHANGED <<up, redis, lapsed>> /\ troubles' \in Nat
    BY <1>0 DEF Crash, Trouble, TypeOK
  <2> QED
    BY <1>0, <1>1, <2>1, <2>2, <2>3, <2>4, <2>5, <2>6, <2>7 DEF TypeOK
<1> QED
  BY <1>1, <1>3, <1>4 DEF AInv, AdmissionInv

-----------------------------------------------------------------------------
(* The theorems *)

\* Nothing is admitted at the start.
LEMMA InitInv == Init => AInv
<1> SUFFICES ASSUME Init PROVE AInv
  OBVIOUS
<1>1. TypeOK
  BY DEF Init, TypeOK, Places
<1>2. PlaceInv
  BY AdmissionAssumption DEF Init, PlaceInv, AdmissionAssumption
<1>3. KeyInv
  <2>1. ASSUME NEW n \in Nodes, NEW k \in Keys
        PROVE  entries[n][k] = None /\ Referring(n, k) = {}
    BY DEF Init, Referring
  <2> QED
    BY <2>1 DEF KeyInv, KeyAt
<1>4. EntryInv
  BY AdmissionAssumption DEF Init, EntryInv, AdmissionAssumption
<1>5. LocalExact
  <2>1. ASSUME NEW n \in Nodes, NEW c \in Counters
        PROVE  LocalHolders(n, c) = {} /\ local[n][c] = 0 /\ Limit[c] \in Nat
    BY AdmissionAssumption DEF Init, LocalHolders, AdmissionAssumption
  <2> QED
    BY <2>1, FS_EmptySet DEF LocalExact
<1>6. RedisAccounts
  <2>1. ASSUME NEW c \in Counters
        PROVE  Holders(c) = {} /\ redis[c] = 0 /\ leaked[c] = 0 /\ Limit[c] \in Nat
    BY AdmissionAssumption DEF Init, Holders, AdmissionAssumption
  <2> QED
    BY <2>1, FS_EmptySet DEF RedisAccounts
<1>7. ChannelExact
  <2>1. ASSUME NEW n \in Nodes, NEW ch \in Channels
        PROVE  /\ active[n][ch] = 0 /\ Occupants(n, ch) = {}
               /\ \A u \in Users : users[n][ch][u] = 0 /\ UserOn(n, ch, u) = {}
    BY AdmissionAssumption DEF Init, Occupants, UserOn, AdmissionAssumption
  <2>2. \A ch \in Channels : ChannelLimit[ch] \in Nat /\ UserChannelLimit[ch] \in Nat
    BY AdmissionAssumption DEF AdmissionAssumption
  <2>3. ASSUME NEW n \in Nodes, NEW ch \in Channels
        PROVE  /\ active[n][ch] = Cardinality(Occupants(n, ch)) /\ active[n][ch] <= ChannelLimit[ch]
               /\ \A r \in Occupants(n, ch) : pc[r] \in {"held", "use"} \/ r \in panicked
    <3>1. Occupants(n, ch) = {} /\ active[n][ch] = 0
      BY <2>1
    <3>2. Cardinality(Occupants(n, ch)) = 0
      BY <3>1, FS_EmptySet
    <3> QED
      BY <2>2, <3>1, <3>2
  <2>4. ASSUME NEW n \in Nodes, NEW ch \in Channels, NEW u \in Users
        PROVE  /\ users[n][ch][u] = Cardinality(UserOn(n, ch, u))
               /\ users[n][ch][u] <= UserChannelLimit[ch]
    <3>1. UserOn(n, ch, u) = {} /\ users[n][ch][u] = 0
      BY <2>1
    <3>2. Cardinality(UserOn(n, ch, u)) = 0
      BY <3>1, FS_EmptySet
    <3> QED
      BY <2>2, <3>1, <3>2
  <2> QED
    BY <2>3, <2>4 DEF ChannelExact
<1> QED
  BY <1>1, <1>2, <1>3, <1>4, <1>5, <1>6, <1>7 DEF AInv, AdmissionInv

\* Every step keeps the books of all the limiters.
LEMMA StepInv == AInv /\ [Next]_vars => AInv'
<1> SUFFICES ASSUME AInv, [Next]_vars PROVE AInv'
  OBVIOUS
<1>1. CASE UNCHANGED vars
  <2>1. /\ TypeOK /\ PlaceInv /\ KeyInv /\ EntryInv /\ LocalExact /\ RedisAccounts /\ ChannelExact
        /\ UNCHANGED <<nodeOf, pc, cancelled, keyVars, up, redis, local, holds, leaked, lapsed,
                       channelVars, excluded, used, troubles>>
        /\ UNCHANGED <<entries, refs, slots, mine, active, users, on, panicked>>
    BY <1>1 DEF vars, counterVars, routeVars, keyVars, channelVars, AInv, AdmissionInv
  <2>2. TypeOK' /\ PlaceInv'
    BY <2>1 DEF TypeOK, PlaceInv
  <2>3. SamePlace /\ \A r \in Requests : on[r] # None => pc'[r] \in {"held", "use"} \/ r \in panicked'
    BY <2>1 DEF SamePlace, PlaceInv
  <2>4. KeyInv' /\ EntryInv' /\ LocalExact' /\ RedisAccounts' /\ ChannelExact'
    BY <2>1, <2>3, KeyFrame, LocalFrame, RedisFrame, ChannelFrame
  <2> QED
    BY <2>2, <2>4 DEF AInv, AdmissionInv
<1>2. CASE Next
  <2>0. nodeOf' = nodeOf
    BY <1>2 DEF Next
  <2>1. ASSUME NEW r \in Requests, LocalStep(r) \/ UpstreamEnds(r) PROVE AInv'
    BY <2>0, <2>1, QuietSteps, KeyEnterStep, KeySlotStep, KeyReleaseStep, KeyDropStep,
       AcquireSteps, ReleaseSteps, BeginStep, EndSteps DEF LocalStep
  <2>3. ASSUME NEW r \in Requests, Mishap(r) PROVE AInv'
    BY <2>0, <2>3, AcquireSteps, ReleaseRepeatsStep, PanicStep, TroubleSteps DEF Mishap
  <2>2. ASSUME NEW n \in Nodes, Crash(n) PROVE AInv'
    BY <2>0, <2>2, CrashStep
  <2> QED
    BY <1>2, <2>0, <2>1, <2>2, <2>3, TroubleSteps DEF Next
<1> QED
  BY <1>1, <1>2

\* The three limiters together: what each keeps in the processes and in Redis agrees
\* with what the requests hold, in every reachable state.
THEOREM Counted == Spec => []AInv
BY InitInv, StepInv, PTL DEF Spec

\* The limiters of the processes count exactly the requests that are past them, in all
\* interleavings of acquire, release, cancellation and crashes, for any number of
\* requests, processes and keys (promptCacheKeyLimiter, activeModelRequestLimiter).
THEOREM Limiters == Spec => []AdmissionInv
<1>1. AInv => AdmissionInv
  BY DEF AInv
<1> QED
  BY <1>1, Counted, PTL

\* The counters in Redis account for their holders and for what failures leaked, and
\* the limit holds across processes until a lease runs out under a holder or a release
\* script runs twice.
THEOREM RedisCounts == Spec => []RedisAccounts
<1>1. AInv => RedisAccounts
  BY DEF AInv
<1> QED
  BY <1>1, Counted, PTL

\* Every path of the relay loop but a panic ahead of the deferred endActiveUse returns the
\* slot of its channel exactly once, and no channel exceeds its limits.
THEOREM ChannelSlots == Spec => []ChannelExact
<1>1. AInv => ChannelExact
  BY DEF AInv
<1> QED
  BY <1>1, Counted, PTL

\* In one process at most KeyLimit requests of a prompt-cache key are past the limiter,
\* although entries are deleted from the map and made again.
THEOREM KeyLimited == Spec => []KeyExclusive
<1>1. ASSUME AInv PROVE KeyExclusive
  <2>0. TypeOK /\ KeyInv /\ EntryInv /\ KeyLimit \in Nat
    BY <1>1, AdmissionAssumption DEF AInv, AdmissionInv, AdmissionAssumption
  <2>1. ASSUME NEW n \in Nodes, NEW k \in Keys PROVE Cardinality(WithSlot(n, k)) <= KeyLimit
    <3>1. CASE entries[n][k] = None
      <4>1. Referring(n, k) = {}
        BY <2>0, <3>1 DEF KeyInv, KeyAt
      <4>2. WithSlot(n, k) = {}
        BY <4>1 DEF Referring, WithSlot
      <4> QED
        BY <2>0, <4>2, FS_EmptySet
    <3>2. CASE entries[n][k] # None
      <4>1. entries[n][k] \in Requests
        BY <2>0, <3>2 DEF TypeOK
      <4>2. slots[entries[n][k]] = Cardinality(WithSlot(n, k))
        BY <2>0, <3>2 DEF KeyInv, KeyAt
      <4> QED
        BY <2>0, <4>1, <4>2 DEF EntryInv
    <3> QED
      BY <3>1, <3>2
  <2> QED
    BY <2>1 DEF KeyExclusive
<1> QED
  BY <1>1, Counted, PTL

=============================================================================
