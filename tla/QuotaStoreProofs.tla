-------------------------- MODULE QuotaStoreProofs --------------------------
(***************************************************************************)
(* QuotaInv is inductive: for any number of callers and goroutines, any    *)
(* deltas and any number of calls, failures and crashes, no delta is lost  *)
(* or counted twice between the row, the store and a flush.                *)
(***************************************************************************)
EXTENDS QuotaStore, TLAPS

\* Adding to one kind changes that kind only, and keeps the counts in range as
\* long as used_quota and request_count do not fall.
LEMMA AddIsCount ==
    ASSUME NEW count \in Counts, NEW k \in Kinds, NEW d \in Int,
           k # "quota" => d \in Nat
    PROVE  /\ Add(count, k, d) \in Counts
           /\ Add(count, k, d)[k] = count[k] + d
           /\ \A m \in Kinds : m # k => Add(count, k, d)[m] = count[m]
BY DEF Add, Counts, Kinds

\* The pieces of the range of caller and job that the steps build.
LEMMA CallerRange ==
    /\ None \in CallerStates
    /\ [op |-> "count"] \in CallerStates
    /\ \A d \in Deltas, db \in BOOLEAN :
         [op |-> "change", d |-> d, db |-> db] \in CallerStates
    /\ \A n \in Nat : [op |-> "self", used |-> n] \in CallerStates
    /\ \A f \in Counts : [op |-> "save", row |-> f] \in CallerStates
    /\ \A f \in Counts, q \in Int : [op |-> "update", row |-> f, quota |-> q] \in CallerStates
    /\ \A q \in Int : [op |-> "recache", quota |-> q] \in CallerStates
BY DEF CallerStates

\* What a caller in flight carries.
LEMMA CallerKinds ==
    ASSUME NEW s \in CallerStates
    PROVE  /\ s.op = "change" => s.d \in Deltas /\ s.db \in BOOLEAN
           /\ s.op = "self" => s.used \in Nat
           /\ s.op = "save" => s.row \in Counts
           /\ s.op = "update" => s.row \in Counts /\ s.quota \in Int
           /\ s.op = "recache" => s.quota \in Int
BY DEF CallerStates, None

\* What a background job carries.
LEMMA JobKinds ==
    ASSUME NEW s \in JobStates, s # None
    PROVE  /\ s.op \in {"incr", "field", "load", "fill"}
           /\ s.d \in Int /\ s.checked \in BOOLEAN
BY DEF JobStates, None

\* The states a job is put into.
LEMMA JobRange ==
    /\ None \in JobStates
    /\ \A o \in {"incr", "field", "load", "fill"}, d \in Int, b \in BOOLEAN :
         [op |-> o, d |-> d, checked |-> b] \in JobStates
BY DEF JobStates

\* Nothing pending: zero of every kind.
LEMMA NothingIsCount == Nothing \in Counts /\ \A k \in Kinds : Nothing[k] = 0
BY DEF Nothing, Counts, Kinds

\* The part of TypeOK that most steps leave alone.
DbType == /\ row \in Counts /\ pending \in Counts /\ taken \in Counts /\ posted \in Counts
          /\ flushing \in 0..4 /\ intact \in BOOLEAN
CacheType == cache \in [here : BOOLEAN, full : BOOLEAN, quota : Int] /\ vanished \in BOOLEAN
BoundType == shown \in Nat /\ calls \in Nat /\ troubles \in Nat

Typed == /\ DbType /\ CacheType /\ BoundType
         /\ caller \in [Callers -> CallerStates] /\ job \in [Jobs -> JobStates]

\* The type invariant in its parts.
LEMMA TypeParts == (TypeOK <=> Typed) /\ (TypeOK' <=> Typed')
BY DEF TypeOK, Typed, DbType, CacheType, BoundType

\* No call is in flight and no delta is pending when the process starts.
LEMMA InitInv == Init => QuotaInv
<1> SUFFICES ASSUME Init PROVE QuotaInv
  OBVIOUS
<1> USE DEF Init
<1>1. row \in Counts /\ posted \in Counts
  BY QuotaAssumption DEF Counts, Kinds
<1>2. TypeOK
  <2>1. DbType
    BY <1>1, NothingIsCount DEF DbType
  <2>2. CacheType
    <3>1. Absent \in [here : BOOLEAN, full : BOOLEAN, quota : Int]
      BY DEF Absent
    <3> QED
      BY <3>1 DEF CacheType
  <2>3. BoundType
    BY DEF BoundType
  <2>4. caller \in [Callers -> CallerStates] /\ job \in [Jobs -> JobStates]
    BY CallerRange, JobRange
  <2> QED
    BY <2>1, <2>2, <2>3, <2>4, TypeParts DEF Typed
<1>3. Conserved
  BY <1>1, NothingIsCount DEF Conserved, Counts
<1>8. FlushInv
  BY NothingIsCount DEF FlushInv, Kinds
<1>4. SelfInv
  BY DEF SelfInv, None
<1>5. NothingShownTwice
  BY <1>1 DEF NothingShownTwice, Kinds
<1>6. CheckedInv
  BY DEF CheckedInv, None
<1>7. PartialOnlyAfterExpiry
  BY DEF PartialOnlyAfterExpiry, Absent
<1> QED
  BY <1>2, <1>3, <1>4, <1>5, <1>6, <1>7, <1>8 DEF QuotaInv

-----------------------------------------------------------------------------
(* Type correctness *)

\* A goroutine is started or ends in range.
LEMMA SpawnType ==
    ASSUME job \in [Jobs -> JobStates], NEW work \in JobStates, Spawn(work)
    PROVE  job' \in [Jobs -> JobStates]
BY DEF Spawn

\* A job that ends leaves its goroutine free.
LEMMA FinishedType ==
    ASSUME job \in [Jobs -> JobStates], NEW j \in Jobs, Finished(j)
    PROVE  job' \in [Jobs -> JobStates]
BY JobRange DEF Finished

\* A caller moves on.
LEMMA BecomesType ==
    ASSUME caller \in [Callers -> CallerStates], NEW c \in Callers,
           NEW state \in CallerStates, Becomes(c, state)
    PROVE  caller' \in [Callers -> CallerStates]
BY DEF Becomes

\* A record added to a store and an update of the row keep the counts in range.
LEMMA RecordType ==
    ASSUME TypeOK, NEW k \in Kinds, NEW d \in Int, k # "quota" => d \in Nat,
           AddNewRecord(k, d)
    PROVE  row' \in Counts /\ pending' \in Counts /\ taken' \in Counts
           /\ posted' \in Counts /\ flushing' \in 0..4 /\ intact' \in BOOLEAN
BY AddIsCount DEF TypeOK, AddNewRecord

\* An UPDATE of the row keeps the types.
LEMMA UpdateRowType ==
    ASSUME TypeOK, NEW d \in Int, UpdateRow(d)
    PROVE  row' \in Counts /\ pending' \in Counts /\ taken' \in Counts
           /\ posted' \in Counts /\ flushing' \in 0..4 /\ intact' \in BOOLEAN
BY AddIsCount DEF TypeOK, UpdateRow, Kinds

\* Every step keeps TypeOK.
LEMMA TypeStep == TypeOK /\ [Next]_vars => TypeOK'
<1> SUFFICES ASSUME TypeOK, [Next]_vars PROVE TypeOK'
  OBVIOUS
<1> USE DEF dbVars, histVars, cacheVars, Call, Trouble
<1>t. Typed
  BY TypeParts
<1>1. CASE UNCHANGED vars
  <2>1. Typed'
    BY <1>1, <1>t DEF vars, Typed, DbType, CacheType, BoundType
  <2> QED
    BY <2>1, TypeParts
<1>2. ASSUME NEW c \in Callers, NEW d \in Deltas, NEW db \in BOOLEAN, ChangeQuota(c, d, db)
      PROVE  TypeOK'
  <2>1. d \in Int
    BY <1>2, <1>t, QuotaAssumption
  <2>2. caller' \in [Callers -> CallerStates]
    BY <1>2, <1>t, <2>1, CallerRange, BecomesType DEF ChangeQuota, Typed
  <2>3. job' \in [Jobs -> JobStates]
    BY <1>2, <1>t, <2>1, JobRange, SpawnType DEF ChangeQuota, Typed
  <2>4. DbType'
    BY <1>2, <1>t, <2>1 DEF ChangeQuota, Typed, DbType
  <2>5. CacheType'
    BY <1>2, <1>t, <2>1 DEF ChangeQuota, Typed, CacheType
  <2>6. BoundType'
    BY <1>2, <1>t, <2>1 DEF ChangeQuota, Typed, BoundType
  <2> QED
    BY <2>2, <2>3, <2>4, <2>5, <2>6, TypeParts DEF Typed
<1>3. ASSUME NEW c \in Callers, WriteQuota(c)
      PROVE  TypeOK'
  <2>1. caller[c].d \in Int /\ caller[c].db \in BOOLEAN
    BY <1>3, <1>t, CallerKinds, QuotaAssumption DEF WriteQuota, Typed
  <2>2. "quota" \in Kinds
    BY <1>3, <1>t, <2>1 DEF Kinds
  <2>3. caller' \in [Callers -> CallerStates]
    BY <1>3, <1>t, <2>1, <2>2, CallerRange, BecomesType DEF WriteQuota, Typed
  <2>4. job' \in [Jobs -> JobStates]
    BY <1>3, <1>t, <2>1, <2>2 DEF WriteQuota, Typed
  <2>5. DbType'
    BY <1>3, <1>t, <2>1, <2>2, RecordType, UpdateRowType, TypeParts DEF WriteQuota, Typed, DbType
  <2>6. CacheType'
    BY <1>3, <1>t, <2>1, <2>2 DEF WriteQuota, Typed, CacheType
  <2>7. BoundType'
    BY <1>3, <1>t, <2>1, <2>2 DEF WriteQuota, Typed, BoundType
  <2> QED
    BY <2>3, <2>4, <2>5, <2>6, <2>7, TypeParts DEF Typed
<1>4. ASSUME NEW c \in Callers, WriteFails(c)
      PROVE  TypeOK'
  <2>1. caller' \in [Callers -> CallerStates]
    BY <1>4, <1>t, CallerRange, BecomesType DEF WriteFails, Typed
  <2>2. job' \in [Jobs -> JobStates]
    BY <1>4, <1>t DEF WriteFails, Typed
  <2>3. DbType'
    BY <1>4, <1>t DEF WriteFails, Typed, DbType
  <2>4. CacheType'
    BY <1>4, <1>t DEF WriteFails, Typed, CacheType
  <2>5. BoundType'
    BY <1>4, <1>t DEF WriteFails, Typed, BoundType
  <2> QED
    BY <2>1, <2>2, <2>3, <2>4, <2>5, TypeParts DEF Typed
<1>5. ASSUME NEW c \in Callers, NEW q \in Uses, AddUsed(c, q)
      PROVE  TypeOK'
  <2>1. q \in Nat /\ "used" \in Kinds
    BY <1>5, <1>t, QuotaAssumption DEF Kinds
  <2>2. caller' \in [Callers -> CallerStates]
    BY <1>5, <1>t, <2>1, CallerRange, BecomesType DEF AddUsed, Typed
  <2>3. job' \in [Jobs -> JobStates]
    BY <1>5, <1>t, <2>1 DEF AddUsed, Typed
  <2>4. DbType'
    BY <1>5, <1>t, <2>1, RecordType, TypeParts DEF AddUsed, Typed, DbType
  <2>5. CacheType'
    BY <1>5, <1>t, <2>1 DEF AddUsed, Typed, CacheType
  <2>6. BoundType'
    BY <1>5, <1>t, <2>1 DEF AddUsed, Typed, BoundType
  <2> QED
    BY <2>2, <2>3, <2>4, <2>5, <2>6, TypeParts DEF Typed
<1>6. ASSUME NEW c \in Callers, AddCount(c)
      PROVE  TypeOK'
  <2>1. "count" \in Kinds
    BY <1>6, <1>t DEF Kinds
  <2>2. caller' \in [Callers -> CallerStates]
    BY <1>6, <1>t, <2>1, CallerRange, BecomesType DEF AddCount, Typed
  <2>3. job' \in [Jobs -> JobStates]
    BY <1>6, <1>t, <2>1 DEF AddCount, Typed
  <2>4. DbType'
    BY <1>6, <1>t, <2>1, RecordType, TypeParts DEF AddCount, Typed, DbType
  <2>5. CacheType'
    BY <1>6, <1>t, <2>1 DEF AddCount, Typed, CacheType
  <2>6. BoundType'
    BY <1>6, <1>t, <2>1 DEF AddCount, Typed, BoundType
  <2> QED
    BY <2>2, <2>3, <2>4, <2>5, <2>6, TypeParts DEF Typed
<1>7. ASSUME NEW d \in Deltas, AdjustQuota(d)
      PROVE  TypeOK'
  <2>1. d \in Int /\ row["quota"] \in Int
    BY <1>7, <1>t, QuotaAssumption DEF Counts, Kinds, Typed, DbType
  <2>2. caller' \in [Callers -> CallerStates]
    BY <1>7, <1>t, <2>1 DEF AdjustQuota, Typed
  <2>3. job' \in [Jobs -> JobStates]
    <3>1. row["quota"] + d \in Int
      BY <2>1
    <3>2. [op |-> "field", d |-> row["quota"] + d, checked |-> FALSE] \in JobStates
      BY <3>1, JobRange
    <3> QED
      BY <1>7, <1>t, <3>2, SpawnType DEF AdjustQuota, Typed
  <2>4. DbType'
    BY <1>7, <1>t, <2>1, UpdateRowType, TypeParts DEF AdjustQuota, Typed, DbType
  <2>5. CacheType'
    BY <1>7, <1>t, <2>1 DEF AdjustQuota, Typed, CacheType
  <2>6. BoundType'
    BY <1>7, <1>t, <2>1 DEF AdjustQuota, Typed, BoundType
  <2> QED
    BY <2>2, <2>3, <2>4, <2>5, <2>6, TypeParts DEF Typed
<1>8. ASSUME FlushStarts PROVE TypeOK'
  <2>1. caller' \in [Callers -> CallerStates]
    BY <1>8, <1>t DEF FlushStarts, Typed
  <2>2. job' \in [Jobs -> JobStates]
    BY <1>8, <1>t DEF FlushStarts, Typed
  <2>3. DbType'
    BY <1>8, <1>t DEF FlushStarts, Typed, DbType
  <2>4. CacheType'
    BY <1>8, <1>t DEF FlushStarts, Typed, CacheType
  <2>5. BoundType'
    BY <1>8, <1>t DEF FlushStarts, Typed, BoundType
  <2> QED
    BY <2>1, <2>2, <2>3, <2>4, <2>5, TypeParts DEF Typed
<1>9. ASSUME TakeStore PROVE TypeOK'
  <2>1. Store[flushing] \in Kinds
    BY <1>9, <1>t DEF TakeStore, Store, Kinds
  <2>2. caller' \in [Callers -> CallerStates]
    BY <1>9, <1>t, <2>1 DEF TakeStore, Typed
  <2>3. job' \in [Jobs -> JobStates]
    BY <1>9, <1>t, <2>1 DEF TakeStore, Typed
  <2>4. DbType'
    BY <1>9, <1>t, <2>1 DEF TakeStore, Typed, DbType, Counts, Kinds
  <2>5. CacheType'
    BY <1>9, <1>t, <2>1 DEF TakeStore, Typed, CacheType
  <2>6. BoundType'
    BY <1>9, <1>t, <2>1 DEF TakeStore, Typed, BoundType
  <2> QED
    BY <2>2, <2>3, <2>4, <2>5, <2>6, TypeParts DEF Typed
<1>10. ASSUME ApplyTaken PROVE TypeOK'
  <2>1. caller' \in [Callers -> CallerStates]
    BY <1>10, <1>t DEF ApplyTaken, Typed
  <2>2. job' \in [Jobs -> JobStates]
    BY <1>10, <1>t DEF ApplyTaken, Typed
  <2>3. DbType'
    BY <1>10, <1>t, NothingIsCount DEF ApplyTaken, Typed, DbType, Counts, Kinds
  <2>4. CacheType'
    BY <1>10, <1>t DEF ApplyTaken, Typed, CacheType
  <2>5. BoundType'
    BY <1>10, <1>t DEF ApplyTaken, Typed, BoundType
  <2> QED
    BY <2>1, <2>2, <2>3, <2>4, <2>5, TypeParts DEF Typed
<1>11. ASSUME ApplyFails PROVE TypeOK'
  <2>1. caller' \in [Callers -> CallerStates]
    BY <1>11, <1>t DEF ApplyFails, Typed
  <2>2. job' \in [Jobs -> JobStates]
    BY <1>11, <1>t DEF ApplyFails, Typed
  <2>3. DbType'
    BY <1>11, <1>t, NothingIsCount DEF ApplyFails, Typed, DbType
  <2>4. CacheType'
    BY <1>11, <1>t DEF ApplyFails, Typed, CacheType
  <2>5. BoundType'
    BY <1>11, <1>t DEF ApplyFails, Typed, BoundType
  <2> QED
    BY <2>1, <2>2, <2>3, <2>4, <2>5, TypeParts DEF Typed
<1>12. ASSUME GetUserCacheMiss PROVE TypeOK'
  <2>1. [op |-> "load", d |-> 0, checked |-> FALSE] \in JobStates
    BY DEF JobStates
  <2>2. caller' \in [Callers -> CallerStates]
    BY <1>12, <1>t DEF GetUserCacheMiss, Typed
  <2>3. job' \in [Jobs -> JobStates]
    BY <1>12, <1>t, <2>1, SpawnType DEF GetUserCacheMiss, Typed
  <2>4. DbType'
    BY <1>12, <1>t DEF GetUserCacheMiss, Typed, DbType
  <2>5. CacheType'
    BY <1>12, <1>t DEF GetUserCacheMiss, Typed, CacheType
  <2>6. BoundType'
    BY <1>12, <1>t DEF GetUserCacheMiss, Typed, BoundType
  <2> QED
    BY <2>2, <2>3, <2>4, <2>5, <2>6, TypeParts DEF Typed
<1>13. ASSUME NEW j \in Jobs, FillHash(j)
      PROVE  TypeOK'
  <2>1. job[j].d \in Int
    BY <1>13, <1>t, JobKinds DEF FillHash, None, Typed
  <2>2. caller' \in [Callers -> CallerStates]
    BY <1>13, <1>t, <2>1 DEF FillHash, Typed
  <2>3. job' \in [Jobs -> JobStates]
    BY <1>13, <1>t, <2>1, FinishedType DEF FillHash, Typed
  <2>4. DbType'
    BY <1>13, <1>t, <2>1 DEF FillHash, Typed, DbType
  <2>5. CacheType'
    BY <1>13, <1>t, <2>1 DEF FillHash, Typed, CacheType, Hash
  <2>6. BoundType'
    BY <1>13, <1>t, <2>1 DEF FillHash, Typed, BoundType
  <2> QED
    BY <2>2, <2>3, <2>4, <2>5, <2>6, TypeParts DEF Typed
<1>14. ASSUME NEW j \in Jobs, CheckTTL(j)
      PROVE  TypeOK'
  <2>1. job[j] \in JobStates /\ [job[j] EXCEPT !.checked = TRUE] \in JobStates
    BY <1>14, <1>t, JobKinds DEF CheckTTL, None, JobStates, Typed
  <2>2. caller' \in [Callers -> CallerStates]
    BY <1>14, <1>t, <2>1 DEF CheckTTL, Typed
  <2>3. job' \in [Jobs -> JobStates]
    BY <1>14, <1>t, <2>1, JobRange DEF CheckTTL, Typed
  <2>4. DbType'
    BY <1>14, <1>t, <2>1 DEF CheckTTL, Typed, DbType
  <2>5. CacheType'
    BY <1>14, <1>t, <2>1 DEF CheckTTL, Typed, CacheType
  <2>6. BoundType'
    BY <1>14, <1>t, <2>1 DEF CheckTTL, Typed, BoundType
  <2> QED
    BY <2>2, <2>3, <2>4, <2>5, <2>6, TypeParts DEF Typed
<1>15. ASSUME NEW j \in Jobs, WriteField(j)
      PROVE  TypeOK'
  <2>1. job[j].d \in Int
    BY <1>15, <1>t, JobKinds DEF WriteField, None, Typed
  <2>2. caller' \in [Callers -> CallerStates]
    BY <1>15, <1>t, <2>1 DEF WriteField, Typed
  <2>3. job' \in [Jobs -> JobStates]
    BY <1>15, <1>t, <2>1, FinishedType DEF WriteField, Typed
  <2>4. DbType'
    BY <1>15, <1>t, <2>1 DEF WriteField, Typed, DbType
  <2>5. CacheType'
    BY <1>15, <1>t, <2>1 DEF WriteField, Typed, CacheType, Hash
  <2>6. BoundType'
    BY <1>15, <1>t, <2>1 DEF WriteField, Typed, BoundType
  <2> QED
    BY <2>2, <2>3, <2>4, <2>5, <2>6, TypeParts DEF Typed
<1>16. ASSUME NEW j \in Jobs, JobFails(j)
      PROVE  TypeOK'
  <2>1. caller' \in [Callers -> CallerStates]
    BY <1>16, <1>t DEF JobFails, Typed
  <2>2. job' \in [Jobs -> JobStates]
    BY <1>16, <1>t, FinishedType DEF JobFails, Typed
  <2>3. DbType'
    BY <1>16, <1>t DEF JobFails, Typed, DbType
  <2>4. CacheType'
    BY <1>16, <1>t DEF JobFails, Typed, CacheType
  <2>5. BoundType'
    BY <1>16, <1>t DEF JobFails, Typed, BoundType
  <2> QED
    BY <2>1, <2>2, <2>3, <2>4, <2>5, TypeParts DEF Typed
<1>17. ASSUME CacheGone PROVE TypeOK'
  <2>1. caller' \in [Callers -> CallerStates]
    BY <1>17, <1>t DEF CacheGone, Typed
  <2>2. job' \in [Jobs -> JobStates]
    BY <1>17, <1>t DEF CacheGone, Typed
  <2>3. DbType'
    BY <1>17, <1>t DEF CacheGone, Typed, DbType
  <2>4. CacheType'
    BY <1>17, <1>t DEF CacheGone, Typed, CacheType, Absent
  <2>5. BoundType'
    BY <1>17, <1>t DEF CacheGone, Typed, BoundType
  <2> QED
    BY <2>1, <2>2, <2>3, <2>4, <2>5, TypeParts DEF Typed
<1>18. ASSUME NEW c \in Callers, GetSelf(c)
      PROVE  TypeOK'
  <2>1. row["used"] \in Nat /\ pending["used"] \in Nat
    BY <1>18, <1>t DEF Counts, Typed, DbType
  <2>2. caller[c].op = "self" => caller[c].used \in Nat
    BY <1>18, <1>t, <2>1, CallerKinds DEF Typed
  <2>3. caller' \in [Callers -> CallerStates]
    BY <1>18, <1>t, <2>1, <2>2, CallerRange, BecomesType DEF GetSelf, Typed
  <2>4. job' \in [Jobs -> JobStates]
    BY <1>18, <1>t, <2>1, <2>2 DEF GetSelf, Typed
  <2>5. DbType'
    BY <1>18, <1>t, <2>1, <2>2 DEF GetSelf, Typed, DbType
  <2>6. CacheType'
    BY <1>18, <1>t, <2>1, <2>2 DEF GetSelf, Typed, CacheType
  <2>7. BoundType'
    BY <1>18, <1>t, <2>1, <2>2 DEF GetSelf, Typed, BoundType
  <2> QED
    BY <2>3, <2>4, <2>5, <2>6, <2>7, TypeParts DEF Typed
<1>19. ASSUME NEW c \in Callers, LoadUser(c)
      PROVE  TypeOK'
  <2>1. row \in Counts /\ Nothing \in Counts
    BY <1>19, <1>t, NothingIsCount DEF Typed, DbType
  <2>2. caller' \in [Callers -> CallerStates]
    BY <1>19, <1>t, <2>1, CallerRange, BecomesType DEF LoadUser, Typed
  <2>3. job' \in [Jobs -> JobStates]
    BY <1>19, <1>t, <2>1 DEF LoadUser, Typed
  <2>4. DbType'
    BY <1>19, <1>t, <2>1 DEF LoadUser, Typed, DbType
  <2>5. CacheType'
    BY <1>19, <1>t, <2>1 DEF LoadUser, Typed, CacheType
  <2>6. BoundType'
    BY <1>19, <1>t, <2>1 DEF LoadUser, Typed, BoundType
  <2> QED
    BY <2>2, <2>3, <2>4, <2>5, <2>6, TypeParts DEF Typed
<1>20. ASSUME NEW c \in Callers, SaveUser(c)
      PROVE  TypeOK'
  <2>1. caller[c].row \in Counts /\ caller[c].quota \in Int
    BY <1>20, <1>t, CallerKinds DEF SaveUser, Typed
  <2>2. row' \in Counts /\ caller[c].row["quota"] \in Int
    BY <1>20, <1>t, <2>1 DEF SaveUser, Counts, Kinds, Typed, DbType
  <2>3. caller' \in [Callers -> CallerStates]
    <3> DEFINE q == IF caller[c].row["quota"] = 0 THEN caller[c].quota
                                                  ELSE caller[c].row["quota"]
    <3>1. [op |-> "recache", quota |-> q] \in CallerStates
      BY <2>1, <2>2, CallerRange
    <3>2. Becomes(c, [op |-> "recache", quota |-> q])
      BY <1>20 DEF SaveUser
    <3> QED
      BY <1>t, <3>1, <3>2, BecomesType DEF Typed
  <2>4. job' \in [Jobs -> JobStates]
    BY <1>20, <1>t, <2>1, <2>2 DEF SaveUser, Typed
  <2>5. DbType'
    BY <1>20, <1>t, <2>1, <2>2 DEF SaveUser, Typed, DbType
  <2>6. CacheType'
    BY <1>20, <1>t, <2>1, <2>2 DEF SaveUser, Typed, CacheType
  <2>7. BoundType'
    BY <1>20, <1>t, <2>1, <2>2 DEF SaveUser, Typed, BoundType
  <2> QED
    BY <2>3, <2>4, <2>5, <2>6, <2>7, TypeParts DEF Typed
<1>21. ASSUME NEW c \in Callers, Recache(c)
      PROVE  TypeOK'
  <2>1. caller[c].quota \in Int
    BY <1>21, <1>t, CallerKinds DEF Recache, Typed
  <2>2. caller' \in [Callers -> CallerStates]
    BY <1>21, <1>t, <2>1, CallerRange, BecomesType DEF Recache, Typed
  <2>3. job' \in [Jobs -> JobStates]
    BY <1>21, <1>t, <2>1 DEF Recache, Typed
  <2>4. DbType'
    BY <1>21, <1>t, <2>1 DEF Recache, Typed, DbType
  <2>5. CacheType'
    BY <1>21, <1>t, <2>1 DEF Recache, Typed, CacheType, Hash
  <2>6. BoundType'
    BY <1>21, <1>t, <2>1 DEF Recache, Typed, BoundType
  <2> QED
    BY <2>2, <2>3, <2>4, <2>5, <2>6, TypeParts DEF Typed
<1>22. ASSUME Crash PROVE TypeOK'
  <2>1. caller' \in [Callers -> CallerStates]
    BY <1>22, <1>t, CallerRange DEF Crash, Typed
  <2>2. job' \in [Jobs -> JobStates]
    BY <1>22, <1>t, JobRange DEF Crash, Typed
  <2>3. DbType'
    BY <1>22, <1>t, NothingIsCount DEF Crash, Typed, DbType
  <2>4. CacheType'
    BY <1>22, <1>t DEF Crash, Typed, CacheType
  <2>5. BoundType'
    BY <1>22, <1>t DEF Crash, Typed, BoundType
  <2> QED
    BY <2>1, <2>2, <2>3, <2>4, <2>5, TypeParts DEF Typed
<1>23. ASSUME NEW j \in Jobs, ReadForCache(j)
      PROVE  TypeOK'
  <2>1. row["quota"] \in Int
    BY <1>t DEF Counts, Kinds, Typed, DbType
  <2>2. caller' \in [Callers -> CallerStates]
    BY <1>23, <1>t DEF ReadForCache, Typed
  <2>3. [op |-> "fill", d |-> row["quota"], checked |-> FALSE] \in JobStates
    BY <2>1, JobRange
  <2>4. job' \in [Jobs -> JobStates]
    BY <1>23, <1>t, <2>3 DEF ReadForCache, Typed
  <2>5. DbType'
    BY <1>23, <1>t DEF ReadForCache, Typed, DbType
  <2>6. CacheType'
    BY <1>23, <1>t DEF ReadForCache, Typed, CacheType
  <2>7. BoundType'
    BY <1>23, <1>t DEF ReadForCache, Typed, BoundType
  <2> QED
    BY <2>2, <2>4, <2>5, <2>6, <2>7, TypeParts DEF Typed
<1>24. ASSUME GetUserQuota PROVE TypeOK'
  <2>1. row["quota"] \in Int
    BY <1>t DEF Counts, Kinds, Typed, DbType
  <2>2. caller' \in [Callers -> CallerStates]
    BY <1>24, <1>t DEF GetUserQuota, Typed
  <2>3. [op |-> "field", d |-> row["quota"], checked |-> FALSE] \in JobStates
    BY <2>1, JobRange
  <2>4. job' \in [Jobs -> JobStates]
    BY <1>24, <1>t, <2>3, SpawnType DEF GetUserQuota, Typed
  <2>5. DbType'
    BY <1>24, <1>t DEF GetUserQuota, Typed, DbType
  <2>6. CacheType'
    BY <1>24, <1>t DEF GetUserQuota, Typed, CacheType
  <2>7. BoundType'
    BY <1>24, <1>t DEF GetUserQuota, Typed, BoundType
  <2> QED
    BY <2>2, <2>4, <2>5, <2>6, <2>7, TypeParts DEF Typed
<1>25. ASSUME NEW c \in Callers, FirstUser(c)
      PROVE  TypeOK'
  <2>1. /\ caller[c].row \in Counts /\ caller[c].row["quota"] \in Int
        /\ row["quota"] \in Int
    BY <1>25, <1>t, CallerKinds DEF FirstUser, Counts, Kinds, Typed, DbType
  <2>2. caller' \in [Callers -> CallerStates]
    BY <1>25, <1>t, <2>1, CallerRange, BecomesType DEF FirstUser, Typed
  <2>3. job' \in [Jobs -> JobStates]
    BY <1>25, <1>t DEF FirstUser, Typed
  <2>4. DbType'
    BY <1>25, <1>t DEF FirstUser, Typed, DbType
  <2>5. CacheType'
    BY <1>25, <1>t DEF FirstUser, Typed, CacheType
  <2>6. BoundType'
    BY <1>25, <1>t DEF FirstUser, Typed, BoundType
  <2> QED
    BY <2>2, <2>3, <2>4, <2>5, <2>6, TypeParts DEF Typed
<1>26. ASSUME NEW c \in Callers, EditUser(c)
      PROVE  TypeOK'
  <2>1. row["quota"] \in Int
    BY <1>t DEF Counts, Kinds, Typed, DbType
  <2>2. caller' \in [Callers -> CallerStates]
    BY <1>26, <1>t, <2>1, CallerRange, BecomesType DEF EditUser, Typed
  <2>3. job' \in [Jobs -> JobStates]
    BY <1>26, <1>t DEF EditUser, Typed
  <2>4. DbType'
    BY <1>26, <1>t DEF EditUser, Typed, DbType
  <2>5. CacheType'
    BY <1>26, <1>t DEF EditUser, Typed, CacheType
  <2>6. BoundType'
    BY <1>26, <1>t DEF EditUser, Typed, BoundType
  <2> QED
    BY <2>2, <2>3, <2>4, <2>5, <2>6, TypeParts DEF Typed
<1> QED
  BY <1>1, <1>2, <1>3, <1>4, <1>5, <1>6, <1>7, <1>8, <1>9, <1>10, <1>11, <1>12, <1>13, <1>14, <1>15, <1>16, <1>17, <1>18, <1>19, <1>20, <1>21, <1>22, <1>23, <1>24, <1>25, <1>26
     DEF Next, CallerStep, JobStep, Flush

-----------------------------------------------------------------------------
(* No delta is lost or doubled *)

\* A record added to a store, or an update of the row, adds the same to what
\* was posted.
LEMMA PostConserves ==
    ASSUME TypeOK, Conserved,
           \/ \E k \in Kinds, d \in Int : (k # "quota" => d \in Nat) /\ AddNewRecord(k, d)
           \/ \E d \in Int : UpdateRow(d)
    PROVE  Conserved'
<1>1. ASSUME NEW k \in Kinds, NEW d \in Int, k # "quota" => d \in Nat, AddNewRecord(k, d)
      PROVE  Conserved'
  <2> SUFFICES ASSUME intact', NEW m \in Kinds
               PROVE  row'[m] + pending'[m] + taken'[m] = posted'[m]
    BY DEF Conserved
  <2>1. /\ row[m] \in Int /\ pending[m] \in Int /\ taken[m] \in Int /\ posted[m] \in Int
        /\ row[m] + pending[m] + taken[m] = posted[m]
    BY <1>1 DEF TypeOK, Conserved, AddNewRecord, Counts
  <2>a. /\ pending' = Add(pending, k, d) /\ posted' = Add(posted, k, d)
        /\ row' = row /\ taken' = taken /\ pending \in Counts /\ posted \in Counts
    BY <1>1 DEF TypeOK, AddNewRecord
  <2>b. pending'[k] = pending[k] + d /\ posted'[k] = posted[k] + d
    BY <1>1, <2>a, AddIsCount
  <2>2. CASE m = k
    BY <2>1, <2>2, <2>a, <2>b
  <2>3. CASE m # k
    <3>1. pending'[m] = pending[m] /\ posted'[m] = posted[m]
      BY <1>1, <2>3, <2>a, AddIsCount
    <3> QED
      BY <2>1, <2>a, <3>1
  <2> QED
    BY <2>2, <2>3
<1>2. ASSUME NEW d \in Int, UpdateRow(d)
      PROVE  Conserved'
  <2> SUFFICES ASSUME intact', NEW m \in Kinds
               PROVE  row'[m] + pending'[m] + taken'[m] = posted'[m]
    BY DEF Conserved
  <2>1. /\ row[m] \in Int /\ pending[m] \in Int /\ taken[m] \in Int /\ posted[m] \in Int
        /\ row[m] + pending[m] + taken[m] = posted[m]
    BY <1>2 DEF TypeOK, Conserved, UpdateRow, Counts
  <2>2. "quota" \in Kinds
    BY DEF Kinds
  <2>a. /\ row' = Add(row, "quota", d) /\ posted' = Add(posted, "quota", d)
        /\ pending' = pending /\ taken' = taken /\ row \in Counts /\ posted \in Counts
    BY <1>2 DEF TypeOK, UpdateRow
  <2>b. row'["quota"] = row["quota"] + d /\ posted'["quota"] = posted["quota"] + d
    BY <2>2, <2>a, AddIsCount
  <2>3. CASE m = "quota"
    BY <2>1, <2>3, <2>a, <2>b
  <2>4. CASE m # "quota"
    <3>1. row'[m] = row[m] /\ posted'[m] = posted[m]
      BY <2>2, <2>4, <2>a, AddIsCount
    <3> QED
      BY <2>1, <2>a, <3>1
  <2> QED
    BY <2>3, <2>4
<1> QED
  BY <1>1, <1>2

\* Every step keeps FlushInv.
LEMMA FlushStep == TypeOK /\ FlushInv /\ [Next]_vars => FlushInv'
<1> SUFFICES ASSUME TypeOK, FlushInv, [Next]_vars PROVE FlushInv'
  OBVIOUS
<1> USE DEF dbVars, histVars, cacheVars
<1>1. CASE UNCHANGED <<taken, flushing>>
  BY <1>1 DEF FlushInv
<1>2. CASE FlushStarts
  BY <1>2 DEF FlushStarts, FlushInv
<1>3. CASE TakeStore
  BY <1>3 DEF TakeStore, Store, FlushInv, TypeOK, Counts, Kinds
<1>4. CASE ApplyTaken \/ ApplyFails \/ Crash
  BY <1>4, NothingIsCount DEF ApplyTaken, ApplyFails, Crash, FlushInv, Kinds
<1> QED
  BY <1>1, <1>2, <1>3, <1>4
     DEF Next, CallerStep, JobStep, Flush, vars, ChangeQuota, WriteQuota, WriteFails,
         AddUsed, AddCount, AddNewRecord, UpdateRow, AdjustQuota, GetUserCacheMiss,
         FillHash, CheckTTL, WriteField, JobFails, CacheGone, GetSelf, LoadUser,
         SaveUser, Recache, ReadForCache, GetUserQuota, FirstUser, EditUser

\* Every step keeps Conserved.
LEMMA ConservedStep == TypeOK /\ FlushInv /\ Conserved /\ [Next]_vars => Conserved'
<1> SUFFICES ASSUME TypeOK, FlushInv, Conserved, [Next]_vars PROVE Conserved'
  OBVIOUS
<1> USE DEF dbVars, histVars, cacheVars
<1>1. CASE UNCHANGED <<row, pending, taken, posted, intact>>
  BY <1>1 DEF Conserved
<1>2. ASSUME NEW c \in Callers, WriteQuota(c) PROVE Conserved'
  <2>1. caller[c].d \in Int
    BY <1>2, CallerKinds, QuotaAssumption DEF WriteQuota, TypeOK
  <2> QED
    BY <1>2, <2>1, PostConserves DEF WriteQuota, Kinds
<1>3. ASSUME NEW c \in Callers, NEW q \in Uses, AddUsed(c, q) PROVE Conserved'
  BY <1>3, PostConserves, QuotaAssumption DEF AddUsed, Kinds
<1>4. ASSUME NEW c \in Callers, AddCount(c) PROVE Conserved'
  BY <1>4, PostConserves DEF AddCount, Kinds
<1>5. ASSUME NEW d \in Deltas, AdjustQuota(d) PROVE Conserved'
  BY <1>5, PostConserves, QuotaAssumption DEF AdjustQuota
<1>6. CASE TakeStore
  <2>1. /\ Store[flushing] \in Kinds /\ taken[Store[flushing]] = 0
        /\ \A k \in Kinds : k # Store[flushing] => taken'[k] = taken[k] /\ pending'[k] = pending[k]
        /\ taken'[Store[flushing]] = pending[Store[flushing]] /\ pending'[Store[flushing]] = 0
    BY <1>6 DEF TakeStore, Store, FlushInv, TypeOK, Counts, Kinds
  <2>2. UNCHANGED <<row, posted, intact>>
    BY <1>6 DEF TakeStore
  <2> QED
    BY <2>1, <2>2 DEF TypeOK, Conserved, Counts
<1>7. CASE ApplyTaken
  BY <1>7, NothingIsCount DEF ApplyTaken, TypeOK, Conserved, Counts
<1>8. CASE ApplyFails
  BY <1>8 DEF ApplyFails, TypeOK, Conserved
<1>9. ASSUME NEW c \in Callers, SaveUser(c) PROVE Conserved'
  BY <1>9 DEF SaveUser, Conserved
<1>10. CASE Crash
  BY <1>10 DEF Crash, Conserved
<1> QED
  BY <1>1, <1>2, <1>3, <1>4, <1>5, <1>6, <1>7, <1>8, <1>9, <1>10
     DEF Next, CallerStep, JobStep, Flush, vars, ChangeQuota, WriteFails, FlushStarts,
         GetUserCacheMiss, FillHash, CheckTTL, WriteField, JobFails, CacheGone, GetSelf,
         LoadUser, Recache, ReadForCache, GetUserQuota, FirstUser, EditUser

-----------------------------------------------------------------------------
(* No delta is shown twice *)

\* As long as nothing was lost, used_quota of the row and what was posted to it
\* never fall.
LEMMA UsedGrows ==
    ASSUME TypeOK, [Next]_vars, intact'
    PROVE  intact /\ row["used"] <= row'["used"] /\ posted["used"] <= posted'["used"]
<1> USE DEF dbVars, histVars, cacheVars
<1>0. /\ row \in Counts /\ posted \in Counts /\ pending \in Counts /\ "used" \in Kinds
      /\ row["used"] \in Nat /\ posted["used"] \in Nat /\ taken["used"] \in Nat
  BY DEF TypeOK, Counts, Kinds
<1>1. CASE UNCHANGED <<row, posted, intact>>
  BY <1>0, <1>1
<1>2. ASSUME NEW k \in Kinds, NEW d \in Int, k # "quota" => d \in Nat, AddNewRecord(k, d)
      PROVE  intact /\ row["used"] <= row'["used"] /\ posted["used"] <= posted'["used"]
  <2>1. row' = row /\ intact' = intact /\ posted' = Add(posted, k, d)
    BY <1>2 DEF AddNewRecord
  <2>2. CASE k = "used"
    <3>1. posted'["used"] = posted["used"] + d /\ d \in Nat
      BY <1>0, <1>2, <2>1, <2>2, AddIsCount
    <3> QED
      BY <1>0, <2>1, <3>1
  <2>3. CASE k # "used"
    <3>1. posted'["used"] = posted["used"]
      BY <1>0, <1>2, <2>1, <2>3, AddIsCount
    <3> QED
      BY <1>0, <2>1, <3>1
  <2> QED
    BY <2>2, <2>3
<1>3. ASSUME NEW d \in Int, UpdateRow(d)
      PROVE  intact /\ row["used"] <= row'["used"] /\ posted["used"] <= posted'["used"]
  <2>1. row' = Add(row, "quota", d) /\ posted' = Add(posted, "quota", d) /\ intact' = intact
    BY <1>3 DEF UpdateRow
  <2>2. row'["used"] = row["used"] /\ posted'["used"] = posted["used"]
    BY <1>0, <2>1, AddIsCount DEF Kinds
  <2> QED
    BY <1>0, <2>1, <2>2
<1>4. ASSUME NEW c \in Callers, WriteQuota(c)
      PROVE  intact /\ row["used"] <= row'["used"] /\ posted["used"] <= posted'["used"]
  <2>1. caller[c].d \in Int
    BY <1>4, CallerKinds, QuotaAssumption DEF WriteQuota, TypeOK
  <2> QED
    BY <1>2, <1>3, <1>4, <2>1 DEF WriteQuota, Kinds
<1>5. ASSUME NEW c \in Callers, NEW q \in Uses, AddUsed(c, q)
      PROVE  intact /\ row["used"] <= row'["used"] /\ posted["used"] <= posted'["used"]
  BY <1>0, <1>2, <1>5, QuotaAssumption DEF AddUsed
<1>6. ASSUME NEW c \in Callers, AddCount(c)
      PROVE  intact /\ row["used"] <= row'["used"] /\ posted["used"] <= posted'["used"]
  BY <1>2, <1>6 DEF AddCount, Kinds
<1>7. ASSUME NEW d \in Deltas, AdjustQuota(d)
      PROVE  intact /\ row["used"] <= row'["used"] /\ posted["used"] <= posted'["used"]
  BY <1>3, <1>7, QuotaAssumption DEF AdjustQuota
<1>8. CASE ApplyTaken
  <2>1. row'["used"] = row["used"] + taken["used"] /\ posted' = posted /\ intact' = intact
    BY <1>0, <1>8 DEF ApplyTaken
  <2> QED
    BY <1>0, <2>1
<1>9. ASSUME NEW c \in Callers, SaveUser(c)
      PROVE  intact /\ row["used"] <= row'["used"] /\ posted["used"] <= posted'["used"]
  <2>1. row' = row /\ posted' = posted /\ intact
    BY <1>9 DEF SaveUser
  <2> QED
    BY <1>0, <2>1
<1>10. CASE ApplyFails \/ Crash
  <2>1. row' = row /\ posted' = posted /\ intact
    BY <1>10 DEF ApplyFails, Crash
  <2> QED
    BY <1>0, <2>1
<1> QED
  BY <1>1, <1>4, <1>5, <1>6, <1>7, <1>8, <1>9, <1>10
     DEF Next, CallerStep, JobStep, Flush, vars, ChangeQuota, WriteFails, FlushStarts,
         TakeStore, GetUserCacheMiss, FillHash, CheckTTL, WriteField, JobFails,
         CacheGone, GetSelf, LoadUser, Recache, ReadForCache, GetUserQuota, FirstUser,
         EditUser

\* A caller is in GetSelf because it was, or because it has just read the row.
LEMMA SelfCaller ==
    ASSUME TypeOK, [Next]_vars, NEW c \in Callers, caller'[c].op = "self"
    PROVE  caller'[c] = caller[c] \/ caller'[c].used = row["used"]
<1> USE DEF dbVars, histVars, cacheVars
<1>1. CASE caller' = caller
  BY <1>1
<1>2. ASSUME NEW b \in Callers, NEW s, Becomes(b, s), s.op # "self"
      PROVE  caller'[c] = caller[c]
  BY <1>2 DEF Becomes, TypeOK
<1>3. ASSUME NEW b \in Callers, GetSelf(b)
      PROVE  caller'[c] = caller[c] \/ caller'[c].used = row["used"]
  BY <1>3 DEF GetSelf, Becomes, TypeOK, None
<1>4. CASE Crash
  BY <1>4 DEF Crash, None
<1>5. ASSUME NEW b \in Callers, NEW d \in Deltas, NEW db \in BOOLEAN, ChangeQuota(b, d, db)
      PROVE  caller'[c] = caller[c]
  BY <1>2, <1>5 DEF ChangeQuota
<1>6. ASSUME NEW b \in Callers, WriteQuota(b) \/ WriteFails(b) \/ AddCount(b) \/ Recache(b)
                                \/ FirstUser(b) \/ EditUser(b)
      PROVE  caller'[c] = caller[c]
  BY <1>2, <1>6 DEF WriteQuota, WriteFails, AddCount, Recache, FirstUser, EditUser, None
<1>7. ASSUME NEW b \in Callers, NEW q \in Uses, AddUsed(b, q)
      PROVE  caller'[c] = caller[c]
  BY <1>2, <1>7 DEF AddUsed
<1>8. ASSUME NEW b \in Callers, LoadUser(b)
      PROVE  caller'[c] = caller[c]
  BY <1>2, <1>8 DEF LoadUser
<1>9. ASSUME NEW b \in Callers, SaveUser(b)
      PROVE  caller'[c] = caller[c]
  BY <1>2, <1>9 DEF SaveUser
<1> QED
  BY <1>1, <1>3, <1>4, <1>5, <1>6, <1>7, <1>8, <1>9
     DEF Next, CallerStep, JobStep, Flush, vars, AdjustQuota, FlushStarts, TakeStore,
         ApplyTaken, ApplyFails, GetUserCacheMiss, FillHash, CheckTTL, WriteField,
         JobFails, CacheGone, ReadForCache, GetUserQuota

\* Every step keeps SelfInv.
LEMMA SelfStep == TypeOK /\ SelfInv /\ [Next]_vars => SelfInv'
<1> SUFFICES ASSUME TypeOK, SelfInv, [Next]_vars, intact',
                    NEW c \in Callers, caller'[c].op = "self"
             PROVE  caller'[c].used <= row'["used"]
  BY DEF SelfInv
<1>1. intact /\ row["used"] <= row'["used"]
  BY UsedGrows
<1>2. TypeOK'
  BY TypeStep
<1>3. row["used"] \in Nat /\ row'["used"] \in Nat
  BY <1>2 DEF TypeOK, Counts
<1>4. CASE caller'[c] = caller[c]
  <2>1. caller[c].op = "self" /\ caller'[c].used = caller[c].used
    BY <1>4
  <2>2. caller[c].used <= row["used"] /\ caller[c].used \in Nat
    BY <1>1, <2>1, CallerKinds DEF SelfInv, TypeOK
  <2> QED
    BY <1>1, <1>3, <2>1, <2>2
<1>5. CASE caller'[c].used = row["used"]
  BY <1>1, <1>5
<1> QED
  BY <1>4, <1>5, SelfCaller

\* Every step keeps NothingShownTwice: GetSelf reads the row before the store,
\* so a delta that a flush moves meanwhile is missed rather than counted twice.
LEMMA ShownStep ==
    TypeOK /\ Conserved /\ SelfInv /\ NothingShownTwice /\ [Next]_vars => NothingShownTwice'
<1> SUFFICES ASSUME TypeOK, Conserved, SelfInv, NothingShownTwice, [Next]_vars, intact'
             PROVE  shown' <= posted'["used"]
  BY DEF NothingShownTwice
<1> USE DEF dbVars, histVars, cacheVars
<1>1. intact /\ posted["used"] <= posted'["used"]
  BY UsedGrows
<1>2. TypeOK'
  BY TypeStep
<1>3. /\ row["used"] \in Nat /\ pending["used"] \in Nat /\ taken["used"] \in Nat
      /\ posted["used"] \in Nat /\ posted'["used"] \in Nat /\ shown \in Nat
  BY <1>2 DEF TypeOK, Counts
<1>4. CASE shown' = shown
  BY <1>1, <1>3, <1>4 DEF NothingShownTwice
<1>5. ASSUME NEW c \in Callers, GetSelf(c) PROVE shown' <= posted'["used"]
  <2>1. CASE caller[c].op = "self" /\ shown' = caller[c].used + pending["used"]
    <3>1. caller[c].used \in Nat /\ caller[c].used <= row["used"]
      BY <1>1, <2>1, CallerKinds DEF SelfInv, TypeOK
    <3>2. row["used"] + pending["used"] + taken["used"] = posted["used"]
      BY <1>1 DEF Conserved, Kinds
    <3> QED
      BY <1>1, <1>3, <2>1, <3>1, <3>2
  <2> QED
    BY <1>4, <1>5, <2>1 DEF GetSelf
<1> QED
  BY <1>4, <1>5
     DEF Next, CallerStep, JobStep, Flush, vars, ChangeQuota, WriteQuota, WriteFails,
         AddUsed, AddCount, AdjustQuota, FlushStarts, TakeStore, ApplyTaken, ApplyFails,
         GetUserCacheMiss, FillHash, CheckTTL, WriteField, JobFails, CacheGone,
         LoadUser, SaveUser, Recache, Crash, ReadForCache, GetUserQuota, FirstUser,
         EditUser

-----------------------------------------------------------------------------
(* The hash *)

\* A goroutine past its TTL check was past it before, or has just found the hash.
LEMMA CheckedJob ==
    ASSUME TypeOK, [Next]_vars, NEW j \in Jobs,
           job'[j].op \in {"incr", "field"}, job'[j].checked
    PROVE  job'[j] = job[j] \/ (cache' = cache /\ cache.here)
<1> USE DEF dbVars, histVars, cacheVars
<1>1. CASE job' = job
  BY <1>1
<1>2. ASSUME NEW work, Spawn(work), work.checked = FALSE
      PROVE  job'[j] = job[j]
  BY <1>2 DEF Spawn, TypeOK
<1>3. ASSUME NEW i \in Jobs, Finished(i) PROVE job'[j] = job[j]
  BY <1>3 DEF Finished, TypeOK, None
<1>4. ASSUME NEW i \in Jobs, CheckTTL(i)
      PROVE  job'[j] = job[j] \/ (cache' = cache /\ cache.here)
  BY <1>4 DEF CheckTTL, HasTTL, TypeOK, None
<1>5. CASE Crash
  BY <1>5 DEF Crash, None
<1>6. ASSUME NEW c \in Callers, NEW d \in Deltas, NEW db \in BOOLEAN, ChangeQuota(c, d, db)
      PROVE  job'[j] = job[j]
  BY <1>2, <1>6 DEF ChangeQuota
<1>7. ASSUME NEW d \in Deltas, AdjustQuota(d) PROVE job'[j] = job[j]
  BY <1>2, <1>7 DEF AdjustQuota
<1>8. CASE GetUserCacheMiss
  BY <1>2, <1>8 DEF GetUserCacheMiss
<1>10. CASE GetUserQuota
  BY <1>2, <1>10 DEF GetUserQuota
<1>11. ASSUME NEW i \in Jobs, ReadForCache(i) PROVE job'[j] = job[j]
  BY <1>11 DEF ReadForCache, TypeOK
<1>9. ASSUME NEW i \in Jobs, FillHash(i) \/ WriteField(i) \/ JobFails(i)
      PROVE  job'[j] = job[j]
  BY <1>3, <1>9 DEF FillHash, WriteField, JobFails
<1> QED
  BY <1>1, <1>4, <1>5, <1>6, <1>7, <1>8, <1>9, <1>10, <1>11
     DEF Next, CallerStep, JobStep, Flush, vars, WriteQuota, WriteFails, AddUsed,
         AddCount, FlushStarts, TakeStore, ApplyTaken, ApplyFails, CacheGone, GetSelf,
         LoadUser, SaveUser, Recache, FirstUser, EditUser

\* Every step keeps CheckedInv and PartialOnlyAfterExpiry.
LEMMA CacheStep ==
    TypeOK /\ CheckedInv /\ PartialOnlyAfterExpiry /\ [Next]_vars
      => CheckedInv' /\ PartialOnlyAfterExpiry'
<1> SUFFICES ASSUME TypeOK, CheckedInv, PartialOnlyAfterExpiry, [Next]_vars
             PROVE  CheckedInv' /\ PartialOnlyAfterExpiry'
  OBVIOUS
<1> USE DEF dbVars, histVars, cacheVars
<1>1. CASE UNCHANGED <<cache, vanished>>
  BY <1>1, CheckedJob DEF CheckedInv, PartialOnlyAfterExpiry
<1>2. ASSUME vanished' = vanished, NEW q, cache' = Hash(TRUE, q)
      PROVE  CheckedInv' /\ PartialOnlyAfterExpiry'
  BY <1>2 DEF CheckedInv, PartialOnlyAfterExpiry, Hash
<1>3. ASSUME NEW j \in Jobs, WriteField(j)
      PROVE  CheckedInv' /\ PartialOnlyAfterExpiry'
  <2>1. cache'.here /\ (cache'.full <=> cache.here /\ cache.full) /\ vanished' = vanished
    BY <1>3 DEF WriteField, Hash
  <2>2. ~cache.here => vanished
    BY <1>3 DEF WriteField, CheckedInv
  <2> QED
    BY <2>1, <2>2 DEF CheckedInv, PartialOnlyAfterExpiry
<1>4. CASE CacheGone
  <2>1. ~cache'.here /\ job' = job
    BY <1>4 DEF CacheGone, Absent
  <2>2. ASSUME NEW j \in Jobs, job[j].op \in {"incr", "field"}, job[j].checked
        PROVE  vanished'
    BY <1>4, <2>2 DEF CacheGone
  <2> QED
    BY <2>1, <2>2 DEF CheckedInv, PartialOnlyAfterExpiry
<1>5. ASSUME NEW j \in Jobs, FillHash(j)
      PROVE  CheckedInv' /\ PartialOnlyAfterExpiry'
  BY <1>2, <1>5 DEF FillHash
<1>6. ASSUME NEW c \in Callers, Recache(c)
      PROVE  CheckedInv' /\ PartialOnlyAfterExpiry'
  BY <1>2, <1>6 DEF Recache
<1> QED
  BY <1>1, <1>3, <1>4, <1>5, <1>6
     DEF Next, CallerStep, JobStep, Flush, vars, ChangeQuota, WriteQuota, WriteFails,
         AddUsed, AddCount, AdjustQuota, FlushStarts, TakeStore, ApplyTaken, ApplyFails,
         GetUserCacheMiss, CheckTTL, JobFails, GetSelf, LoadUser, SaveUser, Crash,
         ReadForCache, GetUserQuota, FirstUser, EditUser

-----------------------------------------------------------------------------
(* The theorems *)

\* QuotaInv holds in every state.
THEOREM QuotaInvariant == Spec => []QuotaInv
<1>1. Init => QuotaInv
  BY InitInv
<1>2. QuotaInv /\ [Next]_vars => QuotaInv'
  BY TypeStep, FlushStep, ConservedStep, SelfStep, ShownStep, CacheStep DEF QuotaInv
<1> QED
  BY <1>1, <1>2, PTL DEF Spec

\* The counters of the row, of the stores and of the requests in flight keep
\* their ranges through every interleaving of IncreaseUserQuota,
\* DecreaseUserQuota, batchUpdate, the cache goroutines and User.Update.
THEOREM TypeCorrect == Spec => []TypeOK
<1>1. QuotaInv => TypeOK
  BY DEF QuotaInv
<1> QED
  BY <1>1, QuotaInvariant, PTL

\* No posted delta is lost or applied twice between addNewRecord, batchUpdate
\* and the direct updates, until a crash, a failed batch statement or an
\* overwriting User.Update.
THEOREM DeltasConserved == Spec => []Conserved
<1>1. QuotaInv => Conserved
  BY DEF QuotaInv
<1> QED
  BY <1>1, QuotaInvariant, PTL

\* GetSelf never answers more used quota than was posted, whatever a flush does
\* between its two reads.
THEOREM ShownAtMostPosted == Spec => []NothingShownTwice
<1>1. QuotaInv => NothingShownTwice
  BY DEF QuotaInv
<1> QED
  BY <1>1, QuotaInvariant, PTL

\* RedisHIncrBy and RedisHSetField make a hash of a single field only when the
\* hash expires between their TTL check and their write.
THEOREM PartialHashNeedsExpiry == Spec => []PartialOnlyAfterExpiry
<1>1. QuotaInv => PartialOnlyAfterExpiry
  BY DEF QuotaInv
<1> QED
  BY <1>1, QuotaInvariant, PTL
=============================================================================
