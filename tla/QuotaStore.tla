----------------------------- MODULE QuotaStore -----------------------------
(***************************************************************************)
(* Where the balance of one user lives: the row of the users table, the    *)
(* deltas the batch updater has not written yet (model/utils.go), and the  *)
(* hash "user:<id>" in Redis that requests read instead of the row         *)
(* (model/user_cache.go, common/redis.go). IncreaseUserQuota and           *)
(* DecreaseUserQuota of model/user.go change all three, the cache in a     *)
(* goroutine of its own. The process runs with BATCH_UPDATE_ENABLED; calls *)
(* with db = true write the row at once.                                   *)
(***************************************************************************)
EXTENDS Integers

CONSTANTS
    Callers,        \* goroutines that call the model package
    Jobs,           \* goroutines it has started with gopool.Go
    Deltas,         \* amounts passed to Increase- (> 0) or DecreaseUserQuota (< 0)
    Uses,           \* amounts passed to UpdateUserUsedQuotaAndRequestCount
    InitialQuota,
    MaxCalls,       \* bound: calls that change or save the balance
    MaxTroubles     \* bound: failed statements or Redis calls, crashes

ASSUME QuotaAssumption ==
    /\ Deltas \subseteq Int /\ Uses \subseteq Nat
    /\ InitialQuota \in Int
    /\ MaxCalls \in Nat /\ MaxTroubles \in Nat

VARIABLES
    row,        \* quota, used_quota and request_count of the user
    pending,    \* batchUpdateStores of the three kinds, for this user
    taken,      \* the stores batchUpdate has taken and not yet written
    flushing,   \* how far batchUpdate is: the stores it has taken
    caller,     \* what a caller is doing
    job,        \* what a goroutine is doing
    cache,      \* the Redis hash
    shown,      \* used_quota of the last answer of GetSelf
    posted,     \* history: the deltas of the calls that reported success
    intact,     \* history: no failure, crash or overwrite touched a delta
    vanished,   \* history: the hash went away between a TTL check and a write
    calls, troubles

dbVars    == <<row, pending, taken, flushing>>
histVars  == <<posted, intact>>
cacheVars == <<cache, vanished>>
vars == <<dbVars, caller, job, cacheVars, shown, histVars, calls, troubles>>

Kinds == {"quota", "used", "count"}

\* The order in which batchUpdate takes the stores.
Store == <<"quota", "used", "count">>

None == [op |-> "none"]
Absent == [here |-> FALSE, full |-> FALSE, quota |-> 0]
Hash(f, q) == [here |-> TRUE, full |-> f, quota |-> q]
Nothing == [k \in Kinds |-> 0]

Init ==
    /\ row = [k \in Kinds |-> IF k = "quota" THEN InitialQuota ELSE 0]
    /\ pending = Nothing /\ taken = Nothing /\ flushing = 0
    /\ caller = [c \in Callers |-> None]
    /\ job = [j \in Jobs |-> None]
    /\ cache = Absent
    /\ shown = 0
    /\ posted = row
    /\ intact = TRUE /\ vanished = FALSE
    /\ calls = 0 /\ troubles = 0

Call == calls < MaxCalls /\ calls' = calls + 1
Trouble == troubles < MaxTroubles /\ troubles' = troubles + 1

Becomes(c, state) == caller' = [caller EXCEPT ![c] = state]

\* gopool.Go, or the same work at the end of a call; calls are only made while
\* a goroutine is left (bound).
Spawn(work) ==
    /\ \E j \in Jobs : job[j] = None
    /\ job' = [job EXCEPT ![CHOOSE j \in Jobs : job[j] = None] = work]
Finished(j) == job' = [job EXCEPT ![j] = None]

Add(count, k, d) == [count EXCEPT ![k] = @ + d]

-----------------------------------------------------------------------------
(* Changes of the balance *)

\* IncreaseUserQuota and DecreaseUserQuota start the goroutine for the cache
\* before they touch the row or the store.
ChangeQuota(c, d, db) ==
    /\ caller[c] = None /\ Call
    /\ Spawn([op |-> "incr", d |-> d, checked |-> FALSE])
    /\ Becomes(c, [op |-> "change", d |-> d, db |-> db])
    /\ UNCHANGED <<dbVars, cacheVars, shown, histVars, troubles>>

\* addNewRecord, under the lock of its kind.
AddNewRecord(k, d) ==
    /\ pending' = Add(pending, k, d)
    /\ posted' = Add(posted, k, d)
    /\ UNCHANGED <<row, taken, flushing, intact>>

\* UPDATE users SET quota = quota + d
UpdateRow(d) ==
    /\ row' = Add(row, "quota", d)
    /\ posted' = Add(posted, "quota", d)
    /\ UNCHANGED <<pending, taken, flushing, intact>>

WriteQuota(c) ==
    /\ caller[c].op = "change"
    /\ IF caller[c].db THEN UpdateRow(caller[c].d)
                       ELSE AddNewRecord("quota", caller[c].d)
    /\ Becomes(c, None)
    /\ UNCHANGED <<job, cacheVars, shown, calls, troubles>>

\* A statement, or the Redis call that ends User.Update, fails and the caller
\* sees the error; a goroutine started for the cache runs all the same.
WriteFails(c) ==
    /\ \/ caller[c].op = "change" /\ caller[c].db
       \/ caller[c].op \in {"update", "recache"}
    /\ Trouble
    /\ Becomes(c, None)
    /\ UNCHANGED <<dbVars, job, cacheVars, shown, histVars, calls>>

\* UpdateUserUsedQuotaAndRequestCount: two records, under two locks.
AddUsed(c, q) ==
    /\ caller[c] = None /\ Call
    /\ AddNewRecord("used", q)
    /\ Becomes(c, [op |-> "count"])
    /\ UNCHANGED <<job, cacheVars, shown, troubles>>

AddCount(c) ==
    /\ caller[c].op = "count"
    /\ AddNewRecord("count", 1)
    /\ Becomes(c, None)
    /\ UNCHANGED <<job, cacheVars, shown, calls, troubles>>

\* AdjustUserQuotaByAdmin: the row is read and written under its lock; then
\* updateUserQuotaCache stores the new balance in the hash.
AdjustQuota(d) ==
    /\ Call
    /\ UpdateRow(d)
    /\ Spawn([op |-> "field", d |-> row["quota"] + d, checked |-> FALSE])
    /\ UNCHANGED <<caller, cacheVars, shown, troubles>>

-----------------------------------------------------------------------------
(* The batch updater *)

\* batchUpdate runs when some store has data.
FlushStarts ==
    /\ flushing = 0 /\ pending # Nothing
    /\ flushing' = 1
    /\ UNCHANGED <<row, pending, taken, caller, job, cacheVars, shown, histVars,
                   calls, troubles>>

\* A store is taken and replaced by an empty one, under its lock.
TakeStore ==
    LET k == Store[flushing]
    IN  /\ flushing \in 1..3
        /\ taken' = [taken EXCEPT ![k] = pending[k]]
        /\ pending' = [pending EXCEPT ![k] = 0]
        /\ flushing' = flushing + 1
        /\ UNCHANGED <<row, caller, job, cacheVars, shown, histVars, calls, troubles>>

\* Mutant: the stores are emptied after the statement instead of when taken.
ApplyTakenAndClear ==
    /\ flushing = 4
    /\ row' = [k \in Kinds |-> row[k] + taken[k]]
    /\ pending' = Nothing
    /\ taken' = Nothing /\ flushing' = 0
    /\ UNCHANGED <<caller, job, cacheVars, shown, histVars, calls, troubles>>

\* updateUserQuotaUsedQuotaAndRequestCount: one statement for the three kinds.
ApplyTaken ==
    /\ flushing = 4
    /\ row' = [k \in Kinds |-> row[k] + taken[k]]
    /\ taken' = Nothing /\ flushing' = 0
    /\ UNCHANGED <<pending, caller, job, cacheVars, shown, histVars, calls, troubles>>

\* The statement fails: the error is logged and the deltas are gone.
ApplyFails ==
    /\ flushing = 4 /\ Trouble
    /\ taken' = Nothing /\ flushing' = 0
    /\ intact' = (intact /\ taken = Nothing)
    /\ UNCHANGED <<row, pending, caller, job, cacheVars, shown, posted, calls>>

-----------------------------------------------------------------------------
(* The cache *)

\* GetUserCache: the hash is not there, or Redis does not answer; either way
\* the row is read instead.
GetUserCacheMiss ==
    /\ \/ ~cache.here /\ UNCHANGED troubles
       \/ Trouble
    /\ Spawn([op |-> "load", d |-> 0, checked |-> FALSE])
    /\ UNCHANGED <<dbVars, caller, cacheVars, shown, histVars, calls>>

\* GetUserCache has read the row; a goroutine refills the hash with it.
ReadForCache(j) ==
    /\ job[j].op = "load"
    /\ job' = [job EXCEPT ![j] = [op |-> "fill", d |-> row["quota"], checked |-> FALSE]]
    /\ UNCHANGED <<dbVars, caller, cacheVars, shown, histVars, calls, troubles>>

\* GetUserQuota from the row; a goroutine stores the balance in the hash.
GetUserQuota ==
    /\ Call
    /\ Spawn([op |-> "field", d |-> row["quota"], checked |-> FALSE])
    /\ UNCHANGED <<dbVars, caller, cacheVars, shown, histVars, troubles>>

\* RedisHSetObj: the whole hash and its expiry, in one transaction.
FillHash(j) ==
    /\ job[j].op = "fill"
    /\ cache' = Hash(TRUE, job[j].d)
    /\ Finished(j)
    /\ UNCHANGED <<dbVars, caller, vanished, shown, histVars, calls, troubles>>

\* Mutant: the field is written whether the hash is there or not.
HasTTLUnchecked == TRUE

\* The TTL that RedisHIncrBy and RedisHSetField read first is positive.
HasTTL == cache.here

\* RedisHIncrBy and RedisHSetField read the TTL; without one they do nothing.
CheckTTL(j) ==
    /\ job[j].op \in {"incr", "field"} /\ ~job[j].checked
    /\ job' = [job EXCEPT ![j] = IF HasTTL THEN [@ EXCEPT !.checked = TRUE] ELSE None]
    /\ UNCHANGED <<dbVars, caller, cacheVars, shown, histVars, calls, troubles>>

\* HINCRBY or HSET of the field, with the TTL read before. If the hash has
\* expired meanwhile, Redis makes one with this single field.
WriteField(j) ==
    /\ job[j].op \in {"incr", "field"} /\ job[j].checked
    /\ cache' = Hash(cache.here /\ cache.full,
                     IF job[j].op = "incr" THEN cache.quota + job[j].d ELSE job[j].d)
    /\ Finished(j)
    /\ UNCHANGED <<dbVars, caller, vanished, shown, histVars, calls, troubles>>

\* A Redis call of a goroutine fails: logged. Or GetUserCache cannot read the
\* row: its caller sees the error and nothing is refilled.
JobFails(j) ==
    /\ job[j] # None /\ Trouble
    /\ Finished(j)
    /\ UNCHANGED <<dbVars, caller, cacheVars, shown, histVars, calls>>

\* Mutant: writing a single field sets no expiry.
ExpiresWhenFull == cache.full

\* Every write of the hash sets an expiry, so each hash has one.
Expires == cache.here

\* The expiry of the hash, or InvalidateUserCache.
CacheGone ==
    /\ Expires
    /\ cache' = Absent
    /\ vanished' = (vanished \/ \E j \in Jobs :
                        job[j].op \in {"incr", "field"} /\ job[j].checked)
    /\ UNCHANGED <<dbVars, caller, job, shown, histVars, calls, troubles>>

-----------------------------------------------------------------------------
(* Reading and saving the whole row *)

\* Mutant: the pending deltas are read before the row.
GetSelfPendingFirst(c) ==
    /\ \/ /\ caller[c] = None
          /\ Becomes(c, [op |-> "self", used |-> pending["used"]])
          /\ UNCHANGED shown
       \/ /\ caller[c].op = "self"
          /\ shown' = caller[c].used + row["used"]
          /\ Becomes(c, None)
    /\ UNCHANGED <<dbVars, job, cacheVars, histVars, calls, troubles>>

\* GetSelf reads the row, then the pending deltas, and answers their sum.
GetSelf(c) ==
    /\ \/ /\ caller[c] = None
          /\ Becomes(c, [op |-> "self", used |-> row["used"]])
          /\ UNCHANGED shown
       \/ /\ caller[c].op = "self"
          /\ shown' = caller[c].used + pending["used"]
          /\ Becomes(c, None)
    /\ UNCHANGED <<dbVars, job, cacheVars, histVars, calls, troubles>>

\* A handler loads the user to change some other column of it, or, in
\* UpdateSelf, makes an object of a few columns with no counters.
LoadUser(c) ==
    /\ caller[c] = None /\ Call
    /\ \E f \in {row, Nothing} : Becomes(c, [op |-> "save", row |-> f])
    /\ UNCHANGED <<dbVars, job, cacheVars, shown, histVars, troubles>>

\* User.Update copies the object and reads the row into it. The error of that
\* read is not looked at: the object then keeps what it had.
FirstUser(c) ==
    LET old == caller[c].row
    IN  /\ caller[c].op = "save"
        /\ \/ /\ Becomes(c, [op |-> "update", row |-> old, quota |-> row["quota"]])
              /\ UNCHANGED troubles
           \/ /\ Becomes(c, [op |-> "update", row |-> old, quota |-> old["quota"]])
              /\ Trouble
        /\ UNCHANGED <<dbVars, job, cacheVars, shown, histVars, calls>>

\* Updates writes every column of the copy that is not zero, the balance too,
\* into the row and into the object: a change since LoadUser is overwritten.
SaveUser(c) ==
    LET old == caller[c].row
        new == [k \in Kinds |-> IF old[k] = 0 THEN row[k] ELSE old[k]]
    IN  /\ caller[c].op = "update"
        /\ row' = new
        /\ intact' = (intact /\ new = row)
        /\ Becomes(c, [op |-> "recache",
                       quota |-> IF old["quota"] = 0 THEN caller[c].quota ELSE old["quota"]])
        /\ UNCHANGED <<pending, taken, flushing, job, cacheVars, shown, posted,
                       calls, troubles>>

\* User.Edit and ClearBinding write their own columns only and read the row
\* back.
EditUser(c) ==
    /\ caller[c] = None /\ Call
    /\ Becomes(c, [op |-> "recache", quota |-> row["quota"]])
    /\ UNCHANGED <<dbVars, job, cacheVars, shown, histVars, troubles>>

\* updateUserCache, at the end of User.Update, Edit and ClearBinding, stores
\* the object.
Recache(c) ==
    /\ caller[c].op = "recache"
    /\ cache' = Hash(TRUE, caller[c].quota)
    /\ Becomes(c, None)
    /\ UNCHANGED <<dbVars, job, vanished, shown, histVars, calls, troubles>>

\* The process dies: pending and taken deltas were only in its memory.
Crash ==
    /\ Trouble
    /\ pending' = Nothing /\ taken' = Nothing /\ flushing' = 0
    /\ caller' = [c \in Callers |-> None]
    /\ job' = [j \in Jobs |-> None]
    /\ intact' = (intact /\ pending = Nothing /\ taken = Nothing)
    /\ UNCHANGED <<row, cacheVars, shown, posted, calls>>

CallerStep(c) ==
    \/ WriteQuota(c) \/ WriteFails(c) \/ AddCount(c)
    \/ FirstUser(c) \/ SaveUser(c) \/ Recache(c)

JobStep(j) ==
    ReadForCache(j) \/ FillHash(j) \/ CheckTTL(j) \/ WriteField(j) \/ JobFails(j)

Flush == FlushStarts \/ TakeStore \/ ApplyTaken \/ ApplyFails

Next ==
    \/ \E c \in Callers :
         \/ \E d \in Deltas, db \in BOOLEAN : ChangeQuota(c, d, db)
         \/ \E q \in Uses : AddUsed(c, q)
         \/ LoadUser(c) \/ EditUser(c) \/ GetSelf(c) \/ CallerStep(c)
    \/ \E d \in Deltas : AdjustQuota(d)
    \/ \E j \in Jobs : JobStep(j)
    \/ Flush \/ GetUserCacheMiss \/ GetUserQuota \/ CacheGone \/ Crash

Spec == Init /\ [][Next]_vars

\* Goroutines run to their end, the batch updater wakes up again and again,
\* and a hash expires.
FairSpec ==
    /\ Spec
    /\ \A c \in Callers : WF_vars(CallerStep(c))
    /\ \A j \in Jobs : WF_vars(JobStep(j))
    /\ WF_vars(Flush)
    /\ WF_vars(CacheGone)

-----------------------------------------------------------------------------
(* Properties *)

Counts == {f \in [Kinds -> Int] : f["used"] \in Nat /\ f["count"] \in Nat}

CallerStates ==
    {None, [op |-> "count"]}
    \cup [op : {"change"}, d : Deltas, db : BOOLEAN]
    \cup [op : {"self"}, used : Nat]
    \cup [op : {"save"}, row : Counts]
    \cup [op : {"update"}, row : Counts, quota : Int]
    \cup [op : {"recache"}, quota : Int]

JobStates ==
    {None} \cup [op : {"incr", "field", "load", "fill"}, d : Int, checked : BOOLEAN]

\* Every variable stays in its range; used_quota and request_count never
\* become negative.
TypeOK ==
    /\ row \in Counts /\ pending \in Counts /\ taken \in Counts /\ posted \in Counts
    /\ flushing \in 0..4
    /\ caller \in [Callers -> CallerStates]
    /\ job \in [Jobs -> JobStates]
    /\ cache \in [here : BOOLEAN, full : BOOLEAN, quota : Int]
    /\ shown \in Nat
    /\ intact \in BOOLEAN /\ vanished \in BOOLEAN
    /\ calls \in Nat /\ troubles \in Nat

\* Every delta that a call reported as done is in exactly one of the row, the
\* store and the stores in flight, while callers, the batch updater and
\* direct updates interleave. Only a crash, a failed batch statement or a
\* saved user object that overwrites a change ends this.
Conserved == intact => \A k \in Kinds : row[k] + pending[k] + taken[k] = posted[k]

\* GetSelf never counts a delta twice: what it shows as used is at most what
\* has been used.
NothingShownTwice == intact => shown <= posted["used"]

\* RedisHIncrBy and RedisHSetField bring no hash into being: a hash without the
\* user's other fields (a user without group, with status 0) exists only after
\* the hash expired between the TTL check and the write.
PartialOnlyAfterExpiry == cache.here /\ ~cache.full => vanished

\* Once the changes stop, all deltas reach the row and a cached balance is the
\* row's: no refill that read the row before a change, no increment counted
\* twice and no hash with a single field outlives its expiry.
Converges ==
    <>[](/\ pending = Nothing /\ taken = Nothing
         /\ cache.here => cache.full /\ cache.quota = row["quota"])

-----------------------------------------------------------------------------
(* The inductive invariant *)

\* A store that batchUpdate has still to take holds nothing in flight.
FlushInv ==
    /\ flushing <= 1 => taken["quota"] = 0
    /\ flushing <= 2 => taken["used"] = 0
    /\ flushing <= 3 => taken["count"] = 0

\* What GetSelf has read of the row is not more than the row has now.
SelfInv ==
    intact => \A c \in Callers :
                caller[c].op = "self" => caller[c].used <= row["used"]

\* A goroutine past its TTL check finds the hash, unless it vanished.
CheckedInv ==
    \A j \in Jobs :
        job[j].op \in {"incr", "field"} /\ job[j].checked /\ ~cache.here => vanished

QuotaInv ==
    /\ TypeOK /\ FlushInv /\ Conserved
    /\ SelfInv /\ NothingShownTwice
    /\ CheckedInv /\ PartialOnlyAfterExpiry
=============================================================================
