---------------------------- MODULE TaskBilling ----------------------------
(***************************************************************************)
(* Asynchronous tasks (video, music, images) after their submission:       *)
(* service/task_polling.go and service/task_billing.go over the rows of    *)
(* model/task.go.  Every gateway process that is a master runs the polling *)
(* loop: it sweeps tasks that timed out, then asks the upstream about the  *)
(* others, and refunds or recalculates what finished.  Users who fetch a   *)
(* task write its row too.  A step is one database statement.              *)
(***************************************************************************)
EXTENDS Integers, FiniteSets

CONSTANTS
  Tasks,
  Pollers,       \* the processes that run TaskPollingLoop (IsMasterNode)
  Suno,          \* tasks of the Suno platform, the others are polled as video tasks
  Realtime,      \* tasks on channels that tryRealtimeFetch asks directly
  PerCall,       \* tasks billed per call: no recalculation
  Limited,       \* tasks paid by a subscription, which may refuse to be charged more
  Estimates,     \* quota pre-consumed for a task
  Prices,        \* quota the adaptor computes, on submission and on completion
  MaxFaults,     \* bound: database errors in a behaviour
  MaxCrashes,    \* bound: crashes of polling processes
  MaxBulk,       \* bound: polls that find a task's channel missing
  MaxRepeats,    \* bound: Suno answers that list a task once more
  MaxFetches     \* bound: fetches by users that reach the upstream

ASSUME TaskSets ==
  /\ Tasks # {} /\ Suno \subseteq Tasks /\ Realtime \subseteq Tasks \ Suno
  /\ PerCall \subseteq Tasks /\ Limited \subseteq Tasks
ASSUME TaskAmounts ==
  /\ Estimates \subseteq Nat /\ Prices \subseteq Nat
  /\ MaxFaults \in Nat /\ MaxCrashes \in Nat /\ MaxBulk \in Nat
  /\ MaxRepeats \in Nat /\ MaxFetches \in Nat

VARIABLES
  row,      \* [Tasks -> Row] the tasks table
  expired,  \* tasks whose submit_time is before the sweeper's cutoff
  held,     \* [Tasks -> Int] net amount the task took from the user's funding source
  tok,      \* [Tasks -> Int] net amount it took from the token
  unpaid,   \* [Tasks -> Int] what SettleBilling failed to take from the funding source
  unpaidTok, \* [Tasks -> Int] and from the token: task.Quota counts it all the same
  clean,    \* [Tasks -> BOOLEAN] history: no billing step of the task failed or was cut off
  pc,       \* where a polling process is
  loop,     \* the loop over todo that it is in
  todo,     \* the tasks that loop still has to handle
  mem,      \* its copies of the rows
  cur,      \* the task it is billing
  amount,   \* by how much: positive charges, negative refunds
  fetch,    \* [Tasks -> Row] a user's fetch in flight: the row it read
  faults, crashes, bulks, repeats, fetches

accounts == <<held, tok, unpaid, unpaidTok, clean>>
poller   == <<pc, loop, todo, mem, cur, amount>>
bounds   == <<faults, crashes, bulks, repeats, fetches>>
vars     == <<row, expired, accounts, poller, fetch, bounds>>

\* NOT_START, SUBMITTED and QUEUED are told apart by nothing here.
Active   == {"NOT_START", "IN_PROGRESS"}
Terminal == {"SUCCESS", "FAILURE"}

\* A row: its status ("NONE" before Insert), whether progress is "100%", its quota.
Row      == [status : Active \cup Terminal \cup {"NONE"}, complete : BOOLEAN, quota : Int]

NoRow == [status |-> "NONE", complete |-> FALSE, quota |-> 0]

Moved(task, status, complete) == [status |-> status, complete |-> complete, quota |-> task.quota]

\* Mutant: the recalculated quota is not stored.
RepricedKept(task, quota) == task

\* task.Quota = actualQuota.
Repriced(task, quota) == [status |-> task.status, complete |-> task.complete, quota |-> quota]

PollerPCs == {"idle", "sweep", "poll", "fund", "token", "save"}

TypeOK ==
  /\ row \in [Tasks -> Row] /\ expired \subseteq Tasks
  /\ held \in [Tasks -> Int] /\ tok \in [Tasks -> Int]
  /\ unpaid \in [Tasks -> Int] /\ unpaidTok \in [Tasks -> Int] /\ clean \in [Tasks -> BOOLEAN]
  /\ pc \in [Pollers -> PollerPCs] /\ loop \in [Pollers -> {"sweep", "poll"}]
  /\ todo \in [Pollers -> SUBSET Tasks] /\ mem \in [Pollers -> [Tasks -> Row]]
  /\ cur \in [Pollers -> Tasks] /\ amount \in [Pollers -> Int]
  /\ fetch \in [Tasks -> Row]
  /\ faults \in Nat /\ crashes \in Nat /\ bulks \in Nat /\ repeats \in Nat /\ fetches \in Nat

AnyTask == CHOOSE t \in Tasks : TRUE

Init ==
  /\ row = [t \in Tasks |-> NoRow] /\ expired = {}
  /\ held = [t \in Tasks |-> 0] /\ tok = [t \in Tasks |-> 0]
  /\ unpaid = [t \in Tasks |-> 0] /\ unpaidTok = [t \in Tasks |-> 0]
  /\ clean = [t \in Tasks |-> TRUE]
  /\ pc = [p \in Pollers |-> "idle"] /\ loop = [p \in Pollers |-> "sweep"]
  /\ todo = [p \in Pollers |-> {}] /\ mem = [p \in Pollers |-> [t \in Tasks |-> NoRow]]
  /\ cur = [p \in Pollers |-> AnyTask] /\ amount = [p \in Pollers |-> 0]
  /\ fetch = [t \in Tasks |-> NoRow]
  /\ faults = 0 /\ crashes = 0 /\ bulks = 0 /\ repeats = 0 /\ fetches = 0

\* A database statement returns an error and has no effect.
Fault == faults < MaxFaults /\ faults' = faults + 1

Logged(t) == clean' = [clean EXCEPT ![t] = FALSE]

-----------------------------------------------------------------------------
(***************************************************************************)
(* Submission                                                              *)
(***************************************************************************)

\* RelayTask after a successful RelayTaskSubmit: SettleBilling moves what the session
\* pre-consumed to the final quota, first in the funding source and then in the token,
\* and the task is inserted with that quota.  SettleBilling may fail before the funding
\* source (or be refused by a subscription) or between the two, and Insert may fail:
\* every error is only logged.
Submit(t) ==
  /\ row[t].status = "NONE" /\ clean[t] /\ held[t] = 0 /\ tok[t] = 0
  /\ \E estimate \in Estimates, quota \in Prices, stored \in BOOLEAN :
     \E paid, paidTok \in {estimate, quota} :
       LET refused == t \in Limited /\ quota > estimate /\ paid = estimate
       IN
       /\ paid = estimate => paidTok = estimate
       /\ held' = [held EXCEPT ![t] = paid] /\ tok' = [tok EXCEPT ![t] = paidTok]
       /\ unpaid' = [unpaid EXCEPT ![t] = quota - paid]
       /\ unpaidTok' = [unpaidTok EXCEPT ![t] = quota - paidTok]
       /\ row' = IF stored
                 THEN [row EXCEPT ![t] = [status |-> "NOT_START", complete |-> FALSE, quota |-> quota]]
                 ELSE row
       /\ clean' = [clean EXCEPT ![t] = stored]
       /\ faults' = faults + (IF paidTok = quota \/ refused THEN 0 ELSE 1) + (IF stored THEN 0 ELSE 1)
       /\ faults' <= MaxFaults
  /\ UNCHANGED <<expired, poller, fetch, crashes, bulks, repeats, fetches>>

\* Time passes the sweeper's cutoff for t.
Expire(t) ==
  /\ row[t].status # "NONE" /\ t \notin expired
  /\ expired' = expired \cup {t}
  /\ UNCHANGED <<row, accounts, poller, fetch, bounds>>

-----------------------------------------------------------------------------
(***************************************************************************)
(* The polling loop                                                        *)
(***************************************************************************)

\* Mutant: progress is not looked at.
UnfinishedByStatus(t) == row[t].status \in Active

\* The rows GetAllUnFinishSyncTasks and GetTimedOutUnfinishedTasks return.
Unfinished(t) == row[t].status \in Active /\ ~ row[t].complete

Goto(p, l) == pc' = [pc EXCEPT ![p] = l]

\* sweepTimedOutTasks reads the tasks that timed out ...
StartSweep(p) ==
  /\ pc[p] = "idle"
  /\ Goto(p, "sweep") /\ loop' = [loop EXCEPT ![p] = "sweep"]
  /\ todo' = [todo EXCEPT ![p] = {t \in expired : Unfinished(t)}]
  /\ mem' = [mem EXCEPT ![p] = row]
  /\ UNCHANGED <<row, expired, accounts, cur, amount, fetch, bounds>>

\* ... and TaskPollingLoop, after it, all that are unfinished.
StartPoll(p) ==
  /\ pc[p] = "sweep" /\ todo[p] = {}
  /\ Goto(p, "poll") /\ loop' = [loop EXCEPT ![p] = "poll"]
  /\ todo' = [todo EXCEPT ![p] = {t \in Tasks : Unfinished(t)}]
  /\ mem' = [mem EXCEPT ![p] = row]
  /\ UNCHANGED <<row, expired, accounts, cur, amount, fetch, bounds>>

\* The process's local variables go out of scope.
Forget(p) ==
  /\ mem' = [mem EXCEPT ![p] = [t \in Tasks |-> NoRow]]
  /\ cur' = [cur EXCEPT ![p] = AnyTask] /\ amount' = [amount EXCEPT ![p] = 0]

EndRound(p) ==
  /\ pc[p] = "poll" /\ todo[p] = {}
  /\ Goto(p, "idle") /\ Forget(p)
  /\ UNCHANGED <<row, expired, accounts, loop, todo, fetch, bounds>>

Handled(p, t) == todo' = [todo EXCEPT ![p] = @ \ {t}]

\* Mutant: UPDATE without WHERE status = ?.
AnyStatusMatches(t, fromStatus) == TRUE

\* The row UpdateWithStatus finds: WHERE id = ? AND status = ?.
StatusMatches(t, fromStatus) == row[t].status = fromStatus

\* Mutant: Save falls back to an upsert when the guarded UPDATE matches no row.
UpsertWithStatus(t, task, fromStatus) == row' = [row EXCEPT ![t] = task]

\* UpdateWithStatus (compare-and-set): writes every column of the caller's copy if
\* the status is still the one it started from.
UpdateWithStatus(t, task, fromStatus) ==
  IF StatusMatches(t, fromStatus) THEN row' = [row EXCEPT ![t] = task] ELSE UNCHANGED row

\* The process goes on with billing t by n (RefundTaskQuota or RecalculateTaskQuota).
Bill(p, t, task, n) ==
  /\ cur' = [cur EXCEPT ![p] = t] /\ amount' = [amount EXCEPT ![p] = n]
  /\ mem' = [mem EXCEPT ![p][t] = task]
  /\ Goto(p, "fund")

NoBilling == UNCHANGED <<pc, mem, cur, amount>>

\* settleTaskBillingOnComplete and RecalculateTaskQuota: nothing per call, nothing for
\* an unknown price, otherwise the difference.
Settlement(t, task, actual) ==
  IF t \in PerCall \/ actual = 0 THEN 0 ELSE actual - task.quota

\* Replace the unfinished row of t by the finished task; who wins bills it by n.
Finish(p, t, task, n) ==
  \/ /\ UpdateWithStatus(t, task, mem[p][t].status)
     /\ IF StatusMatches(t, mem[p][t].status) /\ n # 0 THEN Bill(p, t, task, n) ELSE NoBilling
     /\ UNCHANGED faults
  \/ Fault /\ NoBilling /\ UNCHANGED row

\* Mutant: only tasks that never started time out.
SweepNotStarted(p, t) ==
  /\ pc[p] = "sweep" /\ t \in todo[p]
  /\ Handled(p, t)
  /\ IF mem[p][t].status = "NOT_START" THEN Finish(p, t, Moved(mem[p][t], "FAILURE", TRUE), -mem[p][t].quota)
                                       ELSE NoBilling /\ UNCHANGED <<row, faults>>
  /\ UNCHANGED <<expired, accounts, loop, fetch, crashes, bulks, repeats, fetches>>

\* sweepTimedOutTasks, one task.
Sweep(p, t) ==
  /\ pc[p] = "sweep" /\ t \in todo[p]
  /\ Handled(p, t)
  /\ Finish(p, t, Moved(mem[p][t], "FAILURE", TRUE), -mem[p][t].quota)
  /\ UNCHANGED <<expired, accounts, loop, fetch, crashes, bulks, repeats, fetches>>

\* updateVideoSingleTask: no usable answer (error, 429, unknown status), an unfinished
\* task (whose progress the upstream may already call 100%), success (whose progress it
\* may not) or failure.
PollVideo(p, t) ==
  /\ pc[p] = "poll" /\ t \in todo[p] \ Suno
  /\ Handled(p, t)
  /\ \/ NoBilling /\ UNCHANGED <<row, faults>>
     \/ /\ \E status \in Active, complete \in BOOLEAN :
             UpdateWithStatus(t, Moved(mem[p][t], status, complete), mem[p][t].status)
        /\ NoBilling /\ UNCHANGED faults
     \/ \E actual \in Prices \cup {0}, complete \in BOOLEAN :
          Finish(p, t, Moved(mem[p][t], "SUCCESS", complete), Settlement(t, mem[p][t], actual))
     \/ Finish(p, t, Moved(mem[p][t], "FAILURE", TRUE), -mem[p][t].quota)
  /\ UNCHANGED <<expired, accounts, loop, fetch, crashes, bulks, repeats, fetches>>

\* updateSunoTasks, one item of the answer: a failed task, or one with a fail reason, is
\* refunded and then saved; success is saved without settlement.  An item equal to the
\* copy is skipped (taskNeedsUpdate), and nothing says that a task has only one item:
\* another one that differs is handled with the copy the first one left.
PollSuno(p, t) ==
  /\ pc[p] = "poll" /\ t \in todo[p] \cap Suno
  /\ \/ Handled(p, t) /\ UNCHANGED repeats
     \/ repeats < MaxRepeats /\ repeats' = repeats + 1 /\ UNCHANGED todo
  /\ \/ NoBilling
     \/ \E status \in Active \cup Terminal, failing \in BOOLEAN :
          LET failed == failing \/ status = "FAILURE"
              task   == Moved(mem[p][t], status, mem[p][t].complete \/ failed \/ status = "SUCCESS")
          IN
          \/ failed /\ task.quota # 0 /\ Bill(p, t, task, -task.quota)
          \/ /\ ~ failed \/ task.quota = 0
             /\ mem' = [mem EXCEPT ![p][t] = task] /\ cur' = [cur EXCEPT ![p] = t]
             /\ Goto(p, "save") /\ UNCHANGED amount
  /\ UNCHANGED <<row, expired, accounts, loop, fetch, faults, crashes, bulks, fetches>>

\* CacheGetChannel fails: updateSunoTasks and updateVideoTasks fail the tasks of that
\* channel with TaskBulkUpdateByID, whatever their status has become.
BulkFail(p, t) ==
  /\ pc[p] = "poll" /\ t \in todo[p] /\ bulks < MaxBulk
  /\ Handled(p, t) /\ bulks' = bulks + 1
  /\ \/ row' = [row EXCEPT ![t] = Moved(@, "FAILURE", TRUE)] /\ UNCHANGED faults
     \/ Fault /\ UNCHANGED row
  /\ UNCHANGED <<expired, accounts, pc, loop, mem, cur, amount, fetch, crashes, repeats, fetches>>

-----------------------------------------------------------------------------
(***************************************************************************)
(* Billing a finished task                                                 *)
(***************************************************************************)

\* taskAdjustFunding.  On an error RefundTaskQuota and RecalculateTaskQuota return; the
\* Suno loop still saves the task.
AdjustFunding(p) ==
  /\ pc[p] = "fund"
  /\ \/ /\ held' = [held EXCEPT ![cur[p]] = @ + amount[p]]
        /\ Goto(p, "token") /\ UNCHANGED <<clean, faults>>
     \/ /\ \/ amount[p] > 0 /\ cur[p] \in Limited /\ UNCHANGED faults
           \/ Fault
        /\ Logged(cur[p]) /\ Goto(p, IF cur[p] \in Suno THEN "save" ELSE loop[p])
        /\ UNCHANGED held
  /\ UNCHANGED <<row, expired, tok, unpaid, unpaidTok, loop, todo, mem, cur, amount, fetch, crashes, bulks, repeats, fetches>>

\* taskAdjustTokenQuota; errors are logged.  A recalculated task then gets its new quota.
AdjustToken(p) ==
  LET t    == cur[p]
      task == mem[p][t]
  IN
  /\ pc[p] = "token"
  /\ \/ tok' = [tok EXCEPT ![t] = @ + amount[p]] /\ UNCHANGED <<clean, faults>>
     \/ Fault /\ Logged(t) /\ UNCHANGED tok
  /\ \/ t \in Suno /\ Goto(p, "save") /\ UNCHANGED mem
     \/ /\ t \notin Suno /\ task.status = "SUCCESS"
        /\ mem' = [mem EXCEPT ![p][t] = Repriced(task, task.quota + amount[p])] /\ Goto(p, "save")
     \/ t \notin Suno /\ task.status # "SUCCESS" /\ Goto(p, loop[p]) /\ UNCHANGED mem
  /\ UNCHANGED <<row, expired, held, unpaid, unpaidTok, loop, todo, cur, amount, fetch, crashes, bulks, repeats, fetches>>

\* Task.Update: saves the whole copy unconditionally; errors are logged.  The copy of a
\* Suno task has the submit_time of the upstream's answer, which may lie after the
\* sweeper's cutoff again.
SaveTask(p) ==
  /\ pc[p] = "save" /\ Goto(p, loop[p])
  /\ \/ /\ row' = [row EXCEPT ![cur[p]] = mem[p][cur[p]]]
        /\ \/ UNCHANGED expired
           \/ cur[p] \in Suno /\ expired' = expired \ {cur[p]}
        /\ UNCHANGED <<clean, faults>>
     \/ Fault /\ Logged(cur[p]) /\ UNCHANGED <<row, expired>>
  /\ UNCHANGED <<held, tok, unpaid, unpaidTok, loop, todo, mem, cur, amount, fetch, crashes, bulks, repeats, fetches>>

\* The process dies and is started again: what it held in memory is gone.
Crash(p) ==
  /\ pc[p] # "idle" /\ crashes < MaxCrashes /\ crashes' = crashes + 1
  /\ IF pc[p] \in {"fund", "token", "save"} THEN Logged(cur[p]) ELSE UNCHANGED clean
  /\ Goto(p, "idle") /\ todo' = [todo EXCEPT ![p] = {}]
  /\ Forget(p)
  /\ UNCHANGED <<row, expired, held, tok, unpaid, unpaidTok, loop, fetch, faults, bulks, repeats, fetches>>

-----------------------------------------------------------------------------
(***************************************************************************)
(* Users fetch their tasks                                                 *)
(***************************************************************************)

\* videoFetchByIDRespBodyBuilder reads the row ...
FetchRead(t) ==
  /\ t \in Realtime /\ row[t].status # "NONE" /\ fetch[t] = NoRow
  /\ fetches < MaxFetches /\ fetches' = fetches + 1
  /\ fetch' = [fetch EXCEPT ![t] = row[t]]
  /\ UNCHANGED <<row, expired, accounts, poller, faults, crashes, bulks, repeats>>

\* ... and tryRealtimeFetch writes what the upstream answers, without billing and
\* whatever the task's status was.  An answer without progress leaves it as it was.
FetchWrite(t) ==
  /\ fetch[t] # NoRow /\ fetch' = [fetch EXCEPT ![t] = NoRow]
  /\ \/ UNCHANGED row
     \/ \E status \in Active \cup Terminal :
          \E complete \in {fetch[t].complete, status \in Terminal} :
            UpdateWithStatus(t, Moved(fetch[t], status, complete), fetch[t].status)
  /\ UNCHANGED <<expired, accounts, poller, bounds>>

-----------------------------------------------------------------------------
\* What a process does by itself and with the database, and where it waits for the
\* answer of an upstream.
LocalStep(p) ==
  \/ StartSweep(p) \/ StartPoll(p) \/ EndRound(p)
  \/ \E t \in Tasks : Sweep(p, t)
  \/ AdjustFunding(p) \/ AdjustToken(p) \/ SaveTask(p)

PollerStep(p) ==
  \/ LocalStep(p)
  \/ \E t \in Tasks : PollVideo(p, t) \/ PollSuno(p, t) \/ BulkFail(p, t)

Next ==
  \/ \E p \in Pollers : PollerStep(p) \/ Crash(p)
  \/ \E t \in Tasks : Submit(t) \/ Expire(t) \/ FetchRead(t) \/ FetchWrite(t)

Spec == Init /\ [][Next]_vars

\* Polling processes are scheduled, the database answers, and time passes.  FetchTask
\* need not return: the HTTP client has no time-out unless RELAY_TIMEOUT sets one.  The
\* submit_time a Suno upstream reports may stay after the cutoff for ever.
FairSpec ==
  Spec /\ (\A p \in Pollers : WF_vars(LocalStep(p))) /\ (\A t \in Tasks \ Suno : WF_vars(Expire(t)))

-----------------------------------------------------------------------------
(***************************************************************************)
(* Properties                                                              *)
(***************************************************************************)

Billing(p, t) == cur[p] = t /\ pc[p] \in {"fund", "token", "save"}

\* Tasks whose row is moved only by the compare-and-set of the polling loop.
Guarded == Tasks \ (Suno \cup Realtime)

\* What a task was charged as its row counts it.
Charged(t)    == held[t] + unpaid[t]
ChargedTok(t) == tok[t] + unpaidTok[t]

\* However many processes sweep and poll, crash and restart, a task that went through
\* the compare-and-set is never refunded more than the quota of its row: not twice, not
\* after a recalculation, not from one store only ("no double refund").  If SettleBilling
\* failed, wholly or after the funding source, the user gains at most what it had failed
\* to take.
NoDoubleRefund == \A t \in Guarded : Charged(t) >= 0 /\ ChargedTok(t) >= 0

\* A finished task stays finished: a copy read before it finished never brings it back.
TerminalStays ==
  [][\A t \in Guarded : row[t].status \in Terminal => row'[t].status \in Terminal]_vars

\* A task nobody is billing, none of whose billing steps failed or was cut off, costs
\* its quota from both stores, or nothing if it failed: RefundTaskQuota returns the
\* pre-consumed quota when a task fails, RecalculateTaskQuota settles the difference.
\* What SettleBilling failed to take is missing from it to the end, neither more nor less.
BilledAsShown(t) ==
  clean[t] /\ row[t].status # "NONE" /\ (\A p \in Pollers : ~ Billing(p, t)) =>
    LET price == IF row[t].status = "FAILURE" THEN 0 ELSE row[t].quota
    IN  Charged(t) = price /\ ChargedTok(t) = price

TasksBilledAsShown == \A t \in Guarded : BilledAsShown(t)

\* RefundTaskQuota gives back what was pre-consumed, never more.
RefundWithinCharge == \A t \in Tasks : held[t] >= 0

\* No step failed, no process crashed, no answer listed a task twice, and there is at
\* most one polling process.
Calm == faults = 0 /\ crashes = 0 /\ repeats = 0 /\ \A p, q \in Pollers : p = q

\* updateSunoTasks refunds first and then saves the whole task (task.Update), without
\* the compare-and-set. With a single polling process, no failed step, no crash and no
\* task twice in an answer it still refunds no task twice, although its copy of the row
\* may be older than the sweep.
SunoRefundedOnce ==
  Calm => \A t \in Suno : Charged(t) >= 0 /\ ChargedTok(t) >= 0

\* A stored task leaves the set that is polled whatever the upstreams report: the
\* sweeper fails it at the latest, and a refund that was started ends.  Two things can
\* keep it there: every polling process hangs in an upstream call, which stops its sweeper
\* too, or a Suno upstream keeps the submit_time of its task after the cutoff.
TasksEnd ==
  \A t \in Tasks :
    /\ \E p \in Pollers : []<>(pc[p] = "idle")
    /\ t \in Suno => <>[](t \in expired)
    => (row[t].status # "NONE" ~> ~ Unfinished(t) /\ \A p \in Pollers : ~ Billing(p, t))

-----------------------------------------------------------------------------
(***************************************************************************)
(* The inductive invariant                                                 *)
(***************************************************************************)

\* A copy that is still to be handled is of an unfinished task, and as long as the
\* row is unfinished too, both have the same quota.
CopyInv(p, t) ==
  t \in todo[p] =>
    /\ mem[p][t].status \in Active /\ row[t].status # "NONE"
    /\ row[t].status \in Active => mem[p][t].quota = row[t].quota

\* Only the process that moved a task to its terminal status bills it, and it is the only one.
BillerInv(p, t) ==
  Billing(p, t) =>
    /\ t \notin todo[p] /\ row[t].status \in Terminal /\ mem[p][t].status \in Terminal
    /\ \A q \in Pollers : Billing(q, t) => q = p
    /\ mem[p][t].quota + (IF pc[p] = "save" THEN 0 ELSE amount[p]) >= 0
    /\ pc[p] = "save" => mem[p][t].status = "SUCCESS"
    /\ mem[p][t].status = "FAILURE" => amount[p] = -mem[p][t].quota

\* What a task holds, from its row and from how far its biller has come.
AccountInv(t) ==
  /\ Charged(t) >= 0 /\ ChargedTok(t) >= 0
  /\ row[t].status \in Active => Charged(t) = row[t].quota /\ ChargedTok(t) = row[t].quota
  /\ \A p \in Pollers : Billing(p, t) =>
       /\ pc[p] = "fund" => Charged(t) = mem[p][t].quota /\ ChargedTok(t) = mem[p][t].quota
       /\ pc[p] = "token" =>
            Charged(t) = mem[p][t].quota + amount[p] /\ ChargedTok(t) = mem[p][t].quota

\* While no channel goes missing, row, copy and accounts agree up to the biller's progress.
ExactInv(t) ==
  MaxBulk = 0 /\ clean[t] =>
    /\ BilledAsShown(t)
    /\ \A p \in Pollers : Billing(p, t) =>
         /\ row[t].status = mem[p][t].status
         /\ pc[p] = "save" => Charged(t) = mem[p][t].quota /\ ChargedTok(t) = mem[p][t].quota

\* Only tasks on channels that tryRealtimeFetch asks have a fetch in flight.
FetchInv == \A t \in Tasks \ Realtime : fetch[t] = NoRow

TaskInv ==
  /\ FetchInv
  /\ \A t \in Guarded :
       /\ \A p \in Pollers : CopyInv(p, t) /\ BillerInv(p, t)
       /\ AccountInv(t) /\ ExactInv(t)

\* What a calm process knows of a Suno task: a copy still to be handled is the row, an
\* unfinished one; a refund gives back what is held, and the row it saves is then complete.
SunoCopy(p, t) == t \in todo[p] => Unfinished(t) /\ mem[p][t] = row[t]

SunoBiller(p, t) ==
  Billing(p, t) =>
    /\ t \notin todo[p] /\ row[t].status # "NONE" /\ mem[p][t].quota = row[t].quota
    /\ pc[p] # "save" => mem[p][t].complete /\ amount[p] = -row[t].quota /\ ChargedTok(t) = row[t].quota
    /\ pc[p] = "fund" => Charged(t) = row[t].quota
    /\ pc[p] = "save" =>
         mem[p][t].complete \/ (Charged(t) = row[t].quota /\ ChargedTok(t) = row[t].quota)

\* Every unfinished Suno task that nobody bills holds its quota.
SunoInv(t) ==
  Calm =>
    /\ row[t].quota >= 0 /\ Charged(t) >= 0 /\ ChargedTok(t) >= 0
    /\ \A p \in Pollers : SunoCopy(p, t) /\ SunoBiller(p, t)
    /\ Unfinished(t) /\ (\A p \in Pollers : ~ Billing(p, t)) =>
         Charged(t) = row[t].quota /\ ChargedTok(t) = row[t].quota

=============================================================================
