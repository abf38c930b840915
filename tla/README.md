# Verification of the SynthApi gateway: accounting, admission and clients

SynthApi is a Go gateway in front of many model providers. A client calls it with
a token; the gateway estimates a price, takes that amount from the user's wallet or
subscription and from the token, tries one or more provider channels, and corrects
the amount when the provider reports the real consumption, or returns it when the
request failed. Money is the state that matters, it lives in database rows that
many goroutines (and several gateway processes) update, and every step of the way
can fail. That is the core of what this project models: TLA+ modules, TLC runs on
small instances, and TLAPS proofs for instances of any size. Around it stand the
limits a request passes before it reaches a provider, the stores and caches between
the callers and the rows, and the two clients that have a protocol of their own: the
chat playground of the web front end and the desktop shell.

All paths below are relative to the repository root (`src/`).

## 1. Inventory

| Component | State | Operations | Interacts through |
|---|---|---|---|
| billing session (`service/billing_session.go`, `funding_source.go`, `billing.go`) | `BillingSession`: preConsumedQuota, tokenConsumed, extraReserved, fundingSettled, settled, refunded; the funding source's consumed amount | NewBillingSession, preConsume, Reserve, Settle, Refund + goroutine | called by the relay loop; writes the quota rows |
| subscription ledger (`model/subscription.go`) | `user_subscriptions.amount_used / next_reset_time / status`, `subscription_pre_consume_records` | PreConsumeUserSubscription, RefundSubscriptionPreConsume, PostConsumeUserSubscriptionDelta, ResetDueSubscriptions, ExpireDueSubscriptions, purchase, cancel | called by billing session, task billing, background task |
| quota rows (`model/user.go`, `model/token.go`, `service/quota.go`) | `users.quota`, `tokens.remain_quota` | Increase/Decrease, PreConsumeTokenQuota, PostConsumeQuota | everything that charges or credits |
| relay loop (`controller/relay.go`) | per-request context, attempt budget | channel attempts, Reserve on group change, Settle via the handlers, deferred Refund and fee | calls billing, channel selection, slots |
| task billing (`service/task_billing.go`, `task_polling.go`, `model/task.go`) | `tasks.status / quota / finish_time` | submit, poll, timeout sweep, refund, recalculate | poller and sweeper race on the task row |
| order lock (`LockOrder`, `UnlockOrder` of `controller/topup.go`) | a map from trade number to a reference-counted mutex, in process memory | lock, unlock | the payment handlers |
| top-up orders (`model/topup.go`, `controller/topup*.go`, `service/xpay.go`, `mpay.go`, `alipay_direct.go`, `payment_listener.go`) | `top_ups.status / payment_provider / provider_trade_no` | create order, callback, poll, listener match, expire, manual completion | callbacks arrive repeatedly and concurrently; credits users.quota |
| redemption, check-in, rewards | code status, one row per day / per reward | redeem, check in, claim | credit users.quota |
| quota batching and caches (`model/utils.go`, `user_cache.go`, `common/redis.go`) | in-memory delta maps per kind; a Redis hash per user | addNewRecord, batchUpdate, refill, increment, set field, invalidate, User.Update, GetSelf | between callers and quota rows; goroutines maintain the hash |
| channel selection, affinity, auto route (`service/channel_select.go`, `auto_route_*.go`, `model/channel_cache.go`) | channel cache, cool-down marks | pick by priority and weight, exclude, mark failed, recover | relay loop |
| channel concurrency slots (`service/channel_active_users.go`) | active requests per channel and per user of a channel, in process memory | TryBegin (within both limits), end | every path of the relay loop |
| request isolation (`middleware/model-request-isolation.go`) | a reference-counted map of buffered channels per prompt-cache key; user, token and large-body counters in Redis, and local ones for when Redis does not answer | acquire, wait, release; the two Lua scripts and the fallback | before the relay loop |
| rate limiting (`middleware/rate-limit.go`, `model-rate-limit.go`) | requests per time window | admit, reject | before the relay loop |
| stream scanner (`relay/helper/stream_scanner.go`) | reader, ping and writer goroutines | scan, ping, stop | inside an upstream attempt |
| web playground (`web/default/src/features/playground`) | the conversation in React state and in localStorage; the SSE source, the abort controller and flags in refs | submit, suggestion, regenerate, edit, delete, clear, stop, reload; the callbacks of streams, plain completions and image tasks | callbacks of requests in flight write to the conversation the user edits |
| desktop shell (`electron/main.js`) | the server's process, windows, tray, dialogs, `app.isQuitting`, the quit timer | start, wait for the port, report a crash, close to tray, quit | events of Electron, of the child process and of the user |
| price computation, provider adaptors, authentication, administration, the other pages of the front ends | — | — | not modelled, see section 8 |

What is hard about it:

* **Partial failure.** A session touches two or three stores in separate statements
  (token, then wallet or subscription; on Settle the other way round). Each may fail
  after the others succeeded, and most errors after that point are only logged.
* **Asynchrony.** Refund runs in a goroutine of its own beside the rest of the
  request (which may charge a violation fee) and beside other requests.
* **Stale reads.** Balances are read and compared in one statement and decreased in
  another.
* **Retries.** The subscription refund is repeated up to three times although an
  attempt may have committed without the answer arriving.
* **Resets.** A subscription's quota period can end between any two of these steps.
* **Rounding.** Subscription discounts are rounded per call with a minimum of one
  unit, so amounts that are added in pieces differ from amounts returned as a sum.
* **Locks that are not there.** Rows are "locked" with
  `Set("gorm:query_option", "FOR UPDATE")`, which the GORM version in `go.mod`
  ignores.
* **Deltas and caches in flight.** With batch updates a delta lives in memory for a
  while, `batchUpdate` takes the three stores one after the other, and goroutines write
  the Redis hash in any order, each after a TTL check that may be stale by then.
* **Calls without a time-out.** `RELAY_TIMEOUT` is 0, unlimited, by default
  (`common/init.go:104`), so a provider that hangs keeps its request, its slots and, in the
  polling loop, the loop.
* **Counts that must come back.** A relay request holds up to three kinds of counts, in
  process memory and in Redis, and returns them from a dozen exits, after time-outs of
  Redis and after its client has gone.
* **Values of the last render.** The handlers of the playground decide with
  `isGenerating` as it was rendered last and write back the conversation they closed
  over, while callbacks update the current one. The composer goes further: it waits for the
  files of a message and then calls the handler of the render the form was submitted in.
* **Two processes with one life.** The desktop shell must not leave its server behind,
  nor stay behind without window, tray and dialog.

The properties that make it correct: a request costs exactly what it should, from
both stores, once (billing session); a subscription is used beyond its total, or loses
a unit, only where a save overwrites what its transaction had not read (ledger); a task is refunded at most once, and only if it failed
(task billing); an order is credited at most once, and only if it was paid
(payments); no delta is lost or applied twice and caches converge (batching); a slot
or count is returned exactly once (admission); an answer stays with its question and
Stop is final (playground); the application and its server end together (desktop);
every request, refund and waiter ends, unless an upstream keeps it (all).

## 2. Plan

In order of importance; each step adds its module, MC module, runs, mutants and
then proofs.

1. `BillingSession`, `BillingContract`, with the transactions of the subscription ledger split
   into read and save: **done**, with proofs.
2. `TaskBilling`: **done**, with proofs.
3. `OrderLock`, `TopUp`: **done**, with proofs. Redemption codes (`model/redemption.go`) ask for
   the same row lock and are to be added the same way.
4. `QuotaStore`: **done**, with proofs.
5. `Admission`: **done**, with proofs.
6. `Playground`, `DesktopShell`: **done**, with proofs.
7. `ChannelSelect`: priorities, retries, auto groups, cool-down and recovery.
8. `StreamScanner`: reader, ping and write goroutines and their shutdown.

Every safety property of a passing run is now a theorem, and so are the use of `OrderLock`
by the payment handlers and the refinement of `BillingContract` (section 7). The steps that are left bring their own
invariants; worth proving first is that a stopped stream scanner leaves no goroutine behind.

## 3. Modules and the code

| Module | What it is |
|---|---|
| `BillingSession` | the billing life cycle of relay requests, with the rows it touches and the mapping to `BillingContract` |
| `BillingContract` | what a billing session promises, without its mechanism |
| `MCBillingSession` | instances for TLC |
| `BillingSessionProofs` | theorems about `BillingSession`, the refinement included |
| `TaskBilling` | asynchronous tasks: submission, polling, sweep, refund, recalculation, fetches |
| `MCTaskBilling` | instances for TLC |
| `TaskBillingProofs` | theorems about `TaskBilling` |
| `OrderLock` | the per-order mutex of the payment handlers |
| `OrderLockProofs` | theorems about `OrderLock` |
| `TopUp` | wallet top-up orders of all providers, composed with `OrderLock` |
| `MCTopUp` | the instance for TLC |
| `TopUpProofs` | theorems about `TopUp` |
| `QuotaStore` | the balance of a user in the row, in the batch stores and in Redis |
| `MCQuotaStore` | the instance for TLC |
| `QuotaStoreProofs` | theorems about `QuotaStore` |
| `Admission` | key limiter, request counters and channel slots of relay requests |
| `MCAdmission` | the instance for TLC |
| `AdmissionProofs` | theorems about `Admission` |
| `Playground` | the chat page of the web front end |
| `MCPlayground` | the instance for TLC |
| `PlaygroundProofs` | theorems about `Playground` |
| `DesktopShell` | the Electron main process |
| `MCDesktopShell` | the instance for TLC |
| `DesktopShellProofs` | theorems about `DesktopShell` |

Definitions called "Mutant" in a comment are the wrong variants that the runs are
tested with; no specification uses them.

**BillingSession.** One user with one token; every element of `Requests` is a
goroutine of `controller/relay.go` and, once `Refund` was called, a second one (`bg`).
The rows are `quota` (users.quota), `remain` (tokens.remain_quota), `amountUsed`,
`subActive`, `lastReset` (user_subscriptions; a row is due for a reset while `lastReset` is
behind the clock `periods`) and `record` (subscription_pre_consume_records). `sess` holds the
fields of `BillingSession` and of its funding source under their names. An action is one
database statement together with the assignments that follow it: `CheckToken` and
`TakeToken` are the two halves of `PreConsumeTokenQuota`; `Reserve`,
`ReserveCheckToken`, `ReserveTakeToken`, `ReserveUndo` are `Reserve` with
`reserveFunding`, `reserveToken` and `rollbackFundingReserve`; `SettleFunding` and
`SettleToken` are `Settle`; `RefundWallet`, `RefundSubscription`, `RefundExtra` and
`RefundToken` are the refund goroutine with `refundWithRetry`.

A transaction on subscription rows is two steps, because nothing locks the rows it reads:
`ReadRows`, `RefundRead` and `ResetRead` put a `Copy` of the rows into `seen`, `bgSeen` or
`resetSeen`, and the action that ends the transaction checks and saves that copy
(`DeltaFits`, `PostConsumeDelta`, `SaveRows`), every column of it. `lost` is the history of a save
over an `amount_used` that its transaction had not read. A request whose first group is
free has no session until `refreshBillingForSelectedGroup` meets a priced one
(`RefreshUnbilled`, `NextGroupUnbilled`), and settles through `PostConsumeQuota` if it never does
(`NoBilling`); a failing request whose client is gone after a stream had begun (`streamed`)
settles instead of refunding.

Prices come from small sets (`Profiles`, `Targets`, `Actuals`) because the price computation is
not modelled. `ApplySubscriptionBillingDiscount` is modelled with its rounding and its
minimum of one unit. `walletNet`, `tokenNet`, `subNet` and `clean` are history
variables: what each request took from each store, and whether one of its errors
ended only in the log.

**BillingContract.** A request holds any non-negative amount from its funding source
and its token while it is open and closes once, at the same price from both.
`BillingSession!Contract` is the refinement mapping.

**TaskBilling.** `row` is the tasks table reduced to status, "progress is 100%" and
quota. Every element of `Pollers` is a process that runs `TaskPollingLoop`:
`StartSweep` and `StartPoll` read the lists of unfinished tasks into its memory
(`todo`, `mem`), `Sweep`, `PollVideo`, `PollSuno` handle one task each, `BulkFail` is
the branch for a channel that cannot be found. `UpdateWithStatus` is the
compare-and-set of `model/task.go`; who wins it goes on to `AdjustFunding`,
`AdjustToken` and, after a recalculation or for Suno, `SaveTask`. `FetchRead` and
`FetchWrite` are `videoFetchByIDRespBodyBuilder` and `tryRealtimeFetch`. `held` and
`tok` are the net amounts the task took from the user's funding source and the
token; `unpaid` and `unpaidTok` are what settling the submission failed to take from either,
which may fail on the token alone and which `task.Quota` counts all the same; `clean` says that
no later billing step failed or was cut off by a crash. A Suno answer may list a task twice
(`repeats`), and its submit time is stored with the task, so that an expired task may stop
being expired.

`BillingSession` and `TaskBilling` charge the same rows; they are kept apart because a task's submission
ends its billing session (`Settle` inside `Submit`) before the polling loop may see
the task.

**OrderLock.** `orderLocks` is the `sync.Map` of one process (one per node), `refCount` and
`mu` the fields of `refCountedMutex`, `rcm` the local variable of a handler. The mutexes
are objects with an identity: an entry that is removed and stored again is another
object, and two handlers that hold different objects do not exclude each other.
`LockOrder` and `DropReference` are the two `createLock` sections, `LockMutex` and
`UnlockMutex` the operations on the mutex between them.

**TopUp.** EXTENDS `OrderLock`: `Deliver` contains `LockOrder`, `Locked` is `LockMutex`,
`Return` contains `UnlockMutex`, and `Unlocked` is `DropReference`. A worker is a goroutine
that runs one payment handler after another: a webhook, a poller, the payment listener,
an administrator's completion or a payment request. Handlers differ in how they are
protected, and that is how the model tells them apart: `Locking` (LockOrder around them),
`ForUpdate` (one transaction that asks for the row lock in vain: `Recharge*`, `ConfirmMPayOrder`,
`ManualCompleteTopUp`), `Split` (Save, then IncreaseUserQuota: `EpayNotify`,
`ConfirmXPayOrder`), `CasOnly` (`UpdatePendingTopUpStatus` without a read), and
`CommitPending`, the conditional UPDATE of `CompleteAlipayDirectTopUp`. No handler gets the row
lock it asks for: GORM v2 does not read `Set("gorm:query_option", "FOR UPDATE")`, so the row
may change between the read and the write of every transaction. `credits` and `stranded` are
history variables: how often the quota of an order was added to the wallet, and the orders
whose credit failed after they had been saved as paid.

**QuotaStore.** One user. `row`, `pending` and `taken` hold the three kinds of deltas
(quota, used_quota, request_count) where the code keeps them: in the users table, in
`batchUpdateStores`, and in the map that `batchUpdate` builds while it takes the stores
one by one (`FlushStarts`, `TakeStore`, `ApplyTaken`). `ChangeQuota` and `WriteQuota` are
`IncreaseUserQuota` and `DecreaseUserQuota`, which start the goroutine for the cache
before they write; `AdjustQuota` is the administrator's adjustment. `LoadUser` is a handler that
loads a user (or, in `UpdateSelf`, fills in a fresh object) and ends in `User.Update`: `FirstUser`
is its `DB.First`, whose error nobody reads, `SaveUser` its `Updates`, `Recache` the write of the
hash; `EditUser` is `User.Edit` or `ClearBinding`, which write other columns and read the
row back. A `job` is a goroutine of the cache: `CheckTTL` and `WriteField` are the two Redis
calls of `RedisHIncrBy` and `RedisHSetField`; `GetUserCacheMiss` (no hash, or a Redis error),
`ReadForCache` and `FillHash` are the refill of the hash, `GetUserQuota` that of its balance. `cache.full` says whether the
hash has the fields besides the balance. This refines what `BillingSession` takes for
one atomic counter: `Conserved` is the sum it stands for. `posted`, `intact` and
`vanished` are history variables.

**Admission.** A request passes the three limiters in the order of the router.
`KeyEnter`, `KeySlot`, `KeyRelease` and `KeyDrop` are `acquire`, the send on and receive
from the entry's channel, and `dropRef`; entries have an identity (the request that
made them), as mutexes have in `OrderLock`. `AdmitRedis`, its failing variants and the
local fallback are `ModelRequestConcurrencyLimit` with its two Lua scripts, run
under the request's context and a time-out; a script may have run although its answer was lost, which is
what `leaked` counts, go-redis may run a script twice (`AcquireRepeats`, `ReleaseRepeats`), and a
lease may run out under a long request (`lapsed`). The local limiter does not count a token
without an id (`RedisOnly`). The route actions are the
paths of the relay loop between `TryBegin` and `endActiveUse`, with the attempt budget
of Auto routes and the exclusion of busy or failed channels; a panic on the way from one to
the other keeps the slot (`panicked`).

**Playground.** Messages carry the request they were created for and the set of requests
whose text they show, so that text in the wrong place is visible; an error or an edit
replaces the content and keeps the reasoning. `messages` is the state with all queued
updates, `rendered` and `shown` are what the handlers of the last render see; user events are
rendered at once, updates of network callbacks later (`Render`). `HandleSubmit` is the form of
the composer: it remembers the conversation of its render (`pressed`), and once the files are
read `Submit` sends that, whatever happened since, or `SubmitDropped` gives up; what it sends
is rendered later (`late`). `saved` is localStorage, whose writes may fail. `astray` is a
history variable: a handler without a guard on `isGenerating` (a suggestion, saving an edit),
or any handler while streaming is switched off (a plain request does not count as
generating), ran while a request was live or the render was behind; a submit was overtaken by
another step, or a handler ran before it was rendered; or a plain answer had no choice. The
properties with `~astray` say that the guards suffice where they are.

**DesktopShell.** The variables of `main.js` and the state Electron keeps for it.
`app.quit` runs before-quit and then asks the windows (`AppQuit`), the close handler
hides a window unless `app.isQuitting`; `ServerExits` and `ServerClosed` separate the
end of the process from Node's close event, so a quit may fall between them. `StartServer` may
fail before there is a `serverProcess` (`mkdirSync` or `spawn` throws) or after it. `Misled` names
the one way to lose the application: a dock window from before the end of startup and no
`serverProcess`; the quit of the start dialog then only hides the window.

## 4. Runs

| Run | Checks | Shows |
|---|---|---|
| billing_shared | BilledExactly, HeldWhileUpstream, WithinTotal | two concurrent requests on one wallet and one limited subscription with a discount: trust bypass, fallback to the wallet, a request that is free at first, Reserve, a client that leaves a stream, a database error, the violation fee, a save over a changed row |
| billing_refund | NeverCredited, NoClampLoss, IndInv | refund goroutines, requests and the reset task reading and saving one subscription row, with an error or a commit reported as one, and the end of a period |
| billing_contract | ImplementsContract, EventuallyOver | refinement of BillingContract with fallback in both directions and a subscription that expires; requests and refunds end unless the upstream never answers |
| task_guard | NoDoubleRefund, TasksBilledAsShown, TaskInv, TerminalStays | one task, two processes, errors, a settlement that fails half-way, and crashes |
| task_life | SunoRefundedOnce, TasksEnd | a Suno task beside a video task on a realtime channel billed per call, an error, a missing channel, a repeated item and a fetch: as long as nothing of this happens to the Suno task it is refunded once, and the sweeper ends every task unless an upstream call hangs or a Suno upstream moves the submit time |
| task_realtime | RefundWithinCharge, violated | a fetch revives a refunded task, which is refunded again |
| topup | TopUpInv, OrderExclusion, CreditedOnce, PaidIffCredited, SuccessStays, TradeKept, HandlersReturn | two handlers at a time on one order of any provider, on one or two nodes, without row locks, with database errors |
| topup_xpay | NoConcurrentCompletion, violated | a manual completion and an XPay confirmation without LockOrder both credit one order |
| quota_store | Conserved, NothingShownTwice, PartialOnlyAfterExpiry, Converges | callers, batch updater, direct updates, whole-row saves, edits and the goroutines of the cache, with an error or a crash: no delta is lost or counted twice, and the cache converges to the row |
| admission | KeyExclusive, AdmissionInv (TypeOK, PlaceInv, KeyInv, EntryInv, LocalExact), RedisAccounts, ChannelExact, RequestsEnd | four requests against all three limiters on two nodes, with a Redis failure, a repeated script, an expired lease, a panic, a crash or a disconnected client: every count comes back once and who still waits waits behind an upstream call |
| playground | PageInv (TypeOK, SingleFlight, GuardedSeesLatest, NeverLockedOut and the parts that make them inductive), OwnAnswer, UnfinishedIsStoppable, StoppedIsSilent, LoadIsStable, StopFrees | two requests of any kind, every handler, a submit that waits for its files, reloads, a failed save and renders that lag behind |
| desktop | NoOrphanServer, AlwaysReachable, ShellInv (TypeOK, MainWindowAlive, OneWindow, ServerKnown, WindowKnown), QuitCompletes | both modes on macOS, three windows, three quits, a start that throws, a server that crashes, ignores SIGTERM or never answers |

The type invariants of `BillingSession`, `TaskBilling` and `QuotaStore` are theorems and
not repeated in a run; neither is `UnlockFindsItsMutex`, which follows from the `LockInv`
in `TopUpInv`.

The violated properties are quoted from comments or tests of the repository;
`PROJECT.json` ("findings") has the quotation and the line of code for each.

`NoDoubleRefund`, `TerminalStays` and `TasksBilledAsShown` speak of `Guarded` tasks,
those whose rows only the compare-and-set moves. For tasks on realtime channels
`task_realtime` shows that they fail. `RelayTask` stores `task.Quota = result.Quota` even if
`SettleBilling` failed, wholly or on the token only, and a refund then returns more than was
taken; the properties count with `Charged`, which adds what the settlement missed, so they say
that the user gains that much and no more. `SunoRefundedOnce` excludes a failed step, a
repeated item and a second process on purpose: `updateSunoTasks` refunds before it saves, so a
save that fails, the item's repetition, or a second process with the same list refunds again.

What the code does elsewhere than its comments say, met while modelling and visible in
the models as scopes of the properties:

* Two Reserves are discounted and rounded one by one by `Reserve`
  but refunded as one sum (`service/billing_session.go:112`), and the settlement rounds the
  difference to the actual price, so with a discount the pieces may add up to more or less
  than the discounted price. `Rounding` says by how much: one unit for each attempt and one
  for the settlement. The properties about a subscription's share hold up to it, and exactly
  without a discount. `NoClampLoss`, which counts single units, is stated without a discount.
* The transactions of `model/subscription.go` ask for row locks that they do not get and
  save whole rows. The row never exceeds the total, but what the requests hold together may,
  and units may be lost from the row, once a save has overwritten an `amount_used` that its
  transaction had not read (`lost`); `WithinTotal` and `NoClampLoss` say that there is no
  other way to either. What a request itself pays (`BilledExactly`,
  `NeverCredited`) does not depend on it.
* The violation fee is charged by the request goroutine (`controller/relay.go:218`)
  while the refund runs in its own, so the fee may be taken before the
  pre-consumption is back, and the balance dips below both.
* A task of a channel that cannot be found is failed in bulk
  (`service/task_polling.go:314`) and keeps its charge, unlike every other failed task;
  hence `MaxBulk = 0` in `task_guard` and in the theorem about it.
* `User.Update` (`model/user.go:646`) writes every non-zero column of a copy, the
  balance included, and then caches it: a change between the load and the save is undone. `intact` becomes
  false then. `TransferAffQuota` saves a whole row in the same way.
* `RedisHIncrBy` and `RedisHSetField` check the TTL and write in two calls; a hash that
  expired in between comes back with the balance as its only field, until it expires
  again (`PartialOnlyAfterExpiry`, `Converges`).
* `sanitizeMessagesOnLoad` "converts stuck loading/streaming messages", but only the
  last of them; `LoadIsStable` holds because, without a race, there is never a second one.
* A message with a pasted or dropped file is sent only after the file was read, by the
  handler of the old render (`components/ai-elements/prompt-input.tsx:729`): a regeneration
  in between is overlapped by a second request and its messages are overwritten. `astray`
  covers this.
* Stopping an image request while a call is pending makes axios reject with a
  CanceledError, which is reported as an error; the text for a stopped image is only
  reached from the sleep between two polls, and there only before the 15 minutes are over. Either way the
  aborted request writes once more into the last message (`StoppedIsSilent`).
* In the desktop shell, a click on the dock before startup is over opens a window of
  its own, and a second one follows; the close handler then hides `mainWindow`
  whichever of the two is closed (`OneWindow` excludes this by `~early`). Where there is no
  `serverProcess`, in development mode or because `mkdirSync` or `spawn` threw, such a window also
  cancels the quit after a failed startup, and the application stays hidden without a tray
  (`Misled`).

The properties of `TopUp` are stated for the orders for which the code has the means to
keep them, and these scopes are a result in themselves:

* `CreditedOnce` for `LockProtected` orders, the orders of one process whose completing
  handlers all take LockOrder (Stripe, Creem, Waffo, Pancake, MPay, EPay). Alipay and XPay
  are not among them; `topup_xpay` shows it for XPay, `TradeKept` says for Alipay how it
  happens. Between nodes no order is protected.
* `PaidIffCredited` demands equality of `Steady` orders, those whose status no handler
  writes from a stale copy and that are paid and credited in one transaction: Creem, Alipay,
  and Stripe in one process. EPay and XPay save the order as paid before they credit it
  (`controller/topup.go:558`). For every provider the property therefore says what can be
  said: a paid order without credit has a handler between the two statements, or lost its
  credit to an error of the second one (`stranded`), which no repeated callback repairs; it
  never comes about in another way. A credited EPay order is always shown as paid.
* `SuccessStays` for `Final` orders, the steady ones and those of EPay. Waffo, Pancake, MPay
  and XPay requests save their own copy of the order as failed when the gateway call
  fails, whatever a callback did to the row in the meantime.
* `TradeKept` with one exception: `ManualCompleteTopUp` may save a copy that it read before an
  Alipay notification stored the trade number, which is then lost and the order credited
  twice. Against other notifications, notices and polls the conditional UPDATE is enough.

## 5. Bounds

Two requests or two processes are enough for every accounting race in question, because
each is between two actors over one row: two sessions over one balance, a request and its own
refund goroutine, a sweeper and a poller, a poller and a fetch, two payment handlers.
Amounts are small but chosen on both sides of every comparison: `InitQuota = 4` in
`billing_shared` with a target and an actual of 4 makes the second request short of balance,
`TrustQuota = 3` is passed by the full balance and missed by one that was charged, subscription
totals of 3, 4 and 6 refuse some Reserves and settlements and accept others, a price of 0
takes the "unknown price" path of a recalculation. `MaxFaults` bounds database errors; with
the 1 of `billing_refund` the second attempt of `refundWithRetry` is reached, and the third one,
after which it gives up, only by the proofs. `MaxAttempts` is the attempt budget of the
relay loop. `MaxPeriods`, `MaxCrashes`, `MaxBulk`, `MaxRepeats` and `MaxFetches` bound events
that need no more than one or two occurrences to interfere. `OneOverwrite` (in `billing_shared` and
`billing_refund`) lets rows change under one open transaction at a time, and under none once
a save has overwritten such a change: after that the properties about rows promise nothing, and those
about requests do not look at rows. `TwoIncidents` bounds the sum of the incidents of
`task_life`. In `topup` two workers on two nodes start any number of handlers
for one order, since orders share nothing but the LockOrder map, whose entries are kept
apart per order (`EntryInv`, proved for any number of orders). Each worker refers to at
most one mutex and an unreachable object may be used again, so two suffice; two trade
numbers make notifications that differ.

`quota_store` has two callers, two goroutines and two calls that change the row, with
deltas of both signs: one caller or goroutine is between its two steps while
the other, the batch updater or the expiry comes in between; a third adds no new pair.
`admission` has three requests of one key with a single slot (a holder, a waiter, and
one that arrives while the entry is dropped) and a fourth without key on either node
with two attempts; the limits of 1 on the user's counter and on that of token 0 are reached,
and so are the total limit of 1 on channel 1 and the limit of 1 per user on channel 2 (the other limit of
each channel is 2 and never refuses). One trouble is a Redis outage, a repeated script, an
expired lease, a panic, a crash or a disconnection. `InOrder` lets r1 arrive before r2, which
differs from it in nothing. `playground` has two requests, the number that can be confused, of
all three kinds, one submit that waits for its files (`MaxPressed`) and one failed save;
after a race (`OneRace`) it does not follow a further waiting submit or a failed save. `desktop` has as
many windows and quits as can meet (a window from the dock, one from startup, one more;
a quit from the menu, the tray and a dialog) and both modes; macOS is the
platform with the additional `activate` event. All bounds sit in guards, except `OneOverwrite`,
`TwoIncidents`, `InOrder` and `OneRace`, which are state constraints of the MC modules.

Symmetry over requests and over processes is used only in runs without temporal
properties, with the exception of the action property `TerminalStays`, which is a
state-pair property and symmetric in the processes.

## 6. Fairness

`BillingSession!Fairness`: weak fairness of each request goroutine and of each refund
goroutine. The Go scheduler runs every runnable goroutine, the database driver returns, and
faults are bounded. Nothing is assumed about which requests fail, and nothing of the upstream
(`UpstreamStep`): `RELAY_TIMEOUT` is 0, unlimited, unless it is set, and
`service/http_client.go` sets no other limit, so `EventuallyOver` leaves out a request that
stays with its upstream for ever.

`TaskBilling!FairSpec`: weak fairness of the steps of each polling process that do not ask an
upstream (`LocalStep`), whose loop runs every 15 seconds, and of the passage of time (`Expire`)
for the tasks whose submit time no upstream changes. It needs the sweeper to be switched
on (`TaskTimeoutMinutes > 0`). A fetch need not return; a poller that hangs in one sweeps no
more, hence the premise of `TasksEnd` that some process comes back to its loop again and again. The run
has one polling process: with two, and an
upstream whose answers alternate between queued and in progress for ever, each
process can spoil the other's compare-and-set in every round, and TLC finds that
behaviour; with one process nothing but users' fetches, which are bounded here, comes
between its read and its write.

`QuotaStore!FairSpec`: weak fairness of the callers between their steps, of the
goroutines of the cache, of the batch updater, which wakes up periodically, and of the
expiry of the hash, which every write sets. Nothing is assumed about new calls; they
are bounded by `MaxCalls`.

`Admission!FairSpec`: one weak fairness condition for all requests together, the weakest
there is: as long as some request that has arrived can move, one of them does. It is
enough because no step of a request can be repeated for ever (the attempt budget and
the excluded channels bound the relay loop), and it says nothing about the order in
which waiters get a slot. An upstream call need not end (`UpstreamEnds` is not fair);
`RequestsEnd` says that what still stands in the end is upstream itself, or waits for a key all of
whose slots are with calls that are.

`Playground!FairSpec`: the browser renders and its timers fire, and an aborted call is
rejected. Nothing is assumed of the server or the user, so a stream may stay silent for
ever; `StopFrees` says that the user can always end it.

`DesktopShell!Spec`: weak fairness of the timer of before-quit and of Node's close event
after the server's end. The server need not obey SIGTERM.

`TopUp!FairSpec`: strong fairness of each running handler. `sync.Mutex` passes the lock to
a goroutine that has waited for a millisecond (its starvation mode), and a statement of
the database ends, so a handler that can continue again and again does continue. Nothing is assumed about new callbacks, and errors need not
happen.

## 7. Proofs

The theorems hold for every number of requests, subscriptions, tasks, processes,
workers, nodes, keys, channels, windows and orders, and every value of the bounds. They
assume only the named assumptions of the modules: amounts are naturals, limits are positive, the
sets of special tasks are sets of tasks, a discount is between 1 and 100 percent, the
workers of `OrderLock` and the requests of `Admission` are finitely many (their
invariants count them), and the "none" values are not members of the sets they are none
of. Two theorems have a hypothesis of their own, `DiscountPct = 100` (the refinement of
`BillingContract`) and `MaxBulk = 0`, explained below, and `NoClampLoss` contains
`DiscountPct = 100`.

**Billing session.** `TypeCorrect`, `InvariantCorrect` (IndInv), and from it
`BilledCorrect`, `NeverCreditedCorrect`, `HeldCorrect`; `WithinTotalCorrect` with its own
argument, below. `BilledExactly` speaks of finished requests and is not inductive. `IndInv`
says for every intermediate state what each store holds for a request
(`WalletHeld`, `TokenHeld`, `SubHeld`), told from its session, its pre-consume record
and the positions of its two goroutines, and that the rows agree: exactly while
`clean`, and otherwise with "at least what is still to be given back", which is what
keeps `NeverCredited` true across merely logged errors. `BuildingInv`, `SessionInv` and
`RefundInv` carry the facts that make this arithmetic close: funding and token hold
the same pre-consumption outside of `Reserve`, a settled session has no refund
goroutine, a record is refunded once. A step of one request leaves the invariant of
another alone (lemma over `Same`), so the induction has one lemma per action for its
own request.

`IndInv` is exact about a subscription's share only without a discount. For every discount
`Drift` bounds the difference. Its arithmetic is `DiscountSplit` (charging an amount in two
pieces costs at most one unit more or less, the minimum of one unit included) and
`DiscountNeg` (giving an amount back undoes charging it), proved from the bounds of the
quotient. `Residue` is what a subscription was charged beyond the pre-consumption in its
record (which a refund returns as it is), a Reserve under way and a fee; `Pieces` says that the residue was charged in as
many pieces as Reserve was called, at most one per attempt. `WholeOfPieces` and `SettledPiece`
turn this into the distance from the discounted whole. The upper half needs `clean`; the
lower half does not (`Near`), and is what makes `NeverCredited` hold across merely logged
errors with a discount too. Each group of actions has a lemma about `Drift`, and
`AttemptsSame` says which steps leave the count of attempts alone.

The transactions add `CopiesInv`: every row, and every copy a transaction still holds, is
within its total. A save checks and writes the copy it read, so whatever it overwrites, the row
it leaves is one that passed the check (`RowsStep`); that is the first half of `WithinTotal`, and
it needs no lock. The second half, about what the requests hold together, follows from
`NothingSwallowed` and stops at the first save that sets `lost`. In `IndInv` the copies do not
appear: what a request took is counted by the statements that took it, not by the row.

`NothingSwallowed` (NoClampLoss) compares a row with a sum over all requests. The sum is
stated as the cardinality of a set of units, one column per request, so that no fold has to
be reasoned about: a step of one request changes one column (`UnitsSplit`, `RestSame`,
`UnitsCount`). That the clamp has no effect follows because a request never gives back more
than its own column, which is `NeverCredited` for the subscription, and all units counted
are in the row. The requests of `ClampInv` need not be finite in number; that the units are
is part of the invariant. `AllRecorded` says that a request without a record has taken nothing.

`SessionImplementsContract` is the refinement of `BillingContract`, proved step by step: an
initial state maps to an initial state (every request open, nothing held), and every
step of `Next` maps to `Hold`, `Close` or `LeaveToLog` of one request, or to a stutter. It
rests on `IndInv` (through `BilledExactly` and `NeverCredited`, which give the amounts at
the end and their sign), on `PriceInv`, which says that what a request settles for comes
from the contract's prices, and on `OverIsOver`: a request whose goroutines have both
ended takes no further step. Its hypothesis `DiscountPct = 100` is needed: a discounted
subscription is charged less than the token, and the contract demands one price.

**Task billing.** `TaskTypeCorrect`, `TaskInvariant` (TaskInv), and from it
`NeverRefundedTwice`, `FinishedForGood` and `BilledAsItsRowShows`. The properties about money
need to know who may still move it, hence `TaskInv`: a copy still to be handled is of
an unfinished task with the row's quota (`CopyInv`); only the process that finished a
task bills it, and it is the only one (`BillerInv`, the compare-and-set argument);
what the task holds follows from its row and from how far the biller has come
(`AccountInv`, in terms of `Charged`, so that what a settlement missed drops out of the
argument); and if nothing failed, row and copy agree too (`ExactInv`). The
induction is per task: lemma `StepCases` says that every step either leaves the task
alone (`Frame`) or is one of six steps that concern it, each with a lemma of its own.
`BilledAsItsRowShows` assumes `MaxBulk = 0`: a bulk failure keeps the charge (section 4).

`SunoNotRefundedTwice` (SunoRefundedOnce) is about the tasks that no compare-and-set
protects, and has an invariant of its own, `SunoInv`. While there is one process and
nothing failed or came twice, a copy still to be handled *is* the row (`SunoCopy`), so the refund it
leads to returns what is held, and from then on the row that will be saved is complete
(`SunoBiller`), which keeps the task out of every later list.

**Order lock.** `LockOrderExcludes` (OrderExclusion) and `UnlockOrderFindsItsMutex`, from
`LockInv`. That two handlers exclude each other needs that they hold the same object,
hence `EntryInv`: who is inside works on the object that the map has for its order, no
object is stored twice, and the reference count is the number of handlers that refer to
it (a cardinality), so an entry is removed only with its last reference. `OwnerInv` is the
mutex itself.

**Top-up orders.** `TopUpInvariant` (TopUpInv), and from it `OrdersCreditedOnce`,
`OrdersPaidIffCredited`, `OrdersStayPaid` and `ProviderTradeKept`. `HandlersImplementLock` is the
composition: seen through the variables of `OrderLock`, a behaviour of the handlers is one of
`OrderLock`, so `OrderExclusion` and `UnlockFindsItsMutex` are inherited from its theorems
(`HandlersExclude`, `HandlersUnlockTheirMutex`). The invariant combines the
two means of protection that the handlers have. For LockOrder, a handler that is about to credit an order is
alone with it and the order is not credited yet (`AloneInv`, from the exclusion of
`OrderLock`). For the conditional UPDATE, a pending
order was never credited (`UnpaidInv`). `CopyInv` and `StripeInv` say what the copies that
handlers save are worth, `CallInv` ties the position in the handler to that in
LockOrder. For the orders that are saved and credited apart, `StrandedInv` follows a paid order
without credit until a handler credits it or fails, and `EPayInv` says that no EPay order
is ever saved as failed or expired. `ProviderTradeKept` goes through the writes of a paid Alipay
order: a conditional UPDATE finds it not pending, and of the handlers that save a copy only the
manual completion serves Alipay. A step of one worker leaves the others' positions and copies alone (lemma
`StepOthers`), so there is one lemma per action for its own worker, with `Alone` and
`CreditingAlone` for what others cannot be doing at the time.

**Quota store.** `QuotaInvariant` (QuotaInv), and from it `TypeCorrect`,
`DeltasConserved`, `ShownAtMostPosted` and `PartialHashNeedsExpiry`, for any number of callers
and goroutines and any amounts. `Conserved` needs `FlushInv`: taking a store overwrites
the slot of its kind in `taken`, which loses nothing only because the slot of a store
that was not taken yet is empty. That `GetSelf` shows no delta twice needs `SelfInv`:
what it read of the row is still in the row when it adds the pending deltas, so the
order in which it reads the two matters; a delta flushed in between is missed, never
counted twice. `PartialOnlyAfterExpiry` needs `CheckedInv`: a goroutine past its TTL check
finds the hash unless it went away since.

**Admission.** `Counted` (AInv), and from it `Limiters` (AdmissionInv), `KeyLimited`,
`RedisCounts` and `ChannelSlots`. Every limiter is a number that must be the cardinality of
a set of requests, so the induction is about sets: a step adds one request to the
holders of one counter or removes it, and leaves all other sets as they are. `PlaceInv`
says what a request holds from where it is, `KeyInv` and `EntryInv` are the argument of
`OrderLock` with a counting semaphore in place of the mutex: the entry in the map is the
one all referring requests have in `mine`, its reference count is their number, its
slots are those of them that run, and a dropped entry is referred to by nobody. For
Redis the equality weakens to an upper bound once a lease ran out or a release ran
twice (`lapsed`, with `LapsedFacts` and `RedisAgain`), and lost and repeated answers are counted
apart (`leaked`). A panic leaves its request among the occupants of the channel (`PanicStep`).

**Playground.** `PageBookkeeping` (PageInv), `AnswersOwned`, `Stoppable`, and the action
properties `Silence` and `LoadedPage`, for any number of requests and conversations of any
length. They are proved together from one invariant (`Core` in the proof module), because
each handler's guard needs another one's result: that no two requests are in flight
(`FlightInv`) follows from the Stop button being shown (`ShownInv`), which follows from
the refs (`RefInv`), unless a submit is still to be rendered (`late`), which `GuardedSeesLatest`
and `UnfinishedIsStoppable` carry along; that an answer is its own follows from the last
message belonging to the request in flight (`TextInv`, `LiveText`). The first half of `Silence`
needs no `~astray`: what a stopped request still runs into is checked by its own `aborted` and
`closed` state, and text can only come back from a copy that had it (`DrawnSilent`, with the
copies that pending submits close over). Its second half, that an aborted image has a single
last word in its own message, is `LastWord`.

**Desktop shell.** `Shell` (ShellInv), and from it `NoOrphan` and `Reachable`. The exit paths ask
`serverProcess`, which is not the server; `ServerKnown` relates the two (the variable is
set whenever the server runs or ran; a failed startup has its dialog, a quit timer, or was
`Misled`).
`WindowKnown` does the same for `mainWindow`, the windows alive and the tray.

**Model-checked only.** Liveness under fairness (`EventuallyOver`, `TasksEnd`,
`HandlersReturn`, `Converges`, `RequestsEnd`, `StopFrees`, `QuitCompletes`), which the prover
does not handle. The two violated properties are TLC's counterexamples.

## 8. Abstractions and what is not modelled

* Price computation, tiered billing and its expression language, token counting:
  floating-point data transformation; the models take the results from sets.
* Provider adaptors, authentication and OAuth, administration handlers: conversion and
  I/O without shared accounting state.
* The web front ends apart from the playground. They are by far the larger part of the
  repository's lines (some 315,000 of TypeScript and JavaScript) and consist of forms,
  tables, charts, documentation pages and translations in two generations: markup,
  formatting and validation, with one request per button and all state on the server.
  There is no protocol in them whose steps a model could interleave; a module about a
  form would repeat its fields. The behaviour behind those buttons is in the Go code
  that the other modules model.
* `BillingSession` reads a transaction's subscription rows in one step and saves them in
  another, as the default isolation of MySQL and PostgreSQL allows; a pre-consume record is read with
  them, since only its own request's goroutines touch it. Increments and decrements of quota
  rows are atomic there and reads are of the rows; what batch updates and caches do between is
  in `QuotaStore`. Cleaning up records of the last week or older is left out.
* Consumption logs, statistics (`UpdateUserUsedQuotaAndRequestCount`), notifications
  and low-balance mails are left out.
* `TaskBilling` merges NOT_START, SUBMITTED and QUEUED; leaves out tasks older than
  `legacyTaskCutoff`, which are failed without refund by design (its value, 1740182400, is
  2025-02-22, where its comment says 2026-02-22), tasks without an
  upstream id, which `TaskPollingLoop` fails like those of a missing channel, tasks
  without a token id, a sweeper that is switched off, image tasks inserted by the OpenAI adaptor, the page size of the
  sweeper, and the Midjourney poller. A list query that fails makes a round without
  work, which is a sequence of other steps of the model. A Suno answer with an unknown id
  makes the loop panic, which is a crash of the process.
* A crash of a gateway process is modelled for polling processes only. A crash during
  a relay request leaves its pre-consumption, like the `Panic` action does.
* `TopUp` reads in one step of a transaction and commits in another, which is what the
  default isolation of MySQL and PostgreSQL allows; SQLite serialises writers and has
  fewer behaviours. Signatures, amounts (that `ManualCompleteTopUp` converts a Creem
  amount which already is a quota, `model/topup.go:101`, is outside the model) and the checks of paid money against the order,
  the guard against a callback of another provider, promotions, users' groups, logs and
  notifications are left out, as are subscription orders, which the same webhooks
  complete, and the refund reviews of Alipay orders. An XPay order renamed by its gateway
  stays the same order. A process that dies in a handler is, for the rows, like `Fail`;
  the lock map dies with it.
* `QuotaStore` is about users. Tokens and channels use the same stores and the same
  Redis functions. The insertion and deletion of users, the other fields of the hash
  and nodes beyond the first are left out: a second node adds a second store and
  competes for the same row and hash. Of a copy that `User.Update` saves, the balance and the two
  counters are followed, zero columns being left alone as GORM does.
* `Admission` leaves out the waiting branch of `beginWithLimitWaiting`, which the relay
  loop never enters (it passes a waiting time of 0), the limits per time window, and
  which channel is selected among those not excluded. Billing within the relay loop is
  in `BillingSession`; here it only succeeds or fails.
* `Playground` leaves out what is attached to a message (but not that reading it takes time), models, groups and parameters, and leaving the
  page inside the application: its requests then go on, and their updates have no
  component to go to.
* `DesktopShell` leaves out the texts of the dialogs and the analysis of the log that
  chooses among them.
* Redemption codes, check-in and rewards, subscription orders and Alipay refund reviews,
  channel selection with auto-route failover, the stream scanner, credential refresh and
  performance metrics are not modelled yet, or have no correctness obligation towards
  the other parts; `PROJECT.json` has a line on each.
