--------------------------- MODULE BillingSession ---------------------------
(***************************************************************************)
(* The billing life cycle of the relay requests of one user who uses one   *)
(* token: service/billing_session.go, service/funding_source.go, the quota *)
(* rows they touch (users.quota, tokens.remain_quota,                      *)
(* user_subscriptions.amount_used, subscription_pre_consume_records) and   *)
(* the part of controller/relay.go that drives them.                       *)
(*                                                                         *)
(* Every request is a goroutine; a step is one database statement, so the  *)
(* steps of different requests, of the refund goroutines and of the        *)
(* subscription tasks interleave freely.  A transaction on a subscription  *)
(* reads the row (its FOR UPDATE is a query option that this version of    *)
(* GORM ignores) and later saves the whole row: two steps.  A database     *)
(* statement may fail without effect (at most MaxFaults times).            *)
(***************************************************************************)
EXTENDS Integers, FiniteSets

CONSTANTS
  Requests,       \* the concurrent relay requests
  Subs,           \* the user's subscriptions, numbered in end_time order
  Profiles,       \* what a request may look like (see ProfileType)
  Targets,        \* prices a newly selected group may ask for (Reserve)
  Actuals,        \* actual consumption reported by the upstream (Settle)
  InitQuota,      \* users.quota at the start
  InitRemain,     \* tokens.remain_quota at the start
  AmountTotal,    \* [Subs -> Nat]; 0 is an unlimited subscription
  Expiring,       \* the subscriptions that may expire or be cancelled
  DiscountPct,    \* subscription billing discount in percent
  TrustQuota,     \* common.GetTrustQuota()
  ViolationFee,   \* fee charged for a policy violation; 0 is disabled
  MaxAttempts,    \* bound: upstream attempts of a request (attempt budget)
  MaxFaults,      \* bound: database errors in a behaviour
  MaxPeriods      \* bound: quota periods of each subscription that end

Prefs == {"subscription_only", "wallet_only", "wallet_first", "subscription_first"}

ProfileType == [pref : Prefs, pre : Nat, playground : BOOLEAN,
                unlimited : BOOLEAN, force : BOOLEAN,
                free : BOOLEAN]    \* the group selected first is free: no session at first

ASSUME ProfilesAssumption == Profiles \subseteq ProfileType
ASSUME SubsAssumption     == Subs \subseteq Nat /\ IsFiniteSet(Subs) /\ Expiring \subseteq Subs
ASSUME AmountsAssumption  ==
  /\ Targets \subseteq Nat /\ Actuals \subseteq Nat
  /\ InitQuota \in Int /\ InitRemain \in Int
  /\ AmountTotal \in [Subs -> Nat]
  /\ DiscountPct \in 1..100
  /\ TrustQuota \in Nat /\ ViolationFee \in Nat
  /\ MaxAttempts \in Nat /\ MaxFaults \in Nat /\ MaxPeriods \in Nat

VARIABLES
  quota,       \* users.quota
  remain,      \* tokens.remain_quota
  amountUsed,  \* [Subs -> Nat] user_subscriptions.amount_used
  subActive,   \* [Subs -> BOOLEAN] status = 'active' and not yet ended
  lastReset,   \* [Subs -> Nat] the period last_reset_time and next_reset_time stand for
  periods,     \* [Subs -> Nat] the clock: periods ended so far (bounds PeriodEnds)
  record,      \* [Requests -> RecordType] subscription_pre_consume_records
  pc,          \* where the request goroutine is
  req,         \* the request's profile
  tokenQuota,  \* c.GetInt("token_quota"), read when the token was authenticated
  plan,        \* the funding source NewBillingSession tries and its fallback
  arg,         \* the quota the running operation was called with
  sess,        \* the BillingSession
  attempts,    \* upstream attempts used
  streamed,    \* StreamStatus is set: an attempt that failed had opened a stream
  seen,        \* the subscription rows its open transaction has read, if it has
  bg,          \* where the refund goroutine is
  bgTry,       \* attempts of refundWithRetry used
  bgSeen,      \* the same rows as read by the refund goroutine
  resetSeen,   \* and by ResetDueSubscriptions, for the subscription it is at
  fee,         \* the violation fee charged to the request's funding source
  faults,      \* database errors so far
  walletNet, tokenNet, subNet,
               \* history: net amount request r took from each store
  clean,       \* history: no error of r was merely logged
  lost         \* history: a row was saved over an amount_used its transaction had not read

subRows  == <<amountUsed, subActive, lastReset, lost>>
rows     == <<quota, remain, subRows, periods, record>>
control  == <<pc, req, tokenQuota, plan, arg, sess, attempts, streamed, seen>>
refunder == <<bg, bgTry, bgSeen>>
history  == <<walletNet, tokenNet, subNet, clean>>
vars     == <<rows, control, refunder, resetSeen, fee, faults, history>>

PCs == {"idle", "free", "try", "token", "tokenDec", "fund", "undo", "ready",
        "rToken", "rTokenDec", "rUndo", "upstream", "settle", "settleTok",
        "refund", "fee", "feeTok", "done"}

BGs == {"none", "funding", "extra", "token", "end"}

SessionType ==
  [source : {"none", "wallet", "subscription"},
   preConsumedQuota : Int, tokenConsumed : Int, extraReserved : Int,
   consumed : Int,           \* WalletFunding.consumed / SubscriptionFunding.preConsumed
   subscriptionId : Subs \cup {0},
   trusted : BOOLEAN, fundingSettled : BOOLEAN, settled : BOOLEAN, refunded : BOOLEAN]

NoSession ==
  [source |-> "none", preConsumedQuota |-> 0, tokenConsumed |-> 0, extraReserved |-> 0,
   consumed |-> 0, subscriptionId |-> 0,
   trusted |-> FALSE, fundingSettled |-> FALSE, settled |-> FALSE, refunded |-> FALSE]

\* The updates a BillingSession undergoes.
Opened(source, trusted) == [NoSession EXCEPT !.source = source, !.trusted = trusted]
\* Billing = nil: SettleBilling and ChargeViolationFeeIfNeeded then call PostConsumeQuota,
\* which takes everything from the wallet, as a wallet session that holds nothing would.
NoBilling               == Opened("wallet", FALSE)
TokenTaken(s, n)        == [s EXCEPT !.tokenConsumed = n]
Funded(s, n, held, sub) == [s EXCEPT !.preConsumedQuota = n, !.consumed = held, !.subscriptionId = sub]
FundingAdded(s, n)      == [s EXCEPT !.consumed = @ + n]
\* Mutant: Reserve raises the funding source and the token but not preConsumedQuota.
ReservedUncounted(s, n) == [s EXCEPT !.tokenConsumed = @ + n, !.extraReserved = @ + n]
Reserved(s, n)          == [s EXCEPT !.preConsumedQuota = @ + n, !.tokenConsumed = @ + n,
                                     !.extraReserved = @ + n]
FundingSettled(s)       == [s EXCEPT !.fundingSettled = TRUE]
Settled(s)              == [s EXCEPT !.settled = TRUE]
\* Mutant: Refund forgets to mark the session.
RefundUnmarked(s)       == s
Refunded(s)             == [s EXCEPT !.refunded = TRUE]

RecordType == [status : {"none", "consumed", "refunded"}, sub : Subs \cup {0}, amount : Nat]

NoRecord == [status |-> "none", sub |-> 0, amount |-> 0]

AnyProfile == [pref |-> "wallet_only", pre |-> 0, playground |-> FALSE,
               unlimited |-> FALSE, force |-> FALSE, free |-> FALSE]

PlanType == [now : {"none", "wallet", "subscription"}, next : {"none", "wallet", "subscription"}]

Try(source, fallback) == [now |-> source, next |-> fallback]

\* NewBillingSession has not been called.
Unbilled == Try("none", "none")

AtLeast(n, low) == IF n < low THEN low ELSE n

-----------------------------------------------------------------------------
(***************************************************************************)
(* The quota rows                                                          *)
(***************************************************************************)

\* model.DecreaseUserQuota (n > 0) and model.IncreaseUserQuota (n < 0): one UPDATE.
DecreaseUserQuota(r, n) ==
  /\ quota' = quota - n
  /\ walletNet' = [walletNet EXCEPT ![r] = @ + n]

\* model.DecreaseTokenQuota (n > 0) and model.IncreaseTokenQuota (n < 0).
DecreaseTokenQuota(r, n) ==
  /\ remain' = remain - n
  /\ tokenNet' = [tokenNet EXCEPT ![r] = @ + n]

\* decimal.Round(0): halves away from zero; a discounted charge is at least 1.
ApplySubscriptionBillingDiscount(amount) ==
  LET applied(n) == AtLeast((n * DiscountPct * 2 + 100) \div 200, 1)
  IN  CASE amount = 0 -> 0
        [] amount > 0 -> applied(amount)
        [] amount < 0 -> -applied(-amount)

\* What a transaction reads of the subscriptions: the columns it will save, and the clock.
CopyType == [used : [Subs -> Nat], active : [Subs -> BOOLEAN],
             reset : [Subs -> Nat], now : [Subs -> Nat]]

Copy == [used |-> amountUsed, active |-> subActive, reset |-> lastReset, now |-> periods]

\* tx.Save of the rows ts read as c: every column of the copy is written, so a status or a
\* reset saved since the read is undone (an end_time that has passed is not).
SaveRows(c, ts, used, reset) ==
  /\ amountUsed' = [t \in Subs |-> IF t \in ts THEN used[t] ELSE amountUsed[t]]
  /\ lastReset' = [t \in Subs |-> IF t \in ts THEN reset[t] ELSE lastReset[t]]
  /\ subActive' \in [Subs -> BOOLEAN]
  /\ \A t \in Subs :
       subActive'[t] \in CASE t \notin ts -> {subActive[t]}
                          [] t \in ts /\ c.active[t] -> {TRUE, subActive[t]}
                          [] OTHER -> {FALSE}
  /\ lost' = [t \in Subs |-> lost[t] \/ (t \in ts /\ c.used[t] # amountUsed[t])]

\* Mutant: the total is checked before the delta is added.
DeltaFitsBefore(c, s, applied) == AmountTotal[s] = 0 \/ c.used[s] <= AmountTotal[s]

\* postConsumeUserSubscriptionDeltaTx refuses to exceed the total of the row it has read ...
DeltaFits(c, s, applied) ==
  AmountTotal[s] = 0 \/ AtLeast(c.used[s] + applied, 0) <= AmountTotal[s]

\* ... and saves that row with the new amount_used.
PostConsumeDelta(r, s, applied, c) ==
  /\ SaveRows(c, {s}, [c.used EXCEPT ![s] = AtLeast(@ + applied, 0)], c.reset)
  /\ subNet' = [subNet EXCEPT ![r] = @ + applied]

\* A database statement returns an error and has no effect.
Fault == faults < MaxFaults /\ faults' = faults + 1

Goto(r, l) == pc' = [pc EXCEPT ![r] = l]

Logged(r) == clean' = [clean EXCEPT ![r] = FALSE]

\* The transaction of the request goroutine (of its refund goroutine) ends.
TxEnds(r)   == seen' = [seen EXCEPT ![r] = {}]
BgTxEnds(r) == bgSeen' = [bgSeen EXCEPT ![r] = {}]

Init ==
  /\ quota = InitQuota /\ remain = InitRemain
  /\ amountUsed = [s \in Subs |-> 0] /\ subActive = [s \in Subs |-> TRUE]
  /\ lastReset = [s \in Subs |-> 0] /\ periods = [s \in Subs |-> 0]
  /\ lost = [s \in Subs |-> FALSE] /\ resetSeen = [s \in Subs |-> {}]
  /\ record = [r \in Requests |-> NoRecord]
  /\ pc = [r \in Requests |-> "idle"] /\ req = [r \in Requests |-> AnyProfile]
  /\ tokenQuota = [r \in Requests |-> 0] /\ plan = [r \in Requests |-> Unbilled]
  /\ arg = [r \in Requests |-> 0] /\ sess = [r \in Requests |-> NoSession]
  /\ attempts = [r \in Requests |-> 0] /\ streamed = [r \in Requests |-> FALSE]
  /\ seen = [r \in Requests |-> {}] /\ bgSeen = [r \in Requests |-> {}]
  /\ bg = [r \in Requests |-> "none"] /\ bgTry = [r \in Requests |-> 0]
  /\ fee = [r \in Requests |-> 0] /\ faults = 0
  /\ walletNet = [r \in Requests |-> 0] /\ tokenNet = [r \in Requests |-> 0]
  /\ subNet = [r \in Requests |-> 0] /\ clean = [r \in Requests |-> TRUE]

-----------------------------------------------------------------------------
(***************************************************************************)
(* NewBillingSession: choose a funding source and pre-consume              *)
(***************************************************************************)

\* The funding source to try first and the one to fall back to; HasActiveUserSubscription is asked only
\* by subscription_first.
Plan(pref) ==
  CASE pref = "subscription_only" -> Try("subscription", "none")
    [] pref = "wallet_only"       -> Try("wallet", "none")
    [] pref = "wallet_first"      -> Try("wallet", "subscription")
    [] OTHER -> IF \E s \in Subs : subActive[s] THEN Try("subscription", "wallet")
                                                ELSE Try("wallet", "none")

\* NewBillingSession starts with its first source; a failing HasActiveUserSubscription is
\* returned.
StartSession(r, pref) ==
  \/ plan' = [plan EXCEPT ![r] = Plan(pref)] /\ Goto(r, "try") /\ UNCHANGED faults
  \/ pref = "subscription_first" /\ Fault /\ Goto(r, "done") /\ UNCHANGED plan

\* Relay reads the profile, the token as authenticated and the billing preference.  For a
\* free model PreConsumeBilling is skipped.
Begin(r) ==
  /\ pc[r] = "idle"
  /\ \E p \in Profiles :
       \/ /\ ~ p.free /\ StartSession(r, p.pref)
          /\ req' = [req EXCEPT ![r] = p] /\ UNCHANGED sess
       \/ /\ p.free /\ Goto(r, "free")
          /\ req' = [req EXCEPT ![r] = [p EXCEPT !.pre = 0]]
          /\ sess' = [sess EXCEPT ![r] = NoBilling] /\ UNCHANGED <<plan, faults>>
  /\ tokenQuota' = [tokenQuota EXCEPT ![r] = remain]
  /\ UNCHANGED <<rows, arg, attempts, streamed, seen, refunder, resetSeen, fee, history>>

\* Mutant: the fallback tries the source that just refused.
GiveUpTrySame(r, insufficient) ==
  /\ sess' = [sess EXCEPT ![r] = NoSession]
  /\ IF insufficient /\ plan[r].next # "none"
       THEN Goto(r, "try") /\ UNCHANGED plan
       ELSE Goto(r, "done") /\ UNCHANGED plan

\* NewBillingSession gives this source up: on ErrorCodeInsufficientUserQuota it
\* falls back to the next source, any other error is returned.  Either way the
\* session object is dropped.
GiveUp(r, insufficient) ==
  /\ sess' = [sess EXCEPT ![r] = NoSession]
  /\ IF insufficient /\ plan[r].next # "none"
       THEN Goto(r, "try") /\ plan' = [plan EXCEPT ![r] = Try(@.next, "none")]
       ELSE Goto(r, "done") /\ UNCHANGED plan

\* The error is not ErrorCodeInsufficientUserQuota: it will be returned.
NoFallback(r) == plan' = [plan EXCEPT ![r] = Try(@.now, "none")]

\* shouldTrust: enough token quota and enough wallet quota, never for async tasks.
ShouldTrust(r, userQuota) ==
  /\ ~ req[r].force
  /\ TrustQuota > 0
  /\ req[r].unlimited \/ tokenQuota[r] > TrustQuota
  /\ userQuota > TrustQuota

\* A PreConsumeBilling inside the relay loop failed because the balance is positive and too
\* small: an auto group moves on to the next group, still without a session.
NextGroupUnbilled(r) ==
  /\ req[r].free /\ plan[r].next = "none" /\ attempts[r] < MaxAttempts
  /\ sess' = [sess EXCEPT ![r] = NoBilling]
  /\ plan' = [plan EXCEPT ![r] = Unbilled]
  /\ req' = [req EXCEPT ![r].pre = 0]
  /\ Goto(r, "free")

\* tryWallet up to session.preConsume: the balance is read, and used later.
TryWallet(r) ==
  /\ pc[r] = "try" /\ plan[r].now = "wallet"
  /\ \/ /\ quota <= 0 \/ quota - req[r].pre < 0
        /\ GiveUp(r, TRUE) /\ UNCHANGED <<req, arg, faults>>
     \/ /\ quota > 0 /\ quota - req[r].pre < 0
        /\ NextGroupUnbilled(r) /\ UNCHANGED <<arg, faults>>
     \/ /\ quota > 0 /\ quota - req[r].pre >= 0
        /\ LET trusted == ShouldTrust(r, quota) IN
             /\ sess' = [sess EXCEPT ![r] = Opened("wallet", trusted)]
             /\ arg' = [arg EXCEPT ![r] = IF trusted THEN 0 ELSE req[r].pre]
        /\ Goto(r, "token") /\ UNCHANGED <<req, plan, faults>>
     \/ /\ Fault /\ GiveUp(r, FALSE) /\ UNCHANGED <<req, arg>>
  /\ UNCHANGED <<rows, tokenQuota, attempts, streamed, seen, refunder, resetSeen, fee, history>>

\* trySubscription up to session.preConsume: at least 1 is pre-consumed.
TrySubscription(r) ==
  /\ pc[r] = "try" /\ plan[r].now = "subscription"
  /\ sess' = [sess EXCEPT ![r] = Opened("subscription", FALSE)]
  /\ arg' = [arg EXCEPT ![r] = AtLeast(req[r].pre, 1)]
  /\ Goto(r, "token")
  /\ UNCHANGED <<rows, req, tokenQuota, plan, attempts, streamed, seen, refunder, resetSeen, fee, faults, history>>

\* PreConsumeTokenQuota reads the token row ...
TokenCovers(r, n) == req[r].unlimited \/ remain >= n

CheckToken(r) ==
  /\ pc[r] = "token"
  /\ \/ /\ arg[r] = 0 \/ req[r].playground
        /\ sess' = [sess EXCEPT ![r] = TokenTaken(@, arg[r])]
        /\ Goto(r, "fund") /\ UNCHANGED <<plan, faults>>
     \/ /\ arg[r] > 0 /\ ~ req[r].playground /\ TokenCovers(r, arg[r])
        /\ Goto(r, "tokenDec") /\ UNCHANGED <<sess, plan, faults>>
     \/ /\ arg[r] > 0 /\ ~ req[r].playground /\ ~ TokenCovers(r, arg[r])
        /\ GiveUp(r, FALSE) /\ UNCHANGED faults
     \/ /\ arg[r] > 0 /\ ~ req[r].playground
        /\ Fault /\ GiveUp(r, FALSE)
  /\ UNCHANGED <<rows, req, tokenQuota, arg, attempts, streamed, seen, refunder, resetSeen, fee, history>>

\* ... and decreases it in a second statement.
TakeToken(r) ==
  /\ pc[r] = "tokenDec"
  /\ \/ /\ DecreaseTokenQuota(r, arg[r])
        /\ sess' = [sess EXCEPT ![r] = TokenTaken(@, arg[r])]
        /\ Goto(r, "fund") /\ UNCHANGED <<plan, faults>>
     \/ /\ Fault /\ GiveUp(r, FALSE) /\ UNCHANGED <<remain, tokenNet>>
  /\ UNCHANGED <<quota, subRows, periods, record, req, tokenQuota,
                 arg, attempts, streamed, seen, refunder, resetSeen, fee, walletNet, subNet, clean>>

\* The session is complete: Relay enters its loop, or is in it and sends the request.
SessionReady(r, held, sub) ==
  /\ sess' = [sess EXCEPT ![r] = Funded(@, arg[r], held, sub)]
  /\ Goto(r, IF req[r].free THEN "upstream" ELSE "ready")

\* WalletFunding.PreConsume
FundWallet(r) ==
  /\ pc[r] = "fund" /\ sess[r].source = "wallet"
  /\ \/ /\ arg[r] = 0 /\ SessionReady(r, 0, 0) /\ UNCHANGED <<quota, walletNet, plan, faults>>
     \/ /\ arg[r] > 0 /\ DecreaseUserQuota(r, arg[r]) /\ SessionReady(r, arg[r], 0)
        /\ UNCHANGED <<plan, faults>>
     \/ /\ arg[r] > 0 /\ Fault /\ NoFallback(r)
        /\ Goto(r, "undo") /\ UNCHANGED <<quota, walletNet, sess>>
  /\ UNCHANGED <<remain, subRows, periods, record, req, tokenQuota,
                 arg, attempts, streamed, seen, refunder, resetSeen, fee, tokenNet, subNet, clean>>

\* The row as read is due for a reset (maybeResetUserSubscriptionWithPlanTx), and
\* amount_used after it.
IsDue(c, s) == c.reset[s] < c.now[s]

UsedAfterReset(c, s) == IF IsDue(c, s) THEN 0 ELSE c.used[s]

Candidates(c, applied) ==
  {s \in Subs : c.active[s] /\ (AmountTotal[s] = 0 \/ AmountTotal[s] - UsedAfterReset(c, s) >= applied)}

\* PreConsumeUserSubscription for a fresh request id, the writes of its transaction: the
\* first subscription in end_time order with enough quota pays, and due periods of the
\* subscriptions looked at are reset.  (The request id is generated per request and a
\* session that fails leaves no record, so no record exists yet.)
PreConsumeUserSubscription(r, c) ==
  LET applied == ApplySubscriptionBillingDiscount(arg[r]) IN
  \E s \in Candidates(c, applied) :
    LET resets == {t \in Subs : c.active[t] /\ IsDue(c, t) /\ t <= s} IN
    /\ \A t \in Candidates(c, applied) : s <= t
    /\ SaveRows(c, resets \cup {s},
                [t \in Subs |-> UsedAfterReset(c, t) + (IF t = s THEN applied ELSE 0)],
                [t \in Subs |-> IF t \in resets THEN c.now[t] ELSE c.reset[t]])
    /\ subNet' = [subNet EXCEPT ![r] = @ + applied]
    /\ record' = [record EXCEPT ![r] = [status |-> "consumed", sub |-> s, amount |-> applied]]
    /\ SessionReady(r, applied, s)

\* SubscriptionFunding.PreConsume.  No candidate (or a failed candidate query) is
\* "insufficient" and lets NewBillingSession fall back; other errors do not.
FundSubscription(r) ==
  /\ pc[r] = "fund" /\ sess[r].source = "subscription"
  /\ \/ \E c \in seen[r] : PreConsumeUserSubscription(r, c) /\ UNCHANGED <<plan, faults>>
     \/ /\ \E c \in seen[r] : Candidates(c, ApplySubscriptionBillingDiscount(arg[r])) = {}
        /\ Goto(r, "undo") /\ UNCHANGED <<subRows, record, sess, plan, faults, subNet>>
     \/ /\ Fault /\ Goto(r, "undo")
        /\ NoFallback(r) \/ UNCHANGED plan
        /\ UNCHANGED <<subRows, record, sess, subNet>>
  /\ TxEnds(r)
  /\ UNCHANGED <<quota, remain, periods, req, tokenQuota, arg, attempts, streamed,
                 refunder, resetSeen, fee, walletNet, tokenNet, clean>>

\* preConsume returns the token quota after its funding source refused.
UndoToken(r) ==
  /\ pc[r] = "undo"
  /\ \/ /\ sess[r].tokenConsumed > 0 /\ ~ req[r].playground
        /\ \/ DecreaseTokenQuota(r, -sess[r].tokenConsumed) /\ UNCHANGED <<faults, clean>>
           \/ Fault /\ Logged(r) /\ UNCHANGED <<remain, tokenNet>>
     \/ /\ sess[r].tokenConsumed = 0 \/ req[r].playground
        /\ UNCHANGED <<remain, tokenNet, faults, clean>>
  /\ GiveUp(r, TRUE)
  /\ UNCHANGED <<quota, subRows, periods, record, req, tokenQuota,
                 arg, attempts, streamed, seen, refunder, resetSeen, fee, walletNet, subNet>>

-----------------------------------------------------------------------------
(***************************************************************************)
(* The relay loop: attempts, Reserve, Settle                               *)
(***************************************************************************)

\* Relay leaves its loop with an error: the deferred function refunds, or, when the client
\* is gone and an attempt had opened a stream, settles (billClientGoneStream).
Fail(r, violation) ==
  \/ /\ arg' = [arg EXCEPT ![r] = violation]
     /\ Goto(r, "refund")
  \/ /\ streamed[r] /\ plan[r] # Unbilled
     /\ \E a \in Actuals : arg' = [arg EXCEPT ![r] = a]
     /\ Goto(r, "settle")

\* Channel selection or the concurrency limit stopped the attempt; an auto group
\* moves on to the next group while the attempt budget lasts.
NoChannel(r) ==
  /\ pc[r] \in {"ready", "free"} /\ seen[r] = {}
  /\ \/ Fail(r, 0) /\ UNCHANGED attempts
     \/ /\ attempts[r] + 1 < MaxAttempts
        /\ attempts' = [attempts EXCEPT ![r] = @ + 1] /\ UNCHANGED <<pc, arg>>
  /\ UNCHANGED <<rows, req, tokenQuota, plan, sess, streamed, seen, refunder, resetSeen, fee, faults, history>>

SendUpstream(r) ==
  /\ attempts' = [attempts EXCEPT ![r] = @ + 1]
  /\ Goto(r, "upstream")

\* refreshBillingForSelectedGroup without a session: a free group goes on without one, for a
\* priced group PreConsumeBilling is called now.
RefreshUnbilled(r) ==
  /\ pc[r] = "free" /\ attempts[r] < MaxAttempts
  /\ \/ SendUpstream(r) /\ UNCHANGED <<req, plan, sess, faults>>
     \/ /\ \E target \in Targets : req' = [req EXCEPT ![r].pre = target]
        /\ attempts' = [attempts EXCEPT ![r] = @ + 1]
        /\ sess' = [sess EXCEPT ![r] = NoSession]
        /\ StartSession(r, req[r].pref)
  /\ UNCHANGED <<rows, tokenQuota, arg, streamed, seen, refunder, resetSeen, fee, history>>

\* Reserve does nothing for a trusted session or a price already covered.
ReserveNeeded(r, target) == ~ sess[r].trusted /\ target > sess[r].preConsumedQuota

Delta(r) == arg[r] - sess[r].preConsumedQuota

\* refreshBillingForSelectedGroup -> Reserve(target), up to reserveFunding.
Reserve(r) ==
  /\ pc[r] = "ready" /\ attempts[r] < MaxAttempts
  /\ \E target \in Targets :
       LET delta   == target - sess[r].preConsumedQuota
           applied == ApplySubscriptionBillingDiscount(delta)
           sub     == sess[r].subscriptionId
       IN
       \/ /\ ~ ReserveNeeded(r, target) /\ seen[r] = {}
          /\ SendUpstream(r)
          /\ UNCHANGED <<quota, walletNet, subRows, subNet, sess, arg, faults>>
       \/ /\ ReserveNeeded(r, target) /\ sess[r].source = "wallet"
          /\ DecreaseUserQuota(r, delta)
          /\ sess' = [sess EXCEPT ![r] = FundingAdded(@, delta)]
          /\ arg' = [arg EXCEPT ![r] = target] /\ Goto(r, "rToken")
          /\ UNCHANGED <<subRows, subNet, attempts, faults>>
       \/ /\ ReserveNeeded(r, target) /\ sess[r].source = "subscription"
          /\ \E c \in seen[r] : DeltaFits(c, sub, applied) /\ PostConsumeDelta(r, sub, applied, c)
          /\ arg' = [arg EXCEPT ![r] = target] /\ Goto(r, "rToken")
          /\ UNCHANGED <<quota, walletNet, sess, attempts, faults>>
       \/ /\ ReserveNeeded(r, target)
          /\ \/ /\ sess[r].source = "subscription"
                /\ \E c \in seen[r] : ~ DeltaFits(c, sub, applied)
                /\ UNCHANGED faults
             \/ Fault
          /\ Fail(r, 0)
          /\ UNCHANGED <<quota, walletNet, subRows, subNet, sess, attempts>>
  /\ TxEnds(r)
  /\ UNCHANGED <<remain, periods, record, req, tokenQuota, plan, streamed,
                 refunder, resetSeen, fee, tokenNet, clean>>

ReserveDone(r) ==
  /\ sess' = [sess EXCEPT ![r] = Reserved(@, Delta(r))]
  /\ SendUpstream(r)

\* reserveToken, first statement: read the token row.
ReserveCheckToken(r) ==
  /\ pc[r] = "rToken"
  /\ \/ req[r].playground /\ ReserveDone(r) /\ UNCHANGED faults
     \/ /\ ~ req[r].playground
        /\ \/ TokenCovers(r, Delta(r)) /\ Goto(r, "rTokenDec") /\ UNCHANGED faults
           \/ ~ TokenCovers(r, Delta(r)) /\ Goto(r, "rUndo") /\ UNCHANGED faults
           \/ Fault /\ Goto(r, "rUndo")
        /\ UNCHANGED <<sess, attempts>>
  /\ UNCHANGED <<rows, req, tokenQuota, plan, arg, streamed, seen, refunder, resetSeen, fee, history>>

\* reserveToken, second statement: decrease it.
ReserveTakeToken(r) ==
  /\ pc[r] = "rTokenDec"
  /\ \/ DecreaseTokenQuota(r, Delta(r)) /\ ReserveDone(r) /\ UNCHANGED faults
     \/ Fault /\ Goto(r, "rUndo") /\ UNCHANGED <<remain, tokenNet, sess, attempts>>
  /\ UNCHANGED <<quota, subRows, periods, record, req, tokenQuota, plan,
                 arg, streamed, seen, refunder, resetSeen, fee, walletNet, subNet, clean>>

\* rollbackFundingReserve; its own failure is only logged.
ReserveUndo(r) ==
  /\ pc[r] = "rUndo"
  /\ \/ /\ sess[r].source = "wallet"
        /\ DecreaseUserQuota(r, -Delta(r))
        /\ sess' = [sess EXCEPT ![r] = FundingAdded(@, -Delta(r))]
        /\ UNCHANGED <<subRows, subNet, faults, clean>>
     \/ /\ sess[r].source = "subscription"
        /\ \E c \in seen[r] :
             PostConsumeDelta(r, sess[r].subscriptionId, ApplySubscriptionBillingDiscount(-Delta(r)), c)
        /\ UNCHANGED <<quota, walletNet, sess, faults, clean>>
     \/ /\ Fault /\ Logged(r)
        /\ UNCHANGED <<quota, walletNet, subRows, subNet, sess>>
  /\ Fail(r, 0) /\ TxEnds(r)
  /\ UNCHANGED <<remain, periods, record, req, tokenQuota, plan, attempts, streamed,
                 refunder, resetSeen, fee, tokenNet>>

\* The upstream answered (or the client left a stream that already delivered data,
\* which billClientGoneStream settles), or it failed: the next auto group, or an
\* error, possibly one that carries a violation fee.
Upstream(r) ==
  /\ pc[r] = "upstream"
  /\ \/ \E a \in Actuals : arg' = [arg EXCEPT ![r] = a] /\ Goto(r, "settle") /\ UNCHANGED streamed
     \/ /\ attempts[r] < MaxAttempts
        /\ Goto(r, IF plan[r] = Unbilled THEN "free" ELSE "ready")
        /\ \E opened \in {TRUE, streamed[r]} : streamed' = [streamed EXCEPT ![r] = opened]
        /\ UNCHANGED arg
     \/ \E v \in {0, ViolationFee} : Fail(r, v) /\ UNCHANGED streamed
  /\ UNCHANGED <<rows, req, tokenQuota, plan, sess, attempts, seen, refunder, resetSeen, fee, faults, history>>

\* A panic in an adaptor unwinds Relay with newAPIError = nil: no Settle, no Refund.
Panic(r) ==
  /\ pc[r] = "upstream" /\ Fault /\ Logged(r) /\ Goto(r, "done")
  /\ UNCHANGED <<rows, req, tokenQuota, plan, arg, sess, attempts, streamed, seen, refunder, resetSeen, fee,
                 walletNet, tokenNet, subNet>>

\* Settle(arg), the funding source.  A subscription refuses a delta beyond its total.
SettleFunding(r) ==
  LET applied == ApplySubscriptionBillingDiscount(Delta(r))
      sub     == sess[r].subscriptionId
  IN
  /\ pc[r] = "settle"
  /\ \/ /\ Delta(r) = 0
        /\ sess' = [sess EXCEPT ![r] = Settled(@)] /\ Goto(r, "done")
        /\ UNCHANGED <<quota, walletNet, subRows, subNet, faults, clean>>
     \/ /\ Delta(r) # 0
        /\ \/ /\ sess[r].source = "wallet" /\ DecreaseUserQuota(r, Delta(r))
              /\ UNCHANGED <<subRows, subNet>>
           \/ /\ sess[r].source = "subscription"
              /\ \E c \in seen[r] : DeltaFits(c, sub, applied) /\ PostConsumeDelta(r, sub, applied, c)
              /\ UNCHANGED <<quota, walletNet>>
        /\ sess' = [sess EXCEPT ![r] = FundingSettled(@)] /\ Goto(r, "settleTok")
        /\ UNCHANGED <<faults, clean>>
     \/ /\ Delta(r) # 0
        /\ \/ /\ sess[r].source = "subscription"
              /\ \E c \in seen[r] : ~ DeltaFits(c, sub, applied)
              /\ UNCHANGED faults
           \/ Fault
        /\ Logged(r) /\ Goto(r, "done")
        /\ UNCHANGED <<quota, walletNet, subRows, subNet, sess>>
  /\ TxEnds(r)
  /\ UNCHANGED <<remain, periods, record, req, tokenQuota, plan, arg, attempts, streamed,
                 refunder, resetSeen, fee, tokenNet>>

\* Settle, the token; a failure is logged and the session is settled all the same.
SettleToken(r) ==
  /\ pc[r] = "settleTok"
  /\ \/ /\ ~ req[r].playground /\ DecreaseTokenQuota(r, Delta(r)) /\ UNCHANGED <<faults, clean>>
     \/ /\ ~ req[r].playground /\ Fault /\ Logged(r) /\ UNCHANGED <<remain, tokenNet>>
     \/ /\ req[r].playground /\ UNCHANGED <<remain, tokenNet, faults, clean>>
  /\ sess' = [sess EXCEPT ![r] = Settled(@)] /\ Goto(r, "done")
  /\ UNCHANGED <<quota, subRows, periods, record, req, tokenQuota, plan,
                 arg, attempts, streamed, seen, refunder, resetSeen, fee, walletNet, subNet>>

-----------------------------------------------------------------------------
(***************************************************************************)
(* Refund, its goroutine, and the violation fee                            *)
(***************************************************************************)

\* Mutant: a session that holds only wallet and token quota is not refunded.
NeedsRefundSubscriptionOnly(s) ==
  /\ ~ s.settled /\ ~ s.refunded /\ ~ s.fundingSettled
  /\ s.source = "subscription" /\ s.consumed > 0

NeedsRefund(s) ==
  /\ ~ s.settled /\ ~ s.refunded /\ ~ s.fundingSettled
  /\ s.tokenConsumed > 0 \/ (s.source = "subscription" /\ s.consumed > 0)

\* Refund starts the refund goroutine and returns; Relay then charges the fee.
Refund(r) ==
  /\ pc[r] = "refund"
  /\ IF NeedsRefund(sess[r])
       THEN /\ sess' = [sess EXCEPT ![r] = Refunded(@)]
            /\ bg' = [bg EXCEPT ![r] = "funding"]
       ELSE UNCHANGED <<sess, bg>>
  /\ Goto(r, IF arg[r] > 0 THEN "fee" ELSE "done")
  /\ UNCHANGED <<rows, req, tokenQuota, plan, arg, attempts, streamed, seen, bgTry, bgSeen,
                 resetSeen, fee, faults, history>>

BgGoto(r, l) == bg' = [bg EXCEPT ![r] = l]

\* WalletFunding.Refund is tried once: adding to a balance is not idempotent.
RefundWallet(r) ==
  /\ bg[r] = "funding" /\ sess[r].source = "wallet"
  /\ \/ DecreaseUserQuota(r, -sess[r].consumed) /\ UNCHANGED <<faults, clean>>
     \/ sess[r].consumed > 0 /\ Fault /\ Logged(r) /\ UNCHANGED <<quota, walletNet>>
  /\ BgGoto(r, "extra")
  /\ UNCHANGED <<remain, subRows, periods, record, control, bgTry, bgSeen, resetSeen, fee,
                 tokenNet, subNet>>

\* Mutant: the record's status is not looked at.
RefundSubscriptionAgain(r) ==
  IF record[r].status # "none"
    THEN /\ PostConsumeDelta(r, record[r].sub, -record[r].amount, Copy)
         /\ record' = [record EXCEPT ![r].status = "refunded"]
    ELSE UNCHANGED <<subRows, subNet, record>>

\* RefundSubscriptionPreConsume: a refunded record is left alone.  (The record, too, is read
\* unlocked, but only this request's refund goroutine ever changes it.)
RefundSubscriptionPreConsume(r) ==
  IF record[r].status = "consumed"
    THEN /\ \E c \in bgSeen[r] : PostConsumeDelta(r, record[r].sub, -record[r].amount, c)
         /\ record' = [record EXCEPT ![r].status = "refunded"]
    ELSE UNCHANGED <<subRows, subNet, record>>

\* SubscriptionFunding.Refund under refundWithRetry: up to three attempts; an
\* attempt may fail before its transaction commits, or its commit may succeed and
\* the answer be lost.
RefundSubscription(r) ==
  /\ bg[r] = "funding" /\ sess[r].source = "subscription"
  /\ \/ /\ RefundSubscriptionPreConsume(r)
        /\ BgGoto(r, "extra") /\ UNCHANGED <<bgTry, faults, clean>>
     \/ /\ Fault
        /\ \/ UNCHANGED <<subRows, subNet, record>>
           \/ RefundSubscriptionPreConsume(r)
        /\ bgTry' = [bgTry EXCEPT ![r] = @ + 1]
        /\ IF bgTry[r] + 1 < 3 THEN UNCHANGED <<bg, clean>>
                               ELSE BgGoto(r, "extra") /\ Logged(r)
  /\ BgTxEnds(r)
  /\ UNCHANGED <<quota, remain, periods, control, resetSeen, fee, walletNet, tokenNet>>

\* Mutant: everything pre-consumed is returned on top of the record.
ExtraIsEverything(r) == sess[r].preConsumedQuota

\* The quota added by Reserve is not in the record: it is returned separately.
ExtraReserved(r) == sess[r].extraReserved

ExtraOwed(r) == sess[r].source = "subscription" /\ ExtraReserved(r) > 0

RefundExtra(r) ==
  /\ bg[r] = "extra"
  /\ \/ /\ ExtraOwed(r)
        /\ \E c \in bgSeen[r] :
             PostConsumeDelta(r, sess[r].subscriptionId,
                              ApplySubscriptionBillingDiscount(-ExtraReserved(r)), c)
        /\ UNCHANGED <<faults, clean>>
     \/ ExtraOwed(r) /\ Fault /\ Logged(r) /\ UNCHANGED <<subRows, subNet>>
     \/ ~ ExtraOwed(r) /\ UNCHANGED <<subRows, subNet, faults, clean>>
  /\ BgGoto(r, "token") /\ BgTxEnds(r)
  /\ UNCHANGED <<quota, remain, periods, record, control, bgTry, resetSeen, fee,
                 walletNet, tokenNet>>

\* The refund goroutine's transaction reads the row it will save.
RefundRead(r) ==
  /\ \/ bg[r] = "funding" /\ sess[r].source = "subscription" /\ record[r].status = "consumed"
     \/ bg[r] = "extra" /\ ExtraOwed(r)
  /\ bgSeen[r] = {} /\ bgSeen' = [bgSeen EXCEPT ![r] = {Copy}]
  /\ UNCHANGED <<rows, control, bg, bgTry, resetSeen, fee, faults, history>>

RefundToken(r) ==
  LET owed == sess[r].tokenConsumed > 0 /\ ~ req[r].playground IN
  /\ bg[r] = "token"
  /\ \/ owed /\ DecreaseTokenQuota(r, -sess[r].tokenConsumed) /\ UNCHANGED <<faults, clean>>
     \/ owed /\ Fault /\ Logged(r) /\ UNCHANGED <<remain, tokenNet>>
     \/ ~ owed /\ UNCHANGED <<remain, tokenNet, faults, clean>>
  /\ BgGoto(r, "end")
  /\ UNCHANGED <<quota, subRows, periods, record, control, bgTry, bgSeen, resetSeen, fee,
                 walletNet, subNet>>

\* ChargeViolationFeeIfNeeded -> PostConsumeQuota, the funding source.  A fee the
\* subscription cannot hold (or a database error) is logged and not charged.
ChargeFee(r) ==
  LET applied == ApplySubscriptionBillingDiscount(arg[r])
      sub     == sess[r].subscriptionId
  IN
  /\ pc[r] = "fee"
  /\ \/ /\ \/ /\ sess[r].source = "wallet" /\ DecreaseUserQuota(r, arg[r])
              /\ UNCHANGED <<subRows, subNet>>
           \/ /\ sess[r].source = "subscription"
              /\ \E c \in seen[r] : DeltaFits(c, sub, applied) /\ PostConsumeDelta(r, sub, applied, c)
              /\ UNCHANGED <<quota, walletNet>>
        /\ fee' = [fee EXCEPT ![r] = arg[r]] /\ Goto(r, "feeTok") /\ UNCHANGED faults
     \/ /\ \/ /\ sess[r].source = "subscription"
              /\ \E c \in seen[r] : ~ DeltaFits(c, sub, applied)
              /\ UNCHANGED faults
           \/ Fault
        /\ Goto(r, "done") /\ UNCHANGED <<quota, walletNet, subRows, subNet, fee>>
  /\ TxEnds(r)
  /\ UNCHANGED <<remain, periods, record, req, tokenQuota, plan, arg, sess,
                 attempts, streamed, refunder, resetSeen, tokenNet, clean>>

ChargeFeeToken(r) ==
  /\ pc[r] = "feeTok"
  /\ \/ ~ req[r].playground /\ DecreaseTokenQuota(r, arg[r]) /\ UNCHANGED <<faults, clean>>
     \/ ~ req[r].playground /\ Fault /\ Logged(r) /\ UNCHANGED <<remain, tokenNet>>
     \/ req[r].playground /\ UNCHANGED <<remain, tokenNet, faults, clean>>
  /\ Goto(r, "done")
  /\ UNCHANGED <<quota, subRows, periods, record, req, tokenQuota, plan,
                 arg, sess, attempts, streamed, seen, refunder, resetSeen, fee, walletNet, subNet>>

-----------------------------------------------------------------------------
(***************************************************************************)
(* The subscription tasks                                                  *)
(***************************************************************************)

\* Time passes next_reset_time of a subscription whose plan has a reset period.
PeriodEnds(s) ==
  /\ periods[s] < MaxPeriods
  /\ periods' = [periods EXCEPT ![s] = @ + 1]
  /\ UNCHANGED <<quota, remain, subRows, record, control, refunder, resetSeen, fee, faults, history>>

\* ResetDueSubscriptions reads a due row in the transaction of that row ...
ResetRead(s) ==
  /\ subActive[s] /\ IsDue(Copy, s) /\ resetSeen[s] = {}
  /\ resetSeen' = [resetSeen EXCEPT ![s] = {Copy}]
  /\ UNCHANGED <<rows, control, refunder, fee, faults, history>>

\* ... and maybeResetUserSubscriptionWithPlanTx saves it.
ResetDueSubscription(s) ==
  /\ \E c \in resetSeen[s] :
       SaveRows(c, {s}, [c.used EXCEPT ![s] = 0], [c.reset EXCEPT ![s] = c.now[s]])
  /\ resetSeen' = [resetSeen EXCEPT ![s] = {}]
  /\ UNCHANGED <<quota, remain, periods, record, control, refunder, fee, faults, history>>

\* The subscription expires, is cancelled or is invalidated; its row stays.
Deactivate(s) ==
  /\ s \in Expiring /\ subActive[s]
  /\ subActive' = [subActive EXCEPT ![s] = FALSE]
  /\ UNCHANGED <<quota, remain, amountUsed, lastReset, lost, periods, record, control, refunder,
                 resetSeen, fee, faults, history>>

-----------------------------------------------------------------------------
\* The request goroutine is at a transaction on subscription rows.
AtTransaction(r) ==
  /\ sess[r].source = "subscription"
  /\ \/ pc[r] \in {"fund", "rUndo", "fee"}
     \/ pc[r] = "settle" /\ Delta(r) # 0
     \/ /\ pc[r] = "ready" /\ attempts[r] < MaxAttempts
        /\ \E target \in Targets : ReserveNeeded(r, target)

\* The transaction reads the rows it will look at and save: PreConsumeUserSubscription all
\* candidates, postConsumeUserSubscriptionDeltaTx the session's.
ReadRows(r) ==
  /\ AtTransaction(r) /\ seen[r] = {}
  /\ seen' = [seen EXCEPT ![r] = {Copy}]
  /\ UNCHANGED <<rows, pc, req, tokenQuota, plan, arg, sess, attempts, streamed, refunder,
                 resetSeen, fee, faults, history>>

\* The upstream's part of a request: how long it takes is not in Relay's hands.
UpstreamStep(r) == Upstream(r) \/ Panic(r)

RequestStep(r) ==
  \/ Begin(r) \/ TryWallet(r) \/ TrySubscription(r) \/ CheckToken(r) \/ TakeToken(r)
  \/ FundWallet(r) \/ FundSubscription(r) \/ UndoToken(r) \/ ReadRows(r)
  \/ NoChannel(r) \/ RefreshUnbilled(r)
  \/ Reserve(r) \/ ReserveCheckToken(r) \/ ReserveTakeToken(r) \/ ReserveUndo(r)
  \/ SettleFunding(r) \/ SettleToken(r)
  \/ Refund(r) \/ ChargeFee(r) \/ ChargeFeeToken(r)

RefundStep(r) ==
  RefundWallet(r) \/ RefundRead(r) \/ RefundSubscription(r) \/ RefundExtra(r) \/ RefundToken(r)

SubscriptionStep(s) == PeriodEnds(s) \/ ResetRead(s) \/ ResetDueSubscription(s) \/ Deactivate(s)

\* Request r is over: its goroutine and its refund goroutine have ended.
Over(r) == pc[r] = "done" /\ bg[r] \in {"none", "end"}

Finished == (\A r \in Requests : Over(r)) /\ UNCHANGED vars

Next ==
  \/ \E r \in Requests : RequestStep(r) \/ UpstreamStep(r) \/ RefundStep(r)
  \/ \E s \in Subs : SubscriptionStep(s)
  \/ Finished

Spec == Init /\ [][Next]_vars

\* The Go scheduler runs every runnable goroutine and every database call returns.  Nothing
\* is assumed of the upstream: RELAY_TIMEOUT is unlimited unless it is set.
Fairness == \A r \in Requests : WF_vars(RequestStep(r)) /\ WF_vars(RefundStep(r))

FairSpec == Spec /\ Fairness
-----------------------------------------------------------------------------
(***************************************************************************)
(* Properties                                                              *)
(***************************************************************************)

TypeOK ==
  /\ quota \in Int /\ remain \in Int
  /\ amountUsed \in [Subs -> Nat] /\ subActive \in [Subs -> BOOLEAN]
  /\ lastReset \in [Subs -> Nat] /\ periods \in [Subs -> Nat] /\ lost \in [Subs -> BOOLEAN]
  /\ record \in [Requests -> RecordType]
  /\ pc \in [Requests -> PCs] /\ req \in [Requests -> ProfileType]
  /\ tokenQuota \in [Requests -> Int]
  /\ plan \in [Requests -> PlanType]
  /\ arg \in [Requests -> Nat] /\ sess \in [Requests -> SessionType]
  /\ attempts \in [Requests -> Nat] /\ streamed \in [Requests -> BOOLEAN]
  /\ seen \in [Requests -> SUBSET CopyType] /\ bgSeen \in [Requests -> SUBSET CopyType]
  /\ resetSeen \in [Subs -> SUBSET CopyType]
  /\ bg \in [Requests -> BGs] /\ bgTry \in [Requests -> Nat]
  /\ fee \in [Requests -> Nat] /\ faults \in Nat
  /\ walletNet \in [Requests -> Int] /\ tokenNet \in [Requests -> Int]
  /\ subNet \in [Requests -> Int] /\ clean \in [Requests -> BOOLEAN]

From(r, source, n) == IF sess[r].source = source THEN n ELSE 0

\* What a finished request must have cost: the actual consumption if it was
\* settled, otherwise nothing but the violation fee.
Owed(r) == IF sess[r].settled THEN arg[r] ELSE fee[r]

\* Every pre-consumption, Reserve and settlement of a discounted subscription is rounded
\* on its own: by one unit for each attempt and one for the settlement.
Rounding(r) == IF DiscountPct < 100 /\ sess[r].source = "subscription" THEN attempts[r] + 1 ELSE 0

Within(m, n, slack) == m - n <= slack /\ n - m <= slack

NetIs(r, n) ==
  /\ walletNet[r] = From(r, "wallet", n)
  /\ tokenNet[r] = IF req[r].playground THEN 0 ELSE n
  /\ Within(subNet[r], From(r, "subscription", ApplySubscriptionBillingDiscount(n)), Rounding(r))

\* A request that is over and met no merely logged error has cost its funding
\* source and its token exactly what it owes (a discounted subscription what it owes,
\* discounted, up to the rounding of the pieces), whatever source NewBillingSession
\* fell back to, however often Reserve raised the pre-consumption, and whatever
\* order Settle, Refund, its goroutine and the other requests ran in.
BilledExactly == \A r \in Requests : Over(r) /\ clean[r] => NetIs(r, Owed(r))

\* While the upstream works for a request, exactly the session's preConsumedQuota is
\* held from both the funding source (from a subscription discounted, in rounded pieces)
\* and the token, and it covers the estimate unless the trust bypass applied (preConsume
\* and Reserve move both together).
HeldWhileUpstream ==
  \A r \in Requests : pc[r] = "upstream" /\ clean[r] =>
    /\ NetIs(r, sess[r].preConsumedQuota)
    /\ sess[r].trusted \/ sess[r].preConsumedQuota >= req[r].pre

\* No error path, retry of RefundSubscriptionPreConsume or rollback ever gives back
\* more than the request took (from a discounted subscription, more than the rounding of
\* its pieces), even when errors were only logged.
NeverCredited ==
  \A r \in Requests :
    walletNet[r] >= 0 /\ tokenNet[r] >= 0 /\ subNet[r] >= -Rounding(r)

\* The units of subscription s that requests have taken and not given back.
UnitsTaken(s) == UNION {{r} \X (1..subNet[r]) : r \in {q \in Requests : record[q].sub = s}}

\* Pre-consumption, Reserve, Settle and fees never push a limited subscription past
\* its total (PreConsumeUserSubscription and postConsumeUserSubscriptionDeltaTx): its row never
\* says so, whatever is saved over what, and in a first period without such an overwrite
\* the requests do not hold more together either.
WithinTotal ==
  \A s \in Subs : AmountTotal[s] > 0 =>
    /\ amountUsed[s] <= AmountTotal[s]
    /\ DiscountPct = 100 /\ periods[s] = 0 /\ ~ lost[s] => Cardinality(UnitsTaken(s)) <= AmountTotal[s]

\* Until a quota period ends, or a transaction saves a row over an amount_used that it did
\* not read, amount_used of a subscription counts exactly what its requests took: the clamp
\* at zero in postConsumeUserSubscriptionDeltaTx never swallows what another request
\* consumed.  (A discounted refund may return more than was taken.)
NoClampLoss ==
  DiscountPct = 100 =>
    \A s \in Subs : periods[s] = 0 /\ ~ lost[s] => amountUsed[s] = Cardinality(UnitsTaken(s))

\* Every request ends and its refund goroutine, if Refund started one, finishes, unless its
\* upstream never answers: no fallback, retry, rollback or refund keeps it going by itself.
EventuallyOver == \A r \in Requests : <>Over(r) \/ <>[](pc[r] = "upstream")

-----------------------------------------------------------------------------
(***************************************************************************)
(* The inductive invariant behind BilledExactly and NeverCredited          *)
(***************************************************************************)

Building  == {"token", "tokenDec", "fund", "undo"}
Reserving == {"rToken", "rTokenDec", "rUndo"}
Ending    == {"fee", "feeTok", "done"}
Live      == PCs \ ({"idle", "try", "done"} \cup Building)

\* What the wallet, the token and the subscription hold for r, told from the state of
\* its session, of its pre-consume record and of its two goroutines alone.
WalletHeld(r) ==
  CASE sess[r].source # "wallet" -> 0
    [] sess[r].source = "wallet" /\ (sess[r].settled \/ sess[r].fundingSettled) -> arg[r]
    [] OTHER -> (IF bg[r] \in {"none", "funding"} THEN sess[r].consumed ELSE 0) + fee[r]

TokenFloor(r) ==
  IF req[r].playground \/ sess[r].settled \/ bg[r] = "end" THEN 0 ELSE sess[r].tokenConsumed

TokenHeld(r) ==
  CASE req[r].playground -> 0
    [] ~ req[r].playground /\ sess[r].settled -> arg[r]
    [] OTHER -> TokenFloor(r) + (IF pc[r] = "feeTok" THEN 0 ELSE fee[r])

SubHeld(r) ==
  CASE sess[r].source # "subscription" -> 0
    [] sess[r].source = "subscription" /\ (sess[r].settled \/ sess[r].fundingSettled) -> arg[r]
    [] OTHER -> (IF record[r].status = "consumed" THEN record[r].amount ELSE 0)
                + (IF bg[r] \in {"token", "end"} THEN 0 ELSE sess[r].extraReserved)
                + (IF pc[r] \in Reserving THEN Delta(r) ELSE 0)
                + fee[r]

\* The rows hold that much; when an error was merely logged they hold at least what
\* is still to be given back.
WalletAccounted(r) ==
  walletNet[r] >= WalletHeld(r) /\ (clean[r] => walletNet[r] = WalletHeld(r))

TokenAccounted(r) ==
  tokenNet[r] >= TokenFloor(r) /\ (clean[r] => tokenNet[r] = TokenHeld(r))

SubAccounted(r) ==
  DiscountPct = 100 =>
    subNet[r] >= SubHeld(r) /\ (clean[r] => subNet[r] = SubHeld(r))

Accounted(r) == WalletAccounted(r) /\ TokenAccounted(r) /\ SubAccounted(r)

\* Before its funding source is charged a session holds token quota only.
BuildingInv(r) ==
  /\ pc[r] \in {"idle", "try"} => sess[r] = NoSession
  /\ pc[r] = "done" /\ sess[r].source = "none" => sess[r] = NoSession
  /\ pc[r] \in Building =>
       /\ sess[r].source # "none" /\ sess[r].consumed = 0 /\ sess[r].extraReserved = 0
       /\ sess[r].preConsumedQuota = 0 /\ ~ sess[r].settled /\ ~ sess[r].fundingSettled
       /\ sess[r].tokenConsumed = IF pc[r] \in {"token", "tokenDec"} THEN 0 ELSE arg[r]
       /\ sess[r].source = "subscription" => arg[r] >= 1 /\ ~ sess[r].trusted
       /\ sess[r].trusted \/ arg[r] >= req[r].pre
  /\ pc[r] \in {"idle", "try"} \cup Building => record[r].status = "none"
  /\ sess[r].source = "none" => record[r].status = "none" /\ fee[r] = 0

\* A request without a session holds nothing.
UnbilledInv(r) ==
  /\ plan[r] = Unbilled \/ plan[r].now # "none"
  /\ pc[r] \in {"idle", "free"} => plan[r] = Unbilled
  /\ pc[r] \in {"try", "ready"} \cup Building \cup Reserving => plan[r] # Unbilled
  /\ pc[r] \in {"free", "upstream"} /\ plan[r] = Unbilled => sess[r] = NoBilling /\ req[r].pre = 0

\* Funding source and token always hold the same pre-consumption.
SessionInv(r) ==
  /\ sess[r].preConsumedQuota >= 0 /\ sess[r].extraReserved >= 0
  /\ sess[r].tokenConsumed >= 0 /\ sess[r].consumed >= 0
  /\ pc[r] \in Live => sess[r].source # "none"
  /\ pc[r] \in Live \cup {"done"} => sess[r].tokenConsumed = sess[r].preConsumedQuota
  /\ pc[r] \in Live => sess[r].trusted \/ sess[r].preConsumedQuota >= req[r].pre
  /\ pc[r] \in Live /\ sess[r].source = "wallet" =>
       /\ sess[r].consumed >= sess[r].preConsumedQuota
       /\ clean[r] \/ pc[r] \notin {"refund", "fee", "feeTok", "settle", "settleTok"} =>
            sess[r].consumed = IF pc[r] \in Reserving THEN arg[r] ELSE sess[r].preConsumedQuota
  /\ pc[r] \in Live \cup {"done"} /\ sess[r].source = "subscription" =>
       /\ record[r].status # "none" /\ record[r].sub \in Subs /\ record[r].amount >= 1
       /\ sess[r].subscriptionId = record[r].sub /\ sess[r].consumed = record[r].amount
       /\ bg[r] = "none" => record[r].status = "consumed"
       /\ DiscountPct = 100 =>
            sess[r].preConsumedQuota = record[r].amount + sess[r].extraReserved
  /\ sess[r].source = "wallet" => record[r].status = "none"
  /\ pc[r] \in Reserving => arg[r] > sess[r].preConsumedQuota
  /\ pc[r] \in {"tokenDec", "rTokenDec"} => ~ req[r].playground
  /\ pc[r] = "settleTok" => sess[r].fundingSettled
  /\ sess[r].fundingSettled => pc[r] = "settleTok" \/ sess[r].settled
  /\ sess[r].settled => pc[r] = "done" /\ fee[r] = 0
  /\ fee[r] > 0 => pc[r] \in {"feeTok", "done"}
  /\ pc[r] = "feeTok" => fee[r] = arg[r]

\* The refund goroutine runs only for an unsettled session and works it off.
RefundInv(r) ==
  /\ sess[r].refunded <=> bg[r] # "none"
  /\ bg[r] # "none" => pc[r] \in Ending /\ ~ sess[r].settled /\ ~ sess[r].fundingSettled
  /\ bg[r] \in {"extra", "token", "end"} /\ clean[r] => record[r].status # "consumed"
  /\ pc[r] \in Ending /\ clean[r] /\ bg[r] = "none" /\ sess[r].source # "none"
       => sess[r].settled \/ (sess[r].consumed = 0 /\ sess[r].tokenConsumed = 0
                              /\ sess[r].source = "wallet")

\* The inductive invariant: every row is accounted for by the states of the sessions.
IndInv == \A r \in Requests :
  BuildingInv(r) /\ UnbilledInv(r) /\ SessionInv(r) /\ RefundInv(r) /\ Accounted(r)

-----------------------------------------------------------------------------
(***************************************************************************)
(* The refinement mapping to BillingContract                               *)
(***************************************************************************)

\* How a request ended, and what the rows of its funding source have lost to it.
Outcome(r) == CASE ~ Over(r) -> "open"
                [] Over(r) /\ clean[r] -> "closed"
                [] OTHER -> "unreconciled"

Outcomes == [r \in Requests |-> Outcome(r)]
FundNet  == [r \in Requests |-> walletNet[r] + subNet[r]]

Contract == INSTANCE BillingContract WITH
  Prices <- Actuals \cup {0, ViolationFee}, outcome <- Outcomes, fund <- FundNet, token <- tokenNet

\* BillingSession implements BillingContract: every interleaving of pre-consumption,
\* Reserve, Settle, Refund and its goroutine is a sequence of holds that is closed once.
ImplementsContract == Contract!Spec

=============================================================================
