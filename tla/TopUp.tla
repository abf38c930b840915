------------------------------- MODULE TopUp -------------------------------
(***************************************************************************)
(* Wallet top-up orders: src/model/topup.go, the payment handlers of        *)
(* src/controller/topup*.go, xpay.go and mpay.go, and the services that     *)
(* complete orders (src/service/xpay.go, mpay.go, alipay_direct.go).        *)
(*                                                                          *)
(* An order is one row of the top_ups table.  Gateways deliver a callback   *)
(* any number of times and in any order, pollers and administrators act on  *)
(* the same rows, and each of them must credit the wallet at most once.     *)
(* The handlers protect themselves in two ways: the in-process LockOrder    *)
(* (module OrderLock) and a conditional UPDATE.  Some also ask for a SELECT *)
(* ... FOR UPDATE with Set("gorm:query_option", ...), an option of GORM v1  *)
(* that the GORM v2 of this program does not read: no row lock is taken.    *)
(*                                                                          *)
(* A transaction reads in one step and commits its writes in another: its   *)
(* first write takes the row's write lock until the commit, so the writes   *)
(* are one step, and the default isolation levels of MySQL and PostgreSQL   *)
(* let the row change between the read and the first write.                 *)
(***************************************************************************)
EXTENDS OrderLock

CONSTANTS
    Providers,  \* the payment providers that are configured
    Trades,     \* provider trade numbers of the Alipay notifications
    NoTrade     \* an empty provider_trade_no

(* PaymentProvider of model/topup.go; the other constants of that list are  *)
(* not providers of top-up orders.                                          *)
PaymentProviders ==
    {"stripe", "creem", "waffo", "pancake", "mpay", "epay", "xpay", "alipay"}

ASSUME TopUpAssumption ==
    /\ Providers \subseteq PaymentProviders
    /\ NoTrade \notin Trades

VARIABLES
    rows,       \* the top_ups table: status, payment_provider, provider_trade_no
    credits,    \* how often the quota of an order was added to the wallet
    stranded,   \* history: orders whose credit failed after they were saved as paid
    pc,         \* where a worker is in its handler
    call,       \* its handler, and the trade number of the notification
    local       \* its copy of the row

payVars == <<rows, credits, stranded, pc, call, local>>
vars == <<lockVars, payVars>>

Statuses == {"none", "pending", "success", "failed", "expired"}
Pcs == {"idle", "lock", "read", "write", "credit", "done", "unlock"}
Row == [status : Statuses, provider : PaymentProviders, trade : Trades \cup {NoTrade}]

(* The locals of a worker that runs no handler. *)
NoRow == [status |-> "none", provider |-> "stripe", trade |-> NoTrade]
NoCall == [h |-> "none", o |-> NoOrder, trade |-> NoTrade]
-----------------------------------------------------------------------------
(* The handlers.                                                            *)

(* Webhooks whose model function reads, saves and credits in one            *)
(* transaction: Recharge, RechargeCreem, RechargeWaffo,                     *)
(* RechargeWaffoPancake and ConfirmMPayOrder.                               *)
RechargeProviders == {"stripe", "creem", "waffo", "pancake", "mpay"}

(* Orders inserted before the gateway is asked for a payment page, and      *)
(* saved again when it refuses.                                             *)
CreatedFirst == {"waffo", "pancake", "mpay", "xpay"}

(* What can be called for an order of provider p.  ManualCompleteTopUp      *)
(* serves every provider; "confirm" is ConfirmXPayOrder as the poller, the  *)
(* payment listener and XPayConfirmOrder call it, without LockOrder.        *)
Handlers(p) ==
    {"manual"}
    \cup (IF p \in RechargeProviders THEN {"recharge"} ELSE {})
    \cup (CASE p = "stripe" -> {"asyncFailed", "sessionExpired"}
            [] p = "waffo" -> {"waffoFailed"}
            [] p = "epay" -> {"notify"}
            [] p = "xpay" -> {"callback", "confirm", "pollExpire"}
            [] p = "alipay" -> {"complete", "closed"}
            [] OTHER -> {})

AllHandlers ==
    {"manual", "recharge", "asyncFailed", "sessionExpired", "waffoFailed", "notify",
     "callback", "confirm", "pollExpire", "complete", "closed", "create"}

(* Mutant: AdminCompleteTopUp without LockOrder. *)
LockingNotManual == {"recharge", "asyncFailed", "sessionExpired", "notify", "callback"}
(* Handlers that hold LockOrder(tradeNo) while they run. *)
Locking == {"manual", "recharge", "asyncFailed", "sessionExpired", "notify", "callback"}
(* Handlers whose one transaction reads the row, asking in vain for FOR     *)
(* UPDATE, and then saves its copy with the credit.                         *)
ForUpdate == {"manual", "recharge"}
(* Handlers that save the order and then credit it, in two statements. *)
Split == {"notify", "callback", "confirm"}
(* Handlers that write the status with one conditional UPDATE, unread. *)
CasOnly == {"sessionExpired", "waffoFailed"}

(* The status that a handler gives an order which is not paid. *)
MarkStatus(h) == IF h \in {"asyncFailed", "waffoFailed", "create"} THEN "failed" ELSE "expired"
-----------------------------------------------------------------------------
Init ==
    /\ LockInit
    /\ rows \in [Orders -> {r \in Row : r.status = "none" /\ r.provider \in Providers
                                        /\ r.trade = NoTrade}]
    /\ credits = [o \in Orders |-> 0] /\ stranded = {}
    /\ pc = [w \in Workers |-> "idle"]
    /\ call = [w \in Workers |-> NoCall]
    /\ local = [w \in Workers |-> NoRow]

(* End of the database work: the copy of the row goes out of scope. *)
Leave(w) ==
    /\ pc' = [pc EXCEPT ![w] = "done"]
    /\ local' = [local EXCEPT ![w] = NoRow]

(* A payment request inserts a pending order.  For the CreatedFirst         *)
(* providers the request then waits for the gateway, holding its own copy.  *)
Create(w, o) ==
    LET r == [rows[o] EXCEPT !.status = "pending"]
        waits == r.provider \in CreatedFirst
    IN
    /\ pc[w] = "idle"
    /\ rows[o].status = "none"
    /\ rows' = [rows EXCEPT ![o] = r]
    /\ local' = [local EXCEPT ![w] = IF waits THEN r ELSE NoRow]
    /\ call' = [call EXCEPT ![w] = [h |-> "create", o |-> o, trade |-> NoTrade]]
    /\ pc' = [pc EXCEPT ![w] = IF waits THEN "write" ELSE "done"]
    /\ UNCHANGED <<lockVars, stranded, credits>>

(* A callback, a poll or an administrator's call starts.  A handler that    *)
(* does not lock goes straight to the database.                             *)
Deliver(w, h, o, t) ==
    /\ pc[w] = "idle"
    /\ rows[o].status # "none"
    /\ h \in Handlers(rows[o].provider)
    /\ t \in Trades <=> h = "complete"
    /\ call' = [call EXCEPT ![w] = [h |-> h, o |-> o, trade |-> t]]
    /\ IF h \in Locking THEN LockOrder(w, o) ELSE UNCHANGED lockVars
    /\ pc' = [pc EXCEPT ![w] = IF h \in Locking THEN "lock"
                               ELSE IF h \in CasOnly THEN "write" ELSE "read"]
    /\ UNCHANGED <<stranded, rows, credits, local>>

(* LockOrder returns. *)
Locked(w) ==
    /\ pc[w] = "lock"
    /\ LockMutex(w)
    /\ pc' = [pc EXCEPT ![w] = IF call[w].h \in CasOnly THEN "write" ELSE "read"]
    /\ UNCHANGED <<stranded, rows, credits, call, local>>

(* The handler loads the order.  An order that is not pending ends it: as   *)
(* an error, or as the idempotent answer for a paid one.                    *)
Read(w) ==
    LET o == call[w].o
        goOn == rows[o].status = "pending"
    IN
    /\ pc[w] = "read"
    /\ local' = [local EXCEPT ![w] = IF goOn THEN rows[o] ELSE NoRow]
    /\ pc' = [pc EXCEPT ![w] = IF goOn THEN "write" ELSE "done"]
    /\ UNCHANGED <<lockVars, stranded, rows, credits, call>>

(* Save of the whole copy with the new status, and the credit, committed    *)
(* together.                                                                *)
Commit(w) ==
    LET o == call[w].o IN
    /\ pc[w] = "write" /\ call[w].h \in ForUpdate
    /\ rows' = [rows EXCEPT ![o] = [local[w] EXCEPT !.status = "success"]]
    /\ credits' = [credits EXCEPT ![o] = @ + 1]
    /\ Leave(w)
    /\ UNCHANGED <<lockVars, stranded, call>>

(* Mutant: RowsAffected is not looked at. *)
CommitPendingAnyway(w) ==
    LET o == call[w].o IN
    /\ pc[w] = "write" /\ call[w].h = "complete"
    /\ rows' = IF rows[o].status # "pending" THEN rows ELSE [rows EXCEPT ![o] =
                   [@ EXCEPT !.status = "success", !.trade = call[w].trade]]
    /\ credits' = [credits EXCEPT ![o] = @ + 1]
    /\ Leave(w)
    /\ UNCHANGED <<lockVars, stranded, call>>

(* Mutant: the UPDATE is repeated until it changes the row. *)
CommitPendingRetries(w) ==
    LET o == call[w].o IN
    /\ pc[w] = "write" /\ call[w].h = "complete"
    /\ rows[o].status = "pending"
    /\ rows' = [rows EXCEPT ![o].status = "success", ![o].trade = call[w].trade]
    /\ credits' = [credits EXCEPT ![o] = @ + 1]
    /\ Leave(w)
    /\ UNCHANGED <<lockVars, stranded, call>>

(* Mutant: UPDATE by the trade number of the order alone. *)
CommitUnconditional(w) ==
    LET o == call[w].o IN
    /\ pc[w] = "write" /\ call[w].h = "complete"
    /\ rows' = [rows EXCEPT ![o].status = "success", ![o].trade = call[w].trade]
    /\ credits' = [credits EXCEPT ![o] = IF rows[o].status = "pending" THEN @ + 1 ELSE @]
    /\ Leave(w)
    /\ UNCHANGED <<lockVars, stranded, call>>

(* CompleteAlipayDirectTopUp: UPDATE ... WHERE status = 'pending', and the  *)
(* credit only if it changed the row.  Otherwise the transaction rolls      *)
(* back and the handler answers from a fresh read.                          *)
CommitPending(w) ==
    LET o == call[w].o
        won == rows[o].status = "pending"
    IN
    /\ pc[w] = "write" /\ call[w].h = "complete"
    /\ rows' = IF won THEN [rows EXCEPT ![o] =
                   [@ EXCEPT !.status = "success", !.trade = call[w].trade]] ELSE rows
    /\ credits' = [credits EXCEPT ![o] = IF won THEN @ + 1 ELSE @]
    /\ Leave(w)
    /\ UNCHANGED <<lockVars, stranded, call>>

(* EpayNotify and ConfirmXPayOrder save the copy as paid first. *)
Save(w) ==
    /\ pc[w] = "write" /\ call[w].h \in Split
    /\ rows' = [rows EXCEPT ![call[w].o] = [local[w] EXCEPT !.status = "success"]]
    /\ pc' = [pc EXCEPT ![w] = "credit"]
    /\ UNCHANGED <<lockVars, stranded, credits, call, local>>

(* ... and add the quota with IncreaseUserQuota after that. *)
Credit(w) ==
    /\ pc[w] = "credit"
    /\ credits' = [credits EXCEPT ![call[w].o] = @ + 1]
    /\ Leave(w)
    /\ UNCHANGED <<lockVars, stranded, rows, call>>

(* An unpaid order is saved as failed or expired: sessionAsyncPaymentFailed,*)
(* the XPay poller, and a payment request whose gateway call failed.        *)
Mark(w) ==
    /\ pc[w] = "write" /\ call[w].h \in {"asyncFailed", "pollExpire", "create"}
    /\ rows' = [rows EXCEPT ![call[w].o] = [local[w] EXCEPT !.status = MarkStatus(call[w].h)]]
    /\ Leave(w)
    /\ UNCHANGED <<lockVars, stranded, credits, call>>

(* CreateXPayOrder saves its copy again when the gateway renamed the order; *)
(* the new trade number is the same member of Orders here.                  *)
Rename(w) ==
    /\ pc[w] = "write" /\ call[w].h = "create" /\ local[w].provider = "xpay"
    /\ rows' = [rows EXCEPT ![call[w].o] = local[w]]
    /\ Leave(w)
    /\ UNCHANGED <<lockVars, stranded, credits, call>>

(* Mutant: UPDATE without the condition on the status. *)
MarkAnyStatus(w) ==
    /\ pc[w] = "write" /\ call[w].h \in CasOnly \cup {"closed"}
    /\ rows' = [rows EXCEPT ![call[w].o].status = MarkStatus(call[w].h)]
    /\ Leave(w)
    /\ UNCHANGED <<lockVars, stranded, credits, call>>

(* UpdatePendingTopUpStatus: one conditional UPDATE. *)
MarkPending(w) ==
    LET o == call[w].o IN
    /\ pc[w] = "write" /\ call[w].h \in CasOnly \cup {"closed"}
    /\ rows' = IF rows[o].status = "pending"
               THEN [rows EXCEPT ![o].status = MarkStatus(call[w].h)] ELSE rows
    /\ Leave(w)
    /\ UNCHANGED <<lockVars, stranded, credits, call>>

(* A database error: a transaction rolls back, a single statement did not   *)
(* happen.  A payment request also ends here when the gateway accepted it   *)
(* and nothing is left to save.                                             *)
Fail(w) ==
    /\ pc[w] \in {"read", "write", "credit"}
    /\ Leave(w)
    /\ stranded' = IF pc[w] = "credit" THEN stranded \cup {call[w].o} ELSE stranded
    /\ UNCHANGED <<lockVars, rows, credits, call>>

(* The handler returns; its deferred UnlockOrder runs in two steps. *)
Return(w) ==
    LET locked == call[w].h \in Locking IN
    /\ pc[w] = "done"
    /\ IF locked THEN UnlockMutex(w) ELSE UNCHANGED lockVars
    /\ pc' = [pc EXCEPT ![w] = IF locked THEN "unlock" ELSE "idle"]
    /\ call' = [call EXCEPT ![w] = NoCall]
    /\ UNCHANGED <<stranded, rows, credits, local>>

Unlocked(w) ==
    /\ pc[w] = "unlock"
    /\ DropReference(w)
    /\ pc' = [pc EXCEPT ![w] = "idle"]
    /\ UNCHANGED <<stranded, rows, credits, call, local>>

(* The steps of a running handler. *)
Progress(w) ==
    \/ Locked(w)
    \/ Read(w)
    \/ Commit(w) \/ CommitPending(w)
    \/ Save(w) \/ Credit(w)
    \/ Mark(w) \/ MarkPending(w) \/ Rename(w)
    \/ Return(w)
    \/ Unlocked(w)

Next ==
    \E w \in Workers :
        \/ \E o \in Orders :
             \/ Create(w, o)
             \/ \E h \in AllHandlers, t \in Trades \cup {NoTrade} : Deliver(w, h, o, t)
        \/ Progress(w)
        \/ Fail(w)

Spec == Init /\ [][Next]_vars

(* Go runs every runnable goroutine, and sync.Mutex hands the lock to a     *)
(* waiter that has waited long enough: strong fairness.  A statement of the *)
(* database ends, with a result or an error.  Errors need not happen.       *)
FairSpec == Spec /\ \A w \in Workers : SF_vars(Progress(w))
-----------------------------------------------------------------------------
TopUpTypeOK ==
    /\ rows \in [Orders -> Row]
    /\ credits \in [Orders -> Nat] /\ stranded \subseteq Orders
    /\ pc \in [Workers -> Pcs]
    /\ call \in [Workers -> [h : AllHandlers \cup {"none"}, o : Orders \cup {NoOrder},
                             trade : Trades \cup {NoTrade}]]
    /\ local \in [Workers -> Row]

TypeOK == LockTypeOK /\ TopUpTypeOK

OneNode == \A v, w \in Workers : node[v] = node[w]

(* The orders that LockOrder protects against two concurrent completions:   *)
(* every completing handler takes it, and there is one process.             *)
LockProtected(o) == OneNode /\ rows[o].provider \in RechargeProviders \cup {"epay"}

(* However often and however concurrently callbacks, pollers and            *)
(* administrators complete a protected order, its quota is added to the     *)
(* wallet at most once.                                                     *)
CreditedOnce == \A o \in Orders : LockProtected(o) => credits[o] <= 1

(* The orders whose status no handler writes from a stale copy. *)
Steady(o) ==
    \/ rows[o].provider \in {"creem", "alipay"}
    \/ rows[o].provider = "stripe" /\ OneNode

(* ... and for these the two agree: the status and the credit are           *)
(* committed together.                                                      *)
SteadyPaid ==
    \A o \in Orders : Steady(o) => (rows[o].status = "success" <=> credits[o] > 0)

(* A worker between the save and the credit of o. *)
CreditUnderWay(o) == \E w \in Workers : pc[w] = "credit" /\ call[w].o = o

(* EPay orders are saved as paid before they are credited, and no handler   *)
(* makes them unpaid.                                                       *)
Final(o) == Steady(o) \/ rows[o].provider = "epay"

(* A steady order is shown as paid exactly if it was credited: no expiry,   *)
(* failure notice or database error comes between the two.  Of the others,  *)
(* an order that is paid and not credited, whatever its provider, is one    *)
(* whose credit is under way or failed by itself after the save, and a      *)
(* credited EPay order is shown as paid.                                    *)
PaidIffCredited ==
    /\ SteadyPaid
    /\ \A o \in Orders :
         /\ rows[o].status = "success" /\ credits[o] = 0 => o \in stranded \/ CreditUnderWay(o)
         /\ Final(o) /\ credits[o] > 0 => rows[o].status = "success"

(* Where a worker is in its handler, its call and its position in LockOrder *)
(* agree.                                                                   *)
CallInv ==
    \A w \in Workers :
        /\ pc[w] \in {"idle", "unlock"} => call[w] = NoCall
        /\ pc[w] = "idle" => lockPc[w] = "out"
        /\ pc[w] = "unlock" => lockPc[w] = "left"
        /\ pc[w] = "lock" => lockPc[w] = "wait" /\ call[w].h \in Locking
        /\ pc[w] \in {"read", "write", "credit", "done"} =>
              lockPc[w] = IF call[w].h \in Locking THEN "in" ELSE "out"
        /\ pc[w] \notin {"idle", "unlock"} =>
              /\ call[w].o \in Orders
              /\ rows[call[w].o].status # "none"
              /\ call[w].h \in Handlers(rows[call[w].o].provider) \cup {"create"}
              /\ call[w].h \in Locking => lockOf[w] = call[w].o
        /\ pc[w] \in {"lock", "read"} => call[w].h # "create"
        /\ pc[w] = "credit" => call[w].h \in Split
        /\ pc[w] = "write" /\ call[w].h = "create" =>
              rows[call[w].o].provider \in CreatedFirst

(* The copy a worker is about to save is of a pending order. *)
CopyInv ==
    \A w \in Workers :
        pc[w] = "write" /\ call[w].h \notin CasOnly =>
            /\ local[w].status = "pending"
            /\ local[w].provider = rows[call[w].o].provider
            /\ local[w].trade = NoTrade

(* A provider trade number is the mark of a completed Alipay order. *)
TradeInv ==
    \A o \in Orders : rows[o].trade # NoTrade =>
        rows[o].status = "success" /\ rows[o].provider = "alipay"

(* An unpaid order was not credited and nobody is about to credit it.  For  *)
(* XPay this fails: its handlers save a stale copy.                         *)
UnpaidInv ==
    /\ \A o \in Orders :
         rows[o].provider # "xpay" /\ rows[o].status \in {"none", "pending"} => credits[o] = 0
    /\ \A w \in Workers :
         pc[w] = "credit" /\ rows[call[w].o].provider # "xpay"
             => rows[call[w].o].status # "pending"

(* Whoever is about to credit an order that LockOrder protects is alone,    *)
(* and the order was not credited before.                                   *)
AloneInv ==
    \A w \in Workers :
        /\ \/ pc[w] = "write" /\ call[w].h \in ForUpdate \cup Split
           \/ pc[w] = "credit"
        /\ LockProtected(call[w].o)
        => credits[call[w].o] = 0

(* With LockOrder around each of its handlers, a Stripe order is still      *)
(* pending when a handler that read it so comes to write.                   *)
StripeInv ==
    \A w \in Workers :
        /\ pc[w] = "write" /\ call[w].h \notin CasOnly
        /\ rows[call[w].o].provider = "stripe" /\ OneNode
        => rows[call[w].o].status = "pending"

(* The inductive invariant. *)
TopUpInv ==
    /\ LockInv /\ TopUpTypeOK
    /\ CallInv /\ CopyInv /\ TradeInv
    /\ UnpaidInv /\ AloneInv /\ StripeInv
    /\ CreditedOnce /\ SteadyPaid

(* A paid order of these providers stays paid: a late expiry or failure     *)
(* notice never overwrites a success.                                       *)
SuccessStays ==
    [][\A o \in Orders : Final(o) /\ rows[o].status = "success"
                            => rows'[o].status = "success"]_vars

(* A manual completion that read o while it was pending, holds LockOrder    *)
(* and saves its copy now.                                                  *)
CompletesByHand(w, o) ==
    /\ call[w].h = "manual" /\ call[w].o = o
    /\ pc[w] = "write" /\ pc'[w] = "done" /\ lockPc[w] = "in"

(* Once a notification has paid an Alipay order, no repeated, late or       *)
(* concurrent notification, closing notice or poll replaces the trade       *)
(* number, which a refund notice is compared with, or credits the order     *)
(* again, on any number of nodes.  One thing does, since CompleteAlipay-    *)
(* DirectTopUp takes no LockOrder and FOR UPDATE no row lock: a manual      *)
(* completion that had read the order while it was still pending erases the *)
(* trade number and credits a second time.                                  *)
TradeKept ==
    [][\A o \in Orders : rows[o].trade # NoTrade =>
          \/ rows'[o].trade = rows[o].trade /\ credits'[o] = credits[o]
          \/ /\ rows'[o].trade = NoTrade /\ credits'[o] = credits[o] + 1
             /\ \E w \in Workers : CompletesByHand(w, o)]_vars

(* Every handler that starts returns: nobody waits for ever for LockOrder,  *)
(* which a handler holds through its reads, its writes and its errors.      *)
HandlersReturn == \A w \in Workers : (pc[w] # "idle") ~> (pc[w] = "idle")

(* What AdminCompleteTopUp and ManualCompleteTopUp say of LockOrder and the *)
(* row lock, that they keep completions of one order from running           *)
(* concurrently, taken for every order: no order is credited twice.         *)
NoConcurrentCompletion == \A o \in Orders : credits[o] <= 1
=============================================================================
