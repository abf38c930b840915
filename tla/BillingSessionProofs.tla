------------------------ MODULE BillingSessionProofs ------------------------
(***************************************************************************)
(* Proofs about BillingSession, for every set of requests, every set of    *)
(* subscriptions and every value of the quotas, discounts and bounds.      *)
(***************************************************************************)
EXTENDS BillingSession, FiniteSetTheorems, TLAPS

-----------------------------------------------------------------------------
(***************************************************************************)
(* The discount                                                            *)
(***************************************************************************)

\* A discounted amount keeps its sign and is at least one unit
\* (ApplySubscriptionBillingDiscount).
LEMMA DiscountSign ==
  ASSUME NEW n \in Int
  PROVE  /\ ApplySubscriptionBillingDiscount(n) \in Int
         /\ n > 0 => ApplySubscriptionBillingDiscount(n) >= 1
         /\ n = 0 => ApplySubscriptionBillingDiscount(n) = 0
         /\ n < 0 => ApplySubscriptionBillingDiscount(n) <= -1
<1>1. DiscountPct \in 1..100
  BY AmountsAssumption
<1>2. \A m \in Int : (m * DiscountPct * 2 + 100) \div 200 \in Int
  BY <1>1
<1> QED
  BY <1>1, <1>2 DEF ApplySubscriptionBillingDiscount, AtLeast

\* Without a discount the applied amount is the amount asked for.
LEMMA Undiscounted ==
  ASSUME DiscountPct = 100, NEW n \in Int
  PROVE  ApplySubscriptionBillingDiscount(n) = n
BY DEF ApplySubscriptionBillingDiscount, AtLeast

-----------------------------------------------------------------------------
(***************************************************************************)
(* The updates of a BillingSession: what each leaves alone                 *)
(***************************************************************************)

\* The fields of a session have the types of the Go struct.
LEMMA FieldTypes ==
  ASSUME NEW s \in SessionType
  PROVE  /\ s.source \in {"none", "wallet", "subscription"}
         /\ s.preConsumedQuota \in Int /\ s.tokenConsumed \in Int
         /\ s.extraReserved \in Int /\ s.consumed \in Int
         /\ s.subscriptionId \in Subs \cup {0}
         /\ s.trusted \in BOOLEAN /\ s.fundingSettled \in BOOLEAN
         /\ s.settled \in BOOLEAN /\ s.refunded \in BOOLEAN
BY DEF SessionType

\* An empty session.
LEMMA NoSessionFacts ==
  /\ NoSession \in SessionType
  /\ NoSession.source = "none" /\ NoSession.preConsumedQuota = 0
  /\ NoSession.tokenConsumed = 0 /\ NoSession.extraReserved = 0 /\ NoSession.consumed = 0
  /\ NoSession.trusted = FALSE /\ NoSession.fundingSettled = FALSE
  /\ NoSession.settled = FALSE /\ NoSession.refunded = FALSE
BY DEF NoSession, SessionType

\* NewBillingSession: a fresh session of the given source.
LEMMA OpenedFacts ==
  ASSUME NEW source \in {"wallet", "subscription"}, NEW trusted \in BOOLEAN
  PROVE  LET t == Opened(source, trusted) IN
         /\ t \in SessionType
         /\ t.source = source /\ t.preConsumedQuota = NoSession.preConsumedQuota
         /\ t.tokenConsumed = NoSession.tokenConsumed /\ t.extraReserved = NoSession.extraReserved
         /\ t.consumed = NoSession.consumed /\ t.subscriptionId = NoSession.subscriptionId
         /\ t.trusted = trusted /\ t.fundingSettled = NoSession.fundingSettled
         /\ t.settled = NoSession.settled /\ t.refunded = NoSession.refunded
<1> DEFINE t1 == [NoSession EXCEPT !.source = source]
<1> DEFINE t2 == [t1 EXCEPT !.trusted = trusted]
<1>1. t1 \in SessionType
  BY NoSessionFacts DEF SessionType
<1> HIDE DEF t1
<1>2. t2 \in SessionType
  BY <1>1 DEF SessionType
<1>f. Opened(source, trusted) \in SessionType
  BY <1>2 DEF Opened, t1
<1> QED
  BY <1>f, NoSessionFacts DEF Opened, SessionType

\* preConsume records the token quota it took.
LEMMA TokenTakenFacts ==
  ASSUME NEW s \in SessionType, NEW n \in Int
  PROVE  LET t == TokenTaken(s, n) IN
         /\ t \in SessionType
         /\ t.source = s.source /\ t.preConsumedQuota = s.preConsumedQuota
         /\ t.tokenConsumed = n /\ t.extraReserved = s.extraReserved
         /\ t.consumed = s.consumed /\ t.subscriptionId = s.subscriptionId
         /\ t.trusted = s.trusted /\ t.fundingSettled = s.fundingSettled
         /\ t.settled = s.settled /\ t.refunded = s.refunded
<1>1. TokenTaken(s, n) \in SessionType
  BY DEF TokenTaken, SessionType
<1> QED
  BY <1>1 DEF TokenTaken, SessionType

\* preConsume records what the funding source holds.
LEMMA FundedFacts ==
  ASSUME NEW s \in SessionType, NEW n \in Int, NEW held \in Int, NEW sub \in Subs \cup {0}
  PROVE  LET t == Funded(s, n, held, sub) IN
         /\ t \in SessionType
         /\ t.source = s.source /\ t.preConsumedQuota = n
         /\ t.tokenConsumed = s.tokenConsumed /\ t.extraReserved = s.extraReserved
         /\ t.consumed = held /\ t.subscriptionId = sub
         /\ t.trusted = s.trusted /\ t.fundingSettled = s.fundingSettled
         /\ t.settled = s.settled /\ t.refunded = s.refunded
<1> DEFINE t1 == [s EXCEPT !.preConsumedQuota = n]
<1> DEFINE t2 == [t1 EXCEPT !.consumed = held]
<1> DEFINE t3 == [t2 EXCEPT !.subscriptionId = sub]
<1>1. t1 \in SessionType
  BY DEF SessionType
<1> HIDE DEF t1
<1>2. t2 \in SessionType
  BY <1>1 DEF SessionType
<1> HIDE DEF t2
<1>3. t3 \in SessionType
  BY <1>2 DEF SessionType
<1>f. Funded(s, n, held, sub) \in SessionType
  BY <1>3 DEF Funded, t1, t2
<1> QED
  BY <1>f DEF Funded, SessionType

\* reserveFunding and rollbackFundingReserve move WalletFunding.consumed.
LEMMA FundingAddedFacts ==
  ASSUME NEW s \in SessionType, NEW n \in Int
  PROVE  LET t == FundingAdded(s, n) IN
         /\ t \in SessionType
         /\ t.source = s.source /\ t.preConsumedQuota = s.preConsumedQuota
         /\ t.tokenConsumed = s.tokenConsumed /\ t.extraReserved = s.extraReserved
         /\ t.consumed = s.consumed + n /\ t.subscriptionId = s.subscriptionId
         /\ t.trusted = s.trusted /\ t.fundingSettled = s.fundingSettled
         /\ t.settled = s.settled /\ t.refunded = s.refunded
<1>1. FundingAdded(s, n) \in SessionType
  BY DEF FundingAdded, SessionType
<1> QED
  BY <1>1 DEF FundingAdded, SessionType

\* Reserve raises the three counters together.
LEMMA ReservedFacts ==
  ASSUME NEW s \in SessionType, NEW n \in Int
  PROVE  LET t == Reserved(s, n) IN
         /\ t \in SessionType
         /\ t.source = s.source /\ t.preConsumedQuota = s.preConsumedQuota + n
         /\ t.tokenConsumed = s.tokenConsumed + n /\ t.extraReserved = s.extraReserved + n
         /\ t.consumed = s.consumed /\ t.subscriptionId = s.subscriptionId
         /\ t.trusted = s.trusted /\ t.fundingSettled = s.fundingSettled
         /\ t.settled = s.settled /\ t.refunded = s.refunded
<1> DEFINE t1 == [s EXCEPT !.preConsumedQuota = s.preConsumedQuota + n]
<1> DEFINE t2 == [t1 EXCEPT !.tokenConsumed = s.tokenConsumed + n]
<1> DEFINE t3 == [t2 EXCEPT !.extraReserved = s.extraReserved + n]
<1>1. t1 \in SessionType
  BY DEF SessionType
<1> HIDE DEF t1
<1>2. t2 \in SessionType
  BY <1>1 DEF SessionType
<1> HIDE DEF t2
<1>3. t3 \in SessionType
  BY <1>2 DEF SessionType
<1>f. Reserved(s, n) \in SessionType
  BY <1>3 DEF Reserved, t1, t2
<1> QED
  BY <1>f DEF Reserved, SessionType

\* Settle marks the funding source committed.
LEMMA FundingSettledFacts ==
  ASSUME NEW s \in SessionType
  PROVE  LET t == FundingSettled(s) IN
         /\ t \in SessionType
         /\ t.source = s.source /\ t.preConsumedQuota = s.preConsumedQuota
         /\ t.tokenConsumed = s.tokenConsumed /\ t.extraReserved = s.extraReserved
         /\ t.consumed = s.consumed /\ t.subscriptionId = s.subscriptionId
         /\ t.trusted = s.trusted /\ t.fundingSettled = TRUE
         /\ t.settled = s.settled /\ t.refunded = s.refunded
<1>1. FundingSettled(s) \in SessionType
  BY DEF FundingSettled, SessionType
<1> QED
  BY <1>1 DEF FundingSettled, SessionType

\* Settle marks the session settled.
LEMMA SettledFacts ==
  ASSUME NEW s \in SessionType
  PROVE  LET t == Settled(s) IN
         /\ t \in SessionType
         /\ t.source = s.source /\ t.preConsumedQuota = s.preConsumedQuota
         /\ t.tokenConsumed = s.tokenConsumed /\ t.extraReserved = s.extraReserved
         /\ t.consumed = s.consumed /\ t.subscriptionId = s.subscriptionId
         /\ t.trusted = s.trusted /\ t.fundingSettled = s.fundingSettled
         /\ t.settled = TRUE /\ t.refunded = s.refunded
<1>1. Settled(s) \in SessionType
  BY DEF Settled, SessionType
<1> QED
  BY <1>1 DEF Settled, SessionType

\* Refund marks the session refunded.
LEMMA RefundedFacts ==
  ASSUME NEW s \in SessionType
  PROVE  LET t == Refunded(s) IN
         /\ t \in SessionType
         /\ t.source = s.source /\ t.preConsumedQuota = s.preConsumedQuota
         /\ t.tokenConsumed = s.tokenConsumed /\ t.extraReserved = s.extraReserved
         /\ t.consumed = s.consumed /\ t.subscriptionId = s.subscriptionId
         /\ t.trusted = s.trusted /\ t.fundingSettled = s.fundingSettled
         /\ t.settled = s.settled /\ t.refunded = TRUE
<1>1. Refunded(s) \in SessionType
  BY DEF Refunded, SessionType
<1> QED
  BY <1>1 DEF Refunded, SessionType

\* The initial rows, sessions and goroutines have their types.
LEMMA InitType == Init => TypeOK
BY AmountsAssumption, NoSessionFacts DEF Init, TypeOK, NoRecord, RecordType, AnyProfile,
   ProfileType, Prefs, PCs, BGs, Try, Unbilled, PlanType

USE DEF Goto, GiveUp, NoFallback, Fault, Logged, DecreaseUserQuota, DecreaseTokenQuota,
        PostConsumeDelta, TxEnds, BgTxEnds, subRows, rows, control, refunder, history

\* The columns of user_subscriptions have their types.
SubTyped ==
  /\ amountUsed \in [Subs -> Nat] /\ subActive \in [Subs -> BOOLEAN]
  /\ lastReset \in [Subs -> Nat] /\ lost \in [Subs -> BOOLEAN]

\* What a transaction reads has the types of the rows.
LEMMA CopyTyped ==
  ASSUME TypeOK
  PROVE  Copy \in CopyType
BY DEF TypeOK, Copy, CopyType

\* A copy of typed rows.
LEMMA CopyFields ==
  ASSUME NEW c \in CopyType
  PROVE  /\ c.used \in [Subs -> Nat] /\ c.active \in [Subs -> BOOLEAN]
         /\ c.reset \in [Subs -> Nat] /\ c.now \in [Subs -> Nat]
BY DEF CopyType

\* What a goroutine has read is a copy of the rows.
LEMMA SeenTyped ==
  ASSUME TypeOK
  PROVE  /\ \A r \in Requests : \A c \in seen[r] : c \in CopyType
         /\ \A r \in Requests : \A c \in bgSeen[r] : c \in CopyType
         /\ \A s \in Subs : \A c \in resetSeen[s] : c \in CopyType
<1>1. \A r \in Requests : seen[r] \in SUBSET CopyType /\ bgSeen[r] \in SUBSET CopyType
  BY DEF TypeOK
<1>2. \A s \in Subs : resetSeen[s] \in SUBSET CopyType
  BY DEF TypeOK
<1> QED
  BY <1>1, <1>2

\* The end of a transaction keeps the types of what was read.
LEMMA TxTyped ==
  ASSUME TypeOK, NEW r \in Requests
  PROVE  /\ TxEnds(r) => seen' \in [Requests -> SUBSET CopyType]
         /\ BgTxEnds(r) => bgSeen' \in [Requests -> SUBSET CopyType]
<1>1. {} \in SUBSET CopyType
  OBVIOUS
<1> QED
  BY <1>1 DEF TypeOK

\* tx.Save of a typed copy keeps the types of the rows.
LEMMA SaveTyped ==
  ASSUME TypeOK, NEW c \in CopyType, NEW ts, NEW used, NEW reset, SaveRows(c, ts, used, reset),
         \A t \in Subs : t \in ts => used[t] \in Nat /\ reset[t] \in Nat
  PROVE  SubTyped'
<1>1. amountUsed' \in [Subs -> Nat] /\ lastReset' \in [Subs -> Nat]
  BY DEF SaveRows, TypeOK
<1>2. \A t \in Subs : lost[t] \in BOOLEAN
  BY DEF TypeOK
<1>3. lost' \in [Subs -> BOOLEAN]
  BY <1>2, Zenon DEF SaveRows
<1>4. subActive' \in [Subs -> BOOLEAN]
  BY DEF SaveRows
<1> QED
  BY <1>1, <1>3, <1>4 DEF SubTyped

\* postConsumeUserSubscriptionDeltaTx keeps the types of the rows.
LEMMA DeltaTyped ==
  ASSUME TypeOK, NEW r \in Requests, NEW s, NEW n \in Int, NEW c \in CopyType,
         PostConsumeDelta(r, s, n, c)
  PROVE  SubTyped' /\ subNet' \in [Requests -> Int]
<1> DEFINE used == [c.used EXCEPT ![s] = AtLeast(c.used[s] + n, 0)]
<1>1. SaveRows(c, {s}, used, c.reset) /\ subNet' = [subNet EXCEPT ![r] = subNet[r] + n]
  OBVIOUS
<1>2. \A t \in Subs : t \in {s} => used[t] \in Nat /\ c.reset[t] \in Nat
  BY CopyFields DEF AtLeast
<1>3. SubTyped'
  <2> HIDE DEF used
  <2> QED
    BY <1>1, <1>2, SaveTyped
<1>4. subNet' \in [Requests -> Int]
  BY <1>1 DEF TypeOK
<1> QED
  BY <1>3, <1>4

\* postConsumeUserSubscriptionDeltaTx takes the delta for its request.
LEMMA DeltaNet ==
  ASSUME TypeOK, NEW r \in Requests
  PROVE  \A s, n, c : PostConsumeDelta(r, s, n, c) =>
           subNet' = [subNet EXCEPT ![r] = subNet[r] + n] /\ subNet'[r] = subNet[r] + n
BY DEF TypeOK

\* And of no other request.
LEMMA DeltaOthers ==
  ASSUME TypeOK, NEW r \in Requests
  PROVE  \A s, n, c : PostConsumeDelta(r, s, n, c) => \A q \in Requests \ {r} : subNet'[q] = subNet[q]
BY DEF TypeOK

\* What the charging steps have in common: nothing, or one delta.
LEMMA RowsTyped ==
  ASSUME TypeOK, NEW r \in Requests,
         \/ UNCHANGED <<subRows, subNet>>
         \/ \E s : \E n \in Int, c \in CopyType : PostConsumeDelta(r, s, n, c)
  PROVE  SubTyped' /\ subNet' \in [Requests -> Int]
<1>1. CASE UNCHANGED <<subRows, subNet>>
  BY <1>1 DEF TypeOK, SubTyped
<1>2. ASSUME NEW s, NEW n \in Int, NEW c \in CopyType, PostConsumeDelta(r, s, n, c)
      PROVE  SubTyped' /\ subNet' \in [Requests -> Int]
  BY <1>2, DeltaTyped
<1> HIDE DEF PostConsumeDelta
<1> QED
  BY <1>1, <1>2

\* The plan of a session has its type.
LEMMA PlanTyped == \A p : Plan(p) \in PlanType /\ Plan(p) # Unbilled /\ Plan(p).now # "none"
BY DEF Plan, Try, PlanType, Unbilled

\* A request priced anew (refreshBillingForSelectedGroup) keeps the rest of its profile.
LEMMA Repriced ==
  ASSUME NEW p \in ProfileType, NEW n \in Nat
  PROVE  /\ [p EXCEPT !.pre = n] \in ProfileType /\ [p EXCEPT !.pre = n].pre = n
         /\ [p EXCEPT !.pre = n].playground = p.playground /\ [p EXCEPT !.pre = n].free = p.free
         /\ [p EXCEPT !.pre = n].pref = p.pref
BY DEF ProfileType

\* StartSession keeps the types of what it sets.
LEMMA TypeStartSession ==
  ASSUME TypeOK, NEW r \in Requests, NEW p, StartSession(r, p)
  PROVE  pc' \in [Requests -> PCs] /\ plan' \in [Requests -> PlanType] /\ faults' \in Nat
<1>1. pc' \in [Requests -> PCs] /\ faults' \in Nat
  BY DEF TypeOK, StartSession, PCs
<1>2. plan' = plan \/ plan' = [plan EXCEPT ![r] = Plan(p)]
  BY DEF StartSession
<1>3. plan' \in [Requests -> PlanType]
  BY <1>2, PlanTyped DEF TypeOK
<1> QED
  BY <1>1, <1>3

\* Begin keeps the types.
LEMMA TypeBegin ==
  ASSUME TypeOK, NEW r \in Requests, Begin(r)
  PROVE  TypeOK'
<1>1. PICK p \in Profiles :
        \/ ~ p.free /\ StartSession(r, p.pref) /\ req' = [req EXCEPT ![r] = p] /\ UNCHANGED sess
        \/ /\ p.free /\ Goto(r, "free") /\ req' = [req EXCEPT ![r] = [p EXCEPT !.pre = 0]]
           /\ sess' = [sess EXCEPT ![r] = NoBilling] /\ UNCHANGED <<plan, faults>>
  BY Zenon DEF Begin
<1>2. pc' \in [Requests -> PCs] /\ plan' \in [Requests -> PlanType] /\ faults' \in Nat
  <2>1. CASE StartSession(r, p.pref)
    BY <2>1, TypeStartSession
  <2>2. CASE Goto(r, "free") /\ UNCHANGED <<plan, faults>>
    BY <2>2 DEF TypeOK, PCs
  <2> QED
    BY <1>1, <2>1, <2>2
<1>3. req' \in [Requests -> ProfileType]
  <2>1. p \in ProfileType /\ [p EXCEPT !.pre = 0] \in ProfileType
    BY ProfilesAssumption DEF ProfileType
  <2> QED
    BY <1>1, <2>1 DEF TypeOK
<1>4. sess' \in [Requests -> SessionType]
  BY <1>1, OpenedFacts DEF TypeOK, NoBilling
<1>5. tokenQuota' \in [Requests -> Int]
  BY DEF TypeOK, Begin
<1> QED
  BY <1>2, <1>3, <1>4, <1>5 DEF TypeOK, Begin

\* TryWallet keeps the types.
LEMMA TypeTryWallet ==
  ASSUME TypeOK, NEW r \in Requests, TryWallet(r)
  PROVE  TypeOK'
<1>1. sess' \in [Requests -> SessionType]
  <2>1. ShouldTrust(r, quota) \in BOOLEAN
    BY DEF ShouldTrust
  <2>2. Opened("wallet", ShouldTrust(r, quota)) \in SessionType
    BY <2>1, OpenedFacts
  <2>3. NoBilling \in SessionType
    BY OpenedFacts DEF NoBilling
  <2>4. \/ sess' = [sess EXCEPT ![r] = NoSession]
        \/ sess' = [sess EXCEPT ![r] = NoBilling]
        \/ sess' = [sess EXCEPT ![r] = Opened("wallet", ShouldTrust(r, quota))]
    BY Zenon DEF TryWallet, NextGroupUnbilled
  <2> QED
    BY NoSessionFacts, <2>2, <2>3, <2>4 DEF TypeOK
<1>2. pc' \in [Requests -> PCs]
  BY DEF TypeOK, TryWallet, NextGroupUnbilled, PCs
<1>3. plan' \in [Requests -> PlanType]
  <2>1. \/ plan' = plan
        \/ plan[r].next # "none" /\ plan' = [plan EXCEPT ![r] = Try(plan[r].next, "none")]
        \/ plan' = [plan EXCEPT ![r] = Unbilled]
    BY DEF TypeOK, TryWallet, NextGroupUnbilled
  <2>2. (plan[r].next # "none" => Try(plan[r].next, "none") \in PlanType) /\ Unbilled \in PlanType
    BY DEF TypeOK, Try, PlanType, Unbilled
  <2> QED
    BY <2>1, <2>2 DEF TypeOK
<1>4. arg' \in [Requests -> Nat]
  BY DEF TypeOK, TryWallet, NextGroupUnbilled, AtLeast, ProfileType
<1>5. faults' \in Nat
  BY DEF TypeOK, TryWallet, NextGroupUnbilled
<1>6. req' \in [Requests -> ProfileType]
  <2>1. req' = req \/ req' = [req EXCEPT ![r] = [req[r] EXCEPT !.pre = 0]]
    BY Zenon DEF TryWallet, NextGroupUnbilled
  <2>2. req[r] \in ProfileType
    BY DEF TypeOK
  <2>3. [req[r] EXCEPT !.pre = 0] \in ProfileType
    BY <2>2, Repriced
  <2> QED
    BY <2>1, <2>3 DEF TypeOK
<1> QED
  BY <1>1, <1>2, <1>3, <1>4, <1>5, <1>6 DEF TypeOK, TryWallet

\* TrySubscription keeps the types.
LEMMA TypeTrySubscription ==
  ASSUME TypeOK, NEW r \in Requests, TrySubscription(r)
  PROVE  TypeOK'
<1>1. sess' \in [Requests -> SessionType]
  <2>1. Opened("subscription", FALSE) \in SessionType
    BY OpenedFacts
  <2> QED
    BY <2>1 DEF TypeOK, TrySubscription
<1>2. pc' \in [Requests -> PCs]
  BY DEF TypeOK, TrySubscription, PCs
<1>3. arg' \in [Requests -> Nat]
  BY DEF TypeOK, TrySubscription, AtLeast, ProfileType
<1> QED
  BY <1>1, <1>2, <1>3 DEF TypeOK, TrySubscription

\* CheckToken keeps the types.
LEMMA TypeCheckToken ==
  ASSUME TypeOK, NEW r \in Requests, CheckToken(r)
  PROVE  TypeOK'
<1>1. sess' \in [Requests -> SessionType]
  <2>1. TokenTaken(sess[r], arg[r]) \in SessionType
    BY TokenTakenFacts DEF TypeOK
  <2> QED
    BY NoSessionFacts, <2>1 DEF TypeOK, CheckToken
<1>2. pc' \in [Requests -> PCs]
  BY DEF TypeOK, CheckToken, PCs
<1>3. plan' \in [Requests -> PlanType]
  BY DEF TypeOK, CheckToken, Try, PlanType
<1>4. faults' \in Nat
  BY DEF TypeOK, CheckToken
<1> QED
  BY <1>1, <1>2, <1>3, <1>4 DEF TypeOK, CheckToken

\* TakeToken keeps the types.
LEMMA TypeTakeToken ==
  ASSUME TypeOK, NEW r \in Requests, TakeToken(r)
  PROVE  TypeOK'
<1>1. sess' \in [Requests -> SessionType]
  <2>1. TokenTaken(sess[r], arg[r]) \in SessionType
    BY TokenTakenFacts DEF TypeOK
  <2> QED
    BY NoSessionFacts, <2>1 DEF TypeOK, TakeToken
<1>2. pc' \in [Requests -> PCs]
  BY DEF TypeOK, TakeToken, PCs
<1>3. plan' \in [Requests -> PlanType]
  BY DEF TypeOK, TakeToken, Try, PlanType
<1>4. faults' \in Nat
  BY DEF TypeOK, TakeToken
<1>5. remain' \in Int /\ tokenNet' \in [Requests -> Int]
  BY FieldTypes, AmountsAssumption DEF TypeOK, TakeToken
<1> QED
  BY <1>1, <1>2, <1>3, <1>4, <1>5 DEF TypeOK, TakeToken

\* FundWallet keeps the types.
LEMMA TypeFundWallet ==
  ASSUME TypeOK, NEW r \in Requests, FundWallet(r)
  PROVE  TypeOK'
<1>1. sess' \in [Requests -> SessionType]
  <2>1. \A n \in Int : Funded(sess[r], arg[r], n, 0) \in SessionType
    BY FundedFacts DEF TypeOK
  <2> QED
    BY <2>1 DEF TypeOK, FundWallet, SessionReady
<1>2. pc' \in [Requests -> PCs]
  BY DEF TypeOK, FundWallet, SessionReady, PCs
<1>3. plan' \in [Requests -> PlanType]
  BY DEF TypeOK, FundWallet, SessionReady, Try, PlanType
<1>4. faults' \in Nat
  BY DEF TypeOK, FundWallet, SessionReady
<1>5. quota' \in Int /\ walletNet' \in [Requests -> Int]
  BY FieldTypes, AmountsAssumption DEF TypeOK, FundWallet, SessionReady
<1> QED
  BY <1>1, <1>2, <1>3, <1>4, <1>5 DEF TypeOK, FundWallet, SessionReady

\* The writes of PreConsumeUserSubscription keep the types.
LEMMA TypePreConsume ==
  ASSUME TypeOK, NEW r \in Requests, NEW c \in CopyType, PreConsumeUserSubscription(r, c)
  PROVE  /\ SubTyped' /\ subNet' \in [Requests -> Int] /\ record' \in [Requests -> RecordType]
         /\ sess' \in [Requests -> SessionType] /\ pc' \in [Requests -> PCs]
<1> DEFINE applied == ApplySubscriptionBillingDiscount(arg[r])
<1>1. applied \in Nat
  <2>1. arg[r] \in Int /\ arg[r] >= 0
    BY DEF TypeOK
  <2> QED
    BY <2>1, DiscountSign
<1> HIDE DEF applied
<1>2. PICK s \in Candidates(c, applied) :
        /\ \E resets \in SUBSET Subs :
             SaveRows(c, resets \cup {s},
                      [t \in Subs |-> UsedAfterReset(c, t) + (IF t = s THEN applied ELSE 0)],
                      [t \in Subs |-> IF t \in resets THEN c.now[t] ELSE c.reset[t]])
        /\ subNet' = [subNet EXCEPT ![r] = subNet[r] + applied]
        /\ record' = [record EXCEPT ![r] = [status |-> "consumed", sub |-> s, amount |-> applied]]
        /\ SessionReady(r, applied, s)
  BY DEF PreConsumeUserSubscription, applied
<1>3. s \in Subs
  BY DEF Candidates
<1>4. SubTyped'
  <2>1. PICK resets \in SUBSET Subs :
          SaveRows(c, resets \cup {s},
                   [t \in Subs |-> UsedAfterReset(c, t) + (IF t = s THEN applied ELSE 0)],
                   [t \in Subs |-> IF t \in resets THEN c.now[t] ELSE c.reset[t]])
    BY <1>2
  <2>2. \A t \in Subs : UsedAfterReset(c, t) \in Nat /\ c.now[t] \in Nat /\ c.reset[t] \in Nat
    BY CopyFields DEF UsedAfterReset
  <2> QED
    BY <2>1, <2>2, <1>1, SaveTyped
<1>5. subNet' \in [Requests -> Int]
  BY <1>1, <1>2 DEF TypeOK
<1>6. record' \in [Requests -> RecordType]
  BY <1>1, <1>2, <1>3 DEF TypeOK, RecordType
<1>7. sess' \in [Requests -> SessionType]
  <2>1. Funded(sess[r], arg[r], applied, s) \in SessionType
    BY <1>1, <1>3, FundedFacts DEF TypeOK
  <2> QED
    BY <2>1, <1>2 DEF TypeOK, SessionReady
<1>8. pc' \in [Requests -> PCs]
  BY <1>2 DEF TypeOK, SessionReady, PCs
<1> QED
  BY <1>4, <1>5, <1>6, <1>7, <1>8

\* FundSubscription keeps the types.
LEMMA TypeFundSubscription ==
  ASSUME TypeOK, NEW r \in Requests, FundSubscription(r)
  PROVE  TypeOK'
<1>1. /\ SubTyped' /\ subNet' \in [Requests -> Int] /\ record' \in [Requests -> RecordType]
      /\ sess' \in [Requests -> SessionType] /\ pc' \in [Requests -> PCs]
  <2>1. CASE \E c \in seen[r] : PreConsumeUserSubscription(r, c)
    BY <2>1, TypePreConsume, SeenTyped
  <2>2. CASE Goto(r, "undo") /\ UNCHANGED <<subRows, record, sess, subNet>>
    BY <2>2 DEF TypeOK, SubTyped, PCs
  <2> QED
    BY <2>1, <2>2 DEF FundSubscription
<1>3. plan' \in [Requests -> PlanType]
  <2>1. plan' = plan \/ plan' = [plan EXCEPT ![r] = Try(plan[r].now, "none")]
    BY DEF TypeOK, FundSubscription
  <2>2. Try(plan[r].now, "none") \in PlanType
    BY DEF TypeOK, Try, PlanType
  <2> QED
    BY <2>1, <2>2 DEF TypeOK
<1>4. faults' \in Nat
  BY DEF TypeOK, FundSubscription
<1>5. seen' \in [Requests -> SUBSET CopyType]
  BY TxTyped DEF FundSubscription
<1> QED
  BY <1>1, <1>3, <1>4, <1>5 DEF TypeOK, SubTyped, FundSubscription

\* UndoToken keeps the types.
LEMMA TypeUndoToken ==
  ASSUME TypeOK, NEW r \in Requests, UndoToken(r)
  PROVE  TypeOK'
<1>1. sess' \in [Requests -> SessionType]
  <2> QED
    BY NoSessionFacts DEF TypeOK, UndoToken
<1>2. pc' \in [Requests -> PCs]
  BY DEF TypeOK, UndoToken, PCs
<1>3. plan' \in [Requests -> PlanType]
  <2>1. \/ plan' = plan
        \/ plan[r].next # "none" /\ plan' = [plan EXCEPT ![r] = Try(plan[r].next, "none")]
    BY DEF UndoToken
  <2>2. Try(plan[r].next, "none") \in PlanType
    BY DEF TypeOK, Try, PlanType
  <2> QED
    BY <2>1, <2>2 DEF TypeOK
<1>4. faults' \in Nat
  BY DEF TypeOK, UndoToken
<1>5. remain' \in Int /\ tokenNet' \in [Requests -> Int]
  BY FieldTypes, AmountsAssumption DEF TypeOK, UndoToken
<1>6. clean' \in [Requests -> BOOLEAN]
  BY DEF TypeOK, UndoToken
<1> QED
  BY <1>1, <1>2, <1>3, <1>4, <1>5, <1>6 DEF TypeOK, UndoToken

\* NoChannel keeps the types.
LEMMA TypeNoChannel ==
  ASSUME TypeOK, NEW r \in Requests, NoChannel(r)
  PROVE  TypeOK'
<1>1. pc' \in [Requests -> PCs]
  BY DEF TypeOK, NoChannel, Fail, PCs
<1>2. arg' \in [Requests -> Nat]
  BY AmountsAssumption DEF TypeOK, NoChannel, Fail
<1>3. attempts' \in [Requests -> Nat]
  BY DEF TypeOK, NoChannel, Fail
<1> QED
  BY <1>1, <1>2, <1>3 DEF TypeOK, NoChannel, Fail

\* RefreshUnbilled keeps the types.
LEMMA TypeRefreshUnbilled ==
  ASSUME TypeOK, NEW r \in Requests, RefreshUnbilled(r)
  PROVE  TypeOK'
<1>1. CASE SendUpstream(r) /\ UNCHANGED <<req, plan, sess, faults>>
  <2>1. pc' \in [Requests -> PCs] /\ attempts' \in [Requests -> Nat]
    BY <1>1 DEF TypeOK, SendUpstream, PCs
  <2> QED
    BY <1>1, <2>1 DEF TypeOK, RefreshUnbilled
<1>2. CASE /\ \E target \in Targets : req' = [req EXCEPT ![r].pre = target]
           /\ attempts' = [attempts EXCEPT ![r] = @ + 1]
           /\ sess' = [sess EXCEPT ![r] = NoSession]
           /\ StartSession(r, req[r].pref)
  <2>1. req' \in [Requests -> ProfileType]
    <3>1. PICK target \in Targets : req' = [req EXCEPT ![r] = [req[r] EXCEPT !.pre = target]]
      BY <1>2, Zenon
    <3>2. req[r] \in ProfileType /\ target \in Nat
      BY AmountsAssumption DEF TypeOK
    <3>3. [req[r] EXCEPT !.pre = target] \in ProfileType
      BY <3>2, Repriced
    <3> QED
      BY <3>1, <3>3 DEF TypeOK
  <2>2. attempts' \in [Requests -> Nat] /\ sess' \in [Requests -> SessionType]
    BY <1>2, NoSessionFacts DEF TypeOK
  <2> QED
    BY <1>2, <2>1, <2>2, TypeStartSession DEF TypeOK, RefreshUnbilled
<1> QED
  BY <1>1, <1>2, Zenon DEF RefreshUnbilled

\* ReadRows keeps the types.
LEMMA TypeReadRows ==
  ASSUME TypeOK, NEW r \in Requests, ReadRows(r)
  PROVE  TypeOK'
<1>1. {Copy} \in SUBSET CopyType
  BY CopyTyped
<1>2. seen' \in [Requests -> SUBSET CopyType]
  BY <1>1 DEF ReadRows, TypeOK
<1> QED
  BY <1>2 DEF TypeOK, ReadRows

\* Reserve keeps the types.
LEMMA TypeReserve ==
  ASSUME TypeOK, NEW r \in Requests, Reserve(r)
  PROVE  TypeOK'
<1>1. sess' \in [Requests -> SessionType]
  <2>1. \A n \in Int : FundingAdded(sess[r], n) \in SessionType
    BY FundingAddedFacts DEF TypeOK
  <2>2. sess[r].preConsumedQuota \in Int
    BY FieldTypes DEF TypeOK
  <2>3. \A n \in Targets : n - sess[r].preConsumedQuota \in Int
    BY <2>2, AmountsAssumption
  <2> QED
    BY <2>1, <2>2, <2>3 DEF TypeOK, Reserve, SendUpstream, Fail, ReserveNeeded
<1>2. pc' \in [Requests -> PCs]
  BY DEF TypeOK, Reserve, SendUpstream, Fail, ReserveNeeded, PCs
<1>3. arg' \in [Requests -> Nat]
  BY AmountsAssumption DEF TypeOK, Reserve, SendUpstream, Fail, ReserveNeeded
<1>4. attempts' \in [Requests -> Nat]
  BY DEF TypeOK, Reserve, SendUpstream, Fail, ReserveNeeded
<1>5. faults' \in Nat
  BY DEF TypeOK, Reserve, SendUpstream, Fail, ReserveNeeded
<1>6. quota' \in Int /\ walletNet' \in [Requests -> Int]
  BY FieldTypes, AmountsAssumption DEF TypeOK, Reserve, SendUpstream, Fail, ReserveNeeded
<1>7. SubTyped' /\ subNet' \in [Requests -> Int]
  <2>1. \/ UNCHANGED <<subRows, subNet>>
        \/ \E target \in Targets, c \in seen[r] :
             PostConsumeDelta(r, sess[r].subscriptionId,
                              ApplySubscriptionBillingDiscount(target - sess[r].preConsumedQuota), c)
    BY DEF Reserve
  <2>2. ASSUME NEW target \in Targets
        PROVE  ApplySubscriptionBillingDiscount(target - sess[r].preConsumedQuota) \in Int
    BY AmountsAssumption, DiscountSign, FieldTypes DEF TypeOK
  <2> HIDE DEF PostConsumeDelta
  <2> QED
    BY <2>1, <2>2, RowsTyped, SeenTyped
<1>8. seen' \in [Requests -> SUBSET CopyType]
  BY TxTyped DEF Reserve
<1> QED
  BY <1>1, <1>2, <1>3, <1>4, <1>5, <1>6, <1>7, <1>8 DEF TypeOK, SubTyped, Reserve

\* ReserveCheckToken keeps the types.
LEMMA TypeReserveCheckToken ==
  ASSUME TypeOK, NEW r \in Requests, ReserveCheckToken(r)
  PROVE  TypeOK'
<1>1. sess' \in [Requests -> SessionType]
  <2>1. Delta(r) \in Int
    BY FieldTypes DEF TypeOK, Delta
  <2>2. Reserved(sess[r], Delta(r)) \in SessionType
    BY <2>1, ReservedFacts DEF TypeOK
  <2> QED
    BY <2>1, <2>2 DEF TypeOK, ReserveCheckToken, ReserveDone, SendUpstream
<1>2. pc' \in [Requests -> PCs]
  BY DEF TypeOK, ReserveCheckToken, ReserveDone, SendUpstream, Delta, PCs
<1>3. attempts' \in [Requests -> Nat]
  BY DEF TypeOK, ReserveCheckToken, ReserveDone, SendUpstream, Delta
<1>4. faults' \in Nat
  BY DEF TypeOK, ReserveCheckToken, ReserveDone, SendUpstream, Delta
<1> QED
  BY <1>1, <1>2, <1>3, <1>4 DEF TypeOK, ReserveCheckToken, ReserveDone, SendUpstream, Delta

\* ReserveTakeToken keeps the types.
LEMMA TypeReserveTakeToken ==
  ASSUME TypeOK, NEW r \in Requests, ReserveTakeToken(r)
  PROVE  TypeOK'
<1>1. sess' \in [Requests -> SessionType]
  <2>1. Delta(r) \in Int
    BY FieldTypes DEF TypeOK, Delta
  <2>2. Reserved(sess[r], Delta(r)) \in SessionType
    BY <2>1, ReservedFacts DEF TypeOK
  <2> QED
    BY <2>1, <2>2 DEF TypeOK, ReserveTakeToken, ReserveDone, SendUpstream
<1>2. pc' \in [Requests -> PCs]
  BY DEF TypeOK, ReserveTakeToken, ReserveDone, SendUpstream, Delta, PCs
<1>3. attempts' \in [Requests -> Nat]
  BY DEF TypeOK, ReserveTakeToken, ReserveDone, SendUpstream, Delta
<1>4. faults' \in Nat
  BY DEF TypeOK, ReserveTakeToken, ReserveDone, SendUpstream, Delta
<1>5. remain' \in Int /\ tokenNet' \in [Requests -> Int]
  BY FieldTypes, AmountsAssumption DEF TypeOK, ReserveTakeToken, ReserveDone, SendUpstream, Delta
<1> QED
  BY <1>1, <1>2, <1>3, <1>4, <1>5 DEF TypeOK, ReserveTakeToken, ReserveDone, SendUpstream, Delta

\* ReserveUndo keeps the types.
LEMMA TypeReserveUndo ==
  ASSUME TypeOK, NEW r \in Requests, ReserveUndo(r)
  PROVE  TypeOK'
<1>1. sess' \in [Requests -> SessionType]
  <2>1. -Delta(r) \in Int
    BY FieldTypes DEF TypeOK, Delta
  <2>2. FundingAdded(sess[r], -Delta(r)) \in SessionType
    BY <2>1, FundingAddedFacts DEF TypeOK
  <2> QED
    BY <2>1, <2>2 DEF TypeOK, ReserveUndo, Fail
<1>2. pc' \in [Requests -> PCs]
  BY DEF TypeOK, ReserveUndo, Fail, Delta, PCs
<1>3. arg' \in [Requests -> Nat]
  BY AmountsAssumption DEF TypeOK, ReserveUndo, Fail, Delta
<1>4. faults' \in Nat
  BY DEF TypeOK, ReserveUndo, Fail, Delta
<1>5. quota' \in Int /\ walletNet' \in [Requests -> Int]
  BY FieldTypes, AmountsAssumption DEF TypeOK, ReserveUndo, Fail, Delta
<1>6. SubTyped' /\ subNet' \in [Requests -> Int]
  <2>1. \/ UNCHANGED <<subRows, subNet>>
        \/ \E c \in seen[r] : PostConsumeDelta(r, sess[r].subscriptionId,
                                                ApplySubscriptionBillingDiscount(-Delta(r)), c)
    BY DEF ReserveUndo
  <2>2. ApplySubscriptionBillingDiscount(-Delta(r)) \in Int
    BY DiscountSign, FieldTypes DEF TypeOK, Delta
  <2> HIDE DEF PostConsumeDelta
  <2> QED
    BY <2>1, <2>2, RowsTyped, SeenTyped
<1>8. seen' \in [Requests -> SUBSET CopyType]
  BY TxTyped DEF ReserveUndo
<1>7. clean' \in [Requests -> BOOLEAN]
  BY DEF TypeOK, ReserveUndo, Fail, Delta
<1> QED
  BY <1>1, <1>2, <1>3, <1>4, <1>5, <1>6, <1>7, <1>8 DEF TypeOK, SubTyped, ReserveUndo

\* Upstream keeps the types.
LEMMA TypeUpstream ==
  ASSUME TypeOK, NEW r \in Requests, Upstream(r)
  PROVE  TypeOK'
<1>1. pc' \in [Requests -> PCs]
  BY DEF TypeOK, Upstream, Fail, PCs
<1>2. arg' \in [Requests -> Nat]
  BY AmountsAssumption DEF TypeOK, Upstream, Fail
<1>3. streamed' \in [Requests -> BOOLEAN]
  <2>1. \A opened \in {TRUE, streamed[r]} : opened \in BOOLEAN
    BY DEF TypeOK
  <2> QED
    BY <2>1 DEF TypeOK, Upstream
<1> QED
  BY <1>1, <1>2, <1>3 DEF TypeOK, Upstream

\* Panic keeps the types.
LEMMA TypePanic ==
  ASSUME TypeOK, NEW r \in Requests, Panic(r)
  PROVE  TypeOK'
<1>1. pc' \in [Requests -> PCs]
  BY DEF TypeOK, Panic, PCs
<1>2. faults' \in Nat
  BY DEF TypeOK, Panic
<1>3. clean' \in [Requests -> BOOLEAN]
  BY DEF TypeOK, Panic
<1> QED
  BY <1>1, <1>2, <1>3 DEF TypeOK, Panic

\* SettleFunding keeps the types.
LEMMA TypeSettleFunding ==
  ASSUME TypeOK, NEW r \in Requests, SettleFunding(r)
  PROVE  TypeOK'
<1>1. sess' \in [Requests -> SessionType]
  <2>1. Settled(sess[r]) \in SessionType /\ FundingSettled(sess[r]) \in SessionType
    BY SettledFacts, FundingSettledFacts DEF TypeOK
  <2> QED
    BY <2>1 DEF TypeOK, SettleFunding, Delta
<1>2. pc' \in [Requests -> PCs]
  BY DEF TypeOK, SettleFunding, Delta, PCs
<1>3. faults' \in Nat
  BY DEF TypeOK, SettleFunding, Delta
<1>4. quota' \in Int /\ walletNet' \in [Requests -> Int]
  BY FieldTypes, AmountsAssumption DEF TypeOK, SettleFunding, Delta
<1>5. SubTyped' /\ subNet' \in [Requests -> Int]
  <2>1. \/ UNCHANGED <<subRows, subNet>>
        \/ \E c \in seen[r] : PostConsumeDelta(r, sess[r].subscriptionId,
                                                ApplySubscriptionBillingDiscount(Delta(r)), c)
    BY DEF SettleFunding
  <2>2. ApplySubscriptionBillingDiscount(Delta(r)) \in Int
    BY DiscountSign, FieldTypes DEF TypeOK, Delta
  <2> HIDE DEF PostConsumeDelta
  <2> QED
    BY <2>1, <2>2, RowsTyped, SeenTyped
<1>7. seen' \in [Requests -> SUBSET CopyType]
  BY TxTyped DEF SettleFunding
<1>6. clean' \in [Requests -> BOOLEAN]
  BY DEF TypeOK, SettleFunding, Delta
<1> QED
  BY <1>1, <1>2, <1>3, <1>4, <1>5, <1>6, <1>7 DEF TypeOK, SubTyped, SettleFunding

\* SettleToken keeps the types.
LEMMA TypeSettleToken ==
  ASSUME TypeOK, NEW r \in Requests, SettleToken(r)
  PROVE  TypeOK'
<1>1. sess' \in [Requests -> SessionType]
  <2>1. Settled(sess[r]) \in SessionType
    BY SettledFacts DEF TypeOK
  <2> QED
    BY <2>1 DEF TypeOK, SettleToken, Delta
<1>2. pc' \in [Requests -> PCs]
  BY DEF TypeOK, SettleToken, Delta, PCs
<1>3. faults' \in Nat
  BY DEF TypeOK, SettleToken, Delta
<1>4. remain' \in Int /\ tokenNet' \in [Requests -> Int]
  BY FieldTypes, AmountsAssumption DEF TypeOK, SettleToken, Delta
<1>5. clean' \in [Requests -> BOOLEAN]
  BY DEF TypeOK, SettleToken, Delta
<1> QED
  BY <1>1, <1>2, <1>3, <1>4, <1>5 DEF TypeOK, SettleToken, Delta

\* Refund keeps the types.
LEMMA TypeRefund ==
  ASSUME TypeOK, NEW r \in Requests, Refund(r)
  PROVE  TypeOK'
<1>1. sess' \in [Requests -> SessionType]
  <2>1. Refunded(sess[r]) \in SessionType
    BY RefundedFacts DEF TypeOK
  <2> QED
    BY <2>1 DEF TypeOK, Refund
<1>2. pc' \in [Requests -> PCs]
  BY DEF TypeOK, Refund, PCs
<1>3. bg' \in [Requests -> BGs]
  BY DEF TypeOK, Refund, BGs
<1> QED
  BY <1>1, <1>2, <1>3 DEF TypeOK, Refund

\* RefundWallet keeps the types.
LEMMA TypeRefundWallet ==
  ASSUME TypeOK, NEW r \in Requests, RefundWallet(r)
  PROVE  TypeOK'
<1>1. bg' \in [Requests -> BGs]
  BY DEF TypeOK, RefundWallet, BgGoto, BGs
<1>2. faults' \in Nat
  BY DEF TypeOK, RefundWallet, BgGoto
<1>3. quota' \in Int /\ walletNet' \in [Requests -> Int]
  BY FieldTypes, AmountsAssumption DEF TypeOK, RefundWallet, BgGoto
<1>4. clean' \in [Requests -> BOOLEAN]
  BY DEF TypeOK, RefundWallet, BgGoto
<1> QED
  BY <1>1, <1>2, <1>3, <1>4 DEF TypeOK, RefundWallet, BgGoto

\* RefundSubscription keeps the types.
LEMMA TypeRefundSubscription ==
  ASSUME TypeOK, NEW r \in Requests, RefundSubscription(r)
  PROVE  TypeOK'
<1>1. bg' \in [Requests -> BGs]
  BY DEF TypeOK, RefundSubscription, BgGoto, RefundSubscriptionPreConsume, BGs
<1>2. bgTry' \in [Requests -> Nat]
  BY DEF TypeOK, RefundSubscription, BgGoto, RefundSubscriptionPreConsume
<1>3. faults' \in Nat
  BY DEF TypeOK, RefundSubscription, BgGoto, RefundSubscriptionPreConsume
<1>a. RefundSubscriptionPreConsume(r) \/ UNCHANGED <<subRows, subNet, record>>
  BY DEF RefundSubscription
<1>b. record[r] \in RecordType /\ record[r].amount \in Nat /\ record[r].sub \in Subs \cup {0}
  BY DEF TypeOK, RecordType
<1>4. SubTyped' /\ subNet' \in [Requests -> Int]
  <2>1. \/ UNCHANGED <<subRows, subNet>>
        \/ \E c \in bgSeen[r] : PostConsumeDelta(r, record[r].sub, -record[r].amount, c)
    BY <1>a DEF RefundSubscriptionPreConsume
  <2>2. -record[r].amount \in Int
    BY <1>b
  <2> HIDE DEF PostConsumeDelta
  <2> QED
    BY <2>1, <2>2, RowsTyped, SeenTyped
<1>7. bgSeen' \in [Requests -> SUBSET CopyType]
  BY TxTyped DEF RefundSubscription
<1>5. record' \in [Requests -> RecordType]
  <2>1. [record[r] EXCEPT !.status = "refunded"] \in RecordType
    BY <1>b DEF RecordType
  <2>2. record' = record \/ record' = [record EXCEPT ![r] = [record[r] EXCEPT !.status = "refunded"]]
    BY <1>a DEF TypeOK, RefundSubscriptionPreConsume
  <2> QED
    BY <2>1, <2>2 DEF TypeOK
<1>6. clean' \in [Requests -> BOOLEAN]
  BY DEF TypeOK, RefundSubscription, BgGoto, RefundSubscriptionPreConsume
<1> QED
  BY <1>1, <1>2, <1>3, <1>4, <1>5, <1>6, <1>7 DEF TypeOK, SubTyped, RefundSubscription

\* RefundExtra keeps the types.
LEMMA TypeRefundExtra ==
  ASSUME TypeOK, NEW r \in Requests, RefundExtra(r)
  PROVE  TypeOK'
<1>1. bg' \in [Requests -> BGs]
  BY DEF TypeOK, RefundExtra, BgGoto, ExtraReserved, BGs
<1>2. faults' \in Nat
  BY DEF TypeOK, RefundExtra, BgGoto, ExtraReserved
<1>3. SubTyped' /\ subNet' \in [Requests -> Int]
  <2>1. \/ UNCHANGED <<subRows, subNet>>
        \/ \E c \in bgSeen[r] : PostConsumeDelta(r, sess[r].subscriptionId,
                                  ApplySubscriptionBillingDiscount(-sess[r].extraReserved), c)
    BY DEF RefundExtra, ExtraReserved
  <2>2. ApplySubscriptionBillingDiscount(-sess[r].extraReserved) \in Int
    BY DiscountSign, FieldTypes DEF TypeOK
  <2> HIDE DEF PostConsumeDelta
  <2> QED
    BY <2>1, <2>2, RowsTyped, SeenTyped
<1>4. clean' \in [Requests -> BOOLEAN]
  BY DEF TypeOK, RefundExtra, BgGoto, ExtraReserved
<1>5. bgSeen' \in [Requests -> SUBSET CopyType]
  BY TxTyped DEF RefundExtra
<1> QED
  BY <1>1, <1>2, <1>3, <1>4, <1>5 DEF TypeOK, SubTyped, RefundExtra

\* RefundRead keeps the types.
LEMMA TypeRefundRead ==
  ASSUME TypeOK, NEW r \in Requests, RefundRead(r)
  PROVE  TypeOK'
<1>1. {Copy} \in SUBSET CopyType
  BY CopyTyped
<1>2. bgSeen' \in [Requests -> SUBSET CopyType]
  BY <1>1 DEF RefundRead, TypeOK
<1> QED
  BY <1>2 DEF TypeOK, RefundRead

\* RefundToken keeps the types.
LEMMA TypeRefundToken ==
  ASSUME TypeOK, NEW r \in Requests, RefundToken(r)
  PROVE  TypeOK'
<1>1. bg' \in [Requests -> BGs]
  BY DEF TypeOK, RefundToken, BgGoto, BGs
<1>2. faults' \in Nat
  BY DEF TypeOK, RefundToken, BgGoto
<1>3. remain' \in Int /\ tokenNet' \in [Requests -> Int]
  BY FieldTypes, AmountsAssumption DEF TypeOK, RefundToken, BgGoto
<1>4. clean' \in [Requests -> BOOLEAN]
  BY DEF TypeOK, RefundToken, BgGoto
<1> QED
  BY <1>1, <1>2, <1>3, <1>4 DEF TypeOK, RefundToken, BgGoto

\* ChargeFee keeps the types.
LEMMA TypeChargeFee ==
  ASSUME TypeOK, NEW r \in Requests, ChargeFee(r)
  PROVE  TypeOK'
<1>1. pc' \in [Requests -> PCs]
  BY DEF TypeOK, ChargeFee, PCs
<1>2. fee' \in [Requests -> Nat]
  BY DEF TypeOK, ChargeFee
<1>3. faults' \in Nat
  BY DEF TypeOK, ChargeFee
<1>4. quota' \in Int /\ walletNet' \in [Requests -> Int]
  BY FieldTypes, AmountsAssumption DEF TypeOK, ChargeFee
<1>5. SubTyped' /\ subNet' \in [Requests -> Int]
  <2>1. \/ UNCHANGED <<subRows, subNet>>
        \/ \E c \in seen[r] : PostConsumeDelta(r, sess[r].subscriptionId,
                                                ApplySubscriptionBillingDiscount(arg[r]), c)
    BY DEF ChargeFee
  <2>2. ApplySubscriptionBillingDiscount(arg[r]) \in Int
    BY DiscountSign DEF TypeOK
  <2> HIDE DEF PostConsumeDelta
  <2> QED
    BY <2>1, <2>2, RowsTyped, SeenTyped
<1>6. seen' \in [Requests -> SUBSET CopyType]
  BY TxTyped DEF ChargeFee
<1> QED
  BY <1>1, <1>2, <1>3, <1>4, <1>5, <1>6 DEF TypeOK, SubTyped, ChargeFee

\* ChargeFeeToken keeps the types.
LEMMA TypeChargeFeeToken ==
  ASSUME TypeOK, NEW r \in Requests, ChargeFeeToken(r)
  PROVE  TypeOK'
<1>1. pc' \in [Requests -> PCs]
  BY DEF TypeOK, ChargeFeeToken, PCs
<1>2. faults' \in Nat
  BY DEF TypeOK, ChargeFeeToken
<1>3. remain' \in Int /\ tokenNet' \in [Requests -> Int]
  BY FieldTypes, AmountsAssumption DEF TypeOK, ChargeFeeToken
<1>4. clean' \in [Requests -> BOOLEAN]
  BY DEF TypeOK, ChargeFeeToken
<1> QED
  BY <1>1, <1>2, <1>3, <1>4 DEF TypeOK, ChargeFeeToken

\* The subscription tasks keep the types.
LEMMA TypeSubscription ==
  ASSUME TypeOK, NEW s \in Subs, SubscriptionStep(s)
  PROVE  TypeOK'
<1>1. CASE PeriodEnds(s)
  BY <1>1 DEF TypeOK, PeriodEnds
<1>2. CASE ResetDueSubscription(s)
  <2>1. PICK c \in resetSeen[s] :
          SaveRows(c, {s}, [c.used EXCEPT ![s] = 0], [c.reset EXCEPT ![s] = c.now[s]])
    BY <1>2 DEF ResetDueSubscription
  <2>2. c \in CopyType
    BY SeenTyped
  <2>3. SubTyped'
    <3>1. \A t \in Subs : t \in {s} => [c.used EXCEPT ![s] = 0][t] \in Nat
                                     /\ [c.reset EXCEPT ![s] = c.now[s]][t] \in Nat
      BY <2>2, CopyFields
    <3> QED
      BY <2>1, <2>2, <3>1, SaveTyped
  <2>4. {} \in SUBSET CopyType
    OBVIOUS
  <2>5. resetSeen' \in [Subs -> SUBSET CopyType]
    BY <1>2, <2>4 DEF TypeOK, ResetDueSubscription
  <2> QED
    BY <1>2, <2>3, <2>5 DEF TypeOK, SubTyped, ResetDueSubscription
<1>3. CASE Deactivate(s)
  BY <1>3 DEF TypeOK, Deactivate
<1>4. CASE ResetRead(s)
  <2>1. {Copy} \in SUBSET CopyType
    BY CopyTyped
  <2>2. resetSeen' \in [Subs -> SUBSET CopyType]
    BY <1>4, <2>1 DEF TypeOK, ResetRead
  <2> QED
    BY <1>4, <2>2 DEF TypeOK, ResetRead
<1> QED
  BY <1>1, <1>2, <1>3, <1>4 DEF SubscriptionStep

\* Every step keeps the types.
LEMMA TypeStep == TypeOK /\ [Next]_vars => TypeOK'
<1> SUFFICES ASSUME TypeOK, [Next]_vars PROVE TypeOK'
  OBVIOUS
<1>1. ASSUME NEW r \in Requests, RequestStep(r) PROVE TypeOK'
  BY <1>1, TypeBegin, TypeTryWallet, TypeTrySubscription, TypeCheckToken, TypeTakeToken,
     TypeFundWallet, TypeFundSubscription, TypeUndoToken, TypeReadRows, TypeNoChannel,
     TypeRefreshUnbilled, TypeReserve, TypeReserveCheckToken, TypeReserveTakeToken,
     TypeReserveUndo, TypeSettleFunding, TypeSettleToken, TypeRefund, TypeChargeFee,
     TypeChargeFeeToken
  DEF RequestStep
<1>4. ASSUME NEW r \in Requests, UpstreamStep(r) PROVE TypeOK'
  BY <1>4, TypeUpstream, TypePanic DEF UpstreamStep
<1>2. ASSUME NEW r \in Requests, RefundStep(r) PROVE TypeOK'
  BY <1>2, TypeRefundWallet, TypeRefundRead, TypeRefundSubscription, TypeRefundExtra,
     TypeRefundToken
  DEF RefundStep
<1>3. CASE UNCHANGED vars
  BY <1>3 DEF TypeOK, vars
<1> QED
  BY <1>1, <1>2, <1>3, <1>4, TypeSubscription DEF Next, Finished

\* The rows, sessions and goroutines always have their types; in particular amount_used,
\* clamped by postConsumeUserSubscriptionDeltaTx, is never negative.
THEOREM TypeCorrect == Spec => []TypeOK
<1>1. Init => TypeOK
  BY InitType
<1> QED
  BY <1>1, TypeStep, PTL DEF Spec

-----------------------------------------------------------------------------
(***************************************************************************)
(* The inductive invariant                                                 *)
(***************************************************************************)

\* The invariant of one request, but for UnbilledInv.
RInv(r) == BuildingInv(r) /\ SessionInv(r) /\ RefundInv(r) /\ Accounted(r)

\* A step of another request, or of a subscription task, leaves all this alone.
Same(r) ==
  /\ pc'[r] = pc[r] /\ req'[r] = req[r] /\ arg'[r] = arg[r] /\ sess'[r] = sess[r]
  /\ bg'[r] = bg[r] /\ fee'[r] = fee[r] /\ record'[r] = record[r] /\ clean'[r] = clean[r]
  /\ walletNet'[r] = walletNet[r] /\ tokenNet'[r] = tokenNet[r] /\ subNet'[r] = subNet[r]

Others(r) == \A q \in Requests \ {r} : Same(q)

\* What the invariant reads of a request, typed.
Row(r) ==
  /\ pc[r] \in PCs /\ req[r].pre \in Nat /\ req[r].playground \in BOOLEAN
  /\ req[r].unlimited \in BOOLEAN /\ arg[r] \in Nat /\ fee[r] \in Nat
  /\ sess[r] \in SessionType
  /\ sess[r].source \in {"none", "wallet", "subscription"}
  /\ sess[r].preConsumedQuota \in Int /\ sess[r].tokenConsumed \in Int
  /\ sess[r].extraReserved \in Int /\ sess[r].consumed \in Int
  /\ sess[r].subscriptionId \in Subs \cup {0}
  /\ sess[r].trusted \in BOOLEAN /\ sess[r].fundingSettled \in BOOLEAN
  /\ sess[r].settled \in BOOLEAN /\ sess[r].refunded \in BOOLEAN
  /\ record[r].status \in {"none", "consumed", "refunded"}
  /\ record[r].sub \in Subs \cup {0} /\ record[r].amount \in Nat
  /\ bg[r] \in BGs /\ clean[r] \in BOOLEAN
  /\ walletNet[r] \in Int /\ tokenNet[r] \in Int /\ subNet[r] \in Int

\* What the invariant reads of a request has its type.
LEMMA RowTyped ==
  ASSUME TypeOK, NEW r \in Requests
  PROVE  Row(r)
<1>1. sess[r] \in SessionType
  BY DEF TypeOK
<1>2. /\ req[r].pre \in Nat /\ req[r].playground \in BOOLEAN /\ req[r].unlimited \in BOOLEAN
  BY DEF TypeOK, ProfileType
<1>3. /\ record[r].status \in {"none", "consumed", "refunded"}
      /\ record[r].sub \in Subs \cup {0} /\ record[r].amount \in Nat
  BY DEF TypeOK, RecordType
<1> QED
  BY <1>1, <1>2, <1>3, FieldTypes DEF TypeOK, Row

\* The invariant of a request survives a step that does not touch it.
LEMMA Frame ==
  ASSUME NEW r \in Requests, RInv(r), Same(r)
  PROVE  RInv(r)'
<1>1. BuildingInv(r)'
  BY DEF RInv, Same, BuildingInv
<1>2. SessionInv(r)'
  BY DEF RInv, Same, SessionInv
<1>3. RefundInv(r)'
  BY DEF RInv, Same, RefundInv
<1>4. Accounted(r)'
  BY DEF RInv, Same, Accounted, WalletAccounted, TokenAccounted, SubAccounted,
     WalletHeld, TokenHeld, TokenFloor, SubHeld, Delta
<1> QED
  BY <1>1, <1>2, <1>3, <1>4 DEF RInv

\* The stand-in for Billing = nil: a wallet session that holds nothing.
LEMMA NoBillingFacts ==
  /\ NoBilling \in SessionType
  /\ NoBilling.source = "wallet" /\ NoBilling.preConsumedQuota = 0
  /\ NoBilling.tokenConsumed = 0 /\ NoBilling.extraReserved = 0 /\ NoBilling.consumed = 0
  /\ NoBilling.trusted = FALSE /\ NoBilling.fundingSettled = FALSE
  /\ NoBilling.settled = FALSE /\ NoBilling.refunded = FALSE
BY OpenedFacts, NoSessionFacts DEF NoBilling

\* Nothing is taken, or errors were logged.
NothingTaken(r) ==
  /\ walletNet[r] >= 0 /\ tokenNet[r] >= 0 /\ (DiscountPct = 100 => subNet[r] >= 0)
  /\ clean[r] => walletNet[r] = 0 /\ tokenNet[r] = 0 /\ (DiscountPct = 100 => subNet[r] = 0)

\* No session, no record, no fee and no refund goroutine.
Empty(r) ==
  /\ \/ sess[r] = NoSession /\ pc[r] \in {"idle", "try", "done"}
     \/ sess[r] = NoBilling /\ pc[r] \in {"free", "upstream"} /\ req[r].pre = 0
  /\ record[r].status = "none" /\ fee[r] = 0 /\ bg[r] = "none"

\* A request without a session has taken nothing ...
LEMMA EmptyTook ==
  ASSUME TypeOK, NEW r \in Requests, RInv(r), Empty(r)
  PROVE  NothingTaken(r)
<1>1. Row(r)
  BY RowTyped
<1>2. /\ sess[r].tokenConsumed = 0 /\ sess[r].consumed = 0 /\ ~ sess[r].settled
      /\ ~ sess[r].fundingSettled /\ sess[r].source \in {"none", "wallet"}
  BY NoSessionFacts, NoBillingFacts DEF Empty
<1>3. walletNet[r] >= 0 /\ (clean[r] => walletNet[r] = 0)
  BY <1>1, <1>2 DEF RInv, Row, Accounted, WalletAccounted, WalletHeld, Empty
<1>4. tokenNet[r] >= 0 /\ (clean[r] => tokenNet[r] = 0)
  BY <1>1, <1>2 DEF RInv, Row, Accounted, TokenAccounted, TokenHeld, TokenFloor, Empty
<1>5. DiscountPct = 100 => subNet[r] >= 0 /\ (clean[r] => subNet[r] = 0)
  BY <1>1, <1>2 DEF RInv, Row, Accounted, SubAccounted, SubHeld
<1> QED
  BY <1>3, <1>4, <1>5 DEF NothingTaken

\* ... and one that has taken nothing satisfies the invariant.
LEMMA EmptyInv ==
  ASSUME NEW r \in Requests, Empty(r)', NothingTaken(r)'
  PROVE  RInv(r)'
<1>2. /\ sess'[r].tokenConsumed = 0 /\ sess'[r].consumed = 0 /\ sess'[r].settled = FALSE
      /\ sess'[r].fundingSettled = FALSE /\ sess'[r].refunded = FALSE
      /\ sess'[r].preConsumedQuota = 0 /\ sess'[r].extraReserved = 0
      /\ sess'[r].source \in {"none", "wallet"} /\ (sess'[r].source = "none" => sess'[r] = NoSession)
      /\ (sess'[r].source = "wallet" => pc'[r] \in {"free", "upstream"} /\ req'[r].pre = 0)
      /\ (pc'[r] \in {"free", "upstream"} => sess'[r].source = "wallet")
  BY NoSessionFacts, NoBillingFacts DEF Empty
<1>3. record'[r].status = "none" /\ fee'[r] = 0 /\ bg'[r] = "none"
      /\ pc'[r] \in {"idle", "try", "done", "free", "upstream"}
  BY DEF Empty
<1>4. BuildingInv(r)'
  BY <1>2, <1>3 DEF BuildingInv, Building
<1>5. SessionInv(r)'
  BY <1>2, <1>3 DEF SessionInv, Live, Reserving, Building
<1>6. RefundInv(r)'
  BY <1>2, <1>3 DEF RefundInv, Ending
<1>7. WalletAccounted(r)' /\ TokenAccounted(r)' /\ SubAccounted(r)'
  BY <1>2, <1>3 DEF NothingTaken, WalletAccounted, WalletHeld, TokenAccounted, TokenHeld,
     TokenFloor, SubAccounted, SubHeld
<1> QED
  BY <1>4, <1>5, <1>6, <1>7 DEF RInv, Accounted

\* The invariant holds initially.
LEMMA InitInv == Init => IndInv
<1> SUFFICES ASSUME Init, NEW r \in Requests PROVE RInv(r) /\ UnbilledInv(r)
  BY DEF IndInv, RInv
<1>0. UnbilledInv(r)
  BY DEF Init, UnbilledInv, Building, Reserving
<1>1. BuildingInv(r)
  BY NoSessionFacts DEF Init, BuildingInv, NoRecord, Building
<1>2. SessionInv(r)
  BY NoSessionFacts DEF Init, SessionInv, NoRecord, Live, Reserving, PCs, Building
<1>3. RefundInv(r)
  BY NoSessionFacts DEF Init, RefundInv, Ending
<1>4. Accounted(r)
  BY NoSessionFacts DEF Init, Accounted, WalletAccounted, TokenAccounted, SubAccounted,
     WalletHeld, TokenHeld, TokenFloor, SubHeld, AnyProfile
<1> QED
  BY <1>0, <1>1, <1>2, <1>3, <1>4 DEF RInv

\* Begin keeps the invariant of its request and touches no other.
LEMMA IndBegin ==
  ASSUME TypeOK, NEW r \in Requests, RInv(r), Begin(r)
  PROVE  RInv(r)' /\ Others(r)
<1>1. pc[r] = "idle"
  BY DEF Begin
<1>2. PICK p \in Profiles :
        \/ ~ p.free /\ StartSession(r, p.pref) /\ req' = [req EXCEPT ![r] = p] /\ UNCHANGED sess
        \/ /\ p.free /\ Goto(r, "free") /\ req' = [req EXCEPT ![r] = [p EXCEPT !.pre = 0]]
           /\ sess' = [sess EXCEPT ![r] = NoBilling] /\ UNCHANGED <<plan, faults>>
  BY Zenon DEF Begin
<1>3. p \in ProfileType
  BY ProfilesAssumption
<1>4. Empty(r)
  BY <1>1, NoSessionFacts, RowTyped DEF Empty, RInv, BuildingInv, RefundInv, Row, BGs
<1>5. /\ record'[r] = record[r] /\ fee'[r] = fee[r] /\ bg'[r] = bg[r]
      /\ walletNet' = walletNet /\ tokenNet' = tokenNet /\ subNet' = subNet /\ clean' = clean
  BY DEF Begin
<1>6. Empty(r)'
  <2>1. CASE StartSession(r, p.pref) /\ UNCHANGED sess
    BY <2>1, <1>1, <1>4, <1>5, NoBillingFacts, NoSessionFacts DEF TypeOK, Empty, StartSession
  <2>2. CASE /\ Goto(r, "free") /\ req' = [req EXCEPT ![r] = [p EXCEPT !.pre = 0]]
             /\ sess' = [sess EXCEPT ![r] = NoBilling]
    <3>1. req'[r].pre = 0
      BY <2>2, <1>3, Repriced DEF TypeOK
    <3> QED
      BY <2>2, <3>1, <1>4, <1>5 DEF TypeOK, Empty
  <2> QED
    BY <1>2, <2>1, <2>2
<1>7. NothingTaken(r)'
  BY <1>4, <1>5, EmptyTook DEF NothingTaken
<1>8. RInv(r)'
  BY <1>6, <1>7, EmptyInv
<1>9. Others(r)
  <2>1. CASE StartSession(r, p.pref) /\ req' = [req EXCEPT ![r] = p] /\ UNCHANGED sess
    BY <2>1 DEF TypeOK, Others, Same, Begin, StartSession
  <2>2. CASE /\ Goto(r, "free") /\ req' = [req EXCEPT ![r] = [p EXCEPT !.pre = 0]]
             /\ sess' = [sess EXCEPT ![r] = NoBilling]
    BY <2>2 DEF TypeOK, Others, Same, Begin
  <2> QED
    BY <1>2, <2>1, <2>2
<1> QED
  BY <1>8, <1>9

\* TryWallet keeps the invariant of its request and touches no other.
LEMMA IndTryWallet ==
  ASSUME TypeOK, NEW r \in Requests, RInv(r), TryWallet(r)
  PROVE  RInv(r)' /\ Others(r)
<1>a. Row(r) /\ arg[r] \in Int
  BY RowTyped DEF Row
<1>b. pc[r] = "try"
  BY DEF TryWallet
<1>c. Empty(r) /\ NothingTaken(r)
  BY <1>b, <1>a, NoSessionFacts, EmptyTook DEF Empty, RInv, BuildingInv, RefundInv, Row, BGs
<1>d. /\ bg'[r] = bg[r] /\ fee'[r] = fee[r] /\ record'[r] = record[r]
      /\ clean' = clean /\ tokenNet' = tokenNet /\ walletNet' = walletNet /\ subNet' = subNet
  BY DEF TryWallet
<1> DEFINE t == ShouldTrust(r, quota)
<1>e. t \in BOOLEAN
  BY DEF ShouldTrust
<1> HIDE DEF t
<1>f. \/ sess' = [sess EXCEPT ![r] = NoSession] /\ UNCHANGED req /\ (Goto(r, "try") \/ Goto(r, "done"))
      \/ /\ sess' = [sess EXCEPT ![r] = NoBilling] /\ Goto(r, "free")
         /\ req' = [req EXCEPT ![r] = [req[r] EXCEPT !.pre = 0]]
      \/ /\ sess' = [sess EXCEPT ![r] = Opened("wallet", t)] /\ Goto(r, "token") /\ UNCHANGED req
         /\ arg' = [arg EXCEPT ![r] = IF t THEN 0 ELSE req[r].pre]
  BY Zenon DEF TryWallet, NextGroupUnbilled, t
<1>1. ASSUME sess' = [sess EXCEPT ![r] = NoSession], Goto(r, "try") \/ Goto(r, "done")
      PROVE  RInv(r)'
  <2>1. Empty(r)'
    BY <1>1, <1>c, <1>d DEF Empty, TypeOK
  <2>2. NothingTaken(r)'
    BY <1>c, <1>d DEF NothingTaken
  <2> QED
    BY <2>1, <2>2, EmptyInv
<1>2. ASSUME sess' = [sess EXCEPT ![r] = NoBilling], Goto(r, "free"),
             req' = [req EXCEPT ![r] = [req[r] EXCEPT !.pre = 0]]
      PROVE  RInv(r)'
  <2>1. req[r] \in ProfileType
    BY DEF TypeOK
  <2>2. req'[r].pre = 0
    BY <1>2, <2>1, Repriced DEF TypeOK
  <2>3. Empty(r)'
    BY <1>2, <2>2, <1>c, <1>d DEF Empty, TypeOK
  <2>4. NothingTaken(r)'
    BY <1>c, <1>d DEF NothingTaken
  <2> QED
    BY <2>3, <2>4, EmptyInv
<1>3. ASSUME sess' = [sess EXCEPT ![r] = Opened("wallet", t)], Goto(r, "token"), UNCHANGED req,
             arg' = [arg EXCEPT ![r] = IF t THEN 0 ELSE req[r].pre]
      PROVE  RInv(r)'
  <2>1. /\ sess'[r].source = "wallet" /\ sess'[r].preConsumedQuota = 0
        /\ sess'[r].tokenConsumed = 0 /\ sess'[r].extraReserved = 0 /\ sess'[r].consumed = 0
        /\ sess'[r].trusted = t /\ sess'[r].fundingSettled = FALSE
        /\ sess'[r].settled = FALSE /\ sess'[r].refunded = FALSE
    <3>1. sess'[r] = Opened("wallet", t)
      BY <1>3 DEF TypeOK
    <3> QED
      BY <3>1, <1>e, OpenedFacts, NoSessionFacts
  <2>2. pc'[r] = "token" /\ req'[r] = req[r] /\ arg'[r] \in Nat /\ (t \/ arg'[r] >= req[r].pre)
    BY <1>3, <1>a, <1>e DEF TypeOK, Row
  <2>3. record'[r].status = "none" /\ fee'[r] = 0 /\ bg'[r] = "none"
    BY <1>c, <1>d DEF Empty
  <2>4. BuildingInv(r)'
    BY <2>1, <2>2, <2>3 DEF BuildingInv, Building
  <2>5. SessionInv(r)'
    BY <2>1, <2>2, <2>3 DEF SessionInv, Live, Reserving, Building
  <2>6. RefundInv(r)'
    BY <2>1, <2>2, <2>3 DEF RefundInv, Ending
  <2>7. WalletAccounted(r)' /\ TokenAccounted(r)' /\ SubAccounted(r)'
    BY <1>c, <1>d, <2>1, <2>2, <2>3 DEF NothingTaken, WalletAccounted, WalletHeld, TokenAccounted,
       TokenHeld, TokenFloor, SubAccounted, SubHeld
  <2> QED
    BY <2>4, <2>5, <2>6, <2>7 DEF RInv, Accounted
<1>7. Others(r)
  <2>1. \A q \in Requests \ {r} : pc'[q] = pc[q] /\ sess'[q] = sess[q] /\ req'[q] = req[q]
    BY <1>f DEF TypeOK
  <2>2. \A q \in Requests \ {r} : arg'[q] = arg[q]
    BY DEF TypeOK, TryWallet
  <2>3. UNCHANGED <<record, fee, bg, walletNet, tokenNet, subNet, clean>>
    BY DEF TryWallet
  <2> QED
    BY <2>1, <2>2, <2>3 DEF Others, Same
<1> QED
  BY <1>1, <1>2, <1>3, <1>f, <1>7

\* TrySubscription keeps the invariant of its request and touches no other.
LEMMA IndTrySubscription ==
  ASSUME TypeOK, NEW r \in Requests, RInv(r), TrySubscription(r)
  PROVE  RInv(r)' /\ Others(r)
<1>a. Row(r)
  BY RowTyped
<1>b. Others(r) /\ pc[r] = "try" /\ pc'[r] = "token"
  BY DEF TypeOK, Others, Same, TrySubscription
<1>c. /\ req'[r] = req[r] /\ bg'[r] = bg[r] /\ fee'[r] = fee[r] /\ record'[r] = record[r]
      /\ clean'[r] = clean[r] /\ tokenNet'[r] = tokenNet[r] /\ walletNet'[r] = walletNet[r]
      /\ subNet'[r] = subNet[r]
  BY DEF TypeOK, TrySubscription
<1>d. arg'[r] \in Nat /\ arg'[r] >= 1 /\ arg'[r] >= req[r].pre
  BY <1>a DEF TypeOK, TrySubscription, AtLeast, Row
<1>e. /\ sess'[r].source = "subscription" /\ sess'[r].preConsumedQuota = 0
      /\ sess'[r].tokenConsumed = 0 /\ sess'[r].extraReserved = 0 /\ sess'[r].consumed = 0
      /\ sess'[r].trusted = FALSE /\ sess'[r].fundingSettled = FALSE
      /\ sess'[r].settled = FALSE /\ sess'[r].refunded = FALSE
  <2>1. sess'[r] = Opened("subscription", FALSE)
    BY DEF TypeOK, TrySubscription
  <2> QED
    BY <2>1, OpenedFacts, NoSessionFacts
<1>f. /\ sess[r] = NoSession /\ record[r].status = "none" /\ fee[r] = 0 /\ bg[r] = "none"
      /\ DiscountPct = 100 => subNet[r] >= 0 /\ (clean[r] => subNet[r] = 0)
  BY <1>a, <1>b, NoSessionFacts DEF RInv, BuildingInv, RefundInv, Accounted, SubAccounted, SubHeld
<1>1a. BuildingInv(r)'
  BY <1>a, <1>b, <1>c, <1>d, <1>e, <1>f DEF BuildingInv, Building
<1>1b. SessionInv(r)'
  BY <1>a, <1>b, <1>c, <1>d, <1>e, <1>f DEF SessionInv, Building, Live, Reserving
<1>1c. RefundInv(r)'
  BY <1>a, <1>b, <1>c, <1>d, <1>e, <1>f DEF RefundInv, Ending
<1>2. WalletAccounted(r)' /\ TokenAccounted(r)'
  BY <1>a, <1>b, <1>c, <1>d, <1>e, NoSessionFacts DEF Row, RInv, BuildingInv, Accounted,
     WalletAccounted, WalletHeld, TokenAccounted, TokenHeld, TokenFloor
<1>3. SubAccounted(r)'
  BY <1>a, <1>b, <1>c, <1>d, <1>e, <1>f DEF Row, SubAccounted, SubHeld, Reserving
<1> QED
  BY <1>b, <1>1a, <1>1b, <1>1c, <1>2, <1>3 DEF RInv, Accounted

\* CheckToken keeps the invariant of its request and touches no other.
LEMMA IndCheckToken ==
  ASSUME TypeOK, NEW r \in Requests, RInv(r), CheckToken(r)
  PROVE  RInv(r)' /\ Others(r)
<1>a. Row(r) /\ arg[r] \in Int
  BY RowTyped DEF Row
<1>b1. LET t == TokenTaken(sess[r], arg[r]) IN
      /\ t.source = sess[r].source /\ t.preConsumedQuota = sess[r].preConsumedQuota
      /\ t.tokenConsumed = arg[r] /\ t.extraReserved = sess[r].extraReserved
      /\ t.consumed = sess[r].consumed /\ t.subscriptionId = sess[r].subscriptionId
      /\ t.trusted = sess[r].trusted /\ t.fundingSettled = sess[r].fundingSettled
      /\ t.settled = sess[r].settled /\ t.refunded = sess[r].refunded
  BY <1>a, TokenTakenFacts DEF Row
<1>1. BuildingInv(r)'
  BY <1>a, <1>b1, NoSessionFacts
  DEF TypeOK, Row, RInv, BuildingInv, SessionInv, RefundInv, Building, Live, Ending, Reserving,
      PCs, CheckToken
<1>2. SessionInv(r)'
  BY <1>a, <1>b1, NoSessionFacts
  DEF TypeOK, Row, RInv, BuildingInv, SessionInv, RefundInv, Building, Live, Ending, Reserving,
      PCs, CheckToken
<1>3. RefundInv(r)'
  BY <1>a, <1>b1, NoSessionFacts
  DEF TypeOK, Row, RInv, BuildingInv, SessionInv, RefundInv, Building, Live, Ending, Reserving,
      PCs, BGs, CheckToken
<1>4. WalletAccounted(r)'
  BY <1>a, <1>b1, NoSessionFacts
  DEF TypeOK, Row, RInv, BuildingInv, SessionInv, RefundInv, Accounted, WalletAccounted,
      WalletHeld, Building, Live, Ending, Reserving, PCs, BGs, CheckToken
<1>5. TokenAccounted(r)'
  BY <1>a, <1>b1, NoSessionFacts
  DEF TypeOK, Row, RInv, BuildingInv, SessionInv, RefundInv, Accounted, TokenAccounted, TokenHeld,
      TokenFloor, Building, Live, Ending, Reserving, PCs, BGs, CheckToken
<1>6. SubAccounted(r)'
  BY <1>a, <1>b1, NoSessionFacts
  DEF TypeOK, Row, RInv, BuildingInv, SessionInv, RefundInv, Accounted, SubAccounted, SubHeld,
      Delta, Building, Live, Ending, Reserving, PCs, BGs, CheckToken
<1>7. Others(r)
  BY DEF TypeOK, Others, Same, CheckToken
<1> QED
  BY <1>1, <1>2, <1>3, <1>4, <1>5, <1>6, <1>7 DEF RInv, Accounted

\* TakeToken keeps the invariant of its request and touches no other.
LEMMA IndTakeToken ==
  ASSUME TypeOK, NEW r \in Requests, RInv(r), TakeToken(r)
  PROVE  RInv(r)' /\ Others(r)
<1>a. Row(r) /\ arg[r] \in Int
  BY RowTyped DEF Row
<1>b. Others(r) /\ pc[r] = "tokenDec"
  BY DEF TypeOK, Others, Same, TakeToken
<1>c. /\ req'[r] = req[r] /\ bg'[r] = bg[r] /\ fee'[r] = fee[r] /\ record'[r] = record[r]
      /\ clean'[r] = clean[r] /\ walletNet'[r] = walletNet[r] /\ subNet'[r] = subNet[r]
      /\ arg'[r] = arg[r]
  BY DEF TypeOK, TakeToken
<1>d. \/ /\ pc'[r] = "fund" /\ tokenNet'[r] = tokenNet[r] + arg[r]
         /\ sess'[r] = TokenTaken(sess[r], arg[r])
      \/ pc'[r] \in {"try", "done"} /\ tokenNet'[r] = tokenNet[r] /\ sess'[r] = NoSession
  BY <1>a DEF TypeOK, TakeToken, Row
<1>e. LET t == TokenTaken(sess[r], arg[r]) IN
      /\ t.source = sess[r].source /\ t.preConsumedQuota = sess[r].preConsumedQuota
      /\ t.tokenConsumed = arg[r] /\ t.extraReserved = sess[r].extraReserved
      /\ t.consumed = sess[r].consumed /\ t.subscriptionId = sess[r].subscriptionId
      /\ t.trusted = sess[r].trusted /\ t.fundingSettled = sess[r].fundingSettled
      /\ t.settled = sess[r].settled /\ t.refunded = sess[r].refunded
  BY <1>a, TokenTakenFacts DEF Row
<1>1. BuildingInv(r)' /\ SessionInv(r)' /\ RefundInv(r)'
  <2>1. BuildingInv(r)'
    BY <1>a, <1>b, <1>c, <1>d, <1>e, NoSessionFacts
    DEF Row, RInv, BuildingInv, SessionInv, RefundInv,
       Building, Live, Ending, Reserving, PCs
  <2>2. SessionInv(r)'
    BY <1>a, <1>b, <1>c, <1>d, <1>e, NoSessionFacts
    DEF Row, RInv, BuildingInv, SessionInv, RefundInv,
       Building, Live, Ending, Reserving, PCs
  <2>3. RefundInv(r)'
    BY <1>a, <1>b, <1>c, <1>d, <1>e, NoSessionFacts
    DEF Row, RInv, BuildingInv, SessionInv, RefundInv,
       Building, Live, Ending, Reserving, PCs
  <2> QED
    BY <2>1, <2>2, <2>3
<1>f. /\ ~ req[r].playground /\ sess[r].tokenConsumed = 0 /\ ~ sess[r].settled
      /\ fee[r] = 0 /\ bg[r] = "none"
  BY <1>a, <1>b DEF Row, RInv, BuildingInv, SessionInv, RefundInv, Building, Ending
<1>2. TokenAccounted(r)'
  <2>1. tokenNet[r] >= 0 /\ (clean[r] => tokenNet[r] = 0)
    BY <1>a, <1>b, <1>f DEF Row, RInv, Accounted, TokenAccounted, TokenHeld, TokenFloor
  <2> QED
    BY <1>a, <1>b, <1>c, <1>d, <1>e, <1>f, <2>1, NoSessionFacts
    DEF Row, TokenAccounted, TokenHeld, TokenFloor
<1>3. WalletAccounted(r)' /\ SubAccounted(r)'
  BY <1>a, <1>b, <1>c, <1>d, <1>e, NoSessionFacts
  DEF Row, RInv, BuildingInv, SessionInv, RefundInv,
     Building, Ending, Accounted, WalletAccounted, WalletHeld, SubAccounted, SubHeld, Reserving
<1> QED
  BY <1>b, <1>1, <1>2, <1>3 DEF RInv, Accounted

\* FundWallet keeps the invariant of its request and touches no other.
LEMMA IndFundWallet ==
  ASSUME TypeOK, NEW r \in Requests, RInv(r), FundWallet(r)
  PROVE  RInv(r)' /\ Others(r)
<1>a. Row(r) /\ arg[r] \in Int
  BY RowTyped DEF Row
<1>b1. \A n \in Int : LET t == Funded(sess[r], arg[r], n, 0) IN
      /\ t.source = sess[r].source /\ t.preConsumedQuota = arg[r]
      /\ t.tokenConsumed = sess[r].tokenConsumed /\ t.extraReserved = sess[r].extraReserved
      /\ t.consumed = n /\ t.subscriptionId = 0
      /\ t.trusted = sess[r].trusted /\ t.fundingSettled = sess[r].fundingSettled
      /\ t.settled = sess[r].settled /\ t.refunded = sess[r].refunded
  BY <1>a, FundedFacts DEF Row
<1>1. BuildingInv(r)'
  BY <1>a, <1>b1
  DEF TypeOK, Row, RInv, BuildingInv, SessionInv, RefundInv, Building, Live, Ending, Reserving,
      PCs, FundWallet, SessionReady
<1>2. SessionInv(r)'
  BY <1>a, <1>b1
  DEF TypeOK, Row, RInv, BuildingInv, SessionInv, RefundInv, Building, Live, Ending, Reserving,
      PCs, FundWallet, SessionReady
<1>3. RefundInv(r)'
  BY <1>a, <1>b1
  DEF TypeOK, Row, RInv, BuildingInv, SessionInv, RefundInv, Building, Live, Ending, Reserving,
      PCs, BGs, FundWallet, SessionReady
<1>4. WalletAccounted(r)'
  BY <1>a, <1>b1
  DEF TypeOK, Row, RInv, BuildingInv, SessionInv, RefundInv, Accounted, WalletAccounted,
      WalletHeld, Building, Live, Ending, Reserving, PCs, BGs, FundWallet, SessionReady
<1>5. TokenAccounted(r)'
  BY <1>a, <1>b1
  DEF TypeOK, Row, RInv, BuildingInv, SessionInv, RefundInv, Accounted, TokenAccounted, TokenHeld,
      TokenFloor, Building, Live, Ending, Reserving, PCs, BGs, FundWallet, SessionReady
<1>6. SubAccounted(r)'
  BY <1>a, <1>b1
  DEF TypeOK, Row, RInv, BuildingInv, SessionInv, RefundInv, Accounted, SubAccounted, SubHeld,
      Delta, Building, Live, Ending, Reserving, PCs, BGs, FundWallet, SessionReady
<1>7. Others(r)
  BY DEF TypeOK, Others, Same, FundWallet, SessionReady
<1> QED
  BY <1>1, <1>2, <1>3, <1>4, <1>5, <1>6, <1>7 DEF RInv, Accounted

\* FundSubscription keeps the invariant of its request and touches no other.
LEMMA IndFundSubscription ==
  ASSUME TypeOK, NEW r \in Requests, RInv(r), FundSubscription(r)
  PROVE  RInv(r)' /\ Others(r)
<1>a. Row(r)
  BY RowTyped
<1> DEFINE paid   == ApplySubscriptionBillingDiscount(arg[r])
           Paid(s) == /\ sess'[r] = Funded(sess[r], arg[r], paid, s)
                      /\ pc'[r] \in {"ready", "upstream"}
                      /\ record'[r] = [status |-> "consumed", sub |-> s, amount |-> paid]
                      /\ subNet'[r] = subNet[r] + paid
           Refused == /\ pc'[r] = "undo" /\ sess'[r] = sess[r] /\ record'[r] = record[r]
                      /\ subNet'[r] = subNet[r]
<1>b. pc[r] = "fund" /\ sess[r].source = "subscription"
  BY DEF FundSubscription
<1>c. /\ req'[r] = req[r] /\ bg'[r] = bg[r] /\ fee'[r] = fee[r] /\ arg'[r] = arg[r]
      /\ clean'[r] = clean[r] /\ tokenNet'[r] = tokenNet[r] /\ walletNet'[r] = walletNet[r]
  BY DEF TypeOK, FundSubscription
<1>d. Others(r) /\ (Refused \/ \E s \in Subs : Paid(s))
  <2>1. CASE \E c \in seen[r] : PreConsumeUserSubscription(r, c)
    BY <2>1 DEF TypeOK, FundSubscription, PreConsumeUserSubscription, SessionReady, Candidates,
       Others, Same
  <2>2. CASE Goto(r, "undo") /\ UNCHANGED <<record, sess, subNet>>
    BY <2>2 DEF TypeOK, FundSubscription, Others, Same
  <2> QED
    BY <2>1, <2>2 DEF FundSubscription
<1>1. CASE Refused
  <2>1. BuildingInv(r)' /\ SessionInv(r)' /\ RefundInv(r)'
    <3>1. BuildingInv(r)'
      BY <1>a, <1>b, <1>c, <1>1 DEF Row, RInv, BuildingInv, SessionInv, RefundInv, Building, Live,
         Ending, Reserving, PCs
    <3>2. SessionInv(r)'
      BY <1>a, <1>b, <1>c, <1>1 DEF Row, RInv, BuildingInv, SessionInv, RefundInv, Building, Live,
         Ending, Reserving, PCs
    <3>3. RefundInv(r)'
      BY <1>a, <1>b, <1>c, <1>1 DEF Row, RInv, BuildingInv, SessionInv, RefundInv, Building, Live,
         Ending, Reserving, PCs
    <3> QED
      BY <3>1, <3>2, <3>3
  <2>2. WalletAccounted(r)' /\ TokenAccounted(r)'
    BY <1>a, <1>b, <1>c, <1>1 DEF Row, RInv, Accounted, WalletAccounted, WalletHeld,
       TokenAccounted, TokenHeld, TokenFloor
  <2>3. SubAccounted(r)'
    BY <1>a, <1>b, <1>c, <1>1 DEF Row, RInv, Accounted, SubAccounted, SubHeld, Reserving
  <2> QED
    BY <1>d, <2>1, <2>2, <2>3 DEF RInv, Accounted
<1>2. ASSUME NEW s \in Subs, Paid(s) PROVE RInv(r)' /\ Others(r)
  <2>1. paid \in Int /\ (DiscountPct = 100 => paid = arg[r]) /\ (arg[r] >= 1 => paid >= 1)
    BY <1>a, DiscountSign, Undiscounted DEF Row
  <2> HIDE DEF paid
  <2>2. LET t == Funded(sess[r], arg[r], paid, s) IN
        /\ t.source = sess[r].source /\ t.preConsumedQuota = arg[r]
        /\ t.tokenConsumed = sess[r].tokenConsumed /\ t.extraReserved = sess[r].extraReserved
        /\ t.consumed = paid /\ t.subscriptionId = s
        /\ t.trusted = sess[r].trusted /\ t.fundingSettled = sess[r].fundingSettled
        /\ t.settled = sess[r].settled /\ t.refunded = sess[r].refunded
    BY <1>a, <2>1, FundedFacts DEF Row
  <2>3. record'[r].status = "consumed" /\ record'[r].sub = s /\ record'[r].amount = paid
    BY <1>2
  <2>4. /\ sess'[r].source = "subscription" /\ sess'[r].preConsumedQuota = arg[r]
        /\ sess'[r].tokenConsumed = arg[r] /\ sess'[r].extraReserved = 0
        /\ sess'[r].consumed = paid /\ sess'[r].subscriptionId = s
        /\ ~ sess'[r].trusted /\ ~ sess'[r].fundingSettled /\ ~ sess'[r].settled
        /\ sess'[r].refunded = sess[r].refunded /\ paid >= 1 /\ arg[r] >= 1
        /\ pc'[r] \in {"ready", "upstream"} /\ subNet'[r] = subNet[r] + paid
        /\ fee[r] = 0 /\ bg[r] = "none"
        /\ arg[r] >= req[r].pre
    BY <1>2, <1>a, <1>b, <2>1, <2>2
    DEF RInv, BuildingInv, SessionInv, RefundInv, Building, Row, Ending
  <2>a. /\ pc'[r] \notin Building \cup Reserving \cup Ending /\ pc'[r] \in Live
        /\ pc[r] \in Building /\ pc[r] \notin Ending
    BY <1>b, <2>4 DEF Building, Reserving, Ending, Live, PCs
  <2>5. BuildingInv(r)' /\ SessionInv(r)' /\ RefundInv(r)'
    <3>1. BuildingInv(r)'
      BY <1>c, <2>3, <2>4, <2>a DEF BuildingInv
    <3>2. SessionInv(r)'
      BY <1>a, <1>b, <1>c, <2>1, <2>3, <2>4, <2>a
      DEF Row, RInv, BuildingInv, SessionInv
    <3>3. RefundInv(r)'
      BY <1>a, <1>b, <1>c, <2>3, <2>4, <2>a DEF RInv, RefundInv
    <3> QED
      BY <3>1, <3>2, <3>3
  <2>6. WalletAccounted(r)' /\ TokenAccounted(r)'
    BY <1>a, <1>b, <1>c, <2>4 DEF Row, RInv, BuildingInv, Building, Accounted, WalletAccounted,
       WalletHeld, TokenAccounted, TokenHeld, TokenFloor
  <2>7. SubAccounted(r)'
    <3>1. SubHeld(r) = 0
      BY <1>a, <1>b, <2>4, <2>a DEF Row, RInv, BuildingInv, SubHeld, Reserving
    <3>2. SubHeld(r)' = paid
      BY <1>c, <2>1, <2>3, <2>4, <2>a DEF SubHeld
    <3> QED
      BY <1>a, <1>c, <2>1, <2>4, <3>1, <3>2 DEF Row, RInv, Accounted, SubAccounted
  <2> QED
    BY <1>d, <2>5, <2>6, <2>7 DEF RInv, Accounted
<1> QED
  BY <1>1, <1>2, <1>d

\* UndoToken keeps the invariant of its request and touches no other.
LEMMA IndUndoToken ==
  ASSUME TypeOK, NEW r \in Requests, RInv(r), UndoToken(r)
  PROVE  RInv(r)' /\ Others(r)
<1>a. Row(r) /\ arg[r] \in Int
  BY RowTyped DEF Row
<1>1. BuildingInv(r)'
  BY <1>a, NoSessionFacts
  DEF TypeOK, Row, RInv, BuildingInv, SessionInv, RefundInv, Building, Live, Ending, Reserving,
      PCs, UndoToken
<1>2. SessionInv(r)'
  BY <1>a, NoSessionFacts
  DEF TypeOK, Row, RInv, BuildingInv, SessionInv, RefundInv, Building, Live, Ending, Reserving,
      PCs, UndoToken
<1>3. RefundInv(r)'
  BY <1>a, NoSessionFacts
  DEF TypeOK, Row, RInv, BuildingInv, SessionInv, RefundInv, Building, Live, Ending, Reserving,
      PCs, BGs, UndoToken
<1>4. WalletAccounted(r)'
  BY <1>a, NoSessionFacts
  DEF TypeOK, Row, RInv, BuildingInv, SessionInv, RefundInv, Accounted, WalletAccounted,
      WalletHeld, Building, Live, Ending, Reserving, PCs, BGs, UndoToken
<1>5. TokenAccounted(r)'
  BY <1>a, NoSessionFacts
  DEF TypeOK, Row, RInv, BuildingInv, SessionInv, RefundInv, Accounted, TokenAccounted, TokenHeld,
      TokenFloor, Building, Live, Ending, Reserving, PCs, BGs, UndoToken
<1>6. SubAccounted(r)'
  BY <1>a, NoSessionFacts
  DEF TypeOK, Row, RInv, BuildingInv, SessionInv, RefundInv, Accounted, SubAccounted, SubHeld,
      Delta, Building, Live, Ending, Reserving, PCs, BGs, UndoToken
<1>7. Others(r)
  BY DEF TypeOK, Others, Same, UndoToken
<1> QED
  BY <1>1, <1>2, <1>3, <1>4, <1>5, <1>6, <1>7 DEF RInv, Accounted

\* NoChannel keeps the invariant of its request and touches no other.
LEMMA IndNoChannel ==
  ASSUME TypeOK, NEW r \in Requests, RInv(r), NoChannel(r)
  PROVE  RInv(r)' /\ Others(r)
<1>a. Row(r) /\ arg[r] \in Int
  BY RowTyped DEF Row
<1>1. BuildingInv(r)'
  BY <1>a
  DEF TypeOK, Row, RInv, BuildingInv, SessionInv, RefundInv, Building, Live, Ending, Reserving,
      PCs, NoChannel, Fail
<1>2. SessionInv(r)'
  BY <1>a
  DEF TypeOK, Row, RInv, BuildingInv, SessionInv, RefundInv, Building, Live, Ending, Reserving,
      PCs, NoChannel, Fail
<1>3. RefundInv(r)'
  BY <1>a
  DEF TypeOK, Row, RInv, BuildingInv, SessionInv, RefundInv, Building, Live, Ending, Reserving,
      PCs, BGs, NoChannel, Fail
<1>4. WalletAccounted(r)'
  BY <1>a
  DEF TypeOK, Row, RInv, BuildingInv, SessionInv, RefundInv, Accounted, WalletAccounted,
      WalletHeld, Building, Live, Ending, Reserving, PCs, BGs, NoChannel, Fail
<1>5. TokenAccounted(r)'
  BY <1>a
  DEF TypeOK, Row, RInv, BuildingInv, SessionInv, RefundInv, Accounted, TokenAccounted, TokenHeld,
      TokenFloor, Building, Live, Ending, Reserving, PCs, BGs, NoChannel, Fail
<1>6. SubAccounted(r)'
  <2>1. /\ pc[r] \in {"ready", "free", "refund"} /\ pc'[r] \in {"ready", "free", "refund", "settle"}
        /\ UNCHANGED <<sess, record, bg, fee, subNet, clean>>
    BY DEF TypeOK, NoChannel, Fail
  <2>2. ~ sess[r].settled /\ ~ sess[r].fundingSettled
    BY <1>a, <2>1 DEF RInv, SessionInv
  <2>3. SubHeld(r)' = SubHeld(r)
    BY <2>1, <2>2 DEF SubHeld, Reserving
  <2> QED
    BY <2>1, <2>3 DEF RInv, Accounted, SubAccounted
<1>7. Others(r)
  BY DEF TypeOK, Others, Same, NoChannel, Fail
<1> QED
  BY <1>1, <1>2, <1>3, <1>4, <1>5, <1>6, <1>7 DEF RInv, Accounted

\* Reserve keeps the invariant of its request and touches no other.
LEMMA IndReserve ==
  ASSUME TypeOK, NEW r \in Requests, RInv(r), Reserve(r)
  PROVE  RInv(r)' /\ Others(r)
<1>a. Row(r)
  BY RowTyped
<1>b. Others(r) /\ pc[r] = "ready"
  <2>1. \A s, n, c : PostConsumeDelta(r, s, n, c) => \A q \in Requests \ {r} : subNet'[q] = subNet[q]
    BY DeltaOthers
  <2> HIDE DEF PostConsumeDelta
  <2> QED
    BY <2>1 DEF TypeOK, Others, Same, Reserve, SendUpstream, Fail
<1>c. /\ req'[r] = req[r] /\ bg'[r] = bg[r] /\ fee'[r] = fee[r] /\ record'[r] = record[r]
      /\ clean'[r] = clean[r] /\ tokenNet'[r] = tokenNet[r]
  BY DEF TypeOK, Reserve
<1> DEFINE Free     == /\ pc'[r] \in {"upstream", "refund", "settle"} /\ sess'[r] = sess[r]
                       /\ walletNet'[r] = walletNet[r] /\ subNet'[r] = subNet[r]
           Wal(d)   == /\ sess[r].source = "wallet" /\ sess'[r] = FundingAdded(sess[r], d)
                       /\ walletNet'[r] = walletNet[r] + d /\ subNet'[r] = subNet[r]
           Sub(d)   == /\ sess[r].source = "subscription" /\ sess'[r] = sess[r]
                       /\ walletNet'[r] = walletNet[r]
                       /\ subNet'[r] = subNet[r] + ApplySubscriptionBillingDiscount(d)
           Take(d)  == /\ d > 0 /\ arg'[r] = sess[r].preConsumedQuota + d /\ pc'[r] = "rToken"
                       /\ Wal(d) \/ Sub(d)
<1>d. Free \/ \E d \in Int : Take(d)
  <2>1. \A target \in Targets : /\ target - sess[r].preConsumedQuota \in Int
                                /\ target = sess[r].preConsumedQuota + (target - sess[r].preConsumedQuota)
    BY <1>a, AmountsAssumption DEF Row
  <2>2. PICK target \in Targets : Reserve(r)!2!(target)
    BY DEF Reserve
  <2>3. \A s, n, c : PostConsumeDelta(r, s, n, c) => subNet'[r] = subNet[r] + n
    BY DeltaNet
  <2> HIDE DEF PostConsumeDelta
  <2> QED
    BY <2>1, <2>2, <2>3, <1>a, AmountsAssumption
    DEF TypeOK, Reserve, SendUpstream, Fail, ReserveNeeded, Row
<1>1. CASE Free
  <2>1. BuildingInv(r)' /\ SessionInv(r)' /\ RefundInv(r)'
    <3>1. BuildingInv(r)'
      BY <1>a, <1>b, <1>c, <1>1
      DEF Row, RInv, BuildingInv, SessionInv, RefundInv, Building, Live, Ending, Reserving, PCs
    <3>2. SessionInv(r)'
      BY <1>a, <1>b, <1>c, <1>1
      DEF Row, RInv, BuildingInv, SessionInv, RefundInv, Building, Live, Ending, Reserving, PCs
    <3>3. RefundInv(r)'
      BY <1>a, <1>b, <1>c, <1>1
      DEF Row, RInv, BuildingInv, SessionInv, RefundInv, Building, Live, Ending, Reserving, PCs
    <3> QED
      BY <3>1, <3>2, <3>3
  <2>2. WalletAccounted(r)' /\ TokenAccounted(r)'
    BY <1>a, <1>b, <1>c, <1>1
    DEF Row, RInv, SessionInv, Accounted, WalletAccounted, WalletHeld, TokenAccounted, TokenHeld,
        TokenFloor
  <2>3. SubAccounted(r)'
    BY <1>a, <1>b, <1>c, <1>1
    DEF Row, RInv, SessionInv, Accounted, SubAccounted, SubHeld, Reserving
  <2> QED
    BY <1>b, <2>1, <2>2, <2>3 DEF RInv, Accounted
<1>2. ASSUME NEW d \in Int, Take(d) PROVE RInv(r)' /\ Others(r)
  <2>1. LET t == FundingAdded(sess[r], d) IN
        /\ t.source = sess[r].source /\ t.preConsumedQuota = sess[r].preConsumedQuota
        /\ t.tokenConsumed = sess[r].tokenConsumed /\ t.extraReserved = sess[r].extraReserved
        /\ t.consumed = sess[r].consumed + d /\ t.subscriptionId = sess[r].subscriptionId
        /\ t.trusted = sess[r].trusted /\ t.fundingSettled = sess[r].fundingSettled
        /\ t.settled = sess[r].settled /\ t.refunded = sess[r].refunded
    BY <1>a, FundingAddedFacts DEF Row
  <2>2. DiscountPct = 100 => ApplySubscriptionBillingDiscount(d) = d
    BY Undiscounted
  <2>3. BuildingInv(r)' /\ SessionInv(r)' /\ RefundInv(r)'
    <3>1. BuildingInv(r)'
      BY <1>a, <1>b, <1>c, <1>2, <2>1
      DEF Row, RInv, BuildingInv, SessionInv, RefundInv, Building, Live, Ending, Reserving, PCs
    <3>2. SessionInv(r)'
      BY <1>a, <1>b, <1>c, <1>2, <2>1
      DEF Row, RInv, BuildingInv, SessionInv, RefundInv, Building, Live, Ending, Reserving, PCs
    <3>3. RefundInv(r)'
      BY <1>a, <1>b, <1>c, <1>2, <2>1
      DEF Row, RInv, BuildingInv, SessionInv, RefundInv, Building, Live, Ending, Reserving, PCs
    <3> QED
      BY <3>1, <3>2, <3>3
  <2>4. WalletAccounted(r)' /\ TokenAccounted(r)'
    BY <1>a, <1>b, <1>c, <1>2, <2>1
    DEF Row, RInv, SessionInv, Accounted, WalletAccounted, WalletHeld, TokenAccounted, TokenHeld,
        TokenFloor, RefundInv, Ending
  <2>5. SubAccounted(r)'
    BY <1>a, <1>b, <1>c, <1>2, <2>1, <2>2
    DEF Row, RInv, SessionInv, RefundInv, Ending, Accounted, SubAccounted, SubHeld, Reserving,
        Delta
  <2> QED
    BY <1>b, <2>3, <2>4, <2>5 DEF RInv, Accounted
<1> QED
  BY <1>1, <1>2, <1>d

\* ReserveCheckToken keeps the invariant of its request and touches no other.
LEMMA IndReserveCheckToken ==
  ASSUME TypeOK, NEW r \in Requests, RInv(r), ReserveCheckToken(r)
  PROVE  RInv(r)' /\ Others(r)
<1>a. Row(r) /\ Delta(r) \in Int /\ Delta(r) = arg[r] - sess[r].preConsumedQuota
  BY RowTyped DEF Row, Delta
<1>b. Others(r) /\ pc[r] = "rToken"
  BY DEF TypeOK, Others, Same, ReserveCheckToken, ReserveDone, SendUpstream
<1>c. /\ req'[r] = req[r] /\ bg'[r] = bg[r] /\ fee'[r] = fee[r] /\ record'[r] = record[r]
      /\ tokenNet'[r] = tokenNet[r] /\ arg'[r] = arg[r] /\ clean'[r] = clean[r]
      /\ walletNet'[r] = walletNet[r] /\ subNet'[r] = subNet[r]
  BY DEF TypeOK, ReserveCheckToken
<1>d. \/ req[r].playground /\ pc'[r] = "upstream" /\ sess'[r] = Reserved(sess[r], Delta(r))
      \/ pc'[r] = "rTokenDec" /\ ~ req[r].playground /\ sess'[r] = sess[r]
      \/ pc'[r] = "rUndo" /\ sess'[r] = sess[r]
  BY <1>a DEF TypeOK, ReserveCheckToken, ReserveDone, SendUpstream
<1>e. LET t == Reserved(sess[r], Delta(r)) IN
      /\ t.source = sess[r].source
      /\ t.preConsumedQuota = sess[r].preConsumedQuota + Delta(r)
      /\ t.tokenConsumed = sess[r].tokenConsumed + Delta(r)
      /\ t.extraReserved = sess[r].extraReserved + Delta(r)
      /\ t.consumed = sess[r].consumed /\ t.subscriptionId = sess[r].subscriptionId
      /\ t.trusted = sess[r].trusted /\ t.fundingSettled = sess[r].fundingSettled
      /\ t.settled = sess[r].settled /\ t.refunded = sess[r].refunded
  BY <1>a, ReservedFacts DEF Row
<1>g. sess[r].preConsumedQuota + Delta(r) = arg[r]
  BY <1>a DEF Row
<1>1. BuildingInv(r)' /\ SessionInv(r)' /\ RefundInv(r)'
  <2>1. BuildingInv(r)' /\ RefundInv(r)'
    BY <1>a, <1>b, <1>c, <1>d, <1>e, <1>g DEF Row, RInv, BuildingInv, RefundInv, SessionInv,
       Building, Live, Ending, PCs
  <2>2. SessionInv(r)'
    BY <1>a, <1>b, <1>c, <1>d, <1>e, <1>g
    DEF Row, RInv, SessionInv, RefundInv, Building, Live, Ending,
       Reserving, PCs
  <2> QED
    BY <2>1, <2>2
<1>2. WalletAccounted(r)' /\ TokenAccounted(r)'
  BY <1>a, <1>b, <1>c, <1>d, <1>e, <1>g DEF Row, RInv, SessionInv, RefundInv, Ending,
     Accounted, WalletAccounted, WalletHeld, TokenAccounted, TokenHeld, TokenFloor
<1>3. SubAccounted(r)'
  <2>1. Delta(r)' = arg'[r] - sess'[r].preConsumedQuota
    BY DEF Delta
  <2>0. bg[r] = "none" /\ fee[r] = 0 /\ ~ sess[r].settled /\ ~ sess[r].fundingSettled
    BY <1>a, <1>b DEF Row, RInv, SessionInv, RefundInv, Ending
  <2>2. CASE pc'[r] = "upstream"
    BY <1>a, <1>b, <1>c, <1>d, <1>e, <1>g, <2>0, <2>1, <2>2
    DEF Row, RInv, Reserving, Accounted, SubAccounted, SubHeld
  <2>3. CASE pc'[r] # "upstream"
    BY <1>a, <1>b, <1>c, <1>d, <2>1, <2>3 DEF Row, RInv, SessionInv, RefundInv, Ending, Reserving,
       Accounted, SubAccounted, SubHeld
  <2> QED
    BY <2>2, <2>3
<1> QED
  BY <1>b, <1>1, <1>2, <1>3 DEF RInv, Accounted

\* ReserveTakeToken keeps the invariant of its request and touches no other.
LEMMA IndReserveTakeToken ==
  ASSUME TypeOK, NEW r \in Requests, RInv(r), ReserveTakeToken(r)
  PROVE  RInv(r)' /\ Others(r)
<1>a. Row(r) /\ Delta(r) \in Int /\ Delta(r) = arg[r] - sess[r].preConsumedQuota
  BY RowTyped DEF Row, Delta
<1>b. Others(r) /\ pc[r] = "rTokenDec"
  BY DEF TypeOK, Others, Same, ReserveTakeToken, ReserveDone, SendUpstream
<1>c. /\ req'[r] = req[r] /\ bg'[r] = bg[r] /\ fee'[r] = fee[r] /\ record'[r] = record[r]
      /\ arg'[r] = arg[r] /\ clean'[r] = clean[r]
      /\ walletNet'[r] = walletNet[r] /\ subNet'[r] = subNet[r]
  BY DEF TypeOK, ReserveTakeToken
<1>d. \/ /\ pc'[r] = "upstream" /\ sess'[r] = Reserved(sess[r], Delta(r))
         /\ tokenNet'[r] = tokenNet[r] + Delta(r)
      \/ pc'[r] = "rUndo" /\ sess'[r] = sess[r] /\ tokenNet'[r] = tokenNet[r]
  BY <1>a DEF TypeOK, ReserveTakeToken, ReserveDone, SendUpstream
<1>e. LET t == Reserved(sess[r], Delta(r)) IN
      /\ t.source = sess[r].source
      /\ t.preConsumedQuota = sess[r].preConsumedQuota + Delta(r)
      /\ t.tokenConsumed = sess[r].tokenConsumed + Delta(r)
      /\ t.extraReserved = sess[r].extraReserved + Delta(r)
      /\ t.consumed = sess[r].consumed /\ t.subscriptionId = sess[r].subscriptionId
      /\ t.trusted = sess[r].trusted /\ t.fundingSettled = sess[r].fundingSettled
      /\ t.settled = sess[r].settled /\ t.refunded = sess[r].refunded
  BY <1>a, ReservedFacts DEF Row
<1>g. sess[r].preConsumedQuota + Delta(r) = arg[r]
  BY <1>a DEF Row
<1>1. BuildingInv(r)' /\ SessionInv(r)' /\ RefundInv(r)'
  <2>1. BuildingInv(r)'
    BY <1>a, <1>b, <1>c, <1>d, <1>e, <1>g DEF Row, RInv, BuildingInv, SessionInv, RefundInv,
       Building, Live, Ending, Reserving, PCs
  <2>2. SessionInv(r)'
    BY <1>a, <1>b, <1>c, <1>d, <1>e, <1>g DEF Row, RInv, BuildingInv, SessionInv, RefundInv,
       Building, Live, Ending, Reserving, PCs
  <2>3. RefundInv(r)'
    BY <1>a, <1>b, <1>c, <1>d, <1>e, <1>g DEF Row, RInv, BuildingInv, SessionInv, RefundInv,
       Building, Live, Ending, Reserving, PCs
  <2> QED
    BY <2>1, <2>2, <2>3
<1>f. ~ req[r].playground
  BY <1>b DEF RInv, SessionInv
<1>2. WalletAccounted(r)' /\ TokenAccounted(r)'
  BY <1>a, <1>b, <1>c, <1>d, <1>e, <1>g, <1>f DEF Row, RInv, SessionInv, RefundInv, Ending,
     Accounted, WalletAccounted, WalletHeld, TokenAccounted, TokenHeld, TokenFloor
<1>3. SubAccounted(r)'
  <2>1. Delta(r)' = arg'[r] - sess'[r].preConsumedQuota
    BY DEF Delta
  <2> QED
    BY <1>a, <1>b, <1>c, <1>d, <1>e, <1>g, <2>1
    DEF Row, RInv, SessionInv, RefundInv, Ending, Reserving,
       Accounted, SubAccounted, SubHeld
<1> QED
  BY <1>b, <1>1, <1>2, <1>3 DEF RInv, Accounted

\* ReserveUndo keeps the invariant of its request and touches no other.
LEMMA IndReserveUndo ==
  ASSUME TypeOK, NEW r \in Requests, RInv(r), ReserveUndo(r)
  PROVE  RInv(r)' /\ Others(r)
<1>a. Row(r) /\ Delta(r) \in Int /\ -Delta(r) \in Int /\ Delta(r) = arg[r] - sess[r].preConsumedQuota
  BY RowTyped DEF Row, Delta
<1>b. Others(r) /\ pc[r] = "rUndo" /\ pc'[r] \in {"refund", "settle"}
  <2>1. \A s, n, c : PostConsumeDelta(r, s, n, c) => \A q \in Requests \ {r} : subNet'[q] = subNet[q]
    BY DeltaOthers
  <2> HIDE DEF PostConsumeDelta
  <2> QED
    BY <2>1 DEF TypeOK, Others, Same, ReserveUndo, Fail
<1>c. /\ req'[r] = req[r] /\ bg'[r] = bg[r] /\ fee'[r] = fee[r] /\ record'[r] = record[r]
      /\ tokenNet'[r] = tokenNet[r]
  BY DEF TypeOK, ReserveUndo
<1>d. \/ /\ sess[r].source = "wallet" /\ sess'[r] = FundingAdded(sess[r], -Delta(r))
         /\ walletNet'[r] = walletNet[r] - Delta(r) /\ subNet'[r] = subNet[r]
         /\ clean'[r] = clean[r]
      \/ /\ sess[r].source = "subscription" /\ sess'[r] = sess[r] /\ walletNet'[r] = walletNet[r]
         /\ DiscountPct = 100 => subNet'[r] = subNet[r] - Delta(r)
         /\ clean'[r] = clean[r]
      \/ /\ sess'[r] = sess[r] /\ walletNet'[r] = walletNet[r] /\ subNet'[r] = subNet[r]
         /\ clean'[r] = FALSE
  <2>1. DiscountPct = 100 => ApplySubscriptionBillingDiscount(-Delta(r)) = -Delta(r)
    BY <1>a, Undiscounted
  <2>2. \A s, n, c : PostConsumeDelta(r, s, n, c) => subNet'[r] = subNet[r] + n
    BY DeltaNet
  <2> HIDE DEF PostConsumeDelta
  <2> QED
    BY <1>a, <2>1, <2>2 DEF TypeOK, Row, ReserveUndo
<1>e. LET t == FundingAdded(sess[r], -Delta(r)) IN
      /\ t.source = sess[r].source /\ t.preConsumedQuota = sess[r].preConsumedQuota
      /\ t.tokenConsumed = sess[r].tokenConsumed /\ t.extraReserved = sess[r].extraReserved
      /\ t.consumed = sess[r].consumed + (-Delta(r)) /\ t.subscriptionId = sess[r].subscriptionId
      /\ t.trusted = sess[r].trusted /\ t.fundingSettled = sess[r].fundingSettled
      /\ t.settled = sess[r].settled /\ t.refunded = sess[r].refunded
  BY <1>a, FundingAddedFacts DEF Row
<1>1. BuildingInv(r)' /\ SessionInv(r)' /\ RefundInv(r)'
  <2>1. BuildingInv(r)'
    BY <1>a, <1>b, <1>c, <1>d, <1>e DEF Row, RInv, BuildingInv, SessionInv, RefundInv,
       Building, Live, Ending, Reserving, PCs
  <2>2. SessionInv(r)'
    BY <1>a, <1>b, <1>c, <1>d, <1>e DEF Row, RInv, BuildingInv, SessionInv, RefundInv,
       Building, Live, Ending, Reserving, PCs
  <2>3. RefundInv(r)'
    BY <1>a, <1>b, <1>c, <1>d, <1>e DEF Row, RInv, BuildingInv, SessionInv, RefundInv,
       Building, Live, Ending, Reserving, PCs
  <2> QED
    BY <2>1, <2>2, <2>3
<1>2. WalletAccounted(r)' /\ TokenAccounted(r)'
  BY <1>a, <1>b, <1>c, <1>d, <1>e DEF Row, RInv, SessionInv, RefundInv, Ending,
     Accounted, WalletAccounted, WalletHeld, TokenAccounted, TokenHeld, TokenFloor
<1>3. SubAccounted(r)'
  BY <1>a, <1>b, <1>c, <1>d, <1>e DEF Row, RInv, SessionInv, RefundInv, Ending, Reserving,
     Accounted, SubAccounted, SubHeld
<1> QED
  BY <1>b, <1>1, <1>2, <1>3 DEF RInv, Accounted

\* Upstream keeps the invariant of its request and touches no other.
LEMMA IndUpstream ==
  ASSUME TypeOK, NEW r \in Requests, RInv(r), Upstream(r)
  PROVE  RInv(r)' /\ Others(r)
<1>a. Row(r) /\ arg[r] \in Int
  BY RowTyped DEF Row
<1>1. BuildingInv(r)'
  BY <1>a
  DEF TypeOK, Row, RInv, BuildingInv, SessionInv, RefundInv, Building, Live, Ending, Reserving,
      PCs, Upstream, Fail
<1>2. SessionInv(r)'
  BY <1>a
  DEF TypeOK, Row, RInv, BuildingInv, SessionInv, RefundInv, Building, Live, Ending, Reserving,
      PCs, Upstream, Fail
<1>3. RefundInv(r)'
  BY <1>a
  DEF TypeOK, Row, RInv, BuildingInv, SessionInv, RefundInv, Building, Live, Ending, Reserving,
      PCs, BGs, Upstream, Fail
<1>4. WalletAccounted(r)'
  BY <1>a
  DEF TypeOK, Row, RInv, BuildingInv, SessionInv, RefundInv, Accounted, WalletAccounted,
      WalletHeld, Building, Live, Ending, Reserving, PCs, BGs, Upstream, Fail
<1>5. TokenAccounted(r)'
  BY <1>a
  DEF TypeOK, Row, RInv, BuildingInv, SessionInv, RefundInv, Accounted, TokenAccounted, TokenHeld,
      TokenFloor, Building, Live, Ending, Reserving, PCs, BGs, Upstream, Fail
<1>6. SubAccounted(r)'
  BY <1>a
  DEF TypeOK, Row, RInv, BuildingInv, SessionInv, RefundInv, Accounted, SubAccounted, SubHeld,
      Delta, Building, Live, Ending, Reserving, PCs, BGs, Upstream, Fail
<1>7. Others(r)
  BY DEF TypeOK, Others, Same, Upstream, Fail
<1> QED
  BY <1>1, <1>2, <1>3, <1>4, <1>5, <1>6, <1>7 DEF RInv, Accounted

\* Panic keeps the invariant of its request and touches no other.
LEMMA IndPanic ==
  ASSUME TypeOK, NEW r \in Requests, RInv(r), Panic(r)
  PROVE  RInv(r)' /\ Others(r)
<1>a. Row(r) /\ arg[r] \in Int
  BY RowTyped DEF Row
<1>1. BuildingInv(r)'
  BY <1>a
  DEF TypeOK, Row, RInv, BuildingInv, SessionInv, RefundInv, Building, Live, Ending, Reserving,
      PCs, Panic
<1>2. SessionInv(r)'
  BY <1>a
  DEF TypeOK, Row, RInv, BuildingInv, SessionInv, RefundInv, Building, Live, Ending, Reserving,
      PCs, Panic
<1>3. RefundInv(r)'
  BY <1>a
  DEF TypeOK, Row, RInv, BuildingInv, SessionInv, RefundInv, Building, Live, Ending, Reserving,
      PCs, BGs, Panic
<1>4. WalletAccounted(r)'
  BY <1>a
  DEF TypeOK, Row, RInv, BuildingInv, SessionInv, RefundInv, Accounted, WalletAccounted,
      WalletHeld, Building, Live, Ending, Reserving, PCs, BGs, Panic
<1>5. TokenAccounted(r)'
  BY <1>a
  DEF TypeOK, Row, RInv, BuildingInv, SessionInv, RefundInv, Accounted, TokenAccounted, TokenHeld,
      TokenFloor, Building, Live, Ending, Reserving, PCs, BGs, Panic
<1>6. SubAccounted(r)'
  BY <1>a
  DEF TypeOK, Row, RInv, BuildingInv, SessionInv, RefundInv, Accounted, SubAccounted, SubHeld,
      Delta, Building, Live, Ending, Reserving, PCs, BGs, Panic
<1>7. Others(r)
  BY DEF TypeOK, Others, Same, Panic
<1> QED
  BY <1>1, <1>2, <1>3, <1>4, <1>5, <1>6, <1>7 DEF RInv, Accounted

\* SettleFunding keeps the invariant of its request and touches no other.
LEMMA IndSettleFunding ==
  ASSUME TypeOK, NEW r \in Requests, RInv(r), SettleFunding(r)
  PROVE  RInv(r)' /\ Others(r)
<1>a. Row(r) /\ Delta(r) \in Int /\ Delta(r) = arg[r] - sess[r].preConsumedQuota
  BY RowTyped DEF Row, Delta
<1>b. Others(r) /\ pc[r] = "settle"
  <2>1. \A s, n, c : PostConsumeDelta(r, s, n, c) => \A q \in Requests \ {r} : subNet'[q] = subNet[q]
    BY DeltaOthers
  <2> HIDE DEF PostConsumeDelta
  <2> QED
    BY <2>1 DEF TypeOK, Others, Same, SettleFunding
<1>c. /\ req'[r] = req[r] /\ bg'[r] = bg[r] /\ fee'[r] = fee[r] /\ record'[r] = record[r]
      /\ tokenNet'[r] = tokenNet[r] /\ arg'[r] = arg[r]
  BY DEF TypeOK, SettleFunding
<1>d. \/ /\ Delta(r) = 0 /\ sess'[r] = Settled(sess[r]) /\ pc'[r] = "done" /\ clean'[r] = clean[r]
         /\ walletNet'[r] = walletNet[r] /\ subNet'[r] = subNet[r]
      \/ /\ sess'[r] = FundingSettled(sess[r]) /\ pc'[r] = "settleTok" /\ clean'[r] = clean[r]
         /\ \/ /\ sess[r].source = "wallet" /\ walletNet'[r] = walletNet[r] + Delta(r)
               /\ subNet'[r] = subNet[r]
            \/ /\ sess[r].source = "subscription" /\ walletNet'[r] = walletNet[r]
               /\ DiscountPct = 100 => subNet'[r] = subNet[r] + Delta(r)
      \/ /\ sess'[r] = sess[r] /\ pc'[r] = "done" /\ clean'[r] = FALSE
         /\ walletNet'[r] = walletNet[r] /\ subNet'[r] = subNet[r]
  <2>1. DiscountPct = 100 => ApplySubscriptionBillingDiscount(Delta(r)) = Delta(r)
    BY <1>a, Undiscounted
  <2>2. \A s, n, c : PostConsumeDelta(r, s, n, c) => subNet'[r] = subNet[r] + n
    BY DeltaNet
  <2> HIDE DEF PostConsumeDelta
  <2> QED
    BY <1>a, <2>1, <2>2 DEF TypeOK, Row, SettleFunding
<1>e. LET t == Settled(sess[r]) IN
      /\ t.source = sess[r].source /\ t.preConsumedQuota = sess[r].preConsumedQuota
      /\ t.tokenConsumed = sess[r].tokenConsumed /\ t.extraReserved = sess[r].extraReserved
      /\ t.consumed = sess[r].consumed /\ t.subscriptionId = sess[r].subscriptionId
      /\ t.trusted = sess[r].trusted /\ t.fundingSettled = sess[r].fundingSettled
      /\ t.settled = TRUE /\ t.refunded = sess[r].refunded
  BY <1>a, SettledFacts DEF Row
<1>f. LET t == FundingSettled(sess[r]) IN
      /\ t.source = sess[r].source /\ t.preConsumedQuota = sess[r].preConsumedQuota
      /\ t.tokenConsumed = sess[r].tokenConsumed /\ t.extraReserved = sess[r].extraReserved
      /\ t.consumed = sess[r].consumed /\ t.subscriptionId = sess[r].subscriptionId
      /\ t.trusted = sess[r].trusted /\ t.fundingSettled = TRUE
      /\ t.settled = sess[r].settled /\ t.refunded = sess[r].refunded
  BY <1>a, FundingSettledFacts DEF Row
<1>1. BuildingInv(r)' /\ SessionInv(r)' /\ RefundInv(r)'
  <2>1. BuildingInv(r)'
    BY <1>a, <1>b, <1>c, <1>d, <1>e, <1>f DEF Row, RInv, BuildingInv, SessionInv, RefundInv,
       Building, Live, Ending, Reserving, PCs
  <2>2. SessionInv(r)'
    BY <1>a, <1>b, <1>c, <1>d, <1>e, <1>f DEF Row, RInv, BuildingInv, SessionInv, RefundInv,
       Building, Live, Ending, Reserving, PCs
  <2>3. RefundInv(r)'
    BY <1>a, <1>b, <1>c, <1>d, <1>e, <1>f DEF Row, RInv, BuildingInv, SessionInv, RefundInv,
       Building, Live, Ending, Reserving, PCs
  <2> QED
    BY <2>1, <2>2, <2>3
<1>g. /\ bg[r] = "none" /\ fee[r] = 0 /\ ~ sess[r].settled /\ ~ sess[r].fundingSettled
      /\ sess[r].tokenConsumed = sess[r].preConsumedQuota
      /\ sess[r].source = "wallet" => /\ sess[r].consumed >= sess[r].preConsumedQuota
                                      /\ clean[r] => sess[r].consumed = sess[r].preConsumedQuota
  BY <1>a, <1>b DEF Row, RInv, SessionInv, RefundInv, Ending, Live, Building, Reserving, PCs
<1>2. WalletAccounted(r)' /\ TokenAccounted(r)'
  <2> DEFINE spent == Delta(r) = 0 /\ sess'[r] = Settled(sess[r]) /\ walletNet'[r] = walletNet[r]
             moved == /\ sess'[r] = FundingSettled(sess[r]) /\ pc'[r] = "settleTok"
                      /\ \/ sess[r].source = "wallet" /\ walletNet'[r] = walletNet[r] + Delta(r)
                         \/ sess[r].source = "subscription" /\ walletNet'[r] = walletNet[r]
             failed == sess'[r] = sess[r] /\ clean'[r] = FALSE /\ walletNet'[r] = walletNet[r]
  <2>0. ((spent \/ moved) /\ clean'[r] = clean[r]) \/ failed
    BY <1>d
  <2>1. WalletAccounted(r)'
    <3>1. WalletHeld(r) = IF sess[r].source = "wallet" THEN sess[r].consumed ELSE 0
      BY <1>a, <1>g DEF Row, WalletHeld
    <3>2. walletNet[r] >= WalletHeld(r) /\ (clean[r] => walletNet[r] = WalletHeld(r))
      BY DEF RInv, Accounted, WalletAccounted
    <3>3. WalletHeld(r)' = IF failed THEN WalletHeld(r)
                           ELSE IF sess[r].source = "wallet" THEN arg[r] ELSE 0
      <4>1. CASE spent
        BY <1>a, <1>c, <1>e, <1>g, <4>1 DEF Row, WalletHeld
      <4>2. CASE moved
        BY <1>a, <1>c, <1>f, <1>g, <4>2 DEF Row, WalletHeld
      <4>3. CASE failed
        BY <1>a, <1>c, <1>g, <4>3 DEF Row, WalletHeld
      <4> QED
        BY <2>0, <4>1, <4>2, <4>3
    <3>4. walletNet'[r] = IF failed \/ sess[r].source # "wallet" THEN walletNet[r]
                          ELSE walletNet[r] + Delta(r)
      BY <1>a, <1>e, <1>f, <1>g, <2>0 DEF Row
    <3> QED
      BY <1>a, <1>g, <2>0, <3>1, <3>2, <3>3, <3>4 DEF Row, WalletAccounted
  <2>2. TokenAccounted(r)'
    <3>1. /\ TokenFloor(r) = IF req[r].playground THEN 0 ELSE sess[r].preConsumedQuota
          /\ TokenHeld(r) = TokenFloor(r)
      BY <1>a, <1>b, <1>g DEF Row, TokenFloor, TokenHeld
    <3>2. /\ tokenNet[r] >= TokenFloor(r)
          /\ clean[r] => tokenNet[r] = TokenFloor(r)
      BY <3>1 DEF RInv, Accounted, TokenAccounted
    <3>3. CASE spent /\ clean'[r] = clean[r]
      <4>1. TokenFloor(r)' = 0 /\ TokenHeld(r)' = TokenFloor(r)
        BY <1>a, <1>c, <1>e, <3>1, <3>3 DEF Row, TokenHeld, TokenFloor
      <4>2. TokenFloor(r) >= 0
        BY <3>1 DEF RInv, SessionInv
      <4> QED
        BY <1>a, <1>c, <3>1, <3>2, <3>3, <4>1, <4>2 DEF Row, TokenAccounted
    <3>4. CASE moved /\ clean'[r] = clean[r]
      BY <1>a, <1>c, <1>f, <1>g, <3>1, <3>2, <3>4
      DEF Row, TokenAccounted, TokenHeld, TokenFloor
    <3>5. CASE failed
      BY <1>a, <1>c, <1>g, <3>1, <3>2, <3>5 DEF Row, TokenAccounted, TokenFloor
    <3> QED
      BY <2>0, <3>3, <3>4, <3>5
  <2> QED
    BY <2>1, <2>2
<1>3. SubAccounted(r)'
  <2>1. CASE sess[r].source = "subscription" /\ DiscountPct = 100
    <3>1. /\ record[r].status = "consumed" /\ bg[r] = "none" /\ fee[r] = 0
          /\ sess[r].preConsumedQuota = record[r].amount + sess[r].extraReserved
      BY <1>a, <1>b, <2>1 DEF Row, RInv, SessionInv, RefundInv, Live, Building, Ending, PCs
    <3> QED
      BY <1>a, <1>b, <1>c, <1>d, <1>e, <1>f, <2>1, <3>1 DEF Row, RInv, SessionInv, Reserving,
         Accounted, SubAccounted, SubHeld
  <2>2. CASE sess[r].source # "subscription"
    BY <1>a, <1>b, <1>c, <1>d, <1>e, <1>f, <2>2 DEF Row, RInv, Accounted, SubAccounted, SubHeld
  <2> QED
    BY <2>1, <2>2 DEF SubAccounted
<1> QED
  BY <1>b, <1>1, <1>2, <1>3 DEF RInv, Accounted

\* SettleToken keeps the invariant of its request and touches no other.
LEMMA IndSettleToken ==
  ASSUME TypeOK, NEW r \in Requests, RInv(r), SettleToken(r)
  PROVE  RInv(r)' /\ Others(r)
<1>a. Row(r) /\ arg[r] \in Int
  BY RowTyped DEF Row
<1>b1. LET t == Settled(sess[r]) IN
      /\ t.source = sess[r].source /\ t.preConsumedQuota = sess[r].preConsumedQuota
      /\ t.tokenConsumed = sess[r].tokenConsumed /\ t.extraReserved = sess[r].extraReserved
      /\ t.consumed = sess[r].consumed /\ t.subscriptionId = sess[r].subscriptionId
      /\ t.trusted = sess[r].trusted /\ t.fundingSettled = sess[r].fundingSettled
      /\ t.settled = TRUE /\ t.refunded = sess[r].refunded
  BY <1>a, SettledFacts DEF Row
<1>1. BuildingInv(r)'
  BY <1>a, <1>b1
  DEF TypeOK, Row, RInv, BuildingInv, SessionInv, RefundInv, Building, Live, Ending, Reserving,
      PCs, SettleToken, Delta
<1>2. SessionInv(r)'
  BY <1>a, <1>b1
  DEF TypeOK, Row, RInv, BuildingInv, SessionInv, RefundInv, Building, Live, Ending, Reserving,
      PCs, SettleToken, Delta
<1>3. RefundInv(r)'
  BY <1>a, <1>b1
  DEF TypeOK, Row, RInv, BuildingInv, SessionInv, RefundInv, Building, Live, Ending, Reserving,
      PCs, BGs, SettleToken, Delta
<1>4. WalletAccounted(r)'
  BY <1>a, <1>b1
  DEF TypeOK, Row, RInv, BuildingInv, SessionInv, RefundInv, Accounted, WalletAccounted,
      WalletHeld, Building, Live, Ending, Reserving, PCs, BGs, SettleToken, Delta
<1>5. TokenAccounted(r)'
  BY <1>a, <1>b1
  DEF TypeOK, Row, RInv, BuildingInv, SessionInv, RefundInv, Accounted, TokenAccounted, TokenHeld,
      TokenFloor, Building, Live, Ending, Reserving, PCs, BGs, SettleToken, Delta
<1>6. SubAccounted(r)'
  BY <1>a, <1>b1
  DEF TypeOK, Row, RInv, BuildingInv, SessionInv, RefundInv, Accounted, SubAccounted, SubHeld,
      Delta, Building, Live, Ending, Reserving, PCs, BGs, SettleToken
<1>7. Others(r)
  BY DEF TypeOK, Others, Same, SettleToken, Delta
<1> QED
  BY <1>1, <1>2, <1>3, <1>4, <1>5, <1>6, <1>7 DEF RInv, Accounted

\* Refund keeps the invariant of its request and touches no other.
LEMMA IndRefund ==
  ASSUME TypeOK, NEW r \in Requests, RInv(r), Refund(r)
  PROVE  RInv(r)' /\ Others(r)
<1>a. Row(r) /\ arg[r] \in Int
  BY RowTyped DEF Row
<1>b1. LET t == Refunded(sess[r]) IN
      /\ t.source = sess[r].source /\ t.preConsumedQuota = sess[r].preConsumedQuota
      /\ t.tokenConsumed = sess[r].tokenConsumed /\ t.extraReserved = sess[r].extraReserved
      /\ t.consumed = sess[r].consumed /\ t.subscriptionId = sess[r].subscriptionId
      /\ t.trusted = sess[r].trusted /\ t.fundingSettled = sess[r].fundingSettled
      /\ t.settled = sess[r].settled /\ t.refunded = TRUE
  BY <1>a, RefundedFacts DEF Row
<1>1. BuildingInv(r)'
  BY <1>a, <1>b1
  DEF TypeOK, Row, RInv, BuildingInv, SessionInv, RefundInv, Building, Live, Ending, Reserving,
      PCs, Refund, NeedsRefund
<1>2. SessionInv(r)'
  BY <1>a, <1>b1
  DEF TypeOK, Row, RInv, BuildingInv, SessionInv, RefundInv, Building, Live, Ending, Reserving,
      PCs, Refund, NeedsRefund
<1>3. RefundInv(r)'
  BY <1>a, <1>b1
  DEF TypeOK, Row, RInv, BuildingInv, SessionInv, RefundInv, Building, Live, Ending, Reserving,
      PCs, BGs, Refund, NeedsRefund
<1>4. WalletAccounted(r)'
  BY <1>a, <1>b1
  DEF TypeOK, Row, RInv, BuildingInv, SessionInv, RefundInv, Accounted, WalletAccounted,
      WalletHeld, Building, Live, Ending, Reserving, PCs, BGs, Refund, NeedsRefund
<1>5. TokenAccounted(r)'
  BY <1>a, <1>b1
  DEF TypeOK, Row, RInv, BuildingInv, SessionInv, RefundInv, Accounted, TokenAccounted, TokenHeld,
      TokenFloor, Building, Live, Ending, Reserving, PCs, BGs, Refund, NeedsRefund
<1>6. SubAccounted(r)'
  BY <1>a, <1>b1
  DEF TypeOK, Row, RInv, BuildingInv, SessionInv, RefundInv, Accounted, SubAccounted, SubHeld,
      Delta, Building, Live, Ending, Reserving, PCs, BGs, Refund, NeedsRefund
<1>7. Others(r)
  BY DEF TypeOK, Others, Same, Refund, NeedsRefund
<1> QED
  BY <1>1, <1>2, <1>3, <1>4, <1>5, <1>6, <1>7 DEF RInv, Accounted

\* ChargeFee keeps the invariant of its request and touches no other.
LEMMA IndChargeFee ==
  ASSUME TypeOK, NEW r \in Requests, RInv(r), ChargeFee(r)
  PROVE  RInv(r)' /\ Others(r)
<1>a. Row(r)
  BY RowTyped
<1>b. Others(r) /\ pc[r] = "fee"
  <2>1. \A s, n, c : PostConsumeDelta(r, s, n, c) => \A q \in Requests \ {r} : subNet'[q] = subNet[q]
    BY DeltaOthers
  <2> HIDE DEF PostConsumeDelta
  <2> QED
    BY <2>1 DEF TypeOK, Others, Same, ChargeFee
<1>c. /\ req'[r] = req[r] /\ arg'[r] = arg[r] /\ sess'[r] = sess[r] /\ tokenNet'[r] = tokenNet[r]
      /\ record'[r] = record[r] /\ bg'[r] = bg[r] /\ clean'[r] = clean[r]
  BY DEF TypeOK, ChargeFee
<1>d. \/ /\ pc'[r] = "feeTok" /\ fee'[r] = arg[r] /\ sess[r].source = "wallet"
         /\ walletNet'[r] = walletNet[r] + arg[r] /\ subNet'[r] = subNet[r]
      \/ /\ pc'[r] = "feeTok" /\ fee'[r] = arg[r] /\ sess[r].source = "subscription"
         /\ walletNet'[r] = walletNet[r] /\ (DiscountPct = 100 => subNet'[r] = subNet[r] + arg[r])
      \/ /\ pc'[r] = "done" /\ fee'[r] = fee[r]
         /\ walletNet'[r] = walletNet[r] /\ subNet'[r] = subNet[r]
  <2>1. DiscountPct = 100 => ApplySubscriptionBillingDiscount(arg[r]) = arg[r]
    BY <1>a, Undiscounted DEF Row
  <2>2. \A s, n, c : PostConsumeDelta(r, s, n, c) => subNet'[r] = subNet[r] + n
    BY DeltaNet
  <2> HIDE DEF PostConsumeDelta
  <2> QED
    BY <1>a, <2>1, <2>2 DEF TypeOK, Row, ChargeFee
<1>1. BuildingInv(r)' /\ SessionInv(r)' /\ RefundInv(r)'
  <2>1. BuildingInv(r)'
    BY <1>a, <1>b, <1>c, <1>d
    DEF Row, RInv, BuildingInv, SessionInv, RefundInv, Building, Live, Ending,
       Reserving, PCs
  <2>2. SessionInv(r)'
    BY <1>a, <1>b, <1>c, <1>d
    DEF Row, RInv, BuildingInv, SessionInv, RefundInv, Building, Live, Ending,
       Reserving, PCs
  <2>3. RefundInv(r)'
    BY <1>a, <1>b, <1>c, <1>d
    DEF Row, RInv, BuildingInv, SessionInv, RefundInv, Building, Live, Ending,
       Reserving, PCs
  <2> QED
    BY <2>1, <2>2, <2>3
<1>2. WalletAccounted(r)' /\ TokenAccounted(r)'
  BY <1>a, <1>b, <1>c, <1>d DEF Row, RInv, SessionInv, Accounted, WalletAccounted, WalletHeld,
     TokenAccounted, TokenHeld, TokenFloor
<1>3. SubAccounted(r)'
  BY <1>a, <1>b, <1>c, <1>d
  DEF Row, RInv, RefundInv, SessionInv, Accounted, SubAccounted, SubHeld,
     Reserving, Ending
<1> QED
  BY <1>b, <1>1, <1>2, <1>3 DEF RInv, Accounted

\* ChargeFeeToken keeps the invariant of its request and touches no other.
LEMMA IndChargeFeeToken ==
  ASSUME TypeOK, NEW r \in Requests, RInv(r), ChargeFeeToken(r)
  PROVE  RInv(r)' /\ Others(r)
<1>a. Row(r) /\ arg[r] \in Int
  BY RowTyped DEF Row
<1>1. BuildingInv(r)'
  BY <1>a
  DEF TypeOK, Row, RInv, BuildingInv, SessionInv, RefundInv, Building, Live, Ending, Reserving,
      PCs, ChargeFeeToken
<1>2. SessionInv(r)'
  BY <1>a
  DEF TypeOK, Row, RInv, BuildingInv, SessionInv, RefundInv, Building, Live, Ending, Reserving,
      PCs, ChargeFeeToken
<1>3. RefundInv(r)'
  BY <1>a
  DEF TypeOK, Row, RInv, BuildingInv, SessionInv, RefundInv, Building, Live, Ending, Reserving,
      PCs, BGs, ChargeFeeToken
<1>4. WalletAccounted(r)'
  BY <1>a
  DEF TypeOK, Row, RInv, BuildingInv, SessionInv, RefundInv, Accounted, WalletAccounted,
      WalletHeld, Building, Live, Ending, Reserving, PCs, BGs, ChargeFeeToken
<1>5. TokenAccounted(r)'
  BY <1>a
  DEF TypeOK, Row, RInv, BuildingInv, SessionInv, RefundInv, Accounted, TokenAccounted, TokenHeld,
      TokenFloor, Building, Live, Ending, Reserving, PCs, BGs, ChargeFeeToken
<1>6. SubAccounted(r)'
  BY <1>a
  DEF TypeOK, Row, RInv, BuildingInv, SessionInv, RefundInv, Accounted, SubAccounted, SubHeld,
      Delta, Building, Live, Ending, Reserving, PCs, BGs, ChargeFeeToken
<1>7. Others(r)
  BY DEF TypeOK, Others, Same, ChargeFeeToken
<1> QED
  BY <1>1, <1>2, <1>3, <1>4, <1>5, <1>6, <1>7 DEF RInv, Accounted

\* RefundWallet keeps the invariant of its request and touches no other.
LEMMA IndRefundWallet ==
  ASSUME TypeOK, NEW r \in Requests, RInv(r), RefundWallet(r)
  PROVE  RInv(r)' /\ Others(r)
<1>a. Row(r) /\ arg[r] \in Int
  BY RowTyped DEF Row
<1>1. BuildingInv(r)'
  BY <1>a
  DEF TypeOK, Row, RInv, BuildingInv, SessionInv, RefundInv, Building, Live, Ending, Reserving,
      PCs, RefundWallet, BgGoto
<1>2. SessionInv(r)'
  BY <1>a
  DEF TypeOK, Row, RInv, BuildingInv, SessionInv, RefundInv, Building, Live, Ending, Reserving,
      PCs, RefundWallet, BgGoto
<1>3. RefundInv(r)'
  BY <1>a
  DEF TypeOK, Row, RInv, BuildingInv, SessionInv, RefundInv, Building, Live, Ending, Reserving,
      PCs, BGs, RefundWallet, BgGoto
<1>4. WalletAccounted(r)'
  BY <1>a
  DEF TypeOK, Row, RInv, BuildingInv, SessionInv, RefundInv, Accounted, WalletAccounted,
      WalletHeld, Building, Live, Ending, Reserving, PCs, BGs, RefundWallet, BgGoto
<1>5. TokenAccounted(r)'
  BY <1>a
  DEF TypeOK, Row, RInv, BuildingInv, SessionInv, RefundInv, Accounted, TokenAccounted, TokenHeld,
      TokenFloor, Building, Live, Ending, Reserving, PCs, BGs, RefundWallet, BgGoto
<1>6. SubAccounted(r)'
  BY <1>a
  DEF TypeOK, Row, RInv, BuildingInv, SessionInv, RefundInv, Accounted, SubAccounted, SubHeld,
      Delta, Building, Live, Ending, Reserving, PCs, BGs, RefundWallet, BgGoto
<1>7. Others(r)
  BY DEF TypeOK, Others, Same, RefundWallet, BgGoto
<1> QED
  BY <1>1, <1>2, <1>3, <1>4, <1>5, <1>6, <1>7 DEF RInv, Accounted

\* RefundSubscription keeps the invariant of its request and touches no other.
LEMMA IndRefundSubscription ==
  ASSUME TypeOK, NEW r \in Requests, RInv(r), RefundSubscription(r)
  PROVE  RInv(r)' /\ Others(r)
<1>a. Row(r)
  BY RowTyped
<1> DEFINE Idle == record'[r] = record[r] /\ subNet'[r] = subNet[r]
           Paid == /\ record[r].status = "consumed"
                   /\ record'[r] = [record[r] EXCEPT !.status = "refunded"]
                   /\ subNet'[r] = subNet[r] - record[r].amount
<1>b. bg[r] = "funding" /\ sess[r].source = "subscription"
  BY DEF RefundSubscription
<1>c. /\ req'[r] = req[r] /\ pc'[r] = pc[r] /\ fee'[r] = fee[r] /\ arg'[r] = arg[r]
      /\ sess'[r] = sess[r] /\ tokenNet'[r] = tokenNet[r] /\ walletNet'[r] = walletNet[r]
  BY DEF TypeOK, RefundSubscription
<1>d. /\ Others(r)
      /\ \/ bg'[r] = "extra" /\ clean'[r] = clean[r] /\ (Paid \/ (Idle /\ record[r].status # "consumed"))
         \/ bg'[r] = "extra" /\ clean'[r] = FALSE /\ (Paid \/ Idle)
         \/ bg'[r] = "funding" /\ clean'[r] = clean[r] /\ (Paid \/ Idle)
  <2>1. Others(r)
    <3>1. /\ subNet' = subNet \/ subNet' = [subNet EXCEPT ![r] = subNet[r] + (-record[r].amount)]
          /\ record' = record \/ record' = [record EXCEPT ![r] = [record[r] EXCEPT !.status = "refunded"]]
      BY DeltaNet, Zenon DEF RefundSubscription, RefundSubscriptionPreConsume
    <3>2. /\ bg' = bg \/ bg' = [bg EXCEPT ![r] = "extra"]
          /\ clean' = clean \/ clean' = [clean EXCEPT ![r] = FALSE]
      BY Zenon DEF RefundSubscription, BgGoto
    <3>3. UNCHANGED <<pc, req, arg, sess, fee, walletNet, tokenNet>>
      BY DEF RefundSubscription
    <3> QED
      BY <3>1, <3>2, <3>3 DEF TypeOK, Others, Same
  <2>2. RefundSubscriptionPreConsume(r) => Paid \/ (Idle /\ record[r].status # "consumed")
    <3>1. SUFFICES ASSUME RefundSubscriptionPreConsume(r), record[r].status = "consumed" PROVE Paid
      BY DEF RefundSubscriptionPreConsume
    <3>2. subNet' = [subNet EXCEPT ![r] = @ + (-record[r].amount)]
      BY <3>1 DEF RefundSubscriptionPreConsume
    <3>3. subNet'[r] = subNet[r] - record[r].amount
      BY <3>2, <1>a DEF TypeOK, Row
    <3>4. record' = [record EXCEPT ![r] = [record[r] EXCEPT !.status = "refunded"]]
      BY <3>1 DEF RefundSubscriptionPreConsume
    <3> QED
      BY <3>1, <3>3, <3>4 DEF TypeOK
  <2> HIDE DEF Paid
  <2> QED
    BY <2>1, <2>2 DEF TypeOK, RefundSubscription, BgGoto
<1>e. pc[r] \in Ending /\ record[r].status # "none" /\ bg'[r] \in {"funding", "extra"}
      /\ (clean'[r] => clean[r]) /\ (Paid \/ Idle)
  BY <1>a, <1>b, <1>d DEF RInv, SessionInv, RefundInv, Row, Ending, Live, Building, PCs
<1>f. Paid => /\ record'[r].status = "refunded" /\ record'[r].sub = record[r].sub
              /\ record'[r].amount = record[r].amount
  BY DEF TypeOK, RecordType
<1>1. /\ record'[r].status \in {"consumed", "refunded"}
      /\ record'[r].sub = record[r].sub /\ record'[r].amount = record[r].amount
      /\ bg'[r] = "extra" /\ clean'[r] => record'[r].status # "consumed"
  <2>1. CASE Paid
    BY <1>a, <1>f, <2>1 DEF Row
  <2>2. CASE Idle /\ ~ Paid
    BY <1>a, <1>d, <1>e, <2>2 DEF Row
  <2> QED
    BY <1>e, <2>1, <2>2
<1>g. \/ record[r].status = "consumed" /\ record'[r].status = "refunded" /\ subNet'[r] = subNet[r] - record[r].amount
      \/ record'[r].status = record[r].status /\ subNet'[r] = subNet[r]
  BY <1>e, <1>f
<1> HIDE DEF Paid, Idle
<1>2. BuildingInv(r)'
  BY <1>a, <1>b, <1>c, <1>e, <1>1, <1>g DEF Row, RInv, BuildingInv, Building, Ending
<1>3. SessionInv(r)'
  BY <1>a, <1>b, <1>c, <1>e, <1>1, <1>g
  DEF Row, RInv, SessionInv, Building, Live, Ending, Reserving, PCs
<1>4. RefundInv(r)'
  BY <1>a, <1>b, <1>c, <1>e, <1>1, <1>g DEF Row, RInv, RefundInv, Ending
<1>5. WalletAccounted(r)' /\ TokenAccounted(r)'
  BY <1>a, <1>b, <1>c, <1>e, <1>1, <1>g DEF Row, RInv, Accounted, WalletAccounted, WalletHeld,
     TokenAccounted, TokenHeld, TokenFloor
<1>6. SubAccounted(r)'
  BY <1>a, <1>b, <1>c, <1>e, <1>1, <1>g
  DEF Row, RInv, RefundInv, SessionInv, Accounted, SubAccounted, SubHeld,
     Reserving, Ending
<1> QED
  BY <1>d, <1>2, <1>3, <1>4, <1>5, <1>6 DEF RInv, Accounted

\* RefundExtra keeps the invariant of its request and touches no other.
LEMMA IndRefundExtra ==
  ASSUME TypeOK, NEW r \in Requests, RInv(r), RefundExtra(r)
  PROVE  RInv(r)' /\ Others(r)
<1>a. Row(r)
  BY RowTyped
<1>b. Others(r) /\ bg[r] = "extra" /\ bg'[r] = "token"
  <2>1. \A s, n, c : PostConsumeDelta(r, s, n, c) => \A q \in Requests \ {r} : subNet'[q] = subNet[q]
    BY DeltaOthers
  <2> HIDE DEF PostConsumeDelta
  <2> QED
    BY <2>1 DEF TypeOK, Others, Same, RefundExtra, BgGoto
<1>c. /\ req'[r] = req[r] /\ pc'[r] = pc[r] /\ fee'[r] = fee[r] /\ arg'[r] = arg[r]
      /\ sess'[r] = sess[r] /\ tokenNet'[r] = tokenNet[r] /\ walletNet'[r] = walletNet[r]
      /\ record'[r] = record[r]
  BY DEF TypeOK, RefundExtra
<1> DEFINE owed == sess[r].source = "subscription" /\ sess[r].extraReserved > 0
<1>d. \/ owed /\ clean'[r] = clean[r] /\ (DiscountPct = 100 => subNet'[r] = subNet[r] - sess[r].extraReserved)
      \/ owed /\ clean'[r] = FALSE /\ subNet'[r] = subNet[r]
      \/ ~ owed /\ clean'[r] = clean[r] /\ subNet'[r] = subNet[r]
  <2>1. DiscountPct = 100 => ApplySubscriptionBillingDiscount(-sess[r].extraReserved) = -sess[r].extraReserved
    BY <1>a, Undiscounted DEF Row
  <2>2. \A s, n, c : PostConsumeDelta(r, s, n, c) => subNet'[r] = subNet[r] + n
    BY DeltaNet
  <2> HIDE DEF PostConsumeDelta
  <2> QED
    BY <1>a, <2>1, <2>2 DEF TypeOK, Row, RefundExtra, ExtraReserved, ExtraOwed
<1>1. BuildingInv(r)' /\ SessionInv(r)' /\ RefundInv(r)'
  <2>1. BuildingInv(r)'
    BY <1>a, <1>b, <1>c, <1>d
    DEF Row, RInv, BuildingInv, SessionInv, RefundInv, Building, Live, Ending,
       Reserving, PCs
  <2>2. SessionInv(r)'
    BY <1>a, <1>b, <1>c, <1>d
    DEF Row, RInv, BuildingInv, SessionInv, RefundInv, Building, Live, Ending,
       Reserving, PCs
  <2>3. RefundInv(r)'
    BY <1>a, <1>b, <1>c, <1>d
    DEF Row, RInv, BuildingInv, SessionInv, RefundInv, Building, Live, Ending,
       Reserving, PCs
  <2> QED
    BY <2>1, <2>2, <2>3
<1>2. WalletAccounted(r)' /\ TokenAccounted(r)'
  BY <1>a, <1>b, <1>c, <1>d DEF Row, RInv, Accounted, WalletAccounted, WalletHeld,
     TokenAccounted, TokenHeld, TokenFloor
<1>3. SubAccounted(r)'
  <2> SUFFICES ASSUME DiscountPct = 100
               PROVE  /\ subNet'[r] >= SubHeld(r)'
                      /\ clean'[r] => subNet'[r] = SubHeld(r)'
    BY DEF SubAccounted
  <2>1. /\ ~ sess[r].settled /\ ~ sess[r].fundingSettled /\ pc[r] \notin Reserving
        /\ sess[r].extraReserved >= 0
        /\ subNet[r] >= SubHeld(r) /\ (clean[r] => subNet[r] = SubHeld(r))
    BY <1>a, <1>b DEF Row, RInv, RefundInv, SessionInv, Accounted, SubAccounted, Ending, Reserving
  <2>2. SubHeld(r) \in Int /\ SubHeld(r)' = SubHeld(r) - (IF owed THEN sess[r].extraReserved ELSE 0)
    <3>1. CASE sess[r].source # "subscription"
      BY <1>c, <3>1 DEF SubHeld
    <3>2. CASE sess[r].source = "subscription"
      <4>1. PICK held \in Int : held = IF record[r].status = "consumed" THEN record[r].amount ELSE 0
        BY <1>a DEF Row
      <4>2. SubHeld(r) = held + sess[r].extraReserved + 0 + fee[r]
        BY <1>b, <2>1, <3>2, <4>1 DEF SubHeld
      <4>3. SubHeld(r)' = held + 0 + 0 + fee[r]
        BY <1>b, <1>c, <2>1, <3>2, <4>1 DEF SubHeld
      <4> QED
        BY <1>a, <2>1, <3>2, <4>2, <4>3 DEF Row
    <3> QED
      BY <3>1, <3>2
  <2>3. PICK m \in Int, e \in Int, n \in Int : m = SubHeld(r) /\ e = sess[r].extraReserved /\ n = subNet[r]
    BY <1>a, <2>2 DEF Row
  <2>4. PICK k : k = SubHeld(r)'
    OBVIOUS
  <2>5. /\ k = m - (IF owed THEN e ELSE 0) /\ e >= 0 /\ n >= m /\ (clean[r] => n = m)
        /\ owed => e > 0
    BY <2>1, <2>2, <2>3, <2>4
  <2> HIDE DEF owed
  <2>6. \/ owed /\ clean'[r] = clean[r] /\ subNet'[r] = n - e
        \/ owed /\ clean'[r] = FALSE /\ subNet'[r] = n
        \/ ~ owed /\ clean'[r] = clean[r] /\ subNet'[r] = n
    BY <1>d, <2>3
  <2>7. subNet'[r] >= k /\ (clean'[r] => subNet'[r] = k)
    BY <2>3, <2>5, <2>6
  <2> QED
    BY <2>4, <2>7
<1> QED
  BY <1>b, <1>1, <1>2, <1>3 DEF RInv, Accounted

\* RefundToken keeps the invariant of its request and touches no other.
LEMMA IndRefundToken ==
  ASSUME TypeOK, NEW r \in Requests, RInv(r), RefundToken(r)
  PROVE  RInv(r)' /\ Others(r)
<1>a. Row(r) /\ arg[r] \in Int
  BY RowTyped DEF Row
<1>1. BuildingInv(r)'
  BY <1>a
  DEF TypeOK, Row, RInv, BuildingInv, SessionInv, RefundInv, Building, Live, Ending, Reserving,
      PCs, RefundToken, BgGoto
<1>2. SessionInv(r)'
  BY <1>a
  DEF TypeOK, Row, RInv, BuildingInv, SessionInv, RefundInv, Building, Live, Ending, Reserving,
      PCs, RefundToken, BgGoto
<1>3. RefundInv(r)'
  BY <1>a
  DEF TypeOK, Row, RInv, BuildingInv, SessionInv, RefundInv, Building, Live, Ending, Reserving,
      PCs, BGs, RefundToken, BgGoto
<1>4. WalletAccounted(r)'
  BY <1>a
  DEF TypeOK, Row, RInv, BuildingInv, SessionInv, RefundInv, Accounted, WalletAccounted,
      WalletHeld, Building, Live, Ending, Reserving, PCs, BGs, RefundToken, BgGoto
<1>5. TokenAccounted(r)'
  BY <1>a
  DEF TypeOK, Row, RInv, BuildingInv, SessionInv, RefundInv, Accounted, TokenAccounted, TokenHeld,
      TokenFloor, Building, Live, Ending, Reserving, PCs, BGs, RefundToken, BgGoto
<1>6. SubAccounted(r)'
  BY <1>a
  DEF TypeOK, Row, RInv, BuildingInv, SessionInv, RefundInv, Accounted, SubAccounted, SubHeld,
      Delta, Building, Live, Ending, Reserving, PCs, BGs, RefundToken, BgGoto
<1>7. Others(r)
  BY DEF TypeOK, Others, Same, RefundToken, BgGoto
<1> QED
  BY <1>1, <1>2, <1>3, <1>4, <1>5, <1>6, <1>7 DEF RInv, Accounted

\* RefreshUnbilled keeps the invariant of its request and touches no other.
LEMMA IndRefreshUnbilled ==
  ASSUME TypeOK, NEW r \in Requests, RInv(r), UnbilledInv(r), RefreshUnbilled(r)
  PROVE  RInv(r)' /\ Others(r)
<1>1. pc[r] = "free" /\ sess[r] = NoBilling /\ req[r].pre = 0
  BY DEF RefreshUnbilled, UnbilledInv
<1>2. Empty(r)
  BY <1>1, NoBillingFacts, RowTyped DEF Empty, RInv, SessionInv, RefundInv, Row, BGs
<1>3. /\ record' = record /\ fee' = fee /\ bg' = bg /\ arg' = arg
      /\ walletNet' = walletNet /\ tokenNet' = tokenNet /\ subNet' = subNet /\ clean' = clean
  BY DEF RefreshUnbilled
<1>4. NothingTaken(r)'
  BY <1>2, <1>3, EmptyTook DEF NothingTaken
<1>5. CASE SendUpstream(r) /\ UNCHANGED <<req, plan, sess, faults>>
  <2>1. Empty(r)'
    BY <1>1, <1>2, <1>3, <1>5 DEF TypeOK, Empty, SendUpstream
  <2>2. Others(r)
    BY <1>3, <1>5 DEF TypeOK, Others, Same, SendUpstream
  <2> QED
    BY <1>4, <2>1, <2>2, EmptyInv
<1>6. CASE /\ \E target \in Targets : req' = [req EXCEPT ![r].pre = target]
           /\ sess' = [sess EXCEPT ![r] = NoSession]
           /\ StartSession(r, req[r].pref)
  <2>1. Empty(r)'
    BY <1>2, <1>3, <1>6 DEF TypeOK, Empty, StartSession
  <2>2. Others(r)
    BY <1>3, <1>6 DEF TypeOK, Others, Same, StartSession
  <2> QED
    BY <1>4, <2>1, <2>2, EmptyInv
<1> QED
  BY <1>5, <1>6, Zenon DEF RefreshUnbilled

\* What UnbilledInv reads of a request is the same.
SamePlan(r) == pc'[r] = pc[r] /\ plan'[r] = plan[r] /\ sess'[r] = sess[r] /\ req'[r] = req[r]

\* UnbilledInv survives a step that does not touch its request.
LEMMA UnbilledFrame ==
  ASSUME NEW r \in Requests, UnbilledInv(r), SamePlan(r)
  PROVE  UnbilledInv(r)'
BY DEF UnbilledInv, SamePlan

\* A session has a plan from StartSession until it ends, and RefreshUnbilled and
\* NextGroupUnbilled are the only steps between having none and having one.
LEMMA UnbilledRequest ==
  ASSUME TypeOK, NEW r \in Requests, RInv(r), UnbilledInv(r), RequestStep(r) \/ UpstreamStep(r)
  PROVE  UnbilledInv(r)' /\ \A q \in Requests \ {r} : SamePlan(q)
<1>a. plan[r] \in PlanType /\ req[r] \in ProfileType
  BY DEF TypeOK
<1>b. /\ \A n : n # "none" => Try(n, "none") # Unbilled /\ Try(n, "none").now = n
      /\ Unbilled.now = "none"
  BY DEF Try, Unbilled
<1>1. CASE Begin(r)
  <2>1. PICK p \in Profiles :
          \/ ~ p.free /\ StartSession(r, p.pref) /\ req' = [req EXCEPT ![r] = p] /\ UNCHANGED sess
          \/ /\ p.free /\ Goto(r, "free") /\ req' = [req EXCEPT ![r] = [p EXCEPT !.pre = 0]]
             /\ sess' = [sess EXCEPT ![r] = NoBilling] /\ UNCHANGED <<plan, faults>>
    BY <1>1, Zenon DEF Begin
  <2>2. p \in ProfileType /\ pc[r] = "idle"
    BY <1>1, ProfilesAssumption DEF Begin
  <2>3. CASE StartSession(r, p.pref) /\ req' = [req EXCEPT ![r] = p] /\ UNCHANGED sess
    BY <2>2, <2>3, PlanTyped DEF TypeOK, StartSession, UnbilledInv, SamePlan, Building, Reserving
  <2>4. CASE /\ Goto(r, "free") /\ req' = [req EXCEPT ![r] = [p EXCEPT !.pre = 0]]
             /\ sess' = [sess EXCEPT ![r] = NoBilling] /\ UNCHANGED <<plan, faults>>
    <3>1. req'[r].pre = 0
      BY <2>2, <2>4, Repriced DEF TypeOK
    <3> QED
      BY <2>2, <2>4, <3>1 DEF TypeOK, UnbilledInv, SamePlan, Building, Reserving
  <2> QED
    BY <2>1, <2>3, <2>4
<1>2. CASE RefreshUnbilled(r)
  <2>1. pc[r] = "free"
    BY <1>2 DEF RefreshUnbilled
  <2>2. CASE SendUpstream(r) /\ UNCHANGED <<req, plan, sess, faults>>
    BY <2>1, <2>2 DEF TypeOK, SendUpstream, UnbilledInv, SamePlan, Building, Reserving
  <2>3. CASE /\ \E target \in Targets : req' = [req EXCEPT ![r].pre = target]
             /\ sess' = [sess EXCEPT ![r] = NoSession]
             /\ StartSession(r, req[r].pref)
    BY <2>1, <2>3, PlanTyped DEF TypeOK, StartSession, UnbilledInv, SamePlan, Building, Reserving
  <2> QED
    BY <1>2, <2>2, <2>3, Zenon DEF RefreshUnbilled
<1>3. CASE TryWallet(r)
  <2>1. pc[r] = "try"
    BY <1>3 DEF TryWallet
  <2>2. \/ /\ sess' = [sess EXCEPT ![r] = NoSession] /\ UNCHANGED req
           /\ \/ Goto(r, "done") /\ UNCHANGED plan
              \/ /\ Goto(r, "try") /\ plan[r].next # "none"
                 /\ plan' = [plan EXCEPT ![r] = Try(plan[r].next, "none")]
        \/ /\ sess' = [sess EXCEPT ![r] = NoBilling] /\ Goto(r, "free")
           /\ plan' = [plan EXCEPT ![r] = Unbilled]
           /\ req' = [req EXCEPT ![r] = [req[r] EXCEPT !.pre = 0]]
        \/ /\ sess' = [sess EXCEPT ![r] = Opened("wallet", ShouldTrust(r, quota))]
           /\ Goto(r, "token") /\ UNCHANGED <<req, plan>>
    BY <1>3, Zenon DEF TryWallet, NextGroupUnbilled
  <2>3. [req[r] EXCEPT !.pre = 0].pre = 0
    BY <1>a, Repriced
  <2>4. plan[r].now # "none"
    BY <1>b, <2>1 DEF UnbilledInv
  <2>5. CASE /\ sess' = [sess EXCEPT ![r] = NoSession] /\ UNCHANGED <<req, plan>> /\ Goto(r, "done")
    BY <2>1, <2>4, <2>5 DEF TypeOK, UnbilledInv, SamePlan, Building, Reserving
  <2>6. CASE /\ sess' = [sess EXCEPT ![r] = NoSession] /\ UNCHANGED req
             /\ Goto(r, "try") /\ plan[r].next # "none"
             /\ plan' = [plan EXCEPT ![r] = Try(plan[r].next, "none")]
    <3>1. plan'[r] # Unbilled /\ plan'[r].now # "none" /\ pc'[r] = "try"
      BY <1>b, <2>6 DEF TypeOK
    <3> QED
      BY <2>6, <3>1 DEF TypeOK, UnbilledInv, SamePlan
  <2>7. CASE /\ sess' = [sess EXCEPT ![r] = NoBilling] /\ Goto(r, "free")
             /\ plan' = [plan EXCEPT ![r] = Unbilled]
             /\ req' = [req EXCEPT ![r] = [req[r] EXCEPT !.pre = 0]]
    <3>1. /\ plan'[r] = Unbilled /\ pc'[r] = "free"
          /\ sess'[r] = NoBilling /\ req'[r].pre = 0
      BY <2>3, <2>7 DEF TypeOK
    <3> QED
      BY <2>7, <3>1 DEF TypeOK, UnbilledInv, SamePlan, Building, Reserving
  <2>8. CASE /\ sess' = [sess EXCEPT ![r] = Opened("wallet", ShouldTrust(r, quota))]
             /\ Goto(r, "token") /\ UNCHANGED <<req, plan>>
    BY <1>b, <2>1, <2>4, <2>8 DEF TypeOK, UnbilledInv, SamePlan, Building, Reserving
  <2> QED
    BY <2>2, <2>5, <2>6, <2>7, <2>8
<1>4. CASE TrySubscription(r)
  BY <1>a, <1>b, <1>4 DEF TypeOK, UnbilledInv, SamePlan, Building, Reserving, TrySubscription
<1>5. CASE CheckToken(r)
  BY <1>a, <1>b, <1>5 DEF TypeOK, UnbilledInv, SamePlan, Building, Reserving, CheckToken
<1>6. CASE TakeToken(r)
  BY <1>a, <1>b, <1>6 DEF TypeOK, UnbilledInv, SamePlan, Building, Reserving, TakeToken
<1>7. CASE FundWallet(r)
  BY <1>a, <1>b, <1>7 DEF TypeOK, UnbilledInv, SamePlan, Building, Reserving, FundWallet, SessionReady
<1>8. CASE FundSubscription(r)
  <2>1. /\ pc[r] = "fund" /\ UNCHANGED req
        /\ pc' = [pc EXCEPT ![r] = pc'[r]] /\ pc'[r] \in {"undo", "ready", "upstream"}
        /\ sess' = [sess EXCEPT ![r] = sess'[r]]
        /\ UNCHANGED plan \/ plan' = [plan EXCEPT ![r] = Try(plan[r].now, "none")]
    BY <1>8 DEF TypeOK, FundSubscription, PreConsumeUserSubscription, SessionReady
  <2> QED
    BY <1>b, <2>1 DEF TypeOK, UnbilledInv, SamePlan, Building, Reserving
<1>9. CASE UndoToken(r)
  BY <1>a, <1>b, <1>9 DEF TypeOK, UnbilledInv, SamePlan, Building, Reserving, UndoToken
<1>10. CASE ReadRows(r)
  BY <1>a, <1>b, <1>10 DEF TypeOK, UnbilledInv, SamePlan, Building, Reserving, ReadRows
<1>11. CASE NoChannel(r)
  BY <1>a, <1>b, <1>11 DEF TypeOK, UnbilledInv, SamePlan, Building, Reserving, NoChannel, Fail
<1>12. CASE Reserve(r)
  BY <1>a, <1>b, <1>12 DEF TypeOK, UnbilledInv, SamePlan, Building, Reserving, Reserve, SendUpstream, Fail
<1>13. CASE ReserveCheckToken(r)
  BY <1>a, <1>b, <1>13 DEF TypeOK, UnbilledInv, SamePlan, Building, Reserving, ReserveCheckToken, ReserveDone, SendUpstream
<1>14. CASE ReserveTakeToken(r)
  BY <1>a, <1>b, <1>14 DEF TypeOK, UnbilledInv, SamePlan, Building, Reserving, ReserveTakeToken, ReserveDone, SendUpstream
<1>15. CASE ReserveUndo(r)
  BY <1>a, <1>b, <1>15 DEF TypeOK, UnbilledInv, SamePlan, Building, Reserving, ReserveUndo, Fail
<1>16. CASE SettleFunding(r)
  BY <1>a, <1>b, <1>16 DEF TypeOK, UnbilledInv, SamePlan, Building, Reserving, SettleFunding
<1>17. CASE SettleToken(r)
  BY <1>a, <1>b, <1>17 DEF TypeOK, UnbilledInv, SamePlan, Building, Reserving, SettleToken
<1>18. CASE Refund(r)
  BY <1>a, <1>b, <1>18 DEF TypeOK, UnbilledInv, SamePlan, Building, Reserving, Refund
<1>19. CASE ChargeFee(r)
  BY <1>a, <1>b, <1>19 DEF TypeOK, UnbilledInv, SamePlan, Building, Reserving, ChargeFee
<1>20. CASE ChargeFeeToken(r)
  BY <1>a, <1>b, <1>20 DEF TypeOK, UnbilledInv, SamePlan, Building, Reserving, ChargeFeeToken
<1>21. CASE Upstream(r)
  BY <1>a, <1>b, <1>21 DEF TypeOK, UnbilledInv, SamePlan, Building, Reserving, Upstream, Fail
<1>22. CASE Panic(r)
  BY <1>a, <1>b, <1>22 DEF TypeOK, UnbilledInv, SamePlan, Building, Reserving, Panic
<1> QED
  BY <1>1, <1>2, <1>3, <1>4, <1>5, <1>6, <1>7, <1>8, <1>9,
     <1>10, <1>11, <1>12, <1>13, <1>14, <1>15, <1>16, <1>17, <1>18, <1>19, <1>20, <1>21, <1>22
  DEF RequestStep, UpstreamStep

\* The invariant is inductive: one request moves, Frame covers all others.
LEMMA IndStep == TypeOK /\ IndInv /\ [Next]_vars => IndInv'
<1> SUFFICES ASSUME TypeOK, IndInv, [Next]_vars, NEW q \in Requests PROVE RInv(q)' /\ UnbilledInv(q)'
  BY DEF IndInv, RInv
<1>1. \A r \in Requests : RInv(r) /\ UnbilledInv(r)
  BY DEF IndInv, RInv
<1>2. ASSUME NEW r \in Requests, RInv(r)' /\ Others(r) PROVE RInv(q)'
  BY <1>1, <1>2, Frame DEF Others
<1>3. ASSUME NEW r \in Requests, RequestStep(r) \/ UpstreamStep(r) PROVE RInv(r)' /\ Others(r)
  <2>1. CASE ReadRows(r)
    BY <1>1, <2>1, Frame DEF ReadRows, Same, Others
  <2> QED
    BY <1>1, <1>3, <2>1, IndBegin, IndTryWallet, IndTrySubscription, IndCheckToken, IndTakeToken,
       IndFundWallet, IndFundSubscription, IndUndoToken, IndNoChannel, IndRefreshUnbilled,
       IndReserve, IndReserveCheckToken, IndReserveTakeToken, IndReserveUndo, IndUpstream,
       IndPanic, IndSettleFunding, IndSettleToken, IndRefund, IndChargeFee, IndChargeFeeToken
    DEF RequestStep, UpstreamStep
<1>4. ASSUME NEW r \in Requests, RefundStep(r) PROVE RInv(r)' /\ Others(r) /\ UnbilledInv(q)'
  <2>1. ASSUME RefundRead(r) PROVE RInv(r)' /\ Others(r)
    <3>1. \A p \in Requests : Same(p)
      BY <2>1 DEF RefundRead, Same
    <3>2. RInv(r)'
      BY <1>1, <3>1, Frame, Zenon
    <3>3. Others(r)
      BY <3>1, Zenon DEF Others
    <3> QED
      BY <3>2, <3>3
  <2>2. RInv(r)' /\ Others(r)
    BY <1>1, <1>4, <2>1, IndRefundWallet, IndRefundSubscription, IndRefundExtra, IndRefundToken
    DEF RefundStep
  <2>3. SamePlan(q)
    BY <1>4 DEF RefundStep, RefundWallet, RefundRead, RefundSubscription, RefundExtra, RefundToken,
       SamePlan
  <2> QED
    BY <1>1, <2>2, <2>3, UnbilledFrame
<1>5. ASSUME NEW s \in Subs, SubscriptionStep(s) PROVE Same(q) /\ SamePlan(q)
  BY <1>5 DEF SubscriptionStep, PeriodEnds, ResetRead, ResetDueSubscription, Deactivate, Same, SamePlan
<1>6. CASE UNCHANGED vars
  BY <1>1, <1>6, Frame, UnbilledFrame DEF Same, SamePlan, vars
<1>7. ASSUME NEW r \in Requests, RequestStep(r) \/ UpstreamStep(r) PROVE UnbilledInv(q)'
  BY <1>1, <1>7, UnbilledRequest, UnbilledFrame
<1> QED
  BY <1>1, <1>2, <1>3, <1>4, <1>5, <1>6, <1>7, Frame, UnbilledFrame DEF Next, Finished

\* In every reachable state the rows are accounted for by the sessions, the pre-consume
\* records and the positions of the request and refund goroutines (Settle, Refund, Reserve).
THEOREM InvariantCorrect == Spec => []IndInv
<1>1. Init => IndInv
  BY InitInv
<1> QED
  BY <1>1, TypeCorrect, IndStep, PTL DEF Spec

\* NetIs, with nothing said yet of a discounted subscription.
NetExact(r, n) ==
  /\ walletNet[r] = From(r, "wallet", n)
  /\ tokenNet[r] = IF req[r].playground THEN 0 ELSE n
  /\ DiscountPct = 100 => subNet[r] = From(r, "subscription", n)

\* The invariant leaves a finished, clean request with exactly what it owes.
LEMMA BilledFromInv ==
  ASSUME TypeOK, IndInv, NEW r \in Requests, Over(r), clean[r]
  PROVE  NetExact(r, Owed(r))
<1>1. Row(r) /\ RInv(r) /\ pc[r] = "done" /\ bg[r] \in {"none", "end"}
  BY RowTyped DEF IndInv, RInv, Over
<1>2. walletNet[r] = From(r, "wallet", Owed(r))
  BY <1>1, NoSessionFacts
  DEF Row, RInv, Accounted, WalletAccounted, WalletHeld, From, Owed, SessionInv, RefundInv,
      Ending, BuildingInv
<1>3. tokenNet[r] = IF req[r].playground THEN 0 ELSE Owed(r)
  BY <1>1, NoSessionFacts
  DEF Row, RInv, Accounted, TokenAccounted, TokenHeld, TokenFloor, Owed, SessionInv, RefundInv,
      Ending, BuildingInv
<1>4. DiscountPct = 100 => subNet[r] = From(r, "subscription", Owed(r))
  BY <1>1, NoSessionFacts
  DEF Row, RInv, Accounted, SubAccounted, SubHeld, From, Owed, SessionInv, RefundInv, Ending,
      BuildingInv, Reserving
<1> QED
  BY <1>2, <1>3, <1>4 DEF NetExact

\* NeverCredited, with nothing said yet of a discounted subscription.
NetNonNegative ==
  \A r \in Requests :
    /\ walletNet[r] >= 0 /\ tokenNet[r] >= 0
    /\ DiscountPct = 100 => subNet[r] >= 0

\* What a session holds is never negative.
LEMMA NonNegativeFromInv == TypeOK /\ IndInv => NetNonNegative
<1> SUFFICES ASSUME TypeOK, IndInv, NEW r \in Requests
    PROVE /\ walletNet[r] >= 0 /\ tokenNet[r] >= 0
          /\ DiscountPct = 100 => subNet[r] >= 0
  BY DEF NetNonNegative
<1>1. Row(r) /\ RInv(r)
  BY RowTyped DEF IndInv, RInv
<1>2. walletNet[r] >= 0
  BY <1>1 DEF Row, RInv, Accounted, WalletAccounted, WalletHeld, SessionInv
<1>3. tokenNet[r] >= 0
  BY <1>1 DEF Row, RInv, Accounted, TokenAccounted, TokenFloor, SessionInv
<1>4. DiscountPct = 100 => subNet[r] >= 0
  BY <1>1 DEF Row, RInv, Accounted, SubAccounted, SubHeld, SessionInv, Delta
<1> QED
  BY <1>2, <1>3, <1>4

\* While the upstream works, what is held is the session's pre-consumption.
LEMMA HeldFromInv ==
  ASSUME TypeOK, IndInv, NEW r \in Requests, pc[r] = "upstream", clean[r]
  PROVE  /\ NetExact(r, sess[r].preConsumedQuota)
         /\ sess[r].trusted \/ sess[r].preConsumedQuota >= req[r].pre
<1>1. Row(r) /\ RInv(r)
  BY RowTyped DEF IndInv, RInv
<1>2. /\ sess[r].source # "none" /\ ~ sess[r].settled /\ ~ sess[r].fundingSettled
      /\ bg[r] = "none" /\ fee[r] = 0 /\ sess[r].tokenConsumed = sess[r].preConsumedQuota
      /\ sess[r].trusted \/ sess[r].preConsumedQuota >= req[r].pre
      /\ sess[r].source = "wallet" => sess[r].consumed = sess[r].preConsumedQuota
      /\ sess[r].source = "subscription" =>
           /\ record[r].status = "consumed"
           /\ DiscountPct = 100 => sess[r].preConsumedQuota = record[r].amount + sess[r].extraReserved
  BY <1>1 DEF Row, RInv, SessionInv, RefundInv, Live, Building, Ending, Reserving, PCs
<1>3. walletNet[r] = From(r, "wallet", sess[r].preConsumedQuota)
  BY <1>1, <1>2 DEF Row, RInv, Accounted, WalletAccounted, WalletHeld, From
<1>4. tokenNet[r] = IF req[r].playground THEN 0 ELSE sess[r].preConsumedQuota
  BY <1>1, <1>2 DEF Row, RInv, Accounted, TokenAccounted, TokenHeld, TokenFloor
<1>5. DiscountPct = 100 => subNet[r] = From(r, "subscription", sess[r].preConsumedQuota)
  BY <1>1, <1>2 DEF Row, RInv, Accounted, SubAccounted, SubHeld, From, Reserving
<1> QED
  BY <1>2, <1>3, <1>4, <1>5 DEF NetExact

-----------------------------------------------------------------------------
(***************************************************************************)
(* The subscription rows                                                   *)
(***************************************************************************)

\* A step of request r or of its refund goroutine.
StepOf(r) == RequestStep(r) \/ UpstreamStep(r) \/ RefundStep(r)

\* A step moves d units of the subscription recorded for r and saves the row it read as c.
Moved(r, s, d, c) ==
  /\ s \in Subs /\ record[r].sub = s /\ record[r].status # "none"
  /\ record'[r].sub = s /\ record'[r].status # "none"
  /\ PostConsumeDelta(r, s, d, c)
  /\ d <= 0 \/ DeltaFits(c, s, d)

\* A step of a request leaves the subscriptions and its record alone, or moves what the
\* request of a recorded subscription took, or pre-consumes for the first time.
LEMMA SubscriptionMoves ==
  ASSUME TypeOK, NEW r \in Requests, RInv(r), StepOf(r)
  PROVE  /\ periods' = periods
         /\ \/ UNCHANGED <<subRows, subNet, record>>
            \/ \E s \in Subs, d \in Int, c \in seen[r] \cup bgSeen[r] : Moved(r, s, d, c)
            \/ /\ record[r].status = "none"
               /\ \E c \in seen[r] : PreConsumeUserSubscription(r, c)
<1>a. Row(r) /\ Delta(r) \in Int /\ Delta(r) = arg[r] - sess[r].preConsumedQuota
  BY RowTyped DEF Row, Delta
<1>b. \A n \in Int : ApplySubscriptionBillingDiscount(n) \in Int /\ (n < 0 => ApplySubscriptionBillingDiscount(n) <= 0)
  BY DiscountSign
<1>c. (pc[r] \in Live \cup {"done"} /\ sess[r].source = "subscription") =>
        /\ sess[r].subscriptionId \in Subs /\ record[r].sub = sess[r].subscriptionId
        /\ record[r].status # "none"
  BY DEF RInv, SessionInv
<1>d. bg[r] # "none" => pc[r] \in Live \cup {"done"}
  BY <1>a DEF RInv, RefundInv, Ending, Live, Building, PCs
<1>m. ASSUME pc[r] \in Live \cup {"done"}, sess[r].source = "subscription", NEW d \in Int,
             NEW c \in seen[r] \cup bgSeen[r], PostConsumeDelta(r, sess[r].subscriptionId, d, c),
             d <= 0 \/ DeltaFits(c, sess[r].subscriptionId, d), record' = record
      PROVE  \E s \in Subs, e \in Int, k \in seen[r] \cup bgSeen[r] : Moved(r, s, e, k)
  <2>1. Moved(r, sess[r].subscriptionId, d, c) /\ sess[r].subscriptionId \in Subs
    BY <1>c, <1>m, Zenon DEF Moved
  <2> QED
    BY <1>m, <2>1, Zenon
<1> HIDE DEF PostConsumeDelta
<1>1. CASE FundSubscription(r)
  <2>1. record[r].status = "none"
    BY <1>1 DEF FundSubscription, RInv, BuildingInv, Building
  <2> QED
    BY <1>1, <2>1, Zenon DEF FundSubscription
<1>2. CASE Reserve(r)
  <2>1. PICK target \in Targets : Reserve(r)!2!(target)
    BY <1>2 DEF Reserve
  <2>2. ApplySubscriptionBillingDiscount(target - sess[r].preConsumedQuota) \in Int
    BY <1>a, <1>b, AmountsAssumption DEF Row
  <2>3. pc[r] \in Live /\ record' = record /\ periods' = periods
    BY <1>2 DEF Reserve, Live, Building, PCs
  <2>4. \/ UNCHANGED <<subRows, subNet>>
        \/ /\ sess[r].source = "subscription"
           /\ \E c \in seen[r] :
                LET e == ApplySubscriptionBillingDiscount(target - sess[r].preConsumedQuota) IN
                /\ DeltaFits(c, sess[r].subscriptionId, e)
                /\ PostConsumeDelta(r, sess[r].subscriptionId, e, c)
    BY <2>1, Zenon
  <2> QED
    BY <1>m, <2>2, <2>3, <2>4
<1>3. CASE ReserveUndo(r)
  <2>1. /\ pc[r] \in Live /\ record' = record /\ periods' = periods
        /\ -Delta(r) \in Int /\ -Delta(r) < 0
    BY <1>3, <1>a DEF ReserveUndo, Live, Building, PCs, RInv, SessionInv, Reserving, Row
  <2>2. /\ ApplySubscriptionBillingDiscount(-Delta(r)) \in Int
        /\ ApplySubscriptionBillingDiscount(-Delta(r)) <= 0
    BY <1>b, <2>1
  <2>3. \/ UNCHANGED <<subRows, subNet>>
        \/ /\ sess[r].source = "subscription"
           /\ \E c \in seen[r] :
                PostConsumeDelta(r, sess[r].subscriptionId, ApplySubscriptionBillingDiscount(-Delta(r)), c)
    BY <1>3, Zenon DEF ReserveUndo
  <2> QED
    BY <1>m, <2>1, <2>2, <2>3
<1>4. CASE SettleFunding(r)
  <2>1. /\ pc[r] \in Live /\ ApplySubscriptionBillingDiscount(Delta(r)) \in Int
        /\ record' = record /\ periods' = periods
    BY <1>4, <1>a, <1>b DEF SettleFunding, Live, Building, PCs
  <2>2. \/ UNCHANGED <<subRows, subNet>>
        \/ /\ sess[r].source = "subscription"
           /\ \E c \in seen[r] :
                LET e == ApplySubscriptionBillingDiscount(Delta(r)) IN
                /\ DeltaFits(c, sess[r].subscriptionId, e)
                /\ PostConsumeDelta(r, sess[r].subscriptionId, e, c)
    BY <1>4, Zenon DEF SettleFunding
  <2> QED
    BY <1>m, <2>1, <2>2
<1>5. CASE ChargeFee(r)
  <2>1. /\ pc[r] \in Live /\ ApplySubscriptionBillingDiscount(arg[r]) \in Int
        /\ record' = record /\ periods' = periods
    BY <1>5, <1>a, <1>b DEF ChargeFee, Live, Building, PCs, Row
  <2>2. \/ UNCHANGED <<subRows, subNet>>
        \/ /\ sess[r].source = "subscription"
           /\ \E c \in seen[r] :
                LET e == ApplySubscriptionBillingDiscount(arg[r]) IN
                /\ DeltaFits(c, sess[r].subscriptionId, e)
                /\ PostConsumeDelta(r, sess[r].subscriptionId, e, c)
    BY <1>5, Zenon DEF ChargeFee
  <2> QED
    BY <1>m, <2>1, <2>2
<1>6. CASE RefundSubscription(r)
  <2>1. /\ record[r].sub \in Subs /\ record[r].status # "none"
        /\ -record[r].amount \in Int /\ -record[r].amount <= 0 /\ periods' = periods
    BY <1>6, <1>a, <1>c, <1>d DEF RefundSubscription, Row
  <2>2. CASE RefundSubscriptionPreConsume(r) /\ record[r].status = "consumed"
    <3>1. PICK c \in bgSeen[r] : PostConsumeDelta(r, record[r].sub, -record[r].amount, c)
      BY <2>2, Zenon DEF RefundSubscriptionPreConsume
    <3>2. record' = [record EXCEPT ![r].status = "refunded"]
      BY <2>2 DEF RefundSubscriptionPreConsume
    <3>3. record'[r].sub = record[r].sub /\ record'[r].status = "refunded"
      BY <3>2 DEF TypeOK, RecordType
    <3>4. Moved(r, record[r].sub, -record[r].amount, c)
      BY <2>1, <3>1, <3>3 DEF Moved
    <3> QED
      BY <2>1, <3>1, <3>4
  <2> QED
    BY <1>6, <2>1, <2>2, Zenon DEF RefundSubscription, RefundSubscriptionPreConsume
<1>7. CASE RefundExtra(r)
  <2>1. /\ pc[r] \in Live \cup {"done"} /\ record' = record /\ periods' = periods
        /\ -ExtraReserved(r) \in Int
    BY <1>7, <1>a, <1>d DEF RefundExtra, Row, ExtraReserved
  <2>2. ExtraOwed(r) => /\ sess[r].source = "subscription"
                        /\ ApplySubscriptionBillingDiscount(-ExtraReserved(r)) \in Int
                        /\ ApplySubscriptionBillingDiscount(-ExtraReserved(r)) <= 0
    BY <1>a, <1>b, <2>1 DEF ExtraOwed, ExtraReserved, Row
  <2>3. \/ UNCHANGED <<subRows, subNet>>
        \/ /\ ExtraOwed(r)
           /\ \E c \in bgSeen[r] :
                PostConsumeDelta(r, sess[r].subscriptionId,
                                 ApplySubscriptionBillingDiscount(-ExtraReserved(r)), c)
    BY <1>7, Zenon DEF RefundExtra
  <2> QED
    BY <1>m, <2>1, <2>2, <2>3
<1>8. CASE \/ Begin(r) \/ TryWallet(r) \/ TrySubscription(r) \/ CheckToken(r) \/ TakeToken(r)
           \/ FundWallet(r) \/ UndoToken(r) \/ ReadRows(r) \/ NoChannel(r) \/ RefreshUnbilled(r)
           \/ ReserveCheckToken(r) \/ ReserveTakeToken(r) \/ Upstream(r) \/ Panic(r)
           \/ SettleToken(r) \/ Refund(r) \/ ChargeFeeToken(r)
           \/ RefundWallet(r) \/ RefundRead(r) \/ RefundToken(r)
  BY <1>8
  DEF Begin, TryWallet, TrySubscription, CheckToken, TakeToken, FundWallet, UndoToken, ReadRows,
     NoChannel, RefreshUnbilled, ReserveCheckToken, ReserveTakeToken, Upstream, Panic, SettleToken,
     Refund, ChargeFeeToken, RefundWallet, RefundRead, RefundToken, rows, history
<1> QED
  BY <1>1, <1>2, <1>3, <1>4, <1>5, <1>6, <1>7, <1>8
  DEF StepOf, RequestStep, UpstreamStep, RefundStep

\* The row of t after tx.Save.
LEMMA SavedRow ==
  ASSUME NEW c, NEW ts, NEW used, NEW reset, SaveRows(c, ts, used, reset), NEW t \in Subs
  PROVE  /\ amountUsed'[t] = IF t \in ts THEN used[t] ELSE amountUsed[t]
         /\ ~ lost'[t] => ~ lost[t] /\ (t \in ts => c.used[t] = amountUsed[t])
BY DEF SaveRows

\* A copy tells no period that has not ended, and no amount_used beyond the total.
CopyOK(c, clock) ==
  \A t \in Subs : c.now[t] <= clock[t] /\ (AmountTotal[t] > 0 => c.used[t] <= AmountTotal[t])

RowsWithin == \A t \in Subs : AmountTotal[t] > 0 => amountUsed[t] <= AmountTotal[t]

\* The rows, and every copy a transaction still holds, are within the totals; the task
\* holds only copies of due rows.
CopiesInv ==
  /\ RowsWithin
  /\ \A r \in Requests : \A c \in seen[r] \cup bgSeen[r] : CopyOK(c, periods)
  /\ \A s \in Subs : \A c \in resetSeen[s] : CopyOK(c, periods) /\ IsDue(c, s)

\* Whatever step of a request saves a row, the copy it read and checked fits.
LEMMA RowsStep ==
  ASSUME TypeOK, CopiesInv, NEW r \in Requests, RInv(r), StepOf(r)
  PROVE  RowsWithin'
<1> SUFFICES ASSUME NEW t \in Subs, AmountTotal[t] > 0 PROVE amountUsed'[t] <= AmountTotal[t]
  BY DEF RowsWithin
<1>1. AmountTotal[t] \in Nat /\ amountUsed[t] \in Nat /\ amountUsed[t] <= AmountTotal[t]
  BY AmountsAssumption DEF TypeOK, CopiesInv, RowsWithin
<1>2. CASE UNCHANGED subRows
  BY <1>1, <1>2
<1>3. ASSUME NEW s \in Subs, NEW d \in Int, NEW c \in seen[r] \cup bgSeen[r], Moved(r, s, d, c)
      PROVE  amountUsed'[t] <= AmountTotal[t]
  <2>1. c \in CopyType /\ c.used[t] <= AmountTotal[t]
    BY SeenTyped DEF CopiesInv, CopyOK
  <2>2. c.used \in [Subs -> Nat] /\ c.used[t] \in Nat
    BY <2>1, CopyFields
  <2>3. SaveRows(c, {s}, [c.used EXCEPT ![s] = AtLeast(c.used[s] + d, 0)], c.reset)
    BY <1>3 DEF Moved
  <2>4. amountUsed'[t] = IF t = s THEN AtLeast(c.used[t] + d, 0) ELSE amountUsed[t]
    <3>1. amountUsed' = [u \in Subs |-> IF u \in {s} THEN [c.used EXCEPT ![s] = AtLeast(c.used[s] + d, 0)][u]
                                                     ELSE amountUsed[u]]
      BY <2>3 DEF SaveRows
    <3> QED
      BY <2>2, <3>1
  <2>5. t = s => d <= 0 \/ AtLeast(c.used[t] + d, 0) <= AmountTotal[t]
    BY <1>1, <1>3 DEF Moved, DeltaFits
  <2> QED
    BY <1>1, <2>1, <2>2, <2>4, <2>5 DEF AtLeast
<1>4. ASSUME NEW c \in seen[r], PreConsumeUserSubscription(r, c)
      PROVE  amountUsed'[t] <= AmountTotal[t]
  <2> DEFINE paid == ApplySubscriptionBillingDiscount(arg[r])
  <2>1. c \in CopyType /\ c.used[t] <= AmountTotal[t]
    BY SeenTyped DEF CopiesInv, CopyOK
  <2>2. c.used \in [Subs -> Nat] /\ c.used[t] \in Nat
    BY <2>1, CopyFields
  <2>3. PICK s \in Candidates(c, paid) :
          LET resets == {u \in Subs : c.active[u] /\ IsDue(c, u) /\ u <= s} IN
          SaveRows(c, resets \cup {s},
                   [u \in Subs |-> UsedAfterReset(c, u) + (IF u = s THEN paid ELSE 0)],
                   [u \in Subs |-> IF u \in resets THEN c.now[u] ELSE c.reset[u]])
    BY <1>4, Zenon DEF PreConsumeUserSubscription
  <2>4. paid \in Int
    BY DiscountSign DEF TypeOK
  <2> HIDE DEF paid
  <2>5. s \in Subs /\ (AmountTotal[s] = 0 \/ AmountTotal[s] - UsedAfterReset(c, s) >= paid)
    BY DEF Candidates
  <2>6. \/ amountUsed'[t] = UsedAfterReset(c, t) + (IF t = s THEN paid ELSE 0)
        \/ amountUsed'[t] = amountUsed[t]
    <3>1. PICK ts, rs : SaveRows(c, ts, [u \in Subs |-> UsedAfterReset(c, u) + (IF u = s THEN paid ELSE 0)], rs)
      BY <2>3
    <3> QED
      BY <3>1, SavedRow
  <2>7. UsedAfterReset(c, t) \in Nat /\ UsedAfterReset(c, t) <= AmountTotal[t]
    BY <1>1, <2>1, <2>2 DEF UsedAfterReset
  <2> QED
    BY <1>1, <2>4, <2>5, <2>6, <2>7
<1> QED
  BY <1>2, <1>3, <1>4, SubscriptionMoves

\* What a step of a request reads is a copy of the rows as they are.
LEMMA CopiesMove ==
  ASSUME TypeOK, NEW r \in Requests, StepOf(r)
  PROVE  /\ resetSeen' = resetSeen
         /\ seen' = seen \/ \E k \in {{}, {Copy}} : seen' = [seen EXCEPT ![r] = k]
         /\ bgSeen' = bgSeen \/ \E k \in {{}, {Copy}} : bgSeen' = [bgSeen EXCEPT ![r] = k]
<1>1. CASE RequestStep(r) \/ UpstreamStep(r)
  BY <1>1, Zenon
  DEF RequestStep, UpstreamStep, Begin, TryWallet, TrySubscription, CheckToken, TakeToken, FundWallet,
     FundSubscription, UndoToken, ReadRows, NoChannel, RefreshUnbilled, Reserve, ReserveCheckToken,
     ReserveTakeToken, ReserveUndo, Upstream, Panic, SettleFunding, SettleToken, Refund, ChargeFee,
     ChargeFeeToken
<1>2. CASE RefundStep(r)
  BY <1>2, Zenon DEF RefundStep, RefundWallet, RefundRead, RefundSubscription, RefundExtra, RefundToken
<1> QED
  BY <1>1, <1>2 DEF StepOf

\* A copy that was right stays right: the clock does not go back.
LEMMA CopyKept ==
  ASSUME TypeOK, TypeOK', NEW c \in CopyType, CopyOK(c, periods), \A t \in Subs : periods[t] <= periods'[t]
  PROVE  CopyOK(c, periods')
<1>1. \A t \in Subs : c.now[t] \in Nat /\ periods[t] \in Nat /\ periods'[t] \in Nat
  BY CopyFields DEF TypeOK
<1> QED
  BY <1>1 DEF CopyOK

\* The rows as they are make a right copy.
LEMMA CopyNow ==
  ASSUME TypeOK, RowsWithin
  PROVE  CopyOK(Copy, periods)
<1>1. Copy.used = amountUsed /\ Copy.now = periods
  BY DEF Copy
<1>2. \A t \in Subs : periods[t] \in Nat
  BY DEF TypeOK
<1> QED
  BY <1>1, <1>2 DEF CopyOK, RowsWithin

\* The invariant on rows and copies survives the steps of the requests.
LEMMA CopiesRequest ==
  ASSUME TypeOK, TypeOK', CopiesInv, NEW r \in Requests, RInv(r), StepOf(r)
  PROVE  CopiesInv'
<1>1. periods' = periods /\ RowsWithin'
  BY SubscriptionMoves, RowsStep
<1>2. PICK k : k = Copy
  OBVIOUS
<1>3. CopyOK(k, periods)
  BY <1>2, CopyNow DEF CopiesInv
<1>4. \A q \in Requests : seen'[q] \in {seen[q], {}, {k}} /\ bgSeen'[q] \in {bgSeen[q], {}, {k}}
  <2>1. /\ DOMAIN seen = Requests /\ seen = [q \in Requests |-> seen[q]]
        /\ DOMAIN bgSeen = Requests /\ bgSeen = [q \in Requests |-> bgSeen[q]]
    BY DEF TypeOK
  <2>2. \A q \in Requests : seen'[q] \in {seen[q], {}, {k}}
    BY <1>2, <2>1, CopiesMove
  <2>3. \A q \in Requests : bgSeen'[q] \in {bgSeen[q], {}, {k}}
    BY <1>2, <2>1, CopiesMove
  <2> QED
    BY <2>2, <2>3
<1>5. \A q \in Requests : \A c \in seen'[q] \cup bgSeen'[q] : c = k \/ c \in seen[q] \cup bgSeen[q]
  BY <1>4
<1>6. \A q \in Requests : \A c \in seen'[q] \cup bgSeen'[q] : CopyOK(c, periods')
  BY <1>1, <1>3, <1>5, Zenon DEF CopiesInv
<1>7. \A s \in Subs : \A c \in resetSeen'[s] : CopyOK(c, periods') /\ IsDue(c, s)
  BY <1>1, CopiesMove DEF CopiesInv
<1> QED
  BY <1>1, <1>6, <1>7 DEF CopiesInv

\* And the steps of the subscription tasks.
LEMMA CopiesSubscription ==
  ASSUME TypeOK, TypeOK', CopiesInv, NEW s \in Subs, SubscriptionStep(s)
  PROVE  CopiesInv'
<1>0. PICK k : k = Copy
  OBVIOUS
<1>1. /\ \A t \in Subs : periods[t] <= periods'[t]
      /\ seen' = seen /\ bgSeen' = bgSeen
      /\ \A t \in Subs : \A c \in resetSeen'[t] : c \in resetSeen[t] \/ (c = k /\ IsDue(c, t))
  <2>1. \A t \in Subs : periods[t] \in Nat
    BY DEF TypeOK
  <2>2. CASE PeriodEnds(s)
    BY <2>1, <2>2 DEF PeriodEnds, TypeOK
  <2>3. CASE ResetRead(s)
    BY <1>0, <2>1, <2>3 DEF ResetRead, TypeOK
  <2>4. CASE ResetDueSubscription(s)
    BY <2>1, <2>4 DEF ResetDueSubscription, TypeOK
  <2>5. CASE Deactivate(s)
    BY <2>1, <2>5 DEF Deactivate
  <2> QED
    BY <2>2, <2>3, <2>4, <2>5 DEF SubscriptionStep
<1>2. RowsWithin'
  <2> SUFFICES ASSUME NEW t \in Subs, AmountTotal[t] > 0 PROVE amountUsed'[t] <= AmountTotal[t]
    BY DEF RowsWithin
  <2>1. AmountTotal[t] \in Nat /\ amountUsed[t] <= AmountTotal[t]
    BY AmountsAssumption DEF CopiesInv, RowsWithin
  <2>2. amountUsed'[t] \in {amountUsed[t], 0}
    <3>1. CASE ResetDueSubscription(s)
      <4>1. PICK c \in resetSeen[s] :
              SaveRows(c, {s}, [c.used EXCEPT ![s] = 0], [c.reset EXCEPT ![s] = c.now[s]])
        BY <3>1 DEF ResetDueSubscription
      <4>2. c.used \in [Subs -> Nat]
        BY SeenTyped, CopyFields
      <4>3. amountUsed' = [u \in Subs |-> IF u \in {s} THEN [c.used EXCEPT ![s] = 0][u] ELSE amountUsed[u]]
        BY <4>1 DEF SaveRows
      <4> QED
        BY <4>2, <4>3
    <3> QED
      BY <3>1 DEF SubscriptionStep, PeriodEnds, ResetRead, Deactivate
  <2> QED
    BY <2>1, <2>2
<1>3. k \in CopyType /\ CopyOK(k, periods)
  BY <1>0, CopyTyped, CopyNow DEF CopiesInv
<1>4. \A c \in CopyType : CopyOK(c, periods) => CopyOK(c, periods')
  BY <1>1, CopyKept
<1>5. ASSUME NEW q \in Requests, NEW c \in seen'[q] \cup bgSeen'[q] PROVE CopyOK(c, periods')
  BY <1>1, <1>4, <1>5, SeenTyped DEF CopiesInv
<1>6. ASSUME NEW t \in Subs, NEW c \in resetSeen'[t] PROVE CopyOK(c, periods') /\ IsDue(c, t)
  BY <1>1, <1>3, <1>4, <1>6, SeenTyped DEF CopiesInv
<1> QED
  BY <1>2, <1>5, <1>6 DEF CopiesInv

\* So it always holds.
LEMMA CopiesHold == Spec => []CopiesInv
<1>1. Init => CopiesInv
  <2>1. \A t \in Subs : AmountTotal[t] \in Nat
    BY AmountsAssumption
  <2> QED
    BY <2>1 DEF Init, CopiesInv, RowsWithin
<1>2. TypeOK /\ TypeOK' /\ IndInv /\ CopiesInv /\ [Next]_vars => CopiesInv'
  <2> SUFFICES ASSUME TypeOK, TypeOK', IndInv, CopiesInv, [Next]_vars PROVE CopiesInv'
    OBVIOUS
  <2>1. \A r \in Requests : RInv(r)
    BY DEF IndInv, RInv
  <2>2. CASE UNCHANGED vars
    BY <2>2 DEF CopiesInv, RowsWithin, vars
  <2> QED
    BY <2>1, <2>2, CopiesRequest, CopiesSubscription DEF Next, StepOf, Finished
<1> QED
  BY <1>1, <1>2, TypeCorrect, InvariantCorrect, PTL DEF Spec

-----------------------------------------------------------------------------
(***************************************************************************)
(* Refinement of BillingContract                                           *)
(***************************************************************************)

\* What Settle and the violation fee are called with is a price of the contract.
PriceInv(r) ==
  /\ pc[r] \in {"settle", "settleTok"} \/ sess[r].settled => arg[r] \in Actuals
  /\ pc[r] \in {"refund", "fee", "feeTok"} => arg[r] \in {0, ViolationFee}
  /\ fee[r] \in {0, ViolationFee}

\* A step that leaves a request unsettled, elsewhere than in Settle, keeps its prices.
LEMMA PriceUnsettled ==
  ASSUME NEW r \in Requests, PriceInv(r), ~ sess'[r].settled, fee'[r] = fee[r],
         pc'[r] \notin {"settle", "settleTok"},
         pc'[r] \in {"refund", "fee", "feeTok"} =>
           arg'[r] \in {0, ViolationFee} \/ (arg'[r] = arg[r] /\ pc[r] \in {"refund", "fee", "feeTok"})
  PROVE  PriceInv(r)'
BY DEF PriceInv

\* The prices of a request survive its own steps.
LEMMA PriceStep ==
  ASSUME TypeOK, NEW r \in Requests, RInv(r), RInv(r)', PriceInv(r), StepOf(r)
  PROVE  PriceInv(r)'
<1>0. /\ sess[r].settled => pc[r] = "done"
      /\ sess'[r].settled => pc'[r] = "done"
      /\ pc \in [Requests -> PCs] /\ sess \in [Requests -> SessionType] /\ sess[r] \in SessionType
      /\ arg \in [Requests -> Nat] /\ fee \in [Requests -> Nat]
      /\ NoSession.settled = FALSE
  BY NoSessionFacts DEF RInv, SessionInv, TypeOK
<1>1. CASE Begin(r)
  <2>1. /\ pc[r] = "idle" /\ fee' = fee /\ pc'[r] \in {"try", "free", "done"}
        /\ pc'[r] = "done" => sess' = sess
    BY <1>0, <1>1 DEF Begin, StartSession
  <2> QED
    BY <1>0, <2>1, PriceUnsettled
<1>2. CASE TryWallet(r) \/ CheckToken(r) \/ TakeToken(r) \/ UndoToken(r)
  <2>1. pc'[r] \in {"try", "free", "token", "tokenDec", "fund", "done"} /\ fee' = fee
    BY <1>0, <1>2 DEF TryWallet, NextGroupUnbilled, CheckToken, TakeToken, UndoToken
  <2>2. pc'[r] = "done" => sess'[r] = NoSession
    BY <1>0, <1>2 DEF TryWallet, NextGroupUnbilled, CheckToken, TakeToken, UndoToken
  <2> QED
    BY <1>0, <2>1, <2>2, PriceUnsettled
<1>3. CASE \/ TrySubscription(r) \/ FundWallet(r) \/ FundSubscription(r) \/ ReserveCheckToken(r)
           \/ ReserveTakeToken(r)
  <2>1. /\ pc'[r] \in {"token", "ready", "undo", "upstream", "rTokenDec", "rUndo"} /\ fee' = fee
    BY <1>0, <1>3 DEF TrySubscription, FundWallet, FundSubscription, PreConsumeUserSubscription,
                      SessionReady, ReserveCheckToken, ReserveTakeToken, ReserveDone, SendUpstream, Goto
  <2> QED
    BY <1>0, <2>1, PriceUnsettled
<1>f. ASSUME NEW v, Fail(r, v)
      PROVE  \/ pc'[r] = "refund" /\ arg'[r] = v
             \/ pc'[r] = "settle" /\ arg'[r] \in Actuals
  BY <1>0, <1>f DEF Fail
<1>4. CASE NoChannel(r) \/ Reserve(r) \/ ReserveUndo(r)
  <2>1. /\ pc'[r] \in {"ready", "free", "upstream", "rToken", "refund", "settle"} /\ fee' = fee
        /\ pc'[r] = "settle" => arg'[r] \in Actuals
        /\ pc'[r] = "refund" => arg'[r] = 0
    <3>1. CASE NoChannel(r)
      BY <1>0, <1>f, <3>1 DEF NoChannel
    <3>2. CASE Reserve(r)
      BY <1>0, <1>f, <3>2 DEF Reserve, SendUpstream
    <3>3. CASE ReserveUndo(r)
      BY <1>0, <1>f, <3>3 DEF ReserveUndo
    <3> QED
      BY <1>4, <3>1, <3>2, <3>3
  <2> QED
    BY <1>0, <2>1 DEF PriceInv
<1>11. CASE RefreshUnbilled(r)
  <2>1. /\ pc[r] = "free" /\ pc'[r] \in {"upstream", "try", "done"} /\ fee' = fee
        /\ pc'[r] = "done" => sess'[r] = NoSession
    BY <1>0, <1>11 DEF RefreshUnbilled, StartSession, SendUpstream
  <2> QED
    BY <1>0, <2>1, PriceUnsettled
<1>12. CASE ReadRows(r)
  BY <1>12 DEF ReadRows, PriceInv
<1>5. CASE Upstream(r)
  <2>1. /\ pc'[r] \in {"settle", "ready", "free", "refund"} /\ fee' = fee
        /\ pc'[r] = "settle" => arg'[r] \in Actuals
        /\ pc'[r] = "refund" => arg'[r] \in {0, ViolationFee}
    BY <1>0, <1>f, <1>5 DEF Upstream
  <2> QED
    BY <1>0, <2>1 DEF PriceInv
<1>6. CASE Panic(r)
  <2>1. pc[r] = "upstream" /\ sess' = sess /\ fee' = fee /\ pc'[r] = "done"
    BY <1>0, <1>6 DEF Panic, Goto
  <2> QED
    BY <1>0, <2>1, PriceUnsettled
<1>7. CASE SettleFunding(r) \/ SettleToken(r)
  <2>1. /\ pc[r] \in {"settle", "settleTok"} /\ arg' = arg /\ fee' = fee
        /\ pc'[r] \in {"settleTok", "done"}
    BY <1>0, <1>7 DEF SettleFunding, SettleToken, Goto
  <2> QED
    BY <2>1 DEF PriceInv
<1>8. CASE Refund(r)
  <2>1. /\ pc[r] = "refund" /\ arg' = arg /\ fee' = fee /\ pc'[r] \in {"fee", "done"}
        /\ sess'[r] \in {sess[r], Refunded(sess[r])}
    BY <1>0, <1>8 DEF Refund, Goto
  <2>2. Refunded(sess[r]).settled = sess[r].settled
    BY <1>0, RefundedFacts
  <2>3. ~ sess'[r].settled
    BY <1>0, <2>1, <2>2
  <2> QED
    BY <1>0, <2>1, <2>3, PriceUnsettled
<1>9. CASE ChargeFee(r) \/ ChargeFeeToken(r)
  <2>1. /\ pc[r] \in {"fee", "feeTok"} /\ arg' = arg /\ sess' = sess
        /\ pc'[r] \in {"feeTok", "done"} /\ fee'[r] \in {fee[r], arg[r]}
    BY <1>0, <1>9 DEF ChargeFee, ChargeFeeToken, Goto
  <2> QED
    BY <1>0, <2>1 DEF PriceInv
<1>10. CASE RefundStep(r)
  <2>1. UNCHANGED <<pc, arg, sess, fee>>
    BY <1>10 DEF RefundStep, RefundWallet, RefundRead, RefundSubscription, RefundExtra, RefundToken, control
  <2> QED
    BY <2>1 DEF PriceInv
<1> QED
  BY <1>1, <1>2, <1>3, <1>4, <1>5, <1>6, <1>7, <1>8, <1>9, <1>10, <1>11, <1>12
  DEF StepOf, RequestStep, UpstreamStep

\* A request that is over takes no step.
LEMMA OverIsOver ==
  ASSUME NEW r \in Requests, StepOf(r)
  PROVE  ~ Over(r)
<1>1. CASE RequestStep(r) \/ UpstreamStep(r)
  <2>1. pc[r] # "done"
    BY <1>1 DEF RequestStep, UpstreamStep, Begin, TryWallet, TrySubscription, CheckToken, TakeToken,
                FundWallet, FundSubscription, UndoToken, ReadRows, AtTransaction, NoChannel,
                RefreshUnbilled, Reserve, ReserveCheckToken, ReserveTakeToken, ReserveUndo, Upstream,
                Panic, SettleFunding, SettleToken, Refund, ChargeFee, ChargeFeeToken
  <2> QED
    BY <2>1 DEF Over
<1>2. CASE RefundStep(r)
  <2>1. bg[r] \in {"funding", "extra", "token"}
    BY <1>2 DEF RefundStep, RefundWallet, RefundRead, RefundSubscription, RefundExtra, RefundToken
  <2> QED
    BY <2>1 DEF Over
<1> QED
  BY <1>1, <1>2 DEF StepOf

\* A step is one of a request that is not over, and touches no other, or touches none.
LEMMA StepShape ==
  ASSUME TypeOK, IndInv, [Next]_vars
  PROVE  \/ \E r \in Requests : StepOf(r) /\ Others(r) /\ ~ Over(r)
         \/ \A q \in Requests : Same(q)
<1>1. \A r \in Requests : RInv(r) /\ UnbilledInv(r)
  BY DEF IndInv, RInv
<1>a. ASSUME NEW r \in Requests, ReadRows(r) \/ RefundRead(r) PROVE Others(r)
  BY <1>a DEF ReadRows, RefundRead, Same, Others
<1>2. ASSUME NEW r \in Requests, RequestStep(r) \/ UpstreamStep(r) PROVE Others(r)
  BY <1>1, <1>2, <1>a, IndBegin, IndTryWallet, IndTrySubscription, IndCheckToken, IndTakeToken,
     IndFundWallet, IndFundSubscription, IndUndoToken, IndNoChannel, IndRefreshUnbilled, IndReserve,
     IndReserveCheckToken, IndReserveTakeToken, IndReserveUndo, IndUpstream, IndPanic,
     IndSettleFunding, IndSettleToken, IndRefund, IndChargeFee, IndChargeFeeToken
  DEF RequestStep, UpstreamStep
<1>3. ASSUME NEW r \in Requests, RefundStep(r) PROVE Others(r)
  BY <1>1, <1>3, <1>a, IndRefundWallet, IndRefundSubscription, IndRefundExtra, IndRefundToken
  DEF RefundStep
<1>4. ASSUME NEW s \in Subs, SubscriptionStep(s), NEW q \in Requests PROVE Same(q)
  BY <1>4 DEF SubscriptionStep, PeriodEnds, ResetRead, ResetDueSubscription, Deactivate, Same
<1>5. ASSUME UNCHANGED vars, NEW q \in Requests PROVE Same(q)
  BY <1>5 DEF Same, vars, rows, control, refunder, history
<1> QED
  BY <1>2, <1>3, <1>4, <1>5, OverIsOver DEF Next, StepOf, Finished

Prices == \A r \in Requests : PriceInv(r)

\* The prices hold of every request.
LEMMA PricesHold == Spec => []Prices
<1>1. Init => Prices
  <2>1. ASSUME Init, NEW r \in Requests PROVE PriceInv(r)
    BY <2>1, NoSessionFacts DEF Init, PriceInv
  <2> QED
    BY <2>1 DEF Prices
<1>2. TypeOK /\ IndInv /\ IndInv' /\ Prices /\ [Next]_vars => Prices'
  <2> SUFFICES ASSUME TypeOK, IndInv, IndInv', Prices, [Next]_vars, NEW q \in Requests
               PROVE  PriceInv(q)'
    BY DEF Prices
  <2>1. RInv(q) /\ RInv(q)' /\ PriceInv(q)
    BY DEF IndInv, RInv, Prices
  <2>2. CASE Same(q)
    BY <2>1, <2>2 DEF Same, PriceInv
  <2>3. CASE StepOf(q)
    BY <2>1, <2>3, PriceStep
  <2> QED
    BY <2>2, <2>3, StepShape DEF Others
<1> QED
  BY <1>1, <1>2, TypeCorrect, InvariantCorrect, PTL DEF Spec

\* A request that closes cleanly has paid a price, from its funding source and its token.
PaidPrice(r) ==
  /\ FundNet[r] \in Actuals \cup {0, ViolationFee}
  /\ tokenNet[r] \in {0, FundNet[r]}

ClosedAtPrice == DiscountPct = 100 => \A r \in Requests : Over(r) /\ clean[r] => PaidPrice(r)

\* The inductive invariant and the prices give it.
LEMMA ClosedFromInv == TypeOK /\ IndInv /\ Prices => ClosedAtPrice
<1> SUFFICES ASSUME TypeOK, IndInv, Prices, DiscountPct = 100, NEW r \in Requests, Over(r), clean[r]
             PROVE  PaidPrice(r)
  BY DEF ClosedAtPrice
<1>0. FundNet[r] = walletNet[r] + subNet[r] /\ PriceInv(r)
  BY DEF FundNet, Prices
<1>1. Row(r) /\ RInv(r) /\ NetExact(r, Owed(r))
  BY RowTyped, BilledFromInv DEF IndInv, RInv
<1>2. Owed(r) \in Actuals \cup {0, ViolationFee} /\ Owed(r) \in Int
  BY <1>0, <1>1, AmountsAssumption DEF Owed, PriceInv, Row, AmountsAssumption
<1>3. CASE sess[r].source = "none"
  <2>1. walletNet[r] = 0 /\ subNet[r] = 0
    BY <1>1, <1>3 DEF NetExact, From
  <2>2. Owed(r) = 0
    BY <1>1, <1>3, NoSessionFacts DEF Owed, RInv, BuildingInv, Over
  <2> QED
    BY <1>0, <1>1, <2>1, <2>2 DEF NetExact, PaidPrice
<1>4. CASE sess[r].source = "wallet"
  <2>1. walletNet[r] = Owed(r) /\ subNet[r] = 0
    BY <1>1, <1>4 DEF NetExact, From
  <2> QED
    BY <1>0, <1>1, <1>2, <2>1 DEF NetExact, PaidPrice
<1>5. CASE sess[r].source = "subscription"
  <2>1. walletNet[r] = 0 /\ subNet[r] = Owed(r)
    BY <1>1, <1>5 DEF NetExact, From
  <2> QED
    BY <1>0, <1>1, <1>2, <2>1 DEF NetExact, PaidPrice
<1> QED
  BY <1>1, <1>3, <1>4, <1>5 DEF Row

\* A step of one request changes its account in the contract and no other.
LEMMA AccountStep ==
  ASSUME TypeOK, TypeOK', NEW r \in Requests, Others(r), ~ Over(r), NetNonNegative', DiscountPct = 100,
         NEW o, o = Outcome(r)'
  PROVE  Contract!Account(r, o)
<1>1. Outcomes[r] = "open"
  BY DEF Outcomes, Outcome
<1>2. ASSUME NEW q \in Requests, q # r
      PROVE  /\ Outcome(q)' = Outcome(q) /\ walletNet'[q] = walletNet[q] /\ subNet'[q] = subNet[q]
             /\ tokenNet'[q] = tokenNet[q]
  <2>1. Same(q)
    BY <1>2 DEF Others
  <2> QED
    BY <2>1 DEF Same, Outcome, Over
<1>3. Outcomes' = [Outcomes EXCEPT ![r] = o]
  BY <1>2 DEF Outcomes
<1>4. FundNet' = [FundNet EXCEPT ![r] = FundNet'[r]]
  BY <1>2 DEF FundNet
<1>5. tokenNet' = [tokenNet EXCEPT ![r] = tokenNet'[r]]
  <2>1. tokenNet \in [Requests -> Int] /\ tokenNet' \in [Requests -> Int]
    BY DEF TypeOK
  <2> QED
    BY <1>2, <2>1
<1>6. FundNet'[r] >= 0 /\ tokenNet'[r] >= 0
  <2>1. walletNet'[r] >= 0 /\ subNet'[r] >= 0 /\ tokenNet'[r] >= 0
    BY DEF NetNonNegative
  <2>2. walletNet'[r] \in Int /\ subNet'[r] \in Int
    BY DEF TypeOK
  <2> QED
    BY <2>1, <2>2 DEF FundNet
<1> QED
  BY <1>1, <1>3, <1>4, <1>5, <1>6 DEF Contract!Account

\* Without a subscription discount, which charges the token more than the subscription,
\* a billing session implements BillingContract: whatever interleaving of preConsume,
\* Reserve, Settle, Refund and the refund goroutine, a request holds non-negative amounts,
\* closes once at one price for both stores or is left to the log, and moves no other
\* request's account.
THEOREM SessionImplementsContract ==
  ASSUME DiscountPct = 100
  PROVE  Spec => ImplementsContract
<1>1. Init => Contract!Init
  <2> SUFFICES ASSUME Init PROVE Contract!Init
    OBVIOUS
  <2>1. Outcomes = [r \in Requests |-> "open"]
    BY DEF Init, Outcomes, Outcome, Over
  <2>2. FundNet = [r \in Requests |-> 0] /\ tokenNet = [r \in Requests |-> 0]
    BY DEF Init, FundNet
  <2> QED
    BY <2>1, <2>2 DEF Contract!Init
<1>2. /\ TypeOK /\ IndInv /\ TypeOK' /\ IndInv' /\ Prices' /\ [Next]_vars
      => [Contract!Next]_(Contract!contractVars)
  <2> SUFFICES ASSUME TypeOK, IndInv, TypeOK', IndInv', Prices', [Next]_vars
               PROVE  Contract!Next \/ UNCHANGED <<Outcomes, FundNet, tokenNet>>
    BY DEF Contract!contractVars
  <2>0. NetNonNegative' /\ ClosedAtPrice'
    BY NonNegativeFromInv, ClosedFromInv, PTL
  <2>1. ASSUME NEW r \in Requests, Others(r), ~ Over(r) PROVE Contract!Next
    <3>0. PICK o : o = Outcome(r)'
      OBVIOUS
    <3>1. Contract!Account(r, o)
      BY <2>0, <2>1, <3>0, AccountStep
    <3>2. CASE o = "open"
      BY <3>1, <3>2 DEF Contract!Next, Contract!Hold
    <3>3. CASE o = "unreconciled"
      BY <3>1, <3>3 DEF Contract!Next, Contract!LeaveToLog
    <3>4. CASE Over(r)' /\ clean'[r]
      <4>1. PaidPrice(r)'
        BY <2>0, <3>4 DEF ClosedAtPrice
      <4>2. FundNet'[r] \in Actuals \cup {0, ViolationFee} /\ tokenNet'[r] \in {0, FundNet'[r]}
        BY <4>1 DEF PaidPrice
      <4>3. o = "closed"
        BY <3>0, <3>4 DEF Outcome
      <4> QED
        BY <3>1, <4>2, <4>3 DEF Contract!Next, Contract!Close
    <3> QED
      BY <3>0, <3>2, <3>3, <3>4 DEF Outcome
  <2>2. ASSUME \A q \in Requests : Same(q) PROVE UNCHANGED <<Outcomes, FundNet, tokenNet>>
    <3>1. \A q \in Requests : /\ Outcome(q)' = Outcome(q) /\ walletNet'[q] = walletNet[q]
                              /\ subNet'[q] = subNet[q] /\ tokenNet'[q] = tokenNet[q]
      BY <2>2 DEF Same, Outcome, Over
    <3>2. tokenNet \in [Requests -> Int] /\ tokenNet' \in [Requests -> Int]
      BY DEF TypeOK
    <3> QED
      BY <3>1, <3>2 DEF Outcomes, FundNet
  <2> QED
    BY <2>1, <2>2, StepShape
<1> QED
  BY <1>1, <1>2, PricesHold, TypeCorrect, InvariantCorrect, PTL
  DEF Spec, ImplementsContract, Contract!Spec

-----------------------------------------------------------------------------
(***************************************************************************)
(* The clamp at zero                                                       *)
(***************************************************************************)

\* The units of s taken by requests other than r, and those taken by r.
RestTaken(s, r) ==
  UNION {{q} \X (1..subNet[q]) : q \in {p \in Requests \ {r} : record[p].sub = s}}
Column(r, n)  == {r} \X (1..n)
TakenBy(r, s) == IF record[r].sub = s THEN subNet[r] ELSE 0

\* A request without a pre-consume record took nothing from a subscription.
Unrecorded(r) == record[r].status = "none" => subNet[r] = 0
AllRecorded   == \A r \in Requests : Unrecorded(r)

\* amount_used counts what was taken, as long as it was never saved over.
Counted(s) ==
  periods[s] = 0 /\ ~ lost[s] =>
    IsFiniteSet(UnitsTaken(s)) /\ amountUsed[s] = Cardinality(UnitsTaken(s))
ClampInv == DiscountPct = 100 => \A s \in Subs : Counted(s)

\* The units of one request are as many as it took.
LEMMA ColumnCount ==
  ASSUME NEW r, NEW n \in Nat
  PROVE  IsFiniteSet(Column(r, n)) /\ Cardinality(Column(r, n)) = n
<1>1. IsFiniteSet({r}) /\ Cardinality({r}) = 1
  BY FS_Singleton
<1>2. IsFiniteSet(1..n) /\ Cardinality(1..n) = n
  BY FS_Interval
<1>3. \A S, T : IsFiniteSet(S) /\ IsFiniteSet(T) =>
        IsFiniteSet(S \X T) /\ Cardinality(S \X T) = Cardinality(S) * Cardinality(T)
  BY FS_Product
<1>4. IsFiniteSet(Column(r, n)) /\ Cardinality(Column(r, n)) = Cardinality({r}) * Cardinality(1..n)
  BY <1>1, <1>2, <1>3, Zenon DEF Column
<1> QED
  BY <1>1, <1>2, <1>4

\* The units of a subscription are those of r and those of the others, before and after
\* a step.
LEMMA UnitsSplit ==
  ASSUME NEW r \in Requests, NEW s
  PROVE  UnitsTaken(s) = RestTaken(s, r) \cup Column(r, TakenBy(r, s))
BY DEF UnitsTaken, RestTaken, TakenBy, Column

\* The same after a step.
LEMMA UnitsSplitNext ==
  ASSUME NEW r \in Requests, NEW s
  PROVE  UnitsTaken(s)' = RestTaken(s, r)' \cup Column(r, TakenBy(r, s)')
BY DEF UnitsTaken, RestTaken, TakenBy, Column

\* The units of the others are not those of r.
LEMMA RestElsewhere ==
  ASSUME NEW r \in Requests, NEW s, NEW n
  PROVE  RestTaken(s, r) \cap Column(r, n) = {}
BY DEF RestTaken, Column

\* So the count of a subscription's units is that of the others' plus what r took.
LEMMA UnitsCount ==
  ASSUME NEW r, NEW n \in Nat, NEW U, NEW W, U = W \cup Column(r, n), W \cap Column(r, n) = {}
  PROVE  /\ IsFiniteSet(U) <=> IsFiniteSet(W)
         /\ IsFiniteSet(W) => Cardinality(W) \in Nat /\ Cardinality(U) = Cardinality(W) + n
<1>1. PICK C : C = Column(r, n)
  OBVIOUS
<1>2. IsFiniteSet(C) /\ Cardinality(C) = n /\ U = W \cup C /\ W \cap C = {}
  BY <1>1, ColumnCount
<1>3. ASSUME IsFiniteSet(U) PROVE IsFiniteSet(W)
  <2>1. W \in SUBSET U
    BY <1>2
  <2> QED
    BY <1>3, <2>1, FS_Subset
<1>4. ASSUME IsFiniteSet(W)
      PROVE  IsFiniteSet(U) /\ Cardinality(W) \in Nat /\ Cardinality(U) = Cardinality(W) + n
  <2>1. IsFiniteSet(W \cup C) /\ Cardinality(W \cup C) = Cardinality(W) + Cardinality(C) - Cardinality(W \cap C)
    BY <1>2, <1>4, FS_Union
  <2>2. Cardinality(W \cap C) = 0 /\ Cardinality(W) \in Nat
    BY <1>2, <1>4, FS_EmptySet, FS_CardinalityType
  <2>3. IsFiniteSet(U) /\ Cardinality(U) = Cardinality(W) + Cardinality(C) - Cardinality(W \cap C)
    BY <1>2, <2>1, Zenon
  <2>4. PICK w \in Nat : w = Cardinality(W)
    BY <2>2
  <2>5. Cardinality(U) = w + n - 0
    BY <1>2, <2>2, <2>3, <2>4, Zenon
  <2> QED
    BY <2>3, <2>4, <2>5
<1> QED
  BY <1>3, <1>4

\* A step of r leaves the units of the others alone.
LEMMA RestSame ==
  ASSUME NEW r \in Requests, NEW s, Others(r)
  PROVE  RestTaken(s, r)' = RestTaken(s, r)
<1>1. \A q \in Requests \ {r} : subNet'[q] = subNet[q] /\ record'[q] = record[q]
  BY DEF Others, Same
<1> QED
  BY <1>1 DEF RestTaken

\* What such a step adds to a subscription that is not saved over, the request took from
\* it: the clamp is out of reach, for the others' units and what r keeps are not negative.
LEMMA NothingClamped ==
  ASSUME TypeOK, NEW r \in Requests, NEW s \in Subs, NEW t \in Subs, NEW d \in Int,
         NEW c \in CopyType, Moved(r, s, d, c), ~ lost'[t],
         subNet'[r] >= 0, TakenBy(r, t) <= amountUsed[t]
  PROVE  amountUsed'[t] = amountUsed[t] + TakenBy(r, t)' - TakenBy(r, t)
<1>1. /\ SaveRows(c, {s}, [c.used EXCEPT ![s] = AtLeast(c.used[s] + d, 0)], c.reset)
      /\ subNet' = [subNet EXCEPT ![r] = subNet[r] + d]
  BY DEF Moved
<1>2. /\ subNet \in [Requests -> Int] /\ amountUsed[t] \in Nat /\ subNet[r] \in Int
      /\ c.used \in [Subs -> Nat]
  BY CopyFields DEF TypeOK
<1>3. subNet'[r] = subNet[r] + d
  BY <1>1, <1>2
<1>4. /\ amountUsed'[t] = IF t = s THEN AtLeast(c.used[t] + d, 0) ELSE amountUsed[t]
      /\ t = s => c.used[t] = amountUsed[t]
  BY <1>1, <1>2 DEF SaveRows
<1>5. CASE t = s
  <2>1. TakenBy(r, t) = subNet[r] /\ TakenBy(r, t)' = subNet'[r]
    BY <1>5 DEF Moved, TakenBy
  <2> QED
    BY <1>2, <1>3, <1>4, <1>5, <2>1 DEF AtLeast
<1>6. CASE t # s
  <2>1. amountUsed'[t] = amountUsed[t] /\ TakenBy(r, t) = 0 /\ TakenBy(r, t)' = 0
    BY <1>4, <1>6 DEF Moved, TakenBy
  <2> QED
    BY <1>2, <2>1
<1> QED
  BY <1>5, <1>6

\* The pre-consumption writes a record.
LEMMA FirstConsumed ==
  ASSUME TypeOK, NEW r \in Requests, NEW c, PreConsumeUserSubscription(r, c)
  PROVE  record'[r].status # "none"
<1>1. PICK s : record' = [record EXCEPT ![r] = [status |-> "consumed", sub |-> s,
                                                amount |-> ApplySubscriptionBillingDiscount(arg[r])]]
  BY DEF PreConsumeUserSubscription
<1>2. record'[r].status = "consumed"
  BY <1>1 DEF TypeOK
<1> QED
  BY <1>2

\* Nor does the pre-consumption: it resets only periods that ended.
LEMMA FirstTaken ==
  ASSUME TypeOK, NEW r \in Requests, NEW t \in Subs, NEW c \in CopyType, ~ IsDue(c, t),
         subNet[r] = 0, ~ lost'[t], PreConsumeUserSubscription(r, c)
  PROVE  amountUsed'[t] = amountUsed[t] + TakenBy(r, t)' - TakenBy(r, t)
<1> DEFINE paid == ApplySubscriptionBillingDiscount(arg[r])
           resets(s) == {u \in Subs : c.active[u] /\ IsDue(c, u) /\ u <= s}
<1>1. paid \in Int
  BY DiscountSign DEF TypeOK
<1>2. PICK s \in Candidates(c, paid) :
        /\ SaveRows(c, resets(s) \cup {s},
                    [u \in Subs |-> UsedAfterReset(c, u) + (IF u = s THEN paid ELSE 0)],
                    [u \in Subs |-> IF u \in resets(s) THEN c.now[u] ELSE c.reset[u]])
        /\ subNet' = [subNet EXCEPT ![r] = @ + paid]
        /\ record' = [record EXCEPT ![r] = [status |-> "consumed", sub |-> s, amount |-> paid]]
  BY Zenon DEF PreConsumeUserSubscription
<1> HIDE DEF paid
<1>3. /\ subNet'[r] = paid /\ record'[r].sub = s /\ record'[r].status = "consumed"
      /\ amountUsed[t] \in Nat
  BY <1>1, <1>2 DEF TypeOK
<1>4. /\ amountUsed'[t] = IF t \in resets(s) \cup {s}
                            THEN UsedAfterReset(c, t) + (IF t = s THEN paid ELSE 0) ELSE amountUsed[t]
      /\ t \in resets(s) \cup {s} => c.used[t] = amountUsed[t]
  BY <1>2 DEF SaveRows
<1>5. t \notin resets(s) /\ UsedAfterReset(c, t) = c.used[t]
  BY DEF UsedAfterReset
<1> HIDE DEF resets
<1>6. amountUsed'[t] = amountUsed[t] + (IF t = s THEN paid ELSE 0)
  BY <1>1, <1>3, <1>4, <1>5
<1>7. TakenBy(r, t) = 0 /\ TakenBy(r, t)' = IF t = s THEN paid ELSE 0
  BY <1>3 DEF TakenBy
<1> QED
  BY <1>1, <1>3, <1>6, <1>7

\* A request takes nothing from a subscription before its record is written.
LEMMA RecordedStep == TypeOK /\ IndInv /\ AllRecorded /\ [Next]_vars => AllRecorded'
<1> SUFFICES ASSUME TypeOK, IndInv, AllRecorded, [Next]_vars, NEW q \in Requests
             PROVE  Unrecorded(q)'
  BY DEF AllRecorded
<1>0. Unrecorded(q) /\ RInv(q)
  BY DEF AllRecorded, IndInv, RInv
<1>1. CASE Same(q)
  BY <1>0, <1>1 DEF Unrecorded, Same
<1>2. CASE StepOf(q)
  <2>1. \/ UNCHANGED <<subNet, record>>
        \/ \E s, d, c : Moved(q, s, d, c)
        \/ \E c : PreConsumeUserSubscription(q, c)
    BY <1>0, <1>2, SubscriptionMoves
  <2> QED
    BY <1>0, <2>1, FirstConsumed DEF Unrecorded, Moved
<1> QED
  BY <1>1, <1>2, StepShape DEF Others

\* So it never did.
LEMMA RecordedHolds == Spec => []AllRecorded
<1>1. Init => AllRecorded
  BY DEF Init, AllRecorded, Unrecorded
<1> QED
  BY <1>1, RecordedStep, TypeCorrect, InvariantCorrect, PTL DEF Spec

\* One step keeps the count.
LEMMA ClampStep ==
  TypeOK /\ TypeOK' /\ IndInv /\ IndInv' /\ AllRecorded /\ CopiesInv /\ ClampInv /\ [Next]_vars => ClampInv'
<1> SUFFICES ASSUME TypeOK, TypeOK', IndInv, IndInv', AllRecorded, CopiesInv, ClampInv, [Next]_vars,
                    DiscountPct = 100, NEW t \in Subs, periods'[t] = 0, ~ lost'[t]
             PROVE  IsFiniteSet(UnitsTaken(t))' /\ amountUsed'[t] = Cardinality(UnitsTaken(t))'
  BY DEF ClampInv, Counted
<1>0. (\A r \in Requests : Unrecorded(r) /\ RInv(r)) /\ Counted(t)
  BY DEF AllRecorded, ClampInv, IndInv, RInv
<1>n. NetNonNegative /\ NetNonNegative'
  BY NonNegativeFromInv, PTL
<1>a. amountUsed[t] \in Nat /\ periods[t] \in Nat
  BY DEF TypeOK
<1>1. ASSUME NEW r \in Requests, StepOf(r), Others(r)
      PROVE  IsFiniteSet(UnitsTaken(t))' /\ amountUsed'[t] = Cardinality(UnitsTaken(t))'
  <2>1. subNet[r] \in Nat /\ subNet'[r] \in Nat
    BY <1>n DEF NetNonNegative, TypeOK
  <2>2. /\ periods' = periods
        /\ \/ UNCHANGED <<subRows, subNet, record>>
           \/ \E s \in Subs, d \in Int, c \in seen[r] \cup bgSeen[r] : Moved(r, s, d, c)
           \/ /\ record[r].status = "none"
              /\ \E c \in seen[r] : PreConsumeUserSubscription(r, c)
    BY <1>0, <1>1, SubscriptionMoves
  <2>3. ~ lost[t]
    <3>1. CASE UNCHANGED subRows
      BY <3>1
    <3>2. ASSUME NEW s, NEW d, NEW c, Moved(r, s, d, c) PROVE ~ lost[t]
      BY <3>2 DEF Moved, SaveRows
    <3>3. ASSUME NEW c, PreConsumeUserSubscription(r, c) PROVE ~ lost[t]
      BY <3>3 DEF PreConsumeUserSubscription, SaveRows
    <3> QED
      BY <2>2, <3>1, <3>2, <3>3
  <2>4. IsFiniteSet(UnitsTaken(t)) /\ amountUsed[t] = Cardinality(UnitsTaken(t))
    BY <1>0, <2>2, <2>3 DEF Counted
  <2>5. TakenBy(r, t) \in Nat /\ TakenBy(r, t)' \in Nat
    BY <2>1 DEF TakenBy
  <2>6. /\ IsFiniteSet(RestTaken(t, r)) /\ Cardinality(RestTaken(t, r)) \in Nat
        /\ amountUsed[t] = Cardinality(RestTaken(t, r)) + TakenBy(r, t)
    <3>1. UnitsTaken(t) = RestTaken(t, r) \cup Column(r, TakenBy(r, t))
      BY UnitsSplit
    <3>2. RestTaken(t, r) \cap Column(r, TakenBy(r, t)) = {}
      BY RestElsewhere
    <3>3. /\ IsFiniteSet(RestTaken(t, r)) /\ Cardinality(RestTaken(t, r)) \in Nat
          /\ Cardinality(UnitsTaken(t)) = Cardinality(RestTaken(t, r)) + TakenBy(r, t)
      BY <2>4, <2>5, <3>1, <3>2, UnitsCount
    <3> QED
      BY <2>4, <3>3
  <2>7. amountUsed'[t] = amountUsed[t] + TakenBy(r, t)' - TakenBy(r, t)
    <3>1. CASE UNCHANGED <<subRows, subNet, record>>
      BY <1>a, <2>5, <3>1 DEF TakenBy
    <3>2. ASSUME NEW s \in Subs, NEW d \in Int, NEW c \in seen[r] \cup bgSeen[r], Moved(r, s, d, c)
          PROVE  amountUsed'[t] = amountUsed[t] + TakenBy(r, t)' - TakenBy(r, t)
      <4>1. c \in CopyType
        BY <3>2, SeenTyped
      <4>2. TakenBy(r, t) <= amountUsed[t] /\ subNet'[r] >= 0
        BY <2>1, <2>5, <2>6
      <4> QED
        BY <3>2, <4>1, <4>2, NothingClamped
    <3>3. ASSUME NEW c \in seen[r], PreConsumeUserSubscription(r, c), record[r].status = "none"
          PROVE  amountUsed'[t] = amountUsed[t] + TakenBy(r, t)' - TakenBy(r, t)
      <4>1. c \in CopyType /\ c.now[t] <= periods[t]
        BY <3>3, SeenTyped DEF CopiesInv, CopyOK
      <4>2. ~ IsDue(c, t)
        BY <2>2, <4>1, CopyFields DEF IsDue
      <4>3. subNet[r] = 0
        BY <1>0, <3>3 DEF Unrecorded
      <4> QED
        BY <3>3, <4>1, <4>2, <4>3, FirstTaken
    <3> QED
      BY <2>2, <3>1, <3>2, <3>3
  <2>8. IsFiniteSet(RestTaken(t, r))' /\ Cardinality(RestTaken(t, r))' = Cardinality(RestTaken(t, r))
    BY <1>1, <2>6, RestSame
  <2>9. /\ IsFiniteSet(UnitsTaken(t))'
        /\ Cardinality(UnitsTaken(t))' = Cardinality(RestTaken(t, r))' + TakenBy(r, t)'
    <3>1. RestTaken(t, r)' \cap Column(r, TakenBy(r, t)') = {}
      BY <1>1, RestSame, RestElsewhere
    <3> QED
      BY <2>5, <2>8, <3>1, UnitsSplitNext, UnitsCount
  <2> QED
    BY <2>5, <2>6, <2>7, <2>8, <2>9
<1>2. ASSUME \A q \in Requests : Same(q), ~ \E r \in Requests : StepOf(r)
      PROVE  IsFiniteSet(UnitsTaken(t))' /\ amountUsed'[t] = Cardinality(UnitsTaken(t))'
  <2>1. UnitsTaken(t)' = UnitsTaken(t)
    <3>1. \A q \in Requests : subNet'[q] = subNet[q] /\ record'[q] = record[q]
      BY <1>2 DEF Same
    <3> QED
      BY <3>1 DEF UnitsTaken
  <2>2. (UNCHANGED <<subRows, periods>>) \/ \E s \in Subs : SubscriptionStep(s)
    BY <1>2 DEF Next, StepOf, Finished, vars
  <2>3. amountUsed'[t] = amountUsed[t] /\ ~ lost[t] /\ periods[t] = 0
    <3>1. CASE UNCHANGED <<subRows, periods>>
      BY <3>1
    <3>2. ASSUME NEW s \in Subs, PeriodEnds(s)
          PROVE  amountUsed'[t] = amountUsed[t] /\ ~ lost[t] /\ periods[t] = 0
      <4>1. /\ periods' = [periods EXCEPT ![s] = periods[s] + 1]
            /\ amountUsed' = amountUsed /\ lost' = lost /\ periods \in [Subs -> Nat]
        BY <3>2 DEF PeriodEnds, TypeOK
      <4>2. periods'[t] = IF t = s THEN periods[t] + 1 ELSE periods[t]
        BY <4>1
      <4> QED
        BY <1>a, <4>1, <4>2
    <3>3. ASSUME NEW s \in Subs, ResetRead(s) \/ Deactivate(s)
          PROVE  amountUsed'[t] = amountUsed[t] /\ ~ lost[t] /\ periods[t] = 0
      BY <3>3 DEF ResetRead, Deactivate
    <3>4. ASSUME NEW s \in Subs, ResetDueSubscription(s)
          PROVE  amountUsed'[t] = amountUsed[t] /\ ~ lost[t] /\ periods[t] = 0
      <4>1. PICK c \in resetSeen[s] :
              SaveRows(c, {s}, [c.used EXCEPT ![s] = 0], [c.reset EXCEPT ![s] = c.now[s]])
        BY <3>4 DEF ResetDueSubscription
      <4>2. c \in CopyType /\ c.now[s] <= periods[s] /\ IsDue(c, s)
        BY <4>1, SeenTyped DEF CopiesInv, CopyOK
      <4>3. c.now[s] \in Nat /\ c.reset[s] \in Nat /\ periods[s] \in Nat /\ periods' = periods
        BY <3>4, <4>2, CopyFields DEF TypeOK, ResetDueSubscription
      <4>4. t # s
        BY <4>2, <4>3 DEF IsDue
      <4> QED
        BY <4>1, <4>3, <4>4 DEF SaveRows
    <3> QED
      BY <2>2, <3>1, <3>2, <3>3, <3>4 DEF SubscriptionStep
  <2> QED
    BY <1>0, <2>1, <2>3 DEF Counted
<1>3. ASSUME NEW r \in Requests, StepOf(r), \A q \in Requests : Same(q)
      PROVE  Others(r)
  BY <1>3 DEF Others
<1> QED
  BY <1>1, <1>2, <1>3, StepShape

\* Until a period ends or a transaction saves the row over an amount_used it had not read,
\* amount_used of a subscription is exactly what its requests took and did not give back,
\* summed over any number of concurrent requests: the clamp of
\* postConsumeUserSubscriptionDeltaTx never swallows one request's units in another's
\* refund, whichever order settlements, refunds, retries and rollbacks commit in.
THEOREM NothingSwallowed == Spec => []NoClampLoss
<1>1. Init => ClampInv
  <2> SUFFICES ASSUME Init, NEW s \in Subs PROVE Counted(s)
    BY DEF ClampInv
  <2>1. UnitsTaken(s) = {}
    BY DEF Init, UnitsTaken
  <2>2. IsFiniteSet(UnitsTaken(s)) /\ Cardinality(UnitsTaken(s)) = 0
    BY <2>1, FS_EmptySet
  <2> QED
    BY <2>2 DEF Init, Counted
<1>2. ClampInv => NoClampLoss
  BY DEF ClampInv, Counted, NoClampLoss
<1> QED
  BY <1>1, <1>2, ClampStep, CopiesHold, RecordedHolds, TypeCorrect, InvariantCorrect, PTL DEF Spec

\* The row of a limited subscription never says more than its total, although the check of
\* postConsumeUserSubscriptionDeltaTx and of PreConsumeUserSubscription is made on a copy read
\* earlier; and as long as no transaction saves the row over an amount_used it had not read,
\* the requests do not hold more than the total together.
THEOREM WithinTotalCorrect == Spec => []WithinTotal
<1>1. CopiesInv /\ NoClampLoss => WithinTotal
  BY DEF CopiesInv, RowsWithin, NoClampLoss, WithinTotal
<1> QED
  BY <1>1, CopiesHold, NothingSwallowed, PTL

-----------------------------------------------------------------------------
(***************************************************************************)
(* The rounding of a discounted subscription                               *)
(***************************************************************************)

D(n) == ApplySubscriptionBillingDiscount(n)

\* A discounted amount, by the bounds of its quotient.
LEMMA DiscountBounds ==
  ASSUME NEW n \in Int, n > 0
  PROVE  \E q \in Int : /\ 200 * q <= n * DiscountPct * 2 + 100
                        /\ n * DiscountPct * 2 + 100 < 200 * q + 200
                        /\ D(n) = IF q < 1 THEN 1 ELSE q
<1>1. n * DiscountPct * 2 + 100 \in Int
  BY AmountsAssumption
<1>2. PICK x \in Int : x = n * DiscountPct * 2 + 100
  BY <1>1
<1>3. PICK q \in Int : q = x \div 200
  BY <1>2
<1>4. 200 * q <= x /\ x < 200 * q + 200
  BY <1>2, <1>3
<1>5. D(n) = IF q < 1 THEN 1 ELSE q
  BY <1>2, <1>3 DEF D, ApplySubscriptionBillingDiscount, AtLeast
<1> QED
  BY <1>2, <1>4, <1>5

\* Charging an amount in two pieces costs at most one unit more or less.
LEMMA DiscountSplit ==
  ASSUME NEW a \in Int, NEW b \in Int, a > 0, b > 0
  PROVE  D(a) \in Int /\ D(b) \in Int /\ D(a + b) \in Int /\ Within(D(a) + D(b), D(a + b), 1)
<1>1. PICK x \in Int, y \in Int : /\ x = a * DiscountPct * 2 /\ y = b * DiscountPct * 2
                                  /\ x + y = (a + b) * DiscountPct * 2 /\ x > 0 /\ y > 0
  <2>1. PICK u \in Int : u = a * DiscountPct
    BY AmountsAssumption
  <2>2. PICK v \in Int : v = b * DiscountPct
    BY AmountsAssumption
  <2>3. u + v = (a + b) * DiscountPct
    BY <2>1, <2>2, AmountsAssumption
  <2>4. u > 0 /\ v > 0
    BY <2>1, <2>2, AmountsAssumption
  <2> QED
    BY <2>1, <2>2, <2>3, <2>4
<1>2. PICK p \in Int : /\ 200 * p <= x + 100 /\ x + 100 < 200 * p + 200
                       /\ D(a) = IF p < 1 THEN 1 ELSE p
  BY <1>1, DiscountBounds
<1>3. PICK q \in Int : /\ 200 * q <= y + 100 /\ y + 100 < 200 * q + 200
                       /\ D(b) = IF q < 1 THEN 1 ELSE q
  BY <1>1, DiscountBounds
<1>4. PICK s \in Int : /\ 200 * s <= x + y + 100 /\ x + y + 100 < 200 * s + 200
                       /\ D(a + b) = IF s < 1 THEN 1 ELSE s
  <2>1. a + b \in Int /\ a + b > 0
    OBVIOUS
  <2> QED
    BY <1>1, <2>1, DiscountBounds
<1> QED
  BY <1>1, <1>2, <1>3, <1>4 DEF Within

\* Giving an amount back undoes charging it.
LEMMA DiscountNeg ==
  ASSUME NEW n \in Int
  PROVE  D(n) \in Int /\ D(-n) = -D(n) /\ D(0) = 0 /\ (n > 0 => D(n) >= 1)
<1>1. D(n) \in Int /\ (n > 0 => D(n) >= 1) /\ D(0) = 0
  BY DiscountSign DEF D
<1>2. D(-n) = -D(n)
  BY <1>1, DiscountSign DEF D, ApplySubscriptionBillingDiscount
<1> QED
  BY <1>1, <1>2

\* m is at most k below n and, when the request is clean, at most k above.
Near(c, m, n, k) == n - m <= k /\ (c => m - n <= k)

\* x was charged in n pieces or fewer, for the amount e in all.
Pieces(c, x, e, n) == IF e = 0 THEN Near(c, x, 0, 0) ELSE n >= 1 /\ Near(c, x, D(e), n - 1)

\* One more piece.
LEMMA PieceAdded ==
  ASSUME NEW c \in BOOLEAN, NEW x \in Int, NEW e \in Nat, NEW n \in Nat, NEW d \in Int, d > 0, Pieces(c, x, e, n)
  PROVE  Pieces(c, x + D(d), e + d, n + 1)
<1>1. D(d) \in Int /\ D(e) \in Int
  BY DiscountNeg
<1>2. CASE e = 0
  <2>1. e + d = d /\ d # 0 /\ Near(c, x, 0, 0)
    BY <1>2 DEF Pieces
  <2>2. Pieces(c, x + D(d), d, n + 1)
    BY <1>1, <2>1 DEF Pieces, Near
  <2> QED
    BY <2>1, <2>2
<1>3. CASE e > 0
  <2>0. e \in Int /\ e + d # 0
    BY <1>3
  <2>1. Within(D(e) + D(d), D(e + d), 1) /\ D(e + d) \in Int
    BY <1>3, <2>0, DiscountSplit
  <2> QED
    BY <1>1, <1>3, <2>0, <2>1 DEF Pieces, Near, Within
<1> QED
  BY <1>2, <1>3

\* The pre-consumption and the pieces Reserve added, against the whole.
LEMMA WholeOfPieces ==
  ASSUME NEW c \in BOOLEAN, NEW x \in Int, NEW e \in Nat, NEW n \in Nat, NEW p \in Int, p > e, Pieces(c, x, e, n)
  PROVE  Near(c, D(p - e) + x, D(p), n)
<1>1. p - e \in Int /\ p - e > 0 /\ D(p - e) \in Int /\ D(e) \in Int /\ D(p) \in Int
  BY DiscountNeg
<1>2. CASE e = 0
  BY <1>1, <1>2 DEF Pieces, Near, Within
<1>3. CASE e > 0
  <2>1. (p - e) + e = p
    OBVIOUS
  <2>2. Within(D(p - e) + D(e), D(p), 1)
    BY <1>1, <1>3, <2>1, DiscountSplit
  <2> QED
    BY <1>1, <1>3, <2>2 DEF Pieces, Near, Within
<1> QED
  BY <1>2, <1>3

\* Settling the difference to the actual amount adds one more rounding.
LEMMA SettledPiece ==
  ASSUME NEW c \in BOOLEAN, NEW y \in Int, NEW p \in Int, NEW n \in Nat, NEW a \in Nat, p > 0, Near(c, y, D(p), n)
  PROVE  Near(c, y + D(a - p), D(a), n + 1)
<1>1. D(p) \in Int /\ D(a) \in Int /\ D(a - p) \in Int /\ a - p \in Int /\ p - a \in Int
  BY DiscountNeg
<1>2. CASE a = p
  <2>1. D(a - p) = 0
    BY <1>2, DiscountNeg
  <2> QED
    BY <1>1, <1>2, <2>1 DEF Near, Within
<1>3. CASE a = 0
  <2>1. D(a - p) = -D(p) /\ D(a) = 0
    BY <1>3, DiscountNeg
  <2> QED
    BY <1>1, <2>1 DEF Near, Within
<1>4. CASE a > p
  <2>1. p + (a - p) = a /\ a - p > 0
    BY <1>4
  <2>2. Within(D(p) + D(a - p), D(a), 1)
    BY <1>1, <2>1, DiscountSplit
  <2> QED
    BY <1>1, <2>2 DEF Near, Within
<1>5. CASE 0 < a /\ a < p
  <2>1. a + (p - a) = p /\ p - a > 0 /\ a - p = -(p - a)
    BY <1>5
  <2>2. Within(D(a) + D(p - a), D(p), 1)
    BY <1>1, <1>5, <2>1, DiscountSplit
  <2>3. D(a - p) = -D(p - a) /\ D(p - a) \in Int
    BY <1>1, <2>1, DiscountNeg
  <2> QED
    BY <1>1, <2>2, <2>3 DEF Near, Within
<1> QED
  BY <1>2, <1>3, <1>4, <1>5

\* The funding source was settled: only the actual consumption is left to count.
Charged(r) == sess[r].settled \/ sess[r].fundingSettled

\* What r took from its subscription besides its record, a Reserve under way and a fee.
Residue(r) ==
  subNet[r] - (IF record[r].status = "consumed" THEN record[r].amount ELSE 0)
            - (IF pc[r] \in Reserving THEN D(Delta(r)) ELSE 0) - D(fee[r])

\* How far rounding has taken a request from the discounted whole: one unit for each
\* Reserve, of which every attempt makes one at most, and one for the settlement.  A
\* request with a merely logged error may have kept more, never less.
Drift(r) ==
  sess[r].source = "subscription" /\ pc[r] \in Live \cup {"done"} =>
    /\ sess[r].preConsumedQuota > sess[r].extraReserved
    /\ record[r].amount = D(sess[r].preConsumedQuota - sess[r].extraReserved)
    /\ IF Charged(r) THEN Near(clean[r], subNet[r], D(arg[r]), attempts[r] + 1)
       ELSE IF bg[r] \in {"token", "end"} THEN Near(clean[r], Residue(r), 0, attempts[r])
       ELSE Pieces(clean[r], Residue(r), sess[r].extraReserved, attempts[r])

DriftInv == \A r \in Requests : Drift(r)

\* The amounts of the drift are integers.
LEMMA ResidueTyped ==
  ASSUME TypeOK, NEW r \in Requests
  PROVE  /\ Residue(r) \in Int /\ Delta(r) \in Int /\ attempts[r] \in Nat
         /\ D(fee[r]) \in Int /\ D(Delta(r)) \in Int
<1>1. Row(r) /\ Delta(r) \in Int /\ attempts[r] \in Nat
  BY RowTyped DEF Row, Delta, TypeOK
<1>2. D(fee[r]) \in Int /\ D(Delta(r)) \in Int
  BY <1>1, DiscountNeg DEF Row
<1> QED
  BY <1>1, <1>2 DEF Row, Residue

\* More attempts allow more pieces.
LEMMA PiecesMore ==
  ASSUME NEW c \in BOOLEAN, NEW b \in BOOLEAN, NEW x \in Int, NEW e \in Nat, NEW n \in Nat,
         NEW m \in Nat, m >= n, b => c, Pieces(c, x, e, n)
  PROVE  Pieces(b, x, e, m)
<1>1. D(e) \in Int
  BY DiscountNeg
<1> QED
  BY <1>1 DEF Pieces, Near

\* A step that leaves the subscription side of a request alone.
Calm(r) ==
  /\ subNet'[r] = subNet[r] /\ record'[r] = record[r] /\ fee'[r] = fee[r]
  /\ sess'[r].source = sess[r].source
  /\ sess'[r].preConsumedQuota = sess[r].preConsumedQuota
  /\ sess'[r].extraReserved = sess[r].extraReserved
  /\ Charged(r)' = Charged(r) /\ attempts'[r] >= attempts[r] /\ (clean'[r] => clean[r])
  /\ pc'[r] \in Live \cup {"done"} => pc[r] \in Live \cup {"done"}
  /\ pc'[r] \in Reserving <=> pc[r] \in Reserving
  /\ pc[r] \in Reserving \/ Charged(r) => arg'[r] = arg[r]
  /\ bg'[r] \in {"token", "end"} <=> bg[r] \in {"token", "end"}

\* Such a step keeps the drift.
LEMMA DriftCalm ==
  ASSUME TypeOK, TypeOK', NEW r \in Requests, RInv(r), Drift(r), Calm(r)
  PROVE  Drift(r)'
<1> SUFFICES ASSUME sess'[r].source = "subscription", pc'[r] \in Live \cup {"done"}
    PROVE /\ sess'[r].preConsumedQuota > sess'[r].extraReserved
          /\ record'[r].amount = D(sess'[r].preConsumedQuota - sess'[r].extraReserved)
          /\ IF Charged(r)' THEN Near(clean'[r], subNet'[r], D(arg'[r]), attempts'[r] + 1)
             ELSE IF bg'[r] \in {"token", "end"} THEN Near(clean'[r], Residue(r)', 0, attempts'[r])
             ELSE Pieces(clean'[r], Residue(r)', sess'[r].extraReserved, attempts'[r])
  BY DEF Drift
<1>1. sess[r].source = "subscription" /\ pc[r] \in Live \cup {"done"}
  BY DEF Calm
<1>2. /\ sess[r].preConsumedQuota > sess[r].extraReserved
      /\ record[r].amount = D(sess[r].preConsumedQuota - sess[r].extraReserved)
      /\ IF Charged(r) THEN Near(clean[r], subNet[r], D(arg[r]), attempts[r] + 1)
         ELSE IF bg[r] \in {"token", "end"} THEN Near(clean[r], Residue(r), 0, attempts[r])
         ELSE Pieces(clean[r], Residue(r), sess[r].extraReserved, attempts[r])
  BY <1>1 DEF Drift
<1>3. /\ Row(r) /\ attempts[r] \in Nat /\ attempts'[r] \in Nat /\ Residue(r) \in Int
      /\ D(arg[r]) \in Int /\ attempts'[r] >= attempts[r] /\ sess[r].extraReserved \in Nat
      /\ clean[r] \in BOOLEAN /\ clean'[r] \in BOOLEAN /\ (clean'[r] => clean[r])
  BY RowTyped, ResidueTyped, DiscountNeg DEF TypeOK, Row, Calm, RInv, SessionInv
<1>4. Residue(r)' = Residue(r)
  <2>1. /\ subNet'[r] = subNet[r] /\ record'[r] = record[r] /\ fee'[r] = fee[r]
        /\ pc'[r] \in Reserving <=> pc[r] \in Reserving
        /\ pc[r] \in Reserving => Delta(r)' = Delta(r)
    BY DEF Calm, Delta
  <2> QED
    BY <2>1 DEF Residue
<1>5. CASE Charged(r)
  BY <1>2, <1>3, <1>5 DEF Calm, Near, Row
<1>6. CASE ~ Charged(r) /\ bg[r] \in {"token", "end"}
  BY <1>2, <1>3, <1>4, <1>6 DEF Calm, Near
<1>7. CASE ~ Charged(r) /\ bg[r] \notin {"token", "end"}
  <2>1. Pieces(clean'[r], Residue(r), sess[r].extraReserved, attempts'[r])
    BY <1>2, <1>3, <1>7, PiecesMore
  <2> QED
    BY <1>2, <1>4, <1>7, <2>1 DEF Calm
<1> QED
  BY <1>5, <1>6, <1>7

\* A request in one of these places has neither settled nor started its refund.
LEMMA Unsettled ==
  ASSUME TypeOK, NEW r \in Requests, RInv(r), pc[r] \in Building \cup Reserving \cup {"ready", "settle"}
  PROVE  /\ ~ sess[r].settled /\ ~ sess[r].fundingSettled /\ ~ Charged(r)
         /\ bg[r] = "none" /\ fee[r] = 0 /\ D(fee[r]) = 0
         /\ pc[r] \notin Building /\ sess[r].source = "subscription" => record[r].status = "consumed"
<1>1. Row(r) /\ D(0) = 0
  BY RowTyped, DiscountNeg
<1>2. pc[r] \notin Ending /\ pc[r] \notin {"settleTok", "feeTok", "done"}
      /\ (pc[r] \in Building \/ pc[r] \in Live)
  BY DEF Building, Reserving, Ending, Live, PCs
<1>3. ~ sess[r].settled /\ ~ sess[r].fundingSettled /\ bg[r] = "none" /\ fee[r] = 0
  BY <1>1, <1>2 DEF RInv, SessionInv, RefundInv, Row
<1>4. pc[r] \notin Building /\ sess[r].source = "subscription" => record[r].status = "consumed"
  BY <1>2, <1>3 DEF RInv, SessionInv
<1> QED
  BY <1>1, <1>3, <1>4 DEF Charged

\* The pre-consumption is one piece, and all that was taken.
LEMMA DriftFundSubscription ==
  ASSUME TypeOK, NEW r \in Requests, RInv(r), Unrecorded(r), FundSubscription(r)
  PROVE  Drift(r)'
<1> DEFINE paid == ApplySubscriptionBillingDiscount(arg[r])
<1>a. Row(r) /\ pc[r] = "fund" /\ sess[r].source = "subscription"
  BY RowTyped DEF FundSubscription
<1>b. /\ ~ sess[r].settled /\ ~ sess[r].fundingSettled /\ bg[r] = "none" /\ fee[r] = 0
      /\ D(0) = 0 /\ arg[r] >= 1 /\ sess[r].extraReserved = 0 /\ subNet[r] = 0
  BY <1>a, Unsettled, DiscountNeg DEF Building, RInv, BuildingInv, Unrecorded
<1>1. ASSUME NEW c \in seen[r], PreConsumeUserSubscription(r, c) PROVE Drift(r)'
  <2>1. PICK s \in Candidates(c, paid) :
          /\ subNet' = [subNet EXCEPT ![r] = @ + paid]
          /\ record' = [record EXCEPT ![r] = [status |-> "consumed", sub |-> s, amount |-> paid]]
          /\ SessionReady(r, paid, s)
    BY <1>1, Zenon DEF PreConsumeUserSubscription
  <2>2. paid \in Int /\ paid = D(arg[r]) /\ s \in Subs
    BY <1>a, DiscountSign DEF Row, D, Candidates
  <2> HIDE DEF paid
  <2>3. /\ subNet'[r] = paid /\ record'[r].status = "consumed" /\ record'[r].amount = paid
        /\ sess'[r] = Funded(sess[r], arg[r], paid, s) /\ pc'[r] \in {"ready", "upstream"}
        /\ fee'[r] = 0 /\ bg'[r] = "none"
    BY <1>b, <2>1, <2>2 DEF TypeOK, SessionReady, FundSubscription, refunder
  <2>4. /\ sess'[r].preConsumedQuota = arg[r] /\ sess'[r].extraReserved = 0
        /\ ~ sess'[r].settled /\ ~ sess'[r].fundingSettled
    <3>1. sess[r] \in SessionType /\ arg[r] \in Int /\ paid \in Int /\ s \in Subs \cup {0}
      BY <1>a, <2>2 DEF Row
    <3>2. LET u == Funded(sess[r], arg[r], paid, s) IN
          /\ u.preConsumedQuota = arg[r] /\ u.extraReserved = sess[r].extraReserved
          /\ u.settled = sess[r].settled /\ u.fundingSettled = sess[r].fundingSettled
      BY <3>1, FundedFacts
    <3> QED
      BY <1>b, <2>3, <3>2
  <2>5. ~ Charged(r)' /\ pc'[r] \notin Reserving
    BY <2>3, <2>4 DEF Charged, Reserving
  <2>6. Residue(r)' = 0
    BY <1>b, <2>2, <2>3, <2>5 DEF Residue
  <2>7. Pieces(clean'[r], Residue(r)', 0, attempts'[r])
    BY <2>6 DEF Pieces, Near
  <2>8. arg[r] - 0 = arg[r] /\ arg[r] > 0
    BY <1>a, <1>b DEF Row
  <2> QED
    BY <2>2, <2>3, <2>4, <2>5, <2>7, <2>8 DEF Drift
<1>2. CASE Goto(r, "undo")
  <2>1. pc'[r] = "undo"
    BY <1>2 DEF TypeOK
  <2> QED
    BY <2>1 DEF Drift, Live, Building
<1> HIDE DEF Goto
<1> QED
  BY <1>1, <1>2, Zenon DEF FundSubscription

\* Reserve takes a piece; while it is under way the piece is not counted.
LEMMA DriftReserve ==
  ASSUME TypeOK, TypeOK', NEW r \in Requests, RInv(r), Drift(r), Reserve(r)
  PROVE  Drift(r)'
<1>a. Row(r) /\ pc[r] = "ready" /\ attempts[r] \in Nat
  BY RowTyped DEF Reserve, TypeOK
<1>b. ~ sess[r].settled /\ ~ sess[r].fundingSettled /\ ~ Charged(r) /\ bg[r] = "none"
  BY <1>a, Unsettled
<1>c. pc[r] \in Live /\ pc[r] \notin Reserving
  BY <1>a DEF Live, Building, PCs, Reserving
<1>d. /\ record' = record /\ fee' = fee /\ bg' = bg /\ clean' = clean
      /\ record'[r] = record[r] /\ fee'[r] = fee[r] /\ bg'[r] = bg[r] /\ clean'[r] = clean[r]
  BY DEF Reserve, refunder
<1>1. PICK target \in Targets : Reserve(r)!2!(target)
  BY DEF Reserve
<1>2. target \in Int
  BY AmountsAssumption
<1>3. CASE sess' = sess /\ subNet' = subNet /\ pc'[r] \notin Reserving /\ attempts'[r] >= attempts[r]
  <2>1. Calm(r)
    BY <1>a, <1>b, <1>c, <1>d, <1>3 DEF Calm, Charged
  <2> QED
    BY <2>1, DriftCalm
<1>4. CASE sess'[r].source # "subscription"
  BY <1>4 DEF Drift
<1>5. CASE /\ sess' = sess /\ attempts' = attempts /\ pc'[r] = "rToken" /\ arg'[r] = target
           /\ subNet'[r] = subNet[r] + D(target - sess[r].preConsumedQuota)
  <2>0. attempts'[r] = attempts[r] /\ sess'[r] = sess[r]
    BY <1>5
  <2>1. Delta(r)' = target - sess[r].preConsumedQuota /\ pc'[r] \in Reserving
    BY <1>5 DEF Delta, Reserving
  <2>2. D(target - sess[r].preConsumedQuota) \in Int /\ Residue(r) \in Int /\ D(fee[r]) \in Int
    BY <1>a, <1>2, DiscountNeg, ResidueTyped DEF Row
  <2>3. Residue(r)' = Residue(r)
    <3>1. D(Delta(r)') = D(target - sess[r].preConsumedQuota)
      BY <2>1
    <3> QED
      BY <1>a, <1>c, <1>d, <1>5, <2>1, <2>2, <3>1 DEF Residue, Row
  <2>4. ~ Charged(r)'
    BY <1>b, <2>0 DEF Charged
  <2> QED
    BY <1>b, <1>c, <1>d, <2>0, <2>3, <2>4 DEF Drift
<1>6. \/ sess' = sess /\ subNet' = subNet /\ pc'[r] \notin Reserving /\ attempts'[r] >= attempts[r]
      \/ sess'[r].source # "subscription"
      \/ /\ sess' = sess /\ attempts' = attempts /\ pc'[r] = "rToken" /\ arg'[r] = target
         /\ subNet'[r] = subNet[r] + D(target - sess[r].preConsumedQuota)
  <2>1. CASE ~ ReserveNeeded(r, target)
    <3>1. sess' = sess /\ subNet' = subNet /\ SendUpstream(r)
      BY <1>1, <2>1
    <3>2. pc'[r] = "upstream" /\ attempts'[r] = attempts[r] + 1
      BY <3>1 DEF SendUpstream, TypeOK
    <3> QED
      BY <1>a, <3>1, <3>2 DEF Reserving
  <2>2. CASE ReserveNeeded(r, target) /\ sess[r].source = "wallet"
    <3>1. \/ sess'[r] = FundingAdded(sess[r], target - sess[r].preConsumedQuota)
          \/ sess' = sess
      BY <1>1, <2>2 DEF TypeOK
    <3>2. FundingAdded(sess[r], target - sess[r].preConsumedQuota).source = sess[r].source
      <4>1. sess[r] \in SessionType /\ target - sess[r].preConsumedQuota \in Int
        BY <1>a, <1>2 DEF Row
      <4> QED
        BY <4>1, FundingAddedFacts
    <3> QED
      BY <2>2, <3>1, <3>2
  <2>3. CASE ReserveNeeded(r, target) /\ sess[r].source # "wallet"
    <3>1. \/ /\ sess' = sess /\ attempts' = attempts /\ Goto(r, "rToken")
             /\ arg' = [arg EXCEPT ![r] = target]
             /\ subNet' = [subNet EXCEPT ![r] = @ + D(target - sess[r].preConsumedQuota)]
          \/ sess' = sess /\ subNet' = subNet /\ Fail(r, 0) /\ attempts' = attempts
      <4>1. ASSUME NEW c, PostConsumeDelta(r, sess[r].subscriptionId,
                                           D(target - sess[r].preConsumedQuota), c)
            PROVE  subNet' = [subNet EXCEPT ![r] = @ + D(target - sess[r].preConsumedQuota)]
        BY <4>1, Zenon
      <4> HIDE DEF PostConsumeDelta
      <4>2. \/ /\ sess' = sess /\ attempts' = attempts /\ Goto(r, "rToken")
               /\ arg' = [arg EXCEPT ![r] = target]
               /\ \E c : PostConsumeDelta(r, sess[r].subscriptionId,
                                          D(target - sess[r].preConsumedQuota), c)
            \/ sess' = sess /\ subNet' = subNet /\ Fail(r, 0) /\ attempts' = attempts
        BY <1>1, <2>3, Zenon DEF D
      <4> QED
        BY <4>1, <4>2, Zenon
    <3>2. CASE Fail(r, 0) /\ sess' = sess /\ subNet' = subNet /\ attempts' = attempts
      <4>1. pc'[r] \in {"refund", "settle"} /\ attempts'[r] = attempts[r]
        BY <3>2 DEF Fail, TypeOK
      <4> QED
        BY <1>a, <3>2, <4>1 DEF Reserving
    <3>3. CASE /\ sess' = sess /\ attempts' = attempts /\ Goto(r, "rToken")
               /\ arg' = [arg EXCEPT ![r] = target]
               /\ subNet' = [subNet EXCEPT ![r] = @ + D(target - sess[r].preConsumedQuota)]
      BY <3>3 DEF Goto, TypeOK
    <3> QED
      BY <3>1, <3>2, <3>3
  <2> QED
    BY <1>a, <2>1, <2>2, <2>3 DEF Row
<1> QED
  BY <1>3, <1>4, <1>5, <1>6

\* The token is taken as well: the piece counts, in the attempt that starts.
LEMMA DriftReserveDone ==
  ASSUME TypeOK, TypeOK', NEW r \in Requests, RInv(r), Drift(r), pc[r] \in Reserving, ReserveDone(r),
         subNet'[r] = subNet[r], record'[r] = record[r], fee'[r] = fee[r], bg'[r] = bg[r],
         clean'[r] = clean[r], arg'[r] = arg[r]
  PROVE  Drift(r)'
<1>a. /\ Row(r) /\ Residue(r) \in Int /\ Delta(r) \in Int /\ attempts[r] \in Nat
      /\ Delta(r) = arg[r] - sess[r].preConsumedQuota /\ D(Delta(r)) \in Int /\ D(fee[r]) \in Int
  BY RowTyped, ResidueTyped DEF Delta
<1>b. ~ sess[r].settled /\ ~ sess[r].fundingSettled /\ ~ Charged(r) /\ bg[r] = "none" /\ pc[r] \in Live
  BY Unsettled DEF Reserving, Live, Building, PCs
<1>c. /\ pc'[r] = "upstream" /\ attempts'[r] = attempts[r] + 1
      /\ sess'[r] = Reserved(sess[r], Delta(r))
  BY DEF ReserveDone, SendUpstream, TypeOK
<1>d. /\ sess'[r].source = sess[r].source
      /\ sess'[r].preConsumedQuota = sess[r].preConsumedQuota + Delta(r)
      /\ sess'[r].extraReserved = sess[r].extraReserved + Delta(r)
      /\ ~ sess'[r].settled /\ ~ sess'[r].fundingSettled
  <2>1. LET t == Reserved(sess[r], Delta(r)) IN
        /\ t.source = sess[r].source
        /\ t.preConsumedQuota = sess[r].preConsumedQuota + Delta(r)
        /\ t.extraReserved = sess[r].extraReserved + Delta(r)
        /\ t.fundingSettled = sess[r].fundingSettled /\ t.settled = sess[r].settled
    BY <1>a, ReservedFacts DEF Row
  <2> QED
    BY <1>b, <1>c, <2>1
<1>e. Delta(r) > 0 /\ sess[r].extraReserved \in Nat
  BY <1>a DEF Row, RInv, SessionInv
<1>f. ~ Charged(r)' /\ pc'[r] \notin Reserving
  BY <1>c, <1>d DEF Charged, Reserving
<1>1. Residue(r)' = Residue(r) + D(Delta(r))
  BY <1>a, <1>f DEF Residue, Row
<1> SUFFICES ASSUME sess[r].source = "subscription"
             PROVE  Drift(r)'
  BY <1>d DEF Drift
<1>2. /\ sess[r].preConsumedQuota > sess[r].extraReserved
      /\ record[r].amount = D(sess[r].preConsumedQuota - sess[r].extraReserved)
      /\ Pieces(clean[r], Residue(r), sess[r].extraReserved, attempts[r])
  BY <1>b DEF Drift
<1>3. Pieces(clean[r], Residue(r) + D(Delta(r)), sess[r].extraReserved + Delta(r), attempts[r] + 1)
  BY <1>a, <1>e, <1>2, PieceAdded DEF Row
<1>4. /\ sess'[r].preConsumedQuota > sess'[r].extraReserved
      /\ sess'[r].preConsumedQuota - sess'[r].extraReserved
           = sess[r].preConsumedQuota - sess[r].extraReserved
  BY <1>a, <1>d, <1>2 DEF Row
<1>5. Pieces(clean'[r], Residue(r)', sess'[r].extraReserved, attempts'[r])
  BY <1>c, <1>d, <1>1, <1>3
<1> QED
  BY <1>b, <1>f, <1>2, <1>4, <1>5 DEF Drift

\* An unsettled request whose residue stays, or grows when an error was merely logged.
LEMMA DriftKept ==
  ASSUME TypeOK, TypeOK', NEW r \in Requests, Drift(r), pc[r] \in Live \cup {"done"},
         ~ Charged(r), ~ Charged(r)', sess[r].extraReserved >= 0,
         sess'[r].source = sess[r].source,
         sess'[r].preConsumedQuota = sess[r].preConsumedQuota,
         sess'[r].extraReserved = sess[r].extraReserved, record'[r].amount = record[r].amount,
         attempts'[r] = attempts[r], clean'[r] => clean[r] /\ Residue(r)' = Residue(r),
         Residue(r)' \in Int, Residue(r)' >= Residue(r),
         bg'[r] \in {"token", "end"} <=> bg[r] \in {"token", "end"}
  PROVE  Drift(r)'
<1>1. /\ Residue(r) \in Int /\ attempts[r] \in Nat
      /\ clean[r] \in BOOLEAN /\ clean'[r] \in BOOLEAN /\ D(sess[r].extraReserved) \in Int
  BY ResidueTyped, RowTyped, DiscountNeg DEF TypeOK, Row
<1>2. /\ Near(clean[r], Residue(r), 0, attempts[r]) => Near(clean'[r], Residue(r)', 0, attempts[r])
      /\ Pieces(clean[r], Residue(r), sess[r].extraReserved, attempts[r]) =>
           Pieces(clean'[r], Residue(r)', sess[r].extraReserved, attempts[r])
  BY <1>1 DEF Near, Pieces
<1> QED
  BY <1>2 DEF Drift

\* rollbackFundingReserve returns exactly the piece that was taken.
LEMMA DriftReserveUndo ==
  ASSUME TypeOK, TypeOK', NEW r \in Requests, RInv(r), Drift(r), ReserveUndo(r)
  PROVE  Drift(r)'
<1>a. /\ Row(r) /\ Delta(r) \in Int /\ D(Delta(r)) \in Int /\ D(fee[r]) \in Int /\ Residue(r) \in Int
      /\ D(-Delta(r)) = -D(Delta(r)) /\ -Delta(r) \in Int /\ sess[r].extraReserved >= 0
  BY RowTyped, ResidueTyped, DiscountNeg DEF RInv, SessionInv
<1>b. /\ pc[r] = "rUndo" /\ pc[r] \in Live /\ pc[r] \in Reserving /\ pc'[r] \in {"refund", "settle"}
      /\ pc'[r] \notin Reserving
  BY DEF ReserveUndo, Fail, TypeOK, Live, Building, PCs, Reserving
<1>c. /\ record'[r] = record[r] /\ fee'[r] = fee[r] /\ bg'[r] = bg[r] /\ attempts'[r] = attempts[r]
  BY DEF ReserveUndo, refunder
<1>d. ~ sess[r].settled /\ ~ sess[r].fundingSettled /\ ~ Charged(r)
  BY <1>b, Unsettled
<1>1. CASE sess[r].source = "wallet" /\ sess' = [sess EXCEPT ![r] = FundingAdded(@, -Delta(r))]
  <2>1. sess'[r] = FundingAdded(sess[r], -Delta(r))
    BY <1>1 DEF TypeOK
  <2>2. FundingAdded(sess[r], -Delta(r)).source = sess[r].source
    BY <1>a, FundingAddedFacts DEF Row
  <2> QED
    BY <1>1, <2>1, <2>2 DEF Drift
<1>2. CASE /\ sess[r].source = "subscription" /\ sess' = sess /\ clean' = clean
           /\ \E c : PostConsumeDelta(r, sess[r].subscriptionId, D(-Delta(r)), c)
  <2>1. subNet'[r] = subNet[r] - D(Delta(r))
    <3>1. subNet'[r] = subNet[r] + D(-Delta(r))
      BY <1>2, DeltaNet, Zenon
    <3> QED
      BY <1>a, <3>1 DEF Row
  <2>2. Residue(r)' = Residue(r) /\ Residue(r)' >= Residue(r)
    <3>1. Residue(r)' = Residue(r)
      BY <1>a, <1>b, <1>c, <2>1 DEF Residue, Row
    <3> QED
      BY <1>a, <3>1
  <2>3. ~ Charged(r)' /\ sess'[r] = sess[r] /\ clean'[r] = clean[r]
    BY <1>d, <1>2 DEF Charged
  <2> QED
    BY <1>a, <1>b, <1>c, <1>d, <2>2, <2>3, DriftKept
<1>3. CASE Logged(r) /\ subNet' = subNet /\ sess' = sess
  <2>1. ~ clean'[r] /\ subNet'[r] = subNet[r] /\ sess'[r] = sess[r]
    BY <1>3 DEF Logged, TypeOK
  <2>2. D(Delta(r)) >= 1
    <3>1. Delta(r) > 0
      BY <1>a, <1>b DEF RInv, SessionInv, Delta, Row
    <3> QED
      BY <1>a, <3>1, DiscountNeg
  <2>3. Residue(r)' = Residue(r) + D(Delta(r))
    BY <1>a, <1>b, <1>c, <2>1 DEF Residue, Row
  <2>4. Residue(r)' \in Int /\ Residue(r)' >= Residue(r)
    BY <1>a, <2>2, <2>3
  <2>5. ~ Charged(r)'
    BY <1>d, <2>1 DEF Charged
  <2> QED
    BY <1>a, <1>b, <1>c, <1>d, <2>1, <2>4, <2>5, DriftKept
<1> HIDE DEF PostConsumeDelta, Logged
<1> QED
  BY <1>1, <1>2, <1>3, Zenon DEF ReserveUndo, D

\* Settling leaves the actual consumption and one more rounding.
LEMMA DriftSettleFunding ==
  ASSUME TypeOK, TypeOK', NEW r \in Requests, RInv(r), Drift(r), SettleFunding(r)
  PROVE  Drift(r)'
<1>a. /\ Row(r) /\ Delta(r) \in Int /\ attempts[r] \in Nat /\ Residue(r) \in Int
      /\ Delta(r) = arg[r] - sess[r].preConsumedQuota /\ sess[r].extraReserved \in Nat
  BY RowTyped, ResidueTyped DEF Delta, RInv, SessionInv, Row
<1>b. pc[r] = "settle" /\ pc[r] \in Live /\ pc[r] \notin Reserving
  BY DEF SettleFunding, Live, Building, PCs, Reserving
<1>c. /\ ~ Charged(r) /\ bg[r] = "none" /\ D(fee[r]) = 0
      /\ sess[r].source = "subscription" => record[r].status = "consumed"
  BY <1>b, Unsettled DEF Building
<1>d. record'[r] = record[r] /\ attempts'[r] = attempts[r] /\ arg'[r] = arg[r]
  BY DEF SettleFunding
<1>1. ASSUME sess[r].source = "subscription"
      PROVE  Near(clean[r], subNet[r] + D(Delta(r)), D(arg[r]), attempts[r] + 1)
  <2>1. /\ sess[r].preConsumedQuota > sess[r].extraReserved
        /\ record[r].amount = D(sess[r].preConsumedQuota - sess[r].extraReserved)
        /\ Pieces(clean[r], Residue(r), sess[r].extraReserved, attempts[r])
    BY <1>b, <1>c, <1>1 DEF Drift
  <2>2. Near(clean[r], D(sess[r].preConsumedQuota - sess[r].extraReserved) + Residue(r),
             D(sess[r].preConsumedQuota), attempts[r])
    BY <1>a, <2>1, WholeOfPieces DEF Row
  <2>3. subNet[r] = record[r].amount + Residue(r)
    BY <1>a, <1>b, <1>c, <1>1 DEF Residue, Row
  <2>4. Near(clean[r], subNet[r], D(sess[r].preConsumedQuota), attempts[r])
    BY <2>1, <2>2, <2>3
  <2>5. sess[r].preConsumedQuota > 0
    BY <1>a, <2>1 DEF Row
  <2>6. Near(clean[r], subNet[r] + D(arg[r] - sess[r].preConsumedQuota), D(arg[r]), attempts[r] + 1)
    BY <1>a, <2>4, <2>5, SettledPiece DEF Row
  <2> QED
    BY <1>a, <2>6
<1>2. CASE Delta(r) = 0 /\ sess' = [sess EXCEPT ![r] = Settled(@)] /\ subNet' = subNet /\ clean' = clean
  <2>1. subNet'[r] = subNet[r] + D(Delta(r))
    BY <1>a, <1>2, DiscountNeg DEF Row
  <2>2. sess'[r] = Settled(sess[r]) /\ clean'[r] = clean[r]
    BY <1>2 DEF TypeOK
  <2>3. LET t == Settled(sess[r]) IN
        /\ t.source = sess[r].source /\ t.preConsumedQuota = sess[r].preConsumedQuota
        /\ t.extraReserved = sess[r].extraReserved /\ t.settled
    BY <1>a, SettledFacts DEF Row
  <2>4. Charged(r)'
    BY <2>2, <2>3 DEF Charged
  <2> QED
    BY <1>b, <1>d, <1>1, <2>1, <2>2, <2>3, <2>4 DEF Drift
<1>3. CASE sess' = [sess EXCEPT ![r] = FundingSettled(@)] /\ clean' = clean
           /\ (sess[r].source = "subscription" =>
                 \E c : PostConsumeDelta(r, sess[r].subscriptionId, D(Delta(r)), c))
  <2>1. sess[r].source = "subscription" => subNet'[r] = subNet[r] + D(Delta(r))
    BY <1>3, DeltaNet, Zenon
  <2>2. sess'[r] = FundingSettled(sess[r]) /\ clean'[r] = clean[r]
    BY <1>3 DEF TypeOK
  <2>3. LET t == FundingSettled(sess[r]) IN
        /\ t.source = sess[r].source /\ t.preConsumedQuota = sess[r].preConsumedQuota
        /\ t.extraReserved = sess[r].extraReserved /\ t.fundingSettled
    BY <1>a, FundingSettledFacts DEF Row
  <2>4. Charged(r)'
    BY <2>2, <2>3 DEF Charged
  <2> QED
    BY <1>b, <1>d, <1>1, <2>1, <2>2, <2>3, <2>4 DEF Drift
<1>4. CASE Logged(r) /\ Goto(r, "done") /\ subNet' = subNet /\ sess' = sess
  <2>1. /\ ~ clean'[r] /\ pc'[r] = "done" /\ pc'[r] \notin Reserving /\ subNet'[r] = subNet[r]
        /\ sess'[r] = sess[r] /\ fee'[r] = fee[r] /\ bg'[r] = bg[r]
    BY <1>4 DEF Logged, Goto, TypeOK, Reserving, SettleFunding, refunder
  <2>2. Residue(r)' = Residue(r) /\ Residue(r)' >= Residue(r)
    <3>1. Residue(r)' = Residue(r)
      BY <1>b, <1>d, <2>1 DEF Residue
    <3> QED
      BY <1>a, <3>1
  <2>3. ~ Charged(r)' /\ sess[r].extraReserved >= 0
    BY <1>a, <1>c, <2>1 DEF Charged
  <2> QED
    BY <1>a, <1>b, <1>c, <1>d, <2>1, <2>2, <2>3, DriftKept
<1>5. sess[r].source = "wallet" => sess[r].source # "subscription"
  OBVIOUS
<1> HIDE DEF PostConsumeDelta, Logged, Goto
<1> QED
  BY <1>2, <1>3, <1>4, <1>5, Zenon DEF SettleFunding, D

\* The refund of the record takes its amount from what is held and from the record.
LEMMA DriftRefundSubscription ==
  ASSUME TypeOK, TypeOK', NEW r \in Requests, RInv(r), Drift(r), RefundSubscription(r)
  PROVE  Drift(r)'
<1>a. /\ Row(r) /\ bg[r] = "funding" /\ D(fee[r]) \in Int /\ D(Delta(r)) \in Int
      /\ Residue(r) \in Int /\ sess[r].extraReserved >= 0
  BY RowTyped, ResidueTyped DEF RefundSubscription, RInv, SessionInv
<1>b. pc[r] \in Live \cup {"done"} /\ ~ sess[r].settled /\ ~ sess[r].fundingSettled
  BY <1>a DEF RInv, RefundInv, Ending, Live, Building, PCs
<1>c. /\ pc'[r] = pc[r] /\ fee'[r] = fee[r] /\ attempts'[r] = attempts[r] /\ arg'[r] = arg[r]
      /\ sess'[r] = sess[r]
  BY DEF RefundSubscription, control
<1>d. /\ clean'[r] => clean[r]
      /\ bg'[r] \notin {"token", "end"}
  BY <1>a DEF RefundSubscription, BgGoto, Logged, TypeOK
<1>e. ~ Charged(r) /\ ~ Charged(r)' /\ Delta(r)' = Delta(r)
  BY <1>b, <1>c DEF Charged, Delta
<1>1. Residue(r)' = Residue(r) /\ record'[r].amount = record[r].amount
  <2>1. CASE RefundSubscriptionPreConsume(r) /\ record[r].status = "consumed"
    <3>0. \E c : PostConsumeDelta(r, record[r].sub, -record[r].amount, c)
      BY <2>1, Zenon DEF RefundSubscriptionPreConsume
    <3>1. /\ subNet' = [subNet EXCEPT ![r] = @ + (-record[r].amount)]
          /\ record' = [record EXCEPT ![r].status = "refunded"]
      BY <2>1, <3>0, DeltaNet, Zenon DEF RefundSubscriptionPreConsume
    <3>2. record'[r].status = "refunded" /\ record'[r].amount = record[r].amount
      BY <3>1 DEF TypeOK, RecordType
    <3>3. subNet'[r] = subNet[r] - record[r].amount
      BY <1>a, <3>1 DEF TypeOK, Row
    <3> QED
      BY <1>a, <1>c, <1>e, <2>1, <3>2, <3>3 DEF Residue, Row
  <2>2. CASE subNet' = subNet /\ record' = record
    BY <1>c, <1>e, <2>2 DEF Residue
  <2> QED
    BY <2>1, <2>2 DEF RefundSubscription, RefundSubscriptionPreConsume
<1>2. Residue(r)' \in Int /\ Residue(r)' >= Residue(r)
  BY <1>a, <1>1
<1> QED
  BY <1>a, <1>b, <1>c, <1>d, <1>e, <1>1, <1>2, DriftKept

\* What Reserve added is returned in one piece: the roundings of the pieces remain.
LEMMA DriftRefundExtra ==
  ASSUME TypeOK, TypeOK', NEW r \in Requests, RInv(r), Drift(r), RefundExtra(r)
  PROVE  Drift(r)'
<1>a. /\ Row(r) /\ bg[r] = "extra" /\ D(fee[r]) \in Int /\ D(Delta(r)) \in Int /\ Residue(r) \in Int
      /\ attempts[r] \in Nat /\ sess[r].extraReserved \in Nat
  BY RowTyped, ResidueTyped DEF RefundExtra, RInv, SessionInv, Row
<1>b. pc[r] \in Live \cup {"done"} /\ ~ sess[r].settled /\ ~ sess[r].fundingSettled
  BY <1>a DEF RInv, RefundInv, Ending, Live, Building, PCs
<1>c. /\ pc'[r] = pc[r] /\ fee'[r] = fee[r] /\ attempts'[r] = attempts[r] /\ arg'[r] = arg[r]
      /\ sess'[r] = sess[r] /\ record'[r] = record[r] /\ bg'[r] = "token"
  BY DEF RefundExtra, control, BgGoto, TypeOK
<1>e. ~ Charged(r) /\ ~ Charged(r)' /\ Delta(r)' = Delta(r)
  BY <1>b, <1>c DEF Charged, Delta
<1> SUFFICES ASSUME sess[r].source = "subscription" PROVE Drift(r)'
  BY <1>c DEF Drift
<1>1. /\ sess[r].preConsumedQuota > sess[r].extraReserved
      /\ record[r].amount = D(sess[r].preConsumedQuota - sess[r].extraReserved)
      /\ Pieces(clean[r], Residue(r), sess[r].extraReserved, attempts[r])
  BY <1>a, <1>b, <1>e DEF Drift
<1>2. /\ D(sess[r].extraReserved) \in Int /\ D(sess[r].extraReserved) >= 0
      /\ D(-sess[r].extraReserved) = -D(sess[r].extraReserved)
      /\ sess[r].extraReserved = 0 => D(sess[r].extraReserved) = 0
  <2>1. D(0) = 0 /\ D(sess[r].extraReserved) \in Int
        /\ D(-sess[r].extraReserved) = -D(sess[r].extraReserved)
        /\ (sess[r].extraReserved > 0 => D(sess[r].extraReserved) >= 1)
    BY <1>a, DiscountNeg DEF Row
  <2> QED
    BY <1>a, <2>1
<1>3. \/ subNet'[r] = subNet[r] - D(sess[r].extraReserved) /\ clean' = clean
      \/ subNet'[r] = subNet[r] /\ ~ clean'[r]
  <2>1. CASE /\ \E c : PostConsumeDelta(r, sess[r].subscriptionId, D(-sess[r].extraReserved), c)
             /\ clean' = clean
    <3>1. subNet'[r] = subNet[r] + D(-sess[r].extraReserved)
      BY <2>1, DeltaNet, Zenon
    <3> QED
      BY <1>a, <1>2, <2>1, <3>1 DEF Row
  <2>2. CASE Logged(r) /\ subNet' = subNet
    BY <2>2 DEF Logged, TypeOK
  <2>3. CASE sess[r].extraReserved = 0 /\ subNet' = subNet /\ clean' = clean
    BY <1>a, <1>2, <2>3 DEF Row
  <2>4. ~ ExtraOwed(r) => sess[r].extraReserved = 0
    BY <1>a DEF ExtraOwed, ExtraReserved, Row
  <2> HIDE DEF PostConsumeDelta, Logged
  <2> QED
    BY <2>1, <2>2, <2>3, <2>4, Zenon DEF RefundExtra, ExtraReserved, D
<1>4. \/ Residue(r)' = Residue(r) - D(sess[r].extraReserved) /\ clean' = clean
      \/ Residue(r)' = Residue(r) /\ ~ clean'[r]
  BY <1>a, <1>c, <1>e, <1>2, <1>3 DEF Residue, Row
<1>5. Near(clean'[r], Residue(r)', 0, attempts[r])
  <2>1. clean[r] \in BOOLEAN /\ clean'[r] \in BOOLEAN
    BY DEF TypeOK
  <2> QED
    BY <1>a, <1>1, <1>2, <1>4, <2>1 DEF Pieces, Near
<1> QED
  BY <1>c, <1>e, <1>1, <1>5 DEF Drift

\* The fee is charged once, in one piece, and remembered.
LEMMA DriftChargeFee ==
  ASSUME TypeOK, TypeOK', NEW r \in Requests, RInv(r), Drift(r), ChargeFee(r)
  PROVE  Drift(r)'
<1>a. /\ Row(r) /\ pc[r] = "fee" /\ D(arg[r]) \in Int /\ D(0) = 0 /\ Residue(r) \in Int
      /\ sess[r].extraReserved >= 0
  BY RowTyped, ResidueTyped, DiscountNeg DEF ChargeFee, Row, RInv, SessionInv
<1>b. /\ pc[r] \in Live /\ pc[r] \notin Reserving /\ fee[r] = 0
      /\ ~ sess[r].settled /\ ~ sess[r].fundingSettled
  BY <1>a DEF RInv, SessionInv, Live, Building, PCs, Reserving, Row
<1>c. /\ attempts'[r] = attempts[r] /\ sess'[r] = sess[r] /\ record'[r] = record[r]
      /\ bg'[r] = bg[r] /\ clean'[r] = clean[r] /\ arg'[r] = arg[r]
      /\ pc'[r] \in {"feeTok", "done"}
  BY DEF ChargeFee, refunder, TypeOK
<1>d. ~ Charged(r) /\ ~ Charged(r)' /\ pc'[r] \notin Reserving
  BY <1>b, <1>c DEF Charged, Reserving
<1>1. CASE sess[r].source # "subscription"
  BY <1>c, <1>1 DEF Drift
<1>2. CASE sess[r].source = "subscription"
  <2>1. \/ /\ subNet' = [subNet EXCEPT ![r] = @ + D(arg[r])]
           /\ fee' = [fee EXCEPT ![r] = arg[r]]
        \/ subNet' = subNet /\ fee' = fee
    <3>1. sess[r].source # "wallet"
      BY <1>2
    <3>2. \A c : PostConsumeDelta(r, sess[r].subscriptionId, D(arg[r]), c) =>
                  subNet' = [subNet EXCEPT ![r] = @ + D(arg[r])]
      BY DeltaNet, Zenon
    <3> HIDE DEF PostConsumeDelta
    <3> QED
      BY <3>1, <3>2, Zenon DEF ChargeFee, D
  <2>2. \/ subNet'[r] = subNet[r] + D(arg[r]) /\ fee'[r] = arg[r]
        \/ subNet'[r] = subNet[r] /\ fee'[r] = fee[r]
    BY <2>1 DEF TypeOK
  <2>3. Residue(r)' = Residue(r)
    BY <1>a, <1>b, <1>c, <1>d, <2>2 DEF Residue, Row
  <2>4. Residue(r)' \in Int /\ Residue(r)' >= Residue(r)
    BY <1>a, <2>3
  <2> QED
    BY <1>a, <1>b, <1>c, <1>d, <2>3, <2>4, DriftKept
<1> QED
  BY <1>1, <1>2

\* The token side of Reserve, up to the attempt.
LEMMA DriftReserveToken ==
  ASSUME TypeOK, TypeOK', NEW r \in Requests, RInv(r), Drift(r),
         ReserveCheckToken(r) \/ ReserveTakeToken(r)
  PROVE  Drift(r)'
<1>a. /\ pc[r] \in {"rToken", "rTokenDec"} /\ subNet'[r] = subNet[r] /\ record'[r] = record[r]
      /\ fee'[r] = fee[r] /\ bg'[r] = bg[r] /\ clean'[r] = clean[r] /\ arg'[r] = arg[r]
      /\ ReserveDone(r) \/ (sess' = sess /\ attempts' = attempts /\ pc'[r] \in {"rTokenDec", "rUndo"})
  BY DEF ReserveCheckToken, ReserveTakeToken, rows, refunder, history, TypeOK
<1>b. pc[r] \in Reserving /\ pc[r] \in Live /\ attempts[r] \in Nat
  BY <1>a DEF Reserving, Live, Building, PCs, TypeOK
<1>1. CASE ReserveDone(r)
  BY <1>a, <1>b, <1>1, DriftReserveDone
<1>2. CASE sess' = sess /\ attempts' = attempts /\ pc'[r] \in {"rTokenDec", "rUndo"}
  <2>1. pc'[r] \in Reserving /\ Charged(r)' = Charged(r)
    BY <1>2 DEF Reserving, Charged
  <2>2. Calm(r)
    BY <1>a, <1>b, <1>2, <2>1 DEF Calm
  <2> QED
    BY <2>2, DriftCalm
<1> QED
  BY <1>a, <1>1, <1>2

\* Everything before the funding source is charged, and everything about the wallet.
LEMMA DriftElsewhere ==
  ASSUME TypeOK, NEW r \in Requests, RInv(r), UnbilledInv(r),
         \/ Begin(r) \/ TryWallet(r) \/ TrySubscription(r) \/ CheckToken(r) \/ TakeToken(r)
         \/ FundWallet(r) \/ UndoToken(r) \/ RefreshUnbilled(r) \/ RefundWallet(r)
  PROVE  Drift(r)'
<1>a. Row(r) /\ NoSession.source = "none" /\ NoBilling.source = "wallet"
  BY RowTyped, NoSessionFacts, NoBillingFacts
<1>1. CASE Begin(r) \/ RefreshUnbilled(r)
  <2>1. sess[r] \in {NoSession, NoBilling}
    BY <1>1 DEF Begin, RefreshUnbilled, RInv, BuildingInv, UnbilledInv
  <2>2. sess'[r] \in {NoSession, NoBilling}
    BY <1>1, <2>1 DEF Begin, RefreshUnbilled, TypeOK
  <2> QED
    BY <1>a, <2>2 DEF Drift
<1>2. CASE TryWallet(r) \/ TrySubscription(r) \/ CheckToken(r) \/ TakeToken(r) \/ UndoToken(r)
  <2>1. pc'[r] \in {"token", "tokenDec", "fund"} \/ sess'[r] \in {NoSession, NoBilling}
    BY <1>2 DEF TryWallet, NextGroupUnbilled, TrySubscription, CheckToken, TakeToken, UndoToken, TypeOK
  <2> QED
    BY <1>a, <2>1 DEF Drift, Live, Building
<1>3. CASE FundWallet(r)
  <2>1. \/ pc'[r] = "undo"
        \/ \E held \in {0, arg[r]} : sess'[r] = Funded(sess[r], arg[r], held, 0)
    BY <1>3 DEF FundWallet, SessionReady, TypeOK
  <2>2. ASSUME NEW held \in {0, arg[r]} PROVE Funded(sess[r], arg[r], held, 0).source = "wallet"
    BY <1>a, <1>3, <2>2, FundedFacts DEF Row, FundWallet
  <2> QED
    BY <2>1, <2>2 DEF Drift, Live, Building
<1>4. CASE RefundWallet(r)
  <2>1. sess'[r].source = "wallet"
    BY <1>4 DEF RefundWallet, control
  <2> QED
    BY <2>1 DEF Drift
<1> QED
  BY <1>1, <1>2, <1>3, <1>4

\* The steps between two charges.
LEMMA DriftBetween ==
  ASSUME TypeOK, TypeOK', NEW r \in Requests, RInv(r), Drift(r),
         \/ NoChannel(r) \/ Upstream(r) \/ Panic(r) \/ SettleToken(r) \/ Refund(r) \/ ChargeFeeToken(r)
         \/ RefundToken(r) \/ ReadRows(r) \/ RefundRead(r)
  PROVE  Drift(r)'
<1>a. Row(r) /\ attempts[r] \in Nat
  BY RowTyped DEF TypeOK
<1>b. /\ subNet' = subNet /\ record' = record /\ fee' = fee /\ (clean'[r] => clean[r])
  BY DEF NoChannel, Upstream, Panic, SettleToken, Refund, ChargeFeeToken, RefundToken, ReadRows,
     RefundRead, TypeOK
<1>1. CASE NoChannel(r) \/ Upstream(r) \/ Panic(r)
  <2>1. /\ sess' = sess /\ bg' = bg /\ pc[r] \in {"ready", "free", "upstream"}
        /\ pc'[r] \in {"ready", "free", "settle", "refund", "done"}
        /\ attempts' = attempts \/ attempts'[r] = attempts[r] + 1
    BY <1>1 DEF NoChannel, Upstream, Panic, Fail, refunder, TypeOK
  <2>2. /\ ~ sess[r].settled /\ ~ sess[r].fundingSettled /\ pc[r] \in Live
        /\ pc[r] \notin Reserving /\ pc'[r] \notin Reserving
    BY <2>1 DEF RInv, SessionInv, Live, Building, PCs, Reserving
  <2>3. ~ Charged(r) /\ Charged(r)' = Charged(r)
    BY <2>1, <2>2 DEF Charged
  <2>4. Calm(r)
    BY <1>a, <1>b, <2>1, <2>2, <2>3 DEF Calm
  <2> QED
    BY <2>4, DriftCalm
<1>2. CASE SettleToken(r)
  <2>1. /\ sess'[r] = Settled(sess[r]) /\ bg' = bg /\ pc[r] = "settleTok" /\ pc'[r] = "done"
        /\ attempts' = attempts /\ arg' = arg
    BY <1>2 DEF SettleToken, refunder, TypeOK
  <2>2. LET t == Settled(sess[r]) IN
        /\ t.source = sess[r].source /\ t.preConsumedQuota = sess[r].preConsumedQuota
        /\ t.extraReserved = sess[r].extraReserved /\ t.settled = TRUE
    BY <1>a, SettledFacts DEF Row
  <2>3. sess[r].fundingSettled
    BY <2>1 DEF RInv, SessionInv
  <2>4. Charged(r) = TRUE
    BY <1>a, <2>3 DEF Charged, Row
  <2>5. Charged(r)' = TRUE
    BY <2>1, <2>2 DEF Charged
  <2>6. pc[r] \in Live /\ pc[r] \notin Reserving /\ pc'[r] \notin Reserving
    BY <2>1 DEF Live, Building, PCs, Reserving
  <2>7. Calm(r)
    BY <1>a, <1>b, <2>1, <2>2, <2>4, <2>5, <2>6 DEF Calm
  <2> QED
    BY <2>7, DriftCalm
<1>3. CASE Refund(r)
  <2>1. /\ pc[r] = "refund" /\ pc'[r] \in {"fee", "done"} /\ attempts' = attempts /\ arg' = arg
        /\ \/ sess'[r] = sess[r] /\ bg'[r] = bg[r]
           \/ sess'[r] = Refunded(sess[r]) /\ bg'[r] = "funding"
    BY <1>3 DEF Refund, TypeOK
  <2>2. LET t == Refunded(sess[r]) IN
        /\ t.source = sess[r].source /\ t.preConsumedQuota = sess[r].preConsumedQuota
        /\ t.extraReserved = sess[r].extraReserved /\ t.settled = sess[r].settled
        /\ t.fundingSettled = sess[r].fundingSettled
    BY <1>a, RefundedFacts DEF Row
  <2>3. Charged(r)' = Charged(r)
    BY <2>1, <2>2 DEF Charged
  <2>4. pc[r] \in Live /\ pc[r] \notin Reserving /\ pc'[r] \notin Reserving /\ pc[r] \notin Ending
    BY <2>1 DEF Live, Building, PCs, Reserving, Ending
  <2>5. bg[r] = "none"
    BY <2>4 DEF RInv, RefundInv
  <2>6. Calm(r)
    BY <1>a, <1>b, <2>1, <2>2, <2>3, <2>4, <2>5 DEF Calm
  <2> QED
    BY <2>6, DriftCalm
<1>4. CASE ChargeFeeToken(r)
  <2>1. /\ sess' = sess /\ bg' = bg /\ pc[r] = "feeTok" /\ pc'[r] = "done"
        /\ attempts' = attempts /\ arg' = arg
    BY <1>4 DEF ChargeFeeToken, refunder, TypeOK
  <2>2. /\ pc[r] \in Live /\ pc[r] \notin Reserving /\ pc'[r] \notin Reserving
        /\ Charged(r)' = Charged(r)
    BY <2>1 DEF Live, Building, PCs, Reserving, Charged
  <2>3. Calm(r)
    BY <1>a, <1>b, <2>1, <2>2 DEF Calm
  <2> QED
    BY <2>3, DriftCalm
<1>5. CASE RefundToken(r)
  <2>1. /\ sess' = sess /\ bg[r] = "token" /\ bg'[r] = "end" /\ pc' = pc
        /\ attempts' = attempts /\ arg' = arg
    BY <1>5 DEF RefundToken, control, BgGoto, TypeOK
  <2>2. Charged(r)' = Charged(r)
    BY <2>1 DEF Charged
  <2>3. Calm(r)
    BY <1>a, <1>b, <2>1, <2>2 DEF Calm
  <2> QED
    BY <2>3, DriftCalm
<1>6. CASE ReadRows(r) \/ RefundRead(r)
  <2>1. UNCHANGED <<sess, bg, pc, attempts, arg>>
    BY <1>6 DEF ReadRows, RefundRead
  <2>2. Charged(r)' = Charged(r)
    BY <2>1 DEF Charged
  <2>3. Calm(r)
    BY <1>a, <1>b, <2>1, <2>2 DEF Calm
  <2> QED
    BY <2>3, DriftCalm
<1> QED
  BY <1>1, <1>2, <1>3, <1>4, <1>5, <1>6

\* No request counts the attempts of another.
LEMMA AttemptsSame ==
  ASSUME TypeOK, [Next]_vars, NEW q \in Requests, ~ StepOf(q)
  PROVE  attempts'[q] = attempts[q]
<1>1. ASSUME NEW r \in Requests, r # q, StepOf(r)
      PROVE  attempts'[q] = attempts[q]
  BY <1>1
  DEF TypeOK, StepOf, RequestStep, UpstreamStep, RefundStep, Begin, TryWallet, TrySubscription,
      CheckToken, TakeToken, FundWallet, FundSubscription, UndoToken, ReadRows, NoChannel,
      RefreshUnbilled, Reserve, ReserveCheckToken, ReserveTakeToken, ReserveUndo, Upstream, Panic,
      SettleFunding, SettleToken, Refund, ChargeFee, ChargeFeeToken, RefundWallet, RefundRead,
      RefundSubscription, RefundExtra, RefundToken, SendUpstream, ReserveDone
<1>2. ASSUME NEW s \in Subs, SubscriptionStep(s) PROVE attempts'[q] = attempts[q]
  BY <1>2 DEF SubscriptionStep, PeriodEnds, ResetRead, ResetDueSubscription, Deactivate
<1>3. CASE UNCHANGED vars
  BY <1>3 DEF vars, control
<1> QED
  BY <1>1, <1>2, <1>3 DEF Next, StepOf, Finished

\* Every step keeps the drift of every request.
LEMMA DriftStep ==
  TypeOK /\ TypeOK' /\ IndInv /\ AllRecorded /\ DriftInv /\ [Next]_vars => DriftInv'
<1> SUFFICES ASSUME TypeOK, TypeOK', IndInv, AllRecorded, DriftInv, [Next]_vars, NEW q \in Requests
             PROVE  Drift(q)'
  BY DEF DriftInv
<1>0. RInv(q) /\ UnbilledInv(q) /\ Unrecorded(q) /\ Drift(q)
  BY DEF IndInv, RInv, AllRecorded, DriftInv
<1>1. CASE StepOf(q)
  BY <1>0, <1>1, DriftFundSubscription, DriftReserve, DriftReserveToken, DriftReserveUndo,
     DriftSettleFunding, DriftRefundSubscription, DriftRefundExtra, DriftChargeFee,
     DriftElsewhere, DriftBetween
  DEF StepOf, RequestStep, UpstreamStep, RefundStep
<1>2. CASE ~ StepOf(q)
  <2>1. Same(q)
    BY <1>2, StepShape DEF Others
  <2>2. attempts'[q] = attempts[q] /\ attempts[q] \in Nat
    BY <1>2, AttemptsSame DEF TypeOK
  <2>3. Charged(q)' = Charged(q)
    BY <2>1 DEF Same, Charged
  <2>4. Calm(q)
    BY <2>1, <2>2, <2>3 DEF Calm, Same
  <2> QED
    BY <1>0, <2>4, DriftCalm
<1> QED
  BY <1>1, <1>2

\* So it holds of every reachable state.
LEMMA DriftHolds == Spec => []DriftInv
<1>1. Init => DriftInv
  BY NoSessionFacts DEF Init, DriftInv, Drift
<1> QED
  BY <1>1, DriftStep, RecordedHolds, TypeCorrect, InvariantCorrect, PTL DEF Spec

\* An exact account, and a discounted one within its rounding, is what NetIs asks for.
LEMMA NetFromExact ==
  ASSUME TypeOK, NEW r \in Requests, NEW n \in Int, NetExact(r, n),
         sess[r].source # "subscription" => subNet[r] = 0,
         sess[r].source = "subscription" => Within(subNet[r], D(n), attempts[r] + 1)
  PROVE  NetIs(r, n)
<1>1. Row(r) /\ D(n) \in Int /\ attempts[r] \in Nat /\ DiscountPct \in 1..100
  BY RowTyped, DiscountNeg, AmountsAssumption DEF TypeOK
<1>2. Within(subNet[r], From(r, "subscription", D(n)), Rounding(r))
  <2>1. CASE sess[r].source # "subscription"
    BY <1>1, <2>1 DEF Within, From, Rounding
  <2>2. CASE sess[r].source = "subscription" /\ DiscountPct < 100
    BY <1>1, <2>2 DEF From, Rounding
  <2>3. CASE sess[r].source = "subscription" /\ DiscountPct = 100
    <3>1. subNet[r] = n /\ D(n) = n
      BY <2>3, Undiscounted DEF NetExact, From, D
    <3> QED
      BY <1>1, <2>3, <3>1 DEF Within, From, Rounding
  <2> QED
    BY <1>1, <2>1, <2>2, <2>3
<1> QED
  BY <1>2 DEF NetExact, NetIs, D

\* A request whose session has no subscription took nothing from one.
LEMMA NoneTaken ==
  ASSUME NEW r \in Requests, RInv(r), Unrecorded(r), TypeOK, sess[r].source # "subscription"
  PROVE  subNet[r] = 0
<1>1. Row(r)
  BY RowTyped
<1> QED
  BY <1>1 DEF Row, RInv, BuildingInv, SessionInv, Unrecorded

\* The drift of a finished request.
LEMMA BilledFromDrift == TypeOK /\ IndInv /\ AllRecorded /\ DriftInv => BilledExactly
<1> SUFFICES ASSUME TypeOK, IndInv, AllRecorded, DriftInv, NEW r \in Requests, Over(r), clean[r]
             PROVE  NetIs(r, Owed(r))
  BY DEF BilledExactly
<1>1. /\ Row(r) /\ RInv(r) /\ Unrecorded(r) /\ Drift(r) /\ pc[r] = "done" /\ bg[r] \in {"none", "end"}
      /\ attempts[r] \in Nat /\ Owed(r) \in Int
  BY RowTyped DEF IndInv, RInv, AllRecorded, DriftInv, Over, TypeOK, Owed, Row
<1>2. ASSUME sess[r].source = "subscription" PROVE Within(subNet[r], D(Owed(r)), attempts[r] + 1)
  <2>1. CASE sess[r].settled
    BY <1>1, <1>2, <2>1 DEF Drift, Charged, Owed, Near, Within
  <2>2. CASE ~ sess[r].settled
    <3>1. ~ sess[r].fundingSettled /\ bg[r] = "end" /\ record[r].status # "consumed"
      BY <1>1, <1>2, <2>2 DEF RInv, SessionInv, RefundInv, Ending
    <3>2. Within(Residue(r), 0, attempts[r])
      BY <1>1, <1>2, <2>2, <3>1 DEF Drift, Charged, Near, Within
    <3>3. Residue(r) = subNet[r] - D(fee[r]) /\ D(fee[r]) \in Int
      <4>1. D(fee[r]) \in Int /\ pc[r] \notin Reserving
        BY <1>1, DiscountNeg DEF Row, Reserving
      <4> QED
        BY <1>1, <3>1, <4>1 DEF Residue, Row
    <3>4. Owed(r) = fee[r]
      BY <2>2 DEF Owed
    <3> QED
      BY <1>1, <3>2, <3>3, <3>4 DEF Within, Row
  <2> QED
    BY <2>1, <2>2
<1>3. NetExact(r, Owed(r))
  BY BilledFromInv
<1> QED
  BY <1>1, <1>2, <1>3, NetFromExact, NoneTaken

\* The drift while the upstream works.
LEMMA HeldFromDrift == TypeOK /\ IndInv /\ AllRecorded /\ DriftInv => HeldWhileUpstream
<1> SUFFICES ASSUME TypeOK, IndInv, AllRecorded, DriftInv, NEW r \in Requests, pc[r] = "upstream", clean[r]
             PROVE  /\ NetIs(r, sess[r].preConsumedQuota)
                    /\ sess[r].trusted \/ sess[r].preConsumedQuota >= req[r].pre
  BY DEF HeldWhileUpstream
<1>1. /\ Row(r) /\ RInv(r) /\ Unrecorded(r) /\ Drift(r) /\ attempts[r] \in Nat
      /\ sess[r].preConsumedQuota \in Int /\ sess[r].extraReserved \in Nat /\ Residue(r) \in Int
  BY RowTyped, ResidueTyped DEF IndInv, RInv, AllRecorded, DriftInv, TypeOK, Row, SessionInv
<1>2. ASSUME sess[r].source = "subscription"
      PROVE  Within(subNet[r], D(sess[r].preConsumedQuota), attempts[r] + 1)
  <2>1. /\ ~ sess[r].settled /\ ~ sess[r].fundingSettled /\ bg[r] = "none" /\ fee[r] = 0
        /\ record[r].status = "consumed" /\ pc[r] \in Live /\ pc[r] \notin Reserving
    BY <1>1, <1>2 DEF Row, RInv, SessionInv, RefundInv, Live, Building, Ending, Reserving, PCs
  <2>2. /\ sess[r].preConsumedQuota > sess[r].extraReserved
        /\ record[r].amount = D(sess[r].preConsumedQuota - sess[r].extraReserved)
        /\ Pieces(clean[r], Residue(r), sess[r].extraReserved, attempts[r])
    BY <1>1, <1>2, <2>1 DEF Drift, Charged
  <2>3. subNet[r] = D(sess[r].preConsumedQuota - sess[r].extraReserved) + Residue(r)
    <3>1. D(fee[r]) = 0
      BY <2>1, DiscountNeg
    <3>2. subNet[r] = record[r].amount + Residue(r)
      BY <1>1, <2>1, <3>1 DEF Residue, Row
    <3> QED
      BY <2>2, <3>2
  <2>4. Near(clean[r], D(sess[r].preConsumedQuota - sess[r].extraReserved) + Residue(r),
             D(sess[r].preConsumedQuota), attempts[r])
    BY <1>1, <2>2, WholeOfPieces DEF Row
  <2>5. Near(clean[r], subNet[r], D(sess[r].preConsumedQuota), attempts[r]) /\ D(sess[r].preConsumedQuota) \in Int
    BY <1>1, <2>3, <2>4, DiscountNeg
  <2> QED
    BY <1>1, <2>5 DEF Near, Within, Row
<1>3. /\ NetExact(r, sess[r].preConsumedQuota)
      /\ sess[r].trusted \/ sess[r].preConsumedQuota >= req[r].pre
  BY HeldFromInv
<1> QED
  BY <1>1, <1>2, <1>3, NetFromExact, NoneTaken

\* The drift keeps what was given back within what was taken.
LEMMA NeverCreditedFromDrift == TypeOK /\ IndInv /\ AllRecorded /\ DriftInv => NeverCredited
<1> SUFFICES ASSUME TypeOK, IndInv, AllRecorded, DriftInv, NEW r \in Requests
             PROVE  walletNet[r] >= 0 /\ tokenNet[r] >= 0 /\ subNet[r] >= -Rounding(r)
  BY DEF NeverCredited
<1>1. /\ Row(r) /\ RInv(r) /\ Unrecorded(r) /\ Drift(r) /\ attempts[r] \in Nat
      /\ sess[r].extraReserved \in Nat /\ Residue(r) \in Int /\ DiscountPct \in 1..100
  BY RowTyped, ResidueTyped, AmountsAssumption
  DEF IndInv, RInv, AllRecorded, DriftInv, TypeOK, Row, SessionInv
<1>2. walletNet[r] >= 0 /\ tokenNet[r] >= 0 /\ (DiscountPct = 100 => subNet[r] >= 0)
  BY NonNegativeFromInv DEF NetNonNegative
<1>3. CASE DiscountPct = 100 \/ sess[r].source # "subscription"
  <2>1. subNet[r] >= 0
    BY <1>1, <1>2, <1>3, NoneTaken
  <2> QED
    BY <1>1, <1>2, <1>3, <2>1 DEF Rounding, Row
<1>4. CASE DiscountPct < 100 /\ sess[r].source = "subscription"
  <2>0. Rounding(r) = attempts[r] + 1
    BY <1>4 DEF Rounding
  <2>1. CASE pc[r] \notin Live \cup {"done"}
    <3>1. subNet[r] = 0
      BY <1>1, <2>1 DEF Row, Live, RInv, BuildingInv, Unrecorded
    <3> QED
      BY <1>1, <1>2, <2>0, <3>1
  <2>2. CASE pc[r] \in Live \cup {"done"} /\ Charged(r)
    <3>1. Near(clean[r], subNet[r], D(arg[r]), attempts[r] + 1)
      BY <1>1, <1>4, <2>2 DEF Drift
    <3>2. D(arg[r]) \in Int /\ D(arg[r]) >= 0
      <4>1. arg[r] \in Nat /\ D(0) = 0 /\ D(arg[r]) \in Int /\ (arg[r] > 0 => D(arg[r]) >= 1)
        BY <1>1, DiscountNeg DEF Row
      <4>2. CASE arg[r] = 0
        BY <4>1, <4>2
      <4>3. CASE arg[r] > 0
        BY <4>1, <4>3
      <4> QED
        BY <4>1, <4>2, <4>3
    <3> QED
      BY <1>1, <1>2, <2>0, <3>1, <3>2 DEF Near, Row
  <2>3. CASE pc[r] \in Live \cup {"done"} /\ ~ Charged(r)
    <3>1. Residue(r) >= -attempts[r]
      <4>1. CASE bg[r] \in {"token", "end"}
        BY <1>1, <1>4, <2>3, <4>1 DEF Drift, Near
      <4>2. CASE bg[r] \notin {"token", "end"}
        <5>1. Pieces(clean[r], Residue(r), sess[r].extraReserved, attempts[r])
          BY <1>1, <1>4, <2>3, <4>2 DEF Drift
        <5>2. /\ D(sess[r].extraReserved) \in Int
              /\ sess[r].extraReserved > 0 => D(sess[r].extraReserved) >= 1
          BY <1>1, DiscountNeg DEF Row
        <5> QED
          BY <1>1, <5>1, <5>2 DEF Pieces, Near
      <4> QED
        BY <4>1, <4>2
    <3>2. subNet[r] >= Residue(r)
      <4>1. D(0) = 0 /\ D(fee[r]) \in Int /\ (fee[r] > 0 => D(fee[r]) >= 1)
        BY <1>1, DiscountNeg DEF Row
      <4>2. D(fee[r]) >= 0
        <5>1. CASE fee[r] = 0
          BY <4>1, <5>1
        <5>2. CASE fee[r] > 0
          BY <4>1, <5>2
        <5> QED
          BY <1>1, <5>1, <5>2 DEF Row
      <4>3. D(Delta(r)) \in Int /\ (pc[r] \in Reserving => D(Delta(r)) >= 1)
        <5>1. Delta(r) \in Int /\ (pc[r] \in Reserving => Delta(r) > 0)
          BY <1>1 DEF Row, RInv, SessionInv, Delta
        <5> QED
          BY <5>1, DiscountNeg
      <4> QED
        BY <1>1, <4>1, <4>2, <4>3 DEF Residue, Row
    <3> QED
      BY <1>1, <1>2, <2>0, <3>1, <3>2 DEF Row
  <2> QED
    BY <2>1, <2>2, <2>3
<1> QED
  BY <1>1, <1>3, <1>4

\* No retry, rollback or refund gives back more than the request took
\* (refundWithRetry, rollbackFundingReserve, RefundSubscriptionPreConsume), beyond the
\* rounding of a discounted subscription, even when errors were merely logged.
THEOREM NeverCreditedCorrect == Spec => []NeverCredited
BY TypeCorrect, InvariantCorrect, RecordedHolds, DriftHolds, NeverCreditedFromDrift, PTL

\* A request that is over and met no merely logged error has cost its wallet and its token
\* exactly what it owes, and its subscription what it owes, discounted, up to one unit for
\* each attempt and one for the settlement (NewBillingSession, Reserve, Settle, Refund),
\* for every discount.
THEOREM BilledCorrect == Spec => []BilledExactly
BY TypeCorrect, InvariantCorrect, RecordedHolds, DriftHolds, BilledFromDrift, PTL

\* While the upstream works for a request, funding source and token hold the session's
\* preConsumedQuota, the subscription up to that rounding (preConsume, Reserve).
THEOREM HeldCorrect == Spec => []HeldWhileUpstream
BY TypeCorrect, InvariantCorrect, RecordedHolds, DriftHolds, HeldFromDrift, PTL

=============================================================================
