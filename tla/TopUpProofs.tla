---------------------------- MODULE TopUpProofs ----------------------------
(***************************************************************************)
(* Theorems about TopUp, for any number of workers, nodes and orders.       *)
(***************************************************************************)
EXTENDS TopUp, OrderLockProofs

(* The handlers that run while the order is held by LockOrder exclude each  *)
(* other on one node.                                                       *)
LEMMA Alone ==
    ASSUME TopUpInv, OneNode, NEW v \in Workers, NEW w \in Workers,
           pc[v] \in {"read", "write", "credit", "done"},
           pc[w] \in {"read", "write", "credit", "done"},
           call[v].h \in Locking, call[w].h \in Locking,
           call[v].o = call[w].o
    PROVE  v = w
<1>1. OrderExclusion
  BY LockInvExcludes DEF TopUpInv
<1>2. /\ lockPc[v] = "in" /\ lockPc[w] = "in"
      /\ lockOf[v] = call[v].o /\ lockOf[w] = call[w].o
      /\ node[v] = node[w]
  BY DEF TopUpInv, CallInv, OneNode
<1> QED
  BY <1>1, <1>2 DEF OrderExclusion

(* What a worker does to its own locals. *)
Step(w) ==
    \/ \E o \in Orders :
         \/ Create(w, o)
         \/ \E h \in AllHandlers, t \in Trades \cup {NoTrade} : Deliver(w, h, o, t)
    \/ Progress(w)
    \/ Fail(w)

(* The part of a step that LockOrder and UnlockOrder do. *)
LEMMA StepLocks ==
    ASSUME TopUpInv, NEW w \in Workers, Step(w)
    PROVE  LockInv'
<1>1. [LockNext]_lockVars
  BY DEF Step, Progress, Create, Deliver, Locked, Read, Commit, CommitPending, Save, Credit,
         Mark, MarkPending, Rename, Fail, Return, Unlocked, LockNext
<1> QED
  BY <1>1, LockStep DEF TopUpInv

(* Nobody changes another worker's locals. *)
Others(w) ==
    \A v \in Workers : v # w =>
        /\ pc'[v] = pc[v] /\ call'[v] = call[v] /\ local'[v] = local[v]
        /\ lockPc'[v] = lockPc[v] /\ lockOf'[v] = lockOf[v]

\* A step of one worker leaves the others where they are.
LEMMA StepOthers ==
    ASSUME TopUpInv, NEW w \in Workers, Step(w)
    PROVE  Others(w) /\ node' = node
<1> USE DEF TopUpInv, LockInv, LockTypeOK, TopUpTypeOK
<1>0.
      /\ \/ UNCHANGED lockVars
         \/ \E o \in Orders : LockOrder(w, o)
         \/ LockMutex(w) \/ UnlockMutex(w) \/ DropReference(w)
  BY DEF Step, Progress, Create, Deliver, Locked, Read, Commit, CommitPending, Save, Credit,
         Mark, MarkPending, Rename, Fail, Return, Unlocked
<1>1. node' = node
  BY <1>0 DEF lockVars, LockOrder, LockMutex, UnlockMutex, DropReference
<1>2. \A v \in Workers : v # w => lockPc'[v] = lockPc[v] /\ lockOf'[v] = lockOf[v]
  BY <1>0 DEF lockVars, LockOrder, LockMutex, UnlockMutex, DropReference
<1>3. \A v \in Workers : v # w => pc'[v] = pc[v] /\ call'[v] = call[v] /\ local'[v] = local[v]
  BY DEF Step, Progress, Create, Deliver, Locked, Read, Commit, CommitPending, Save, Credit,
         Mark, MarkPending, Rename, Fail, Return, Unlocked, Leave
<1> QED
  BY <1>1, <1>2, <1>3 DEF Others

(* A worker at the database works on an order. *)
LEMMA WritesOrder ==
    ASSUME TopUpInv, NEW w \in Workers, pc[w] \in {"read", "write", "credit"}
    PROVE  call[w].o \in Orders
BY DEF TopUpInv, CallInv

(* A row with another status is a row. *)
LEMMA RowStatus ==
    ASSUME NEW r \in Row, NEW s \in Statuses
    PROVE  [r EXCEPT !.status = s] \in Row
BY DEF Row

\* A stranded order stays stranded, and only a failing credit strands one.
LEMMA StrandedStays ==
    ASSUME NEW w \in Workers, Step(w)
    PROVE  stranded' = stranded \/ (pc[w] = "credit" /\ stranded' = stranded \cup {call[w].o})
BY DEF Step, Progress, Create, Deliver, Locked, Read, Commit, CommitPending, Save, Credit,
       Mark, MarkPending, Rename, Fail, Return, Unlocked

(* Every step keeps the types. *)
LEMMA StepTypes ==
    ASSUME TopUpInv, NEW w \in Workers, Step(w)
    PROVE  TopUpTypeOK'
<1> USE TopUpAssumption DEF TopUpInv, TopUpTypeOK
<1>0. stranded' \subseteq Orders
  BY StrandedStays, WritesOrder
<1>1. CASE \E o \in Orders : Create(w, o)
  <2>1. PICK o \in Orders : Create(w, o)
    BY <1>1
  <2>a. rows[o] \in Row /\ "pending" \in Statuses
    BY DEF Statuses
  <2>b. NoRow \in Row
    BY DEF NoRow, PaymentProviders, Row, Statuses
  <2>2. [rows[o] EXCEPT !.status = "pending"] \in Row /\ NoRow \in Row
    BY <2>a, <2>b, RowStatus
  <2>3. local' \in [Workers -> Row] /\ rows' \in [Orders -> Row]
    BY <2>1, <2>2 DEF Create
  <2>4. pc' \in [Workers -> Pcs]
    BY <2>1 DEF Create, Pcs
  <2>5. UNCHANGED <<credits>>
    BY <2>1 DEF Create
  <2>6. call' \in [Workers -> [h : AllHandlers \cup {"none"}, o : Orders \cup {NoOrder},
                               trade : Trades \cup {NoTrade}]]
    BY <2>1 DEF Create, AllHandlers
  <2> QED
    BY <1>0, <2>3, <2>4, <2>5, <2>6
<1> USE DEF Row, Statuses, Pcs
<1>2. CASE \E o \in Orders, h \in AllHandlers, t \in Trades \cup {NoTrade} : Deliver(w, h, o, t)
  BY <1>0, <1>2 DEF Deliver
<1>3. CASE Locked(w) \/ Unlocked(w)
  BY <1>0, <1>3 DEF Locked, Unlocked
<1>4. CASE Return(w)
  BY <1>0, <1>4 DEF Return, NoCall
<1>5. CASE Read(w)
  BY <1>0, <1>5 DEF Read, NoRow, CallInv, PaymentProviders
<1> HIDE DEF Pcs
<1>6. ASSUME Leave(w), pc[w] \in {"write", "credit", "read"}
      PROVE  /\ pc' \in [Workers -> Pcs] /\ local' \in [Workers -> Row]
  BY <1>6 DEF Leave, NoRow, Pcs, CallInv, PaymentProviders
<1>7. CASE Commit(w) \/ CommitPending(w)
  <2>1. call[w].o \in Orders
    BY <1>7, WritesOrder DEF Commit, CommitPending
  <2>2. credits' \in [Orders -> Nat]
    <3>1. \E n \in Nat : credits' = [credits EXCEPT ![call[w].o] = n]
      <4>1. credits[call[w].o] \in Nat /\ credits[call[w].o] + 1 \in Nat
        BY <2>1
      <4> QED
        BY <1>7, <4>1 DEF Commit, CommitPending
    <3> QED
      BY <3>1
  <2>a. local[w] \in Row /\ rows[call[w].o] \in Row /\ "success" \in Statuses
    BY <2>1
  <2>5. call[w].trade \in Trades \cup {NoTrade}
    OBVIOUS
  <2> HIDE DEF Row, Statuses
  <2>4. [local[w] EXCEPT !.status = "success"] \in Row
    BY <2>a, RowStatus
  <2>6. [rows[call[w].o] EXCEPT !.status = "success", !.trade = call[w].trade] \in Row
    BY <2>a, <2>5 DEF Row
  <2>7. rows' \in [Orders -> Row]
    BY <1>7, <2>1, <2>4, <2>6 DEF Commit, CommitPending
  <2>3. Leave(w) /\ pc[w] = "write" /\ UNCHANGED <<call>>
    BY <1>7 DEF Commit, CommitPending
  <2> QED
    BY <1>0, <1>6, <2>2, <2>3, <2>7
<1> HIDE DEF Row, Statuses
<1>8. CASE Save(w)
  <2>1. call[w].o \in Orders /\ [local[w] EXCEPT !.status = "success"] \in Row
    BY <1>8, WritesOrder, RowStatus DEF Save, Statuses
  <2>2. rows' \in [Orders -> Row]
    BY <1>8, <2>1 DEF Save
  <2>3. pc' \in [Workers -> Pcs]
    BY <1>8 DEF Save, Pcs
  <2>4. UNCHANGED <<credits, call, local>>
    BY <1>8 DEF Save
  <2> QED
    BY <1>0, <2>2, <2>3, <2>4
<1>9. CASE Credit(w) \/ Fail(w)
  <2>1. /\ Leave(w) /\ pc[w] \in {"write", "credit", "read"} /\ call[w].o \in Orders
        /\ UNCHANGED <<rows, call>>
    BY <1>9, WritesOrder DEF Credit, Fail
  <2>2. credits' = credits \/ credits' = [credits EXCEPT ![call[w].o] = @ + 1]
    BY <1>9 DEF Credit, Fail
  <2>3. credits' \in [Orders -> Nat]
    BY <2>1, <2>2
  <2> QED
    BY <1>0, <1>6, <2>1, <2>3
<1>10. CASE Mark(w) \/ MarkPending(w) \/ Rename(w)
  <2>1. pc[w] = "write" /\ call[w].o \in Orders /\ MarkStatus(call[w].h) \in Statuses
    BY <1>10, WritesOrder DEF Mark, MarkPending, Rename, MarkStatus, Statuses
  <2>2. local[w] \in Row /\ rows[call[w].o] \in Row
    BY <2>1
  <2>5. /\ [local[w] EXCEPT !.status = MarkStatus(call[w].h)] \in Row
        /\ [rows[call[w].o] EXCEPT !.status = MarkStatus(call[w].h)] \in Row
    BY <2>1, <2>2, RowStatus
  <2>3. rows' \in [Orders -> Row]
    BY <1>10, <2>1, <2>2, <2>5 DEF Mark, MarkPending, Rename
  <2>4. Leave(w) /\ pc[w] = "write" /\ UNCHANGED <<credits, call>>
    BY <1>10 DEF Mark, MarkPending, Rename
  <2> QED
    BY <1>0, <1>6, <2>3, <2>4
<1> QED
  BY <1>1, <1>2, <1>3, <1>4, <1>5, <1>7, <1>8, <1>9, <1>10 DEF Step, Progress

(* About to credit: the workers AloneInv speaks of. *)
Crediting(v) ==
    \/ pc[v] = "write" /\ call[v].h \in ForUpdate \cup Split
    \/ pc[v] = "credit"

(* Where LockOrder is the protection, whoever is about to credit holds it. *)
LEMMA CreditingLocks ==
    ASSUME TopUpInv, NEW v \in Workers, Crediting(v),
           rows[call[v].o].provider \in RechargeProviders \cup {"epay"}
    PROVE  call[v].h \in Locking
<1>1. /\ call[v].h \in ForUpdate \cup Split
      /\ call[v].h \in Handlers(rows[call[v].o].provider) \cup {"create"}
  BY DEF TopUpInv, CallInv, Crediting
<1> QED
  BY <1>1 DEF Handlers, ForUpdate, Split, Locking, RechargeProviders

(* ... so there is one of them. *)
LEMMA CreditingAlone ==
    ASSUME TopUpInv, NEW v \in Workers, NEW w \in Workers, Crediting(v), Crediting(w),
           call[v].o = call[w].o, LockProtected(call[w].o)
    PROVE  v = w
BY CreditingLocks, Alone DEF LockProtected, Crediting

(* A handler that writes a Stripe order holds its lock. *)
LEMMA StripeWriterLocks ==
    ASSUME TopUpInv, NEW v \in Workers, pc[v] = "write",
           rows[call[v].o].provider = "stripe"
    PROVE  call[v].h \in Locking
<1>1. call[v].h \in Handlers("stripe")
  BY DEF TopUpInv, CallInv, CreatedFirst
<1> QED
  BY <1>1 DEF Handlers, Locking, RechargeProviders

(* ... so two of them are one. *)
LEMMA StripeWriterAlone ==
    ASSUME TopUpInv, OneNode, NEW v \in Workers, NEW w \in Workers,
           pc[v] = "write", pc[w] = "write",
           call[v].o = call[w].o, rows[call[w].o].provider = "stripe"
    PROVE  v = w
BY StripeWriterLocks, Alone

(* Commit: the order is paid and credited in one step. *)
LEMMA CommitStep ==
    ASSUME TopUpInv, NEW w \in Workers, Commit(w), TopUpTypeOK', LockInv', Step(w)
    PROVE  TopUpInv'
<1>1. PICK o \in Orders : o = call[w].o
  BY DEF TopUpInv, CallInv, Commit
<1>2. Others(w) /\ node' = node
  BY StepOthers
<1>3. /\ pc[w] = "write" /\ call[w].h \in ForUpdate
      /\ pc'[w] = "done" /\ call'[w] = call[w]
      /\ lockPc'[w] = lockPc[w] /\ lockOf'[w] = lockOf[w]
  BY DEF Commit, Leave, lockVars, TopUpInv, TopUpTypeOK
<1>4. /\ rows'[o].status = "success" /\ rows'[o].provider = rows[o].provider
      /\ rows'[o].trade = NoTrade
      /\ credits'[o] = credits[o] + 1
  BY <1>1 DEF Commit, Leave, TopUpInv, TopUpTypeOK, CopyInv, Row, ForUpdate, CasOnly
<1>5. \A p \in Orders : p # o =>
        rows'[p] = rows[p] /\ credits'[p] = credits[p]
  BY <1>1 DEF Commit, Leave, TopUpInv, TopUpTypeOK
<1>6. CallInv'
  BY <1>1, <1>2, <1>3, <1>4, <1>5 DEF TopUpInv, CallInv, Others
<1>7. CopyInv'
  BY <1>1, <1>2, <1>3, <1>4, <1>5 DEF TopUpInv, CopyInv, CallInv, Others
<1>9. TradeInv'
  BY <1>1, <1>2, <1>3, <1>4, <1>5 DEF TopUpInv, TradeInv
<1>10. UnpaidInv'
  BY <1>1, <1>2, <1>3, <1>4, <1>5 DEF TopUpInv, UnpaidInv, CallInv, Others
<1>11. AloneInv'
  <2>1. ASSUME NEW v \in Workers, v # w, Crediting(v), LockProtected(call[v].o)
        PROVE  call[v].o # o
    BY <1>1, <1>3, <2>1, CreditingAlone DEF Crediting
  <2> QED
    BY <1>1, <1>2, <1>3, <1>4, <1>5, <2>1
    DEF TopUpInv, AloneInv, CallInv, Others, LockProtected, OneNode, Crediting
<1>12. StripeInv'
  <2>1. ASSUME NEW v \in Workers, v # w, pc[v] = "write", OneNode, call[v].o = o
        PROVE  rows[o].provider # "stripe"
    BY <1>1, <1>3, <2>1, StripeWriterAlone
  <2> QED
    BY <1>1, <1>2, <1>3, <1>4, <1>5, <2>1 DEF TopUpInv, StripeInv, CallInv, Others, OneNode
<1>13. CreditedOnce'
  <2>1. LockProtected(o) => credits[o] = 0
    BY <1>1, <1>3 DEF TopUpInv, AloneInv
  <2> QED
    BY <1>1, <1>2, <1>4, <1>5, <2>1
    DEF TopUpInv, CreditedOnce, LockProtected, OneNode
<1>14. SteadyPaid'
  BY <1>1, <1>2, <1>3, <1>4, <1>5 DEF TopUpInv, SteadyPaid, Steady, OneNode, TopUpTypeOK
<1> QED
  BY <1>6, <1>7, <1>9, <1>10, <1>11, <1>12, <1>13, <1>14 DEF TopUpInv

(* A handler starts; it has read nothing yet. *)
LEMMA DeliverStep ==
    ASSUME TopUpInv, NEW w \in Workers, NEW o \in Orders,
           NEW h \in AllHandlers, NEW t \in Trades \cup {NoTrade}, Deliver(w, h, o, t),
           TopUpTypeOK', LockInv', Step(w)
    PROVE  TopUpInv'
<1>1. Others(w) /\ node' = node
  BY StepOthers
<1>2. /\ rows' = rows /\ credits' = credits
      /\ pc[w] = "idle" /\ rows[o].status # "none"
      /\ h \in Handlers(rows[o].provider) /\ call'[w].h = h /\ call'[w].o = o
      /\ h \in Locking => pc'[w] = "lock" /\ lockPc'[w] = "wait" /\ lockOf'[w] = o
      /\ h \notin Locking => /\ pc'[w] = IF h \in CasOnly THEN "write" ELSE "read"
                             /\ lockPc'[w] = lockPc[w]
  BY DEF Deliver, LockOrder, lockVars, LockInv, LockTypeOK, TopUpInv, TopUpTypeOK
<1>3. CallInv'
  <2>1. h # "create" /\ h # "none" /\ lockPc[w] = "out"
    BY <1>2 DEF Handlers, TopUpInv, CallInv
  <2> QED
    BY <1>1, <1>2, <2>1 DEF TopUpInv, CallInv, Others
<1>4. CopyInv' /\ StripeInv'
  BY <1>1, <1>2 DEF TopUpInv, CallInv, CopyInv, StripeInv, Others, OneNode, CasOnly
<1>6. TradeInv' /\ UnpaidInv'
  BY <1>1, <1>2 DEF TopUpInv, CallInv, TradeInv, UnpaidInv, Others
<1>7. AloneInv'
  BY <1>1, <1>2
  DEF TopUpInv, CallInv, AloneInv, LockProtected, OneNode, Others, CasOnly, ForUpdate, Split
<1>8. CreditedOnce' /\ SteadyPaid'
  BY <1>1, <1>2
  DEF TopUpInv, CreditedOnce, SteadyPaid, LockProtected, Steady, OneNode
<1> QED
  BY <1>3, <1>4, <1>6, <1>7, <1>8 DEF TopUpInv

(* LockOrder returns. *)
LEMMA LockedStep ==
    ASSUME TopUpInv, NEW w \in Workers, Locked(w), TopUpTypeOK', LockInv', Step(w)
    PROVE  TopUpInv'
<1>1. Others(w) /\ node' = node
  BY StepOthers
<1>2. /\ rows' = rows /\ credits' = credits
      /\ pc[w] = "lock" /\ call'[w] = call[w]
      /\ lockPc'[w] = "in" /\ lockOf'[w] = lockOf[w]
      /\ pc'[w] = IF call[w].h \in CasOnly THEN "write" ELSE "read"
  BY DEF Locked, LockMutex, LockInv, LockTypeOK, TopUpInv, TopUpTypeOK
<1>3. CallInv'
  BY <1>1, <1>2 DEF TopUpInv, CallInv, Others
<1>4. CopyInv' /\ StripeInv'
  BY <1>1, <1>2 DEF TopUpInv, CallInv, CopyInv, StripeInv, Others, OneNode, CasOnly
<1>6. TradeInv' /\ UnpaidInv'
  BY <1>1, <1>2 DEF TopUpInv, CallInv, TradeInv, UnpaidInv, Others
<1>7. AloneInv'
  BY <1>1, <1>2
  DEF TopUpInv, CallInv, AloneInv, LockProtected, OneNode, Others, CasOnly, ForUpdate, Split
<1>8. CreditedOnce' /\ SteadyPaid'
  BY <1>1, <1>2
  DEF TopUpInv, CreditedOnce, SteadyPaid, LockProtected, Steady, OneNode
<1> QED
  BY <1>3, <1>4, <1>6, <1>7, <1>8 DEF TopUpInv

(* The handler goes on only with a pending order, which was not credited. *)
LEMMA ReadStep ==
    ASSUME TopUpInv, NEW w \in Workers, Read(w), TopUpTypeOK', LockInv', Step(w)
    PROVE  TopUpInv'
<1>1. Others(w) /\ node' = node
  BY StepOthers
<1>2. /\ rows' = rows /\ credits' = credits
      /\ pc[w] = "read" /\ call'[w] = call[w]
      /\ lockPc'[w] = lockPc[w] /\ lockOf'[w] = lockOf[w]
      /\ rows[call[w].o].status = "pending" => pc'[w] = "write" /\ local'[w] = rows[call[w].o]
      /\ rows[call[w].o].status # "pending" => pc'[w] = "done"
  BY DEF Read, lockVars, TopUpInv, TopUpTypeOK
<1>3. CallInv'
  BY <1>1, <1>2 DEF TopUpInv, CallInv, Others
<1>4. CopyInv' /\ StripeInv'
  BY <1>1, <1>2 DEF TopUpInv, CallInv, CopyInv, StripeInv, Others, OneNode, TradeInv
<1>6. TradeInv' /\ UnpaidInv'
  BY <1>1, <1>2 DEF TopUpInv, CallInv, TradeInv, UnpaidInv, Others
<1>7. AloneInv'
  BY <1>1, <1>2
  DEF TopUpInv, CallInv, AloneInv, LockProtected, OneNode, Others, UnpaidInv, RechargeProviders
<1>8. CreditedOnce' /\ SteadyPaid'
  BY <1>1, <1>2
  DEF TopUpInv, CreditedOnce, SteadyPaid, LockProtected, Steady, OneNode
<1> QED
  BY <1>3, <1>4, <1>6, <1>7, <1>8 DEF TopUpInv

(* A handler gives up and returns what it locked. *)
LEMMA FailStep ==
    ASSUME TopUpInv, NEW w \in Workers, Fail(w), TopUpTypeOK', LockInv', Step(w)
    PROVE  TopUpInv'
<1>1. Others(w) /\ node' = node
  BY StepOthers
<1>2. /\ rows' = rows /\ credits' = credits
      /\ pc[w] \in {"read", "write", "credit"} /\ pc'[w] = "done" /\ call'[w] = call[w]
      /\ lockPc'[w] = lockPc[w] /\ lockOf'[w] = lockOf[w]
  BY DEF Fail, Leave, lockVars, TopUpInv, TopUpTypeOK
<1>3. CallInv'
  BY <1>1, <1>2 DEF TopUpInv, CallInv, Others
<1>4. CopyInv' /\ StripeInv'
  BY <1>1, <1>2 DEF TopUpInv, CallInv, CopyInv, StripeInv, Others, OneNode
<1>6. TradeInv' /\ UnpaidInv'
  BY <1>1, <1>2 DEF TopUpInv, CallInv, TradeInv, UnpaidInv, Others
<1>7. AloneInv'
  BY <1>1, <1>2 DEF TopUpInv, CallInv, AloneInv, LockProtected, OneNode, Others
<1>8. CreditedOnce' /\ SteadyPaid'
  BY <1>1, <1>2
  DEF TopUpInv, CreditedOnce, SteadyPaid, LockProtected, Steady, OneNode
<1> QED
  BY <1>3, <1>4, <1>6, <1>7, <1>8 DEF TopUpInv

(* The handler returns. *)
LEMMA ReturnStep ==
    ASSUME TopUpInv, NEW w \in Workers, Return(w), TopUpTypeOK', LockInv', Step(w)
    PROVE  TopUpInv'
<1>1. Others(w) /\ node' = node
  BY StepOthers
<1>2. /\ rows' = rows /\ credits' = credits
      /\ pc[w] = "done" /\ call'[w] = NoCall
      /\ call[w].h \in Locking => pc'[w] = "unlock" /\ lockPc'[w] = "left"
      /\ call[w].h \notin Locking => pc'[w] = "idle" /\ lockPc'[w] = lockPc[w]
  BY LockAssumption
  DEF Return, UnlockMutex, lockVars, LockInv, LockTypeOK, EntryInv, CallInv, TopUpInv, TopUpTypeOK
<1>3. CallInv'
  BY <1>1, <1>2 DEF TopUpInv, CallInv, Others
<1>4. CopyInv' /\ StripeInv'
  BY <1>1, <1>2 DEF TopUpInv, CallInv, CopyInv, StripeInv, Others, OneNode
<1>6. TradeInv' /\ UnpaidInv'
  BY <1>1, <1>2 DEF TopUpInv, CallInv, TradeInv, UnpaidInv, Others
<1>7. AloneInv'
  BY <1>1, <1>2 DEF TopUpInv, CallInv, AloneInv, LockProtected, OneNode, Others
<1>8. CreditedOnce' /\ SteadyPaid'
  BY <1>1, <1>2
  DEF TopUpInv, CreditedOnce, SteadyPaid, LockProtected, Steady, OneNode
<1> QED
  BY <1>3, <1>4, <1>6, <1>7, <1>8 DEF TopUpInv

(* UnlockOrder returns. *)
LEMMA UnlockedStep ==
    ASSUME TopUpInv, NEW w \in Workers, Unlocked(w), TopUpTypeOK', LockInv', Step(w)
    PROVE  TopUpInv'
<1>1. Others(w) /\ node' = node
  BY StepOthers
<1>2. /\ rows' = rows /\ credits' = credits
      /\ pc[w] = "unlock" /\ call'[w] = call[w]
      /\ pc'[w] = "idle" /\ lockPc'[w] = "out"
  BY DEF Unlocked, DropReference, LockInv, LockTypeOK, TopUpInv, TopUpTypeOK
<1>3. CallInv'
  BY <1>1, <1>2 DEF TopUpInv, CallInv, Others
<1>4. CopyInv' /\ StripeInv'
  BY <1>1, <1>2 DEF TopUpInv, CallInv, CopyInv, StripeInv, Others, OneNode
<1>6. TradeInv' /\ UnpaidInv'
  BY <1>1, <1>2 DEF TopUpInv, CallInv, TradeInv, UnpaidInv, Others
<1>7. AloneInv'
  BY <1>1, <1>2 DEF TopUpInv, CallInv, AloneInv, LockProtected, OneNode, Others
<1>8. CreditedOnce' /\ SteadyPaid'
  BY <1>1, <1>2
  DEF TopUpInv, CreditedOnce, SteadyPaid, LockProtected, Steady, OneNode
<1> QED
  BY <1>3, <1>4, <1>6, <1>7, <1>8 DEF TopUpInv

(* CompleteAlipayDirectTopUp: the credit goes with the conditional UPDATE. *)
LEMMA CommitPendingStep ==
    ASSUME TopUpInv, NEW w \in Workers, CommitPending(w), TopUpTypeOK', LockInv', Step(w)
    PROVE  TopUpInv'
<1>1. PICK o \in Orders : o = call[w].o
  BY DEF TopUpInv, CallInv, CommitPending
<1>2. Others(w) /\ node' = node
  BY StepOthers
<1>3. /\ pc[w] = "write" /\ call[w].h = "complete" /\ pc'[w] = "done"
      /\ rows[o].provider = "alipay"
      /\ call'[w] = call[w] /\ lockPc'[w] = lockPc[w] /\ lockOf'[w] = lockOf[w]
  BY <1>1 DEF CommitPending, lockVars, TopUpInv, TopUpTypeOK, Leave, CallInv, Handlers
<1>4. /\ rows'[o].provider = rows[o].provider
      /\ IF rows[o].status = "pending"
         THEN rows'[o].status = "success" /\ credits'[o] = credits[o] + 1
         ELSE rows'[o] = rows[o] /\ credits'[o] = credits[o]
  BY <1>1, TopUpAssumption DEF CommitPending, TopUpInv, TopUpTypeOK, Leave, Row
<1>5. \A p \in Orders : p # o =>
        rows'[p] = rows[p] /\ credits'[p] = credits[p]
  BY <1>1 DEF CommitPending, Leave, TopUpInv, TopUpTypeOK
<1>6. CallInv'
  BY <1>1, <1>2, <1>3, <1>4, <1>5 DEF TopUpInv, CallInv, Others
<1>7. CopyInv'
  BY <1>1, <1>2, <1>3, <1>4, <1>5 DEF TopUpInv, CopyInv, CallInv, Others
<1>9. TradeInv'
  BY <1>1, <1>3, <1>4, <1>5 DEF TopUpInv, TradeInv, CallInv
<1>10. UnpaidInv'
  BY <1>1, <1>2, <1>3, <1>4, <1>5 DEF TopUpInv, UnpaidInv, CallInv, Others
<1>11. AloneInv'
  <2>1. \A p \in Orders : LockProtected(p) => p # o
    BY <1>3 DEF LockProtected, RechargeProviders
  <2> QED
    BY <1>1, <1>2, <1>3, <1>4, <1>5, <2>1
    DEF TopUpInv, AloneInv, CallInv, Others, LockProtected, OneNode
<1>12. StripeInv'
  <2>1. ASSUME NEW v \in Workers, v # w, pc[v] = "write", OneNode, call[v].o = o
        PROVE  rows[o].provider # "stripe"
    BY <1>1, <1>3, <2>1, StripeWriterAlone
  <2> QED
    BY <1>1, <1>2, <1>3, <1>4, <1>5, <2>1 DEF TopUpInv, StripeInv, CallInv, Others, OneNode
<1>13. CreditedOnce'
  BY <1>1, <1>2, <1>3, <1>4, <1>5
  DEF TopUpInv, CreditedOnce, LockProtected, OneNode, UnpaidInv, AloneInv
<1>14. SteadyPaid'
  BY <1>1, <1>2, <1>3, <1>4, <1>5
  DEF TopUpInv, SteadyPaid, Steady, OneNode, TopUpTypeOK, UnpaidInv
<1> QED
  BY <1>6, <1>7, <1>9, <1>10, <1>11, <1>12, <1>13, <1>14 DEF TopUpInv

(* Save: the order is paid before it is credited; only EPay and XPay do this. *)
LEMMA SaveStep ==
    ASSUME TopUpInv, NEW w \in Workers, Save(w), TopUpTypeOK', LockInv', Step(w)
    PROVE  TopUpInv'
<1>1. PICK o \in Orders : o = call[w].o
  BY DEF TopUpInv, CallInv, Save
<1>2. Others(w) /\ node' = node
  BY StepOthers
<1>3. /\ pc[w] = "write" /\ call[w].h \in Split /\ pc'[w] = "credit"
      /\ rows[o].provider \in {"epay", "xpay"}
      /\ call'[w] = call[w] /\ lockPc'[w] = lockPc[w] /\ lockOf'[w] = lockOf[w]
  BY <1>1 DEF Save, lockVars, TopUpInv, TopUpTypeOK, CallInv, Handlers, Split, RechargeProviders
<1>4. /\ rows'[o].provider = rows[o].provider /\ rows'[o].trade = NoTrade
      /\ rows'[o].status = "success" /\ credits'[o] = credits[o]
  BY <1>1, TopUpAssumption
  DEF Save, TopUpInv, TopUpTypeOK, Row, CopyInv, Split, CasOnly
<1>5. \A p \in Orders : p # o =>
        rows'[p] = rows[p] /\ credits'[p] = credits[p]
  BY <1>1 DEF Save, Leave, TopUpInv, TopUpTypeOK
<1>6. CallInv'
  BY <1>1, <1>2, <1>3, <1>4, <1>5 DEF TopUpInv, CallInv, Others
<1>7. CopyInv'
  BY <1>1, <1>2, <1>3, <1>4, <1>5 DEF TopUpInv, CopyInv, CallInv, Others
<1>9. TradeInv'
  BY <1>1, <1>3, <1>4, <1>5 DEF TopUpInv, TradeInv, CallInv
<1>10. UnpaidInv'
  BY <1>1, <1>2, <1>3, <1>4, <1>5 DEF TopUpInv, UnpaidInv, CallInv, Others
<1>11. AloneInv'
  BY <1>1, <1>2, <1>3, <1>4, <1>5
  DEF TopUpInv, AloneInv, CallInv, Others, LockProtected, OneNode
<1>12. StripeInv'
  <2>1. ASSUME NEW v \in Workers, v # w, pc[v] = "write", OneNode, call[v].o = o
        PROVE  rows[o].provider # "stripe"
    BY <1>1, <1>3, <2>1, StripeWriterAlone
  <2> QED
    BY <1>1, <1>2, <1>3, <1>4, <1>5, <2>1 DEF TopUpInv, StripeInv, CallInv, Others, OneNode
<1>13. CreditedOnce'
  BY <1>1, <1>2, <1>3, <1>4, <1>5
  DEF TopUpInv, CreditedOnce, LockProtected, OneNode, UnpaidInv, AloneInv
<1>14. SteadyPaid'
  BY <1>1, <1>2, <1>3, <1>4, <1>5
  DEF TopUpInv, SteadyPaid, Steady, OneNode, TopUpTypeOK, UnpaidInv
<1> QED
  BY <1>6, <1>7, <1>9, <1>10, <1>11, <1>12, <1>13, <1>14 DEF TopUpInv

(* Credit: the second half of Save. *)
LEMMA CreditStep ==
    ASSUME TopUpInv, NEW w \in Workers, Credit(w), TopUpTypeOK', LockInv', Step(w)
    PROVE  TopUpInv'
<1>1. PICK o \in Orders : o = call[w].o
  BY DEF TopUpInv, CallInv, Credit
<1>2. Others(w) /\ node' = node
  BY StepOthers
<1>3. /\ pc[w] = "credit" /\ pc'[w] = "done" /\ rows[o].provider \in {"epay", "xpay"}
      /\ call'[w] = call[w] /\ lockPc'[w] = lockPc[w] /\ lockOf'[w] = lockOf[w]
  BY <1>1
  DEF Credit, lockVars, TopUpInv, TopUpTypeOK, Leave, CallInv, Handlers, Split, RechargeProviders
<1>4. /\ rows'[o] = rows[o] /\ credits'[o] = credits[o] + 1
  BY <1>1, TopUpAssumption DEF Credit, TopUpInv, TopUpTypeOK, Leave
<1>5. \A p \in Orders : p # o =>
        rows'[p] = rows[p] /\ credits'[p] = credits[p]
  BY <1>1 DEF Credit, Leave, TopUpInv, TopUpTypeOK
<1>6. CallInv'
  BY <1>1, <1>2, <1>3, <1>4, <1>5 DEF TopUpInv, CallInv, Others
<1>7. CopyInv'
  BY <1>1, <1>2, <1>3, <1>4, <1>5 DEF TopUpInv, CopyInv, CallInv, Others
<1>9. TradeInv'
  BY <1>1, <1>3, <1>4, <1>5 DEF TopUpInv, TradeInv, CallInv
<1>10. UnpaidInv'
  BY <1>1, <1>2, <1>3, <1>4, <1>5 DEF TopUpInv, UnpaidInv, CallInv, Others
<1>11. AloneInv'
  <2>1. ASSUME NEW v \in Workers, v # w, Crediting(v), LockProtected(call[v].o)
        PROVE  call[v].o # o
    BY <1>1, <1>3, <2>1, CreditingAlone DEF Crediting
  <2> QED
    BY <1>1, <1>2, <1>3, <1>4, <1>5, <2>1
    DEF TopUpInv, AloneInv, CallInv, Others, LockProtected, OneNode, Crediting
<1>12. StripeInv'
  <2>1. ASSUME NEW v \in Workers, v # w, pc[v] = "write", OneNode, call[v].o = o
        PROVE  rows[o].provider # "stripe"
    BY <1>1, <1>3, <2>1, StripeWriterAlone
  <2> QED
    BY <1>1, <1>2, <1>3, <1>4, <1>5, <2>1 DEF TopUpInv, StripeInv, CallInv, Others, OneNode
<1>13. CreditedOnce'
  <2>1. LockProtected(o) => credits[o] = 0
    BY <1>1, <1>3 DEF TopUpInv, AloneInv, LockProtected, RechargeProviders
  <2> QED
    BY <1>1, <1>2, <1>4, <1>5, <2>1
    DEF TopUpInv, CreditedOnce, LockProtected, OneNode
<1>14. SteadyPaid'
  BY <1>1, <1>2, <1>3, <1>4, <1>5
  DEF TopUpInv, SteadyPaid, Steady, OneNode, TopUpTypeOK, UnpaidInv
<1> QED
  BY <1>6, <1>7, <1>9, <1>10, <1>11, <1>12, <1>13, <1>14 DEF TopUpInv

(* Mark: saves a copy, so only where LockOrder keeps the copy fresh is a paid order safe. *)
LEMMA MarkStep ==
    ASSUME TopUpInv, NEW w \in Workers, Mark(w), TopUpTypeOK', LockInv', Step(w)
    PROVE  TopUpInv'
<1>1. PICK o \in Orders : o = call[w].o
  BY DEF TopUpInv, CallInv, Mark
<1>2. Others(w) /\ node' = node
  BY StepOthers
<1>3. /\ pc[w] = "write" /\ pc'[w] = "done"
      /\ call[w].h \in {"asyncFailed", "pollExpire", "create"}
      /\ rows[o].provider \notin {"creem", "alipay", "epay"}
      /\ call'[w] = call[w] /\ lockPc'[w] = lockPc[w] /\ lockOf'[w] = lockOf[w]
  BY <1>1 DEF Mark, lockVars, TopUpInv, TopUpTypeOK, Leave, CallInv, Handlers, CreatedFirst
<1>4. /\ rows'[o].provider = rows[o].provider /\ rows'[o].trade = NoTrade
      /\ rows'[o].status \in {"failed", "expired"} /\ credits'[o] = credits[o]
  BY <1>1, TopUpAssumption
  DEF Mark, TopUpInv, TopUpTypeOK, Leave, Row, CopyInv, CasOnly, MarkStatus
<1>5. \A p \in Orders : p # o =>
        rows'[p] = rows[p] /\ credits'[p] = credits[p]
  BY <1>1 DEF Mark, Leave, TopUpInv, TopUpTypeOK
<1>6. CallInv'
  BY <1>1, <1>2, <1>3, <1>4, <1>5 DEF TopUpInv, CallInv, Others
<1>7. CopyInv'
  BY <1>1, <1>2, <1>3, <1>4, <1>5 DEF TopUpInv, CopyInv, CallInv, Others
<1>9. TradeInv'
  BY <1>1, <1>3, <1>4, <1>5 DEF TopUpInv, TradeInv, CallInv
<1>10. UnpaidInv'
  BY <1>1, <1>2, <1>3, <1>4, <1>5 DEF TopUpInv, UnpaidInv, CallInv, Others
<1>11. AloneInv'
  BY <1>1, <1>2, <1>3, <1>4, <1>5
  DEF TopUpInv, AloneInv, CallInv, Others, LockProtected, OneNode
<1>12. StripeInv'
  <2>1. ASSUME NEW v \in Workers, v # w, pc[v] = "write", OneNode, call[v].o = o
        PROVE  rows[o].provider # "stripe"
    BY <1>1, <1>3, <2>1, StripeWriterAlone
  <2> QED
    BY <1>1, <1>2, <1>3, <1>4, <1>5, <2>1 DEF TopUpInv, StripeInv, CallInv, Others, OneNode
<1>13. CreditedOnce'
  BY <1>1, <1>2, <1>3, <1>4, <1>5
  DEF TopUpInv, CreditedOnce, LockProtected, OneNode, UnpaidInv, AloneInv
<1>14. SteadyPaid'
  <2>1. Steady(o) => rows[o].status = "pending"
    BY <1>1, <1>3 DEF TopUpInv, StripeInv, Steady, CasOnly
  <2>2. Steady(o) => credits[o] = 0
    BY <1>3, <2>1 DEF TopUpInv, UnpaidInv, Steady
  <2> QED
    BY <1>1, <1>2, <1>4, <1>5, <2>2 DEF TopUpInv, SteadyPaid, Steady, OneNode
<1> QED
  BY <1>6, <1>7, <1>9, <1>10, <1>11, <1>12, <1>13, <1>14 DEF TopUpInv

(* Rename: saves a copy, of an XPay order. *)
LEMMA RenameStep ==
    ASSUME TopUpInv, NEW w \in Workers, Rename(w), TopUpTypeOK', LockInv', Step(w)
    PROVE  TopUpInv'
<1>1. PICK o \in Orders : o = call[w].o
  BY DEF TopUpInv, CallInv, Rename
<1>2. Others(w) /\ node' = node
  BY StepOthers
<1>3. /\ pc[w] = "write" /\ pc'[w] = "done"
      /\ call[w].h = "create" /\ rows[o].provider = "xpay"
      /\ call'[w] = call[w] /\ lockPc'[w] = lockPc[w] /\ lockOf'[w] = lockOf[w]
  BY <1>1 DEF Rename, lockVars, TopUpInv, TopUpTypeOK, Leave, CopyInv, CasOnly
<1>4. /\ rows'[o].provider = rows[o].provider /\ rows'[o].trade = NoTrade
      /\ rows'[o].status = "pending" /\ credits'[o] = credits[o]
  BY <1>1, TopUpAssumption
  DEF Rename, TopUpInv, TopUpTypeOK, Leave, Row, CopyInv, CasOnly
<1>5. \A p \in Orders : p # o =>
        rows'[p] = rows[p] /\ credits'[p] = credits[p]
  BY <1>1 DEF Rename, Leave, TopUpInv, TopUpTypeOK
<1>6. CallInv'
  BY <1>1, <1>2, <1>3, <1>4, <1>5 DEF TopUpInv, CallInv, Others
<1>7. CopyInv'
  BY <1>1, <1>2, <1>3, <1>4, <1>5 DEF TopUpInv, CopyInv, CallInv, Others
<1>9. TradeInv'
  BY <1>1, <1>3, <1>4, <1>5 DEF TopUpInv, TradeInv, CallInv
<1>10. UnpaidInv'
  BY <1>1, <1>2, <1>3, <1>4, <1>5 DEF TopUpInv, UnpaidInv, CallInv, Others
<1>11. AloneInv'
  BY <1>1, <1>2, <1>3, <1>4, <1>5
  DEF TopUpInv, AloneInv, CallInv, Others, LockProtected, OneNode
<1>12. StripeInv'
  <2>1. ASSUME NEW v \in Workers, v # w, pc[v] = "write", OneNode, call[v].o = o
        PROVE  rows[o].provider # "stripe"
    BY <1>1, <1>3, <2>1, StripeWriterAlone
  <2> QED
    BY <1>1, <1>2, <1>3, <1>4, <1>5, <2>1 DEF TopUpInv, StripeInv, CallInv, Others, OneNode
<1>13. CreditedOnce'
  BY <1>1, <1>2, <1>3, <1>4, <1>5
  DEF TopUpInv, CreditedOnce, LockProtected, OneNode, UnpaidInv, AloneInv
<1>14. SteadyPaid'
  BY <1>1, <1>2, <1>3, <1>4, <1>5
  DEF TopUpInv, SteadyPaid, Steady, OneNode, TopUpTypeOK, UnpaidInv
<1> QED
  BY <1>6, <1>7, <1>9, <1>10, <1>11, <1>12, <1>13, <1>14 DEF TopUpInv

(* UpdatePendingTopUpStatus: changes a pending order or nothing. *)
LEMMA MarkPendingStep ==
    ASSUME TopUpInv, NEW w \in Workers, MarkPending(w), TopUpTypeOK', LockInv', Step(w)
    PROVE  TopUpInv'
<1>1. PICK o \in Orders : o = call[w].o
  BY DEF TopUpInv, CallInv, MarkPending
<1>2. Others(w) /\ node' = node
  BY StepOthers
<1>3. /\ pc[w] = "write" /\ pc'[w] = "done"
      /\ call[w].h \in CasOnly \cup {"closed"}
      /\ call'[w] = call[w] /\ lockPc'[w] = lockPc[w] /\ lockOf'[w] = lockOf[w]
  BY <1>1 DEF MarkPending, lockVars, TopUpInv, TopUpTypeOK, Leave
<1>4. /\ rows'[o].provider = rows[o].provider /\ rows'[o].trade = rows[o].trade
      /\ credits'[o] = credits[o]
      /\ IF rows[o].status = "pending"
         THEN rows'[o].status \in {"failed", "expired"} ELSE rows'[o] = rows[o]
  BY <1>1, TopUpAssumption
  DEF MarkPending, TopUpInv, TopUpTypeOK, Leave, Row, MarkStatus
<1>5. \A p \in Orders : p # o =>
        rows'[p] = rows[p] /\ credits'[p] = credits[p]
  BY <1>1 DEF MarkPending, Leave, TopUpInv, TopUpTypeOK
<1>6. CallInv'
  BY <1>1, <1>2, <1>3, <1>4, <1>5 DEF TopUpInv, CallInv, Others
<1>7. CopyInv'
  BY <1>1, <1>2, <1>3, <1>4, <1>5 DEF TopUpInv, CopyInv, CallInv, Others
<1>9. TradeInv'
  BY <1>1, <1>3, <1>4, <1>5 DEF TopUpInv, TradeInv, CallInv
<1>10. UnpaidInv'
  BY <1>1, <1>2, <1>3, <1>4, <1>5 DEF TopUpInv, UnpaidInv, CallInv, Others
<1>11. AloneInv'
  BY <1>1, <1>2, <1>3, <1>4, <1>5
  DEF TopUpInv, AloneInv, CallInv, Others, LockProtected, OneNode
<1>12. StripeInv'
  <2>1. ASSUME NEW v \in Workers, v # w, pc[v] = "write", OneNode, call[v].o = o
        PROVE  rows[o].provider # "stripe"
    BY <1>1, <1>3, <2>1, StripeWriterAlone
  <2> QED
    BY <1>1, <1>2, <1>3, <1>4, <1>5, <2>1 DEF TopUpInv, StripeInv, CallInv, Others, OneNode
<1>13. CreditedOnce'
  BY <1>1, <1>2, <1>3, <1>4, <1>5
  DEF TopUpInv, CreditedOnce, LockProtected, OneNode, UnpaidInv, AloneInv
<1>14. SteadyPaid'
  BY <1>1, <1>2, <1>3, <1>4, <1>5
  DEF TopUpInv, SteadyPaid, Steady, OneNode, TopUpTypeOK, UnpaidInv
<1> QED
  BY <1>6, <1>7, <1>9, <1>10, <1>11, <1>12, <1>13, <1>14 DEF TopUpInv

(* Create: nobody works on an order that does not exist yet. *)
LEMMA CreateStep ==
    ASSUME TopUpInv, NEW w \in Workers, NEW o \in Orders, Create(w, o),
           TopUpTypeOK', LockInv', Step(w)
    PROVE  TopUpInv'
<1>1. \A v \in Workers : pc[v] \notin {"idle", "unlock"} => call[v].o # o
  BY DEF Create, TopUpInv, CallInv
<1>2. Others(w) /\ node' = node
  BY StepOthers
<1>3. /\ pc[w] = "idle" /\ call'[w].h = "create" /\ call'[w].o = o
      /\ pc'[w] = IF rows[o].provider \in CreatedFirst THEN "write" ELSE "done"
      /\ lockPc'[w] = lockPc[w] /\ lockOf'[w] = lockOf[w]
      /\ credits' = credits
  BY DEF Create, lockVars, TopUpInv, TopUpTypeOK, Row
<1>4. /\ rows[o].status = "none" /\ rows'[o].status = "pending"
      /\ rows'[o].provider = rows[o].provider /\ rows'[o].trade = rows[o].trade
      /\ rows[o].provider \in CreatedFirst => local'[w] = rows'[o]
  BY DEF Create, TopUpInv, TopUpTypeOK, Row
<1>5. \A p \in Orders : p # o => rows'[p] = rows[p]
  BY DEF Create, TopUpInv, TopUpTypeOK
<1>6. CallInv'
  BY <1>1, <1>2, <1>3, <1>4, <1>5 DEF TopUpInv, CallInv, Others, Locking
<1>7. CopyInv'
  BY <1>1, <1>2, <1>3, <1>4, <1>5 DEF TopUpInv, CopyInv, CallInv, TradeInv, Others
<1>9. TradeInv'
  BY <1>4, <1>5 DEF TopUpInv, TradeInv
<1>10. UnpaidInv'
  BY <1>1, <1>2, <1>3, <1>4, <1>5 DEF TopUpInv, UnpaidInv, CallInv, Others
<1>11. AloneInv'
  BY <1>1, <1>2, <1>3, <1>4, <1>5
  DEF TopUpInv, AloneInv, CallInv, Others, LockProtected, OneNode, ForUpdate, Split
<1>12. StripeInv'
  BY <1>1, <1>2, <1>3, <1>4, <1>5
  DEF TopUpInv, StripeInv, CallInv, Others, OneNode, CreatedFirst
<1>13. CreditedOnce'
  BY <1>2, <1>3, <1>4, <1>5 DEF TopUpInv, CreditedOnce, LockProtected, OneNode
<1>14. SteadyPaid'
  BY <1>2, <1>3, <1>4, <1>5
  DEF TopUpInv, SteadyPaid, Steady, OneNode, UnpaidInv, TopUpTypeOK
<1> QED
  BY <1>6, <1>7, <1>9, <1>10, <1>11, <1>12, <1>13, <1>14 DEF TopUpInv
-----------------------------------------------------------------------------
(* A step of the specification is a step of one worker. *)
LEMMA NextIsStep == Next <=> \E w \in Workers : Step(w)
BY DEF Next, Step

(* Every step keeps the invariant. *)
LEMMA TopUpStep ==
    ASSUME TopUpInv, [Next]_vars
    PROVE  TopUpInv'
<1>1. CASE Next
  <2>1. PICK w \in Workers : Step(w)
    BY <1>1, NextIsStep
  <2>2. TopUpTypeOK' /\ LockInv'
    BY <2>1, StepTypes, StepLocks
  <2>3. CASE \E o \in Orders : Create(w, o)
    BY <2>1, <2>2, <2>3, CreateStep
  <2>4. CASE \E o \in Orders, h \in AllHandlers, t \in Trades \cup {NoTrade} : Deliver(w, h, o, t)
    BY <2>1, <2>2, <2>4, DeliverStep
  <2>5. CASE Progress(w)
    BY <2>1, <2>2, <2>5, LockedStep, ReadStep, CommitStep, CommitPendingStep, SaveStep, CreditStep,
       MarkStep, MarkPendingStep, RenameStep, ReturnStep, UnlockedStep
    DEF Progress
  <2>6. CASE Fail(w)
    BY <2>1, <2>2, <2>6, FailStep
  <2> QED
    BY <2>1, <2>3, <2>4, <2>5, <2>6 DEF Step
<1>2. CASE UNCHANGED vars
  <2>1. UNCHANGED lockVars /\ UNCHANGED payVars
    BY <1>2 DEF vars
  <2>2. LockInv'
    BY <2>1, LockStep DEF TopUpInv
  <2>3. /\ node' = node /\ lockPc' = lockPc /\ lockOf' = lockOf
        /\ rows' = rows
        /\ credits' = credits /\ stranded' = stranded /\ pc' = pc /\ call' = call /\ local' = local
    BY <2>1 DEF lockVars, payVars
  <2> QED
    BY <2>2, <2>3 DEF TopUpInv, TopUpTypeOK, CallInv, CopyInv, TradeInv, UnpaidInv,
       AloneInv, StripeInv, CreditedOnce, SteadyPaid, LockProtected, Steady, OneNode
<1> QED
  BY <1>1, <1>2

\* Every order is unpaid and no handler runs at the start.
LEMMA TopUpStart == Init => TopUpInv
<1> SUFFICES ASSUME Init PROVE TopUpInv
  OBVIOUS
<1>1. LockInv
  BY LockStart DEF Init
<1>2. TopUpTypeOK
  BY TopUpAssumption DEF Init, TopUpTypeOK, Row, Statuses, Pcs, NoCall, NoRow, PaymentProviders
<1>3. CallInv /\ CopyInv /\ AloneInv /\ StripeInv
  BY DEF Init, LockInit, CallInv, CopyInv, AloneInv, StripeInv
<1>4. TradeInv /\ UnpaidInv /\ CreditedOnce /\ SteadyPaid
  BY DEF Init, TradeInv, UnpaidInv, CreditedOnce, SteadyPaid, TopUpTypeOK
<1> QED
  BY <1>1, <1>2, <1>3, <1>4 DEF TopUpInv

(* The inductive invariant of the payment handlers, the agreement of locks, *)
(* copies, rows and credits, holds in every reachable state.                *)
THEOREM TopUpInvariant == Spec => []TopUpInv
BY TopUpStart, TopUpStep, PTL DEF Spec

(* No order that LockOrder protects, on one node, is credited twice,        *)
(* however many callbacks and administrators complete it at once.           *)
THEOREM OrdersCreditedOnce == Spec => []CreditedOnce
<1>1. TopUpInv => CreditedOnce
  BY DEF TopUpInv
<1> QED
  BY <1>1, TopUpInvariant, PTL

(* An EPay order is never saved as failed or expired. *)
EPayInv == \A o \in Orders : rows[o].provider = "epay" => rows[o].status \notin {"failed", "expired"}

(* A paid order is credited, or its credit is under way or failed. *)
StrandedInv ==
    \A o \in Orders :
        rows[o].status = "success" /\ credits[o] = 0 => o \in stranded \/ CreditUnderWay(o)

\* A handler that saves an unpaid order works on no EPay order.
LEMMA UnpaidWriters ==
    ASSUME TopUpInv, NEW w \in Workers, Mark(w) \/ MarkPending(w) \/ Rename(w)
    PROVE  rows[call[w].o].provider # "epay"
<1>1. /\ pc[w] = "write"
      /\ call[w].h \in {"asyncFailed", "pollExpire", "create"} \cup CasOnly \cup {"closed"}
  BY DEF Mark, MarkPending, Rename
<1>2. /\ call[w].h \in Handlers(rows[call[w].o].provider) \cup {"create"}
      /\ call[w].h = "create" => rows[call[w].o].provider \in CreatedFirst
  BY <1>1 DEF TopUpInv, CallInv
<1> QED
  BY <1>1, <1>2 DEF Handlers, CreatedFirst, CasOnly, RechargeProviders

\* What a step does to an order: nothing, or its status and its credit move together,
\* or it is saved as paid with the credit to come, or it is credited, or marked unpaid.
LEMMA OrderStep ==
    ASSUME TopUpInv, NEW w \in Workers, Step(w), NEW o \in Orders
    PROVE  /\ rows'[o].provider = rows[o].provider
           /\ \/ rows'[o] = rows[o] /\ credits'[o] = credits[o]
              \/ rows'[o].status = "success" /\ credits'[o] = credits[o] + 1
              \/ /\ rows'[o].status = "success" /\ credits'[o] = credits[o]
                 /\ pc'[w] = "credit" /\ call'[w].o = o
              \/ rows'[o] = rows[o] /\ credits'[o] = credits[o] + 1
              \/ /\ rows'[o].status # "success" /\ credits'[o] = credits[o]
                 /\ rows[o].provider # "epay" \/ rows'[o].status = "pending"
<1> USE DEF TopUpInv, TopUpTypeOK
<1>0. (Commit(w) \/ Save(w) \/ Mark(w) \/ Rename(w)) =>
        local[w].status = "pending" /\ local[w].provider = rows[call[w].o].provider
  BY DEF Commit, Save, Mark, Rename, CopyInv, ForUpdate, Split, CasOnly
<1>1. CASE Commit(w)
  BY <1>0, <1>1 DEF Commit, Row
<1>2. CASE CommitPending(w)
  BY <1>2 DEF CommitPending, Row
<1>3. CASE Save(w)
  <2>1. CASE call[w].o = o
    BY <1>0, <1>3, <2>1 DEF Save, Row
  <2>2. CASE call[w].o # o
    BY <1>3, <2>2 DEF Save
  <2> QED
    BY <2>1, <2>2
<1>4. CASE Credit(w)
  BY <1>4 DEF Credit
<1>5. CASE Mark(w) \/ MarkPending(w) \/ Rename(w)
  <2>1. CASE call[w].o = o
    <3>1. rows[o].provider # "epay" /\ rows[o] \in Row
      BY <1>5, <2>1, UnpaidWriters
    <3>2. CASE Mark(w)
      BY <1>0, <2>1, <3>1, <3>2 DEF Mark, Row, MarkStatus
    <3>3. CASE MarkPending(w)
      BY <2>1, <3>1, <3>3 DEF MarkPending, Row, MarkStatus
    <3>4. CASE Rename(w)
      BY <1>0, <2>1, <3>1, <3>4 DEF Rename
    <3> QED
      BY <1>5, <3>2, <3>3, <3>4
  <2>2. CASE call[w].o # o
    BY <1>5, <2>2 DEF Mark, MarkPending, Rename
  <2> QED
    BY <2>1, <2>2
<1>6. CASE \E p \in Orders : Create(w, p)
  <2>1. PICK p \in Orders : Create(w, p)
    BY <1>6
  <2> QED
    BY <2>1 DEF Create, Row
<1> QED
  BY <1>1, <1>2, <1>3, <1>4, <1>5, <1>6
  DEF Step, Progress, Deliver, Locked, Read, Fail, Return, Unlocked

\* Neither is lost by a step.
LEMMA StrandedStep ==
    ASSUME TopUpInv, EPayInv, StrandedInv, [Next]_vars
    PROVE  EPayInv' /\ StrandedInv'
<1>1. CASE UNCHANGED vars
  BY <1>1 DEF vars, payVars, EPayInv, StrandedInv, CreditUnderWay
<1>2. ASSUME NEW w \in Workers, Step(w), NEW o \in Orders
      PROVE  /\ rows'[o].provider = "epay" => rows'[o].status \notin {"failed", "expired"}
             /\ rows'[o].status = "success" /\ credits'[o] = 0 =>
                  o \in stranded' \/ CreditUnderWay(o)'
  <2>1. TopUpTypeOK' /\ TopUpTypeOK /\ Others(w) /\ credits[o] \in Nat
    BY <1>2, StepTypes, StepOthers DEF TopUpInv, TopUpTypeOK
  <2>2. /\ rows'[o].provider = rows[o].provider
        /\ \/ rows'[o] = rows[o] /\ credits'[o] = credits[o]
           \/ rows'[o].status = "success" /\ credits'[o] = credits[o] + 1
           \/ /\ rows'[o].status = "success" /\ credits'[o] = credits[o]
              /\ pc'[w] = "credit" /\ call'[w].o = o
           \/ rows'[o] = rows[o] /\ credits'[o] = credits[o] + 1
           \/ /\ rows'[o].status # "success" /\ credits'[o] = credits[o]
              /\ rows[o].provider # "epay" \/ rows'[o].status = "pending"
    BY <1>2, OrderStep
  <2>3. rows'[o].provider = "epay" => rows'[o].status \notin {"failed", "expired"}
    BY <2>2 DEF EPayInv
  <2>4. ASSUME rows'[o].status = "success", credits'[o] = 0
        PROVE  o \in stranded' \/ CreditUnderWay(o)'
    <3>1. CASE pc'[w] = "credit" /\ call'[w].o = o
      BY <3>1 DEF CreditUnderWay
    <3>2. CASE rows'[o] = rows[o] /\ credits'[o] = credits[o]
      <4>1. o \in stranded \/ CreditUnderWay(o)
        BY <2>4, <3>2 DEF StrandedInv
      <4>2. CASE o \in stranded
        BY <1>2, <4>2, StrandedStays
      <4>3. ASSUME NEW v \in Workers, pc[v] = "credit", call[v].o = o
            PROVE  o \in stranded' \/ CreditUnderWay(o)'
        <5>1. CASE v # w
          BY <2>1, <4>3, <5>1 DEF Others, CreditUnderWay
        <5>2. CASE v = w
          <6>1. Credit(w) \/ Fail(w)
            BY <1>2, <4>3, <5>2
            DEF Step, Progress, Create, Deliver, Locked, Read, Commit, CommitPending, Save,
                Mark, MarkPending, Rename, Return, Unlocked
          <6>2. ~ Credit(w)
            BY <2>1, <3>2, <4>3, <5>2 DEF Credit, TopUpTypeOK
          <6> QED
            BY <4>3, <5>2, <6>1, <6>2 DEF Fail
        <5> QED
          BY <5>1, <5>2
      <4> QED
        BY <4>1, <4>2, <4>3 DEF CreditUnderWay
    <3> QED
      BY <2>1, <2>2, <2>4, <3>1, <3>2
  <2> QED
    BY <2>3, <2>4
<1> QED
  BY <1>1, <1>2, NextIsStep DEF EPayInv, StrandedInv

(* A steady order is shown as paid exactly if its quota was added.  Any     *)
(* other paid order, and for EPay and XPay that is the rule between their   *)
(* two statements, was credited, is about to be, or lost its credit to an   *)
(* error of the second statement alone; no EPay order is credited and       *)
(* shown unpaid.                                                            *)
THEOREM OrdersPaidIffCredited == Spec => []PaidIffCredited
<1>1. Init => EPayInv /\ StrandedInv
  BY DEF Init, EPayInv, StrandedInv
<1>2. ASSUME TopUpInv, EPayInv, StrandedInv PROVE PaidIffCredited
  <2>1. ASSUME NEW o \in Orders, Final(o), credits[o] > 0 PROVE rows[o].status = "success"
    <3>1. CASE Steady(o)
      BY <1>2, <2>1, <3>1 DEF TopUpInv, SteadyPaid
    <3>2. CASE rows[o].provider = "epay"
      <4>1. rows[o].status \notin {"none", "pending"}
        BY <1>2, <2>1, <3>2 DEF TopUpInv, UnpaidInv
      <4>2. rows[o].status \in Statuses
        BY <1>2 DEF TopUpInv, TopUpTypeOK, Row
      <4> QED
        BY <1>2, <3>2, <4>1, <4>2 DEF EPayInv, Statuses
    <3> QED
      BY <2>1, <3>1, <3>2 DEF Final
  <2> QED
    BY <1>2, <2>1 DEF TopUpInv, StrandedInv, PaidIffCredited
<1> QED
  BY <1>1, <1>2, TopUpInvariant, StrandedStep, PTL DEF Spec

(* A late expiry or failure notice never overwrites the success of a steady *)
(* order or of an EPay order.                                               *)
THEOREM OrdersStayPaid == Spec => SuccessStays
<1>1. ASSUME TopUpInv, [Next]_vars, NEW o \in Orders, Final(o), rows[o].status = "success"
      PROVE  rows'[o].status = "success"
  <2>1. CASE UNCHANGED vars
    BY <1>1, <2>1 DEF vars, payVars
  <2>2. CASE Next
    <3>1. PICK w \in Workers : Step(w)
      BY <2>2, NextIsStep
    <3>2. CASE rows'[o] = rows[o]
      BY <1>1, <3>2
    <3>3. CASE Commit(w) \/ Save(w) \/ CommitPending(w)
      BY <1>1, <3>3 DEF Commit, Save, CommitPending, TopUpInv, TopUpTypeOK, Row
    <3>4. CASE Mark(w)
      <4>1. CASE call[w].o = o
        <5>1. /\ pc[w] = "write" /\ call[w].h \in {"asyncFailed", "pollExpire", "create"}
              /\ call[w].h \in Handlers(rows[o].provider) \cup {"create"}
              /\ call[w].h = "create" => rows[o].provider \in CreatedFirst
          BY <1>1, <3>4, <4>1 DEF Mark, TopUpInv, CallInv
        <5>2. rows[o].provider = "stripe" /\ OneNode
          BY <1>1, <5>1 DEF Final, Steady, Handlers, CreatedFirst
        <5> QED
          BY <1>1, <4>1, <5>1, <5>2 DEF TopUpInv, StripeInv, CasOnly
      <4>2. CASE call[w].o # o
        BY <1>1, <3>4, <4>2 DEF Mark, TopUpInv, TopUpTypeOK
      <4> QED
        BY <4>1, <4>2
    <3>5. CASE MarkPending(w)
      BY <1>1, <3>5 DEF MarkPending, TopUpInv, TopUpTypeOK
    <3>6. CASE Rename(w)
      <4>1. pc[w] = "write" /\ call[w].h \notin CasOnly /\ rows[call[w].o].provider = "xpay"
        BY <1>1, <3>6 DEF Rename, TopUpInv, CopyInv, CasOnly
      <4>2. call[w].o # o
        BY <1>1, <4>1 DEF Final, Steady
      <4> QED
        BY <1>1, <3>6, <4>2 DEF Rename, TopUpInv, TopUpTypeOK
    <3>7. CASE \E p \in Orders : Create(w, p)
      BY <1>1, <3>7 DEF Create, TopUpInv, TopUpTypeOK
    <3> QED
      BY <3>1, <3>2, <3>3, <3>4, <3>5, <3>6, <3>7
      DEF Step, Progress, Deliver, Locked, Read, Credit, Fail, Return, Unlocked
  <2> QED
    BY <1>1, <2>1, <2>2
<1>2. TopUpInv /\ [Next]_vars =>
        [\A o \in Orders : Final(o) /\ rows[o].status = "success"
                              => rows'[o].status = "success"]_vars
  BY <1>1
<1> QED
  BY <1>2, TopUpInvariant, PTL DEF Spec, SuccessStays

(* Only the completion by hand of an order that was read as pending takes   *)
(* the trade number of a paid Alipay order away and credits it again.       *)
THEOREM ProviderTradeKept == Spec => TradeKept
<1>1. ASSUME TopUpInv, [Next]_vars, NEW o \in Orders, rows[o].trade # NoTrade
      PROVE  \/ rows'[o].trade = rows[o].trade /\ credits'[o] = credits[o]
             \/ /\ rows'[o].trade = NoTrade /\ credits'[o] = credits[o] + 1
                /\ \E w \in Workers : CompletesByHand(w, o)
  <2>0. rows[o].status = "success" /\ rows[o].provider = "alipay"
    BY <1>1 DEF TopUpInv, TradeInv
  <2>1. CASE UNCHANGED vars
    BY <1>1, <2>1 DEF vars, payVars
  <2>2. CASE Next
    <3>1. PICK w \in Workers : Step(w)
      BY <2>2, NextIsStep
    <3>2. CASE rows'[o] = rows[o] /\ credits'[o] = credits[o]
      BY <1>1, <3>2
    <3>3. CASE Commit(w)
      <4>1. CASE call[w].o # o
        BY <1>1, <3>3, <4>1 DEF Commit, TopUpInv, TopUpTypeOK
      <4>2. CASE call[w].o = o
        <5>1. /\ pc[w] = "write" /\ call[w].h \in ForUpdate
              /\ call[w].h \in Handlers("alipay") \cup {"create"}
          BY <1>1, <2>0, <3>3, <4>2 DEF Commit, TopUpInv, CallInv
        <5>2. call[w].h = "manual"
          BY <5>1 DEF ForUpdate, Handlers, RechargeProviders
        <5>3. lockPc[w] = "in" /\ local[w].trade = NoTrade
          BY <1>1, <5>1, <5>2 DEF TopUpInv, CallInv, CopyInv, Locking, CasOnly
        <5>4. /\ rows'[o].trade = NoTrade /\ credits'[o] = credits[o] + 1
              /\ pc'[w] = "done"
          BY <1>1, <3>3, <4>2, <5>3 DEF Commit, Leave, TopUpInv, TopUpTypeOK, Row
        <5>5. CompletesByHand(w, o)
          BY <4>2, <5>1, <5>2, <5>3, <5>4 DEF CompletesByHand
        <5> QED
          BY <5>4, <5>5
      <4> QED
        BY <4>1, <4>2
    <3>4. CASE Save(w) \/ Credit(w) \/ Mark(w) \/ Rename(w)
      <4>1. /\ pc[w] \in {"write", "credit"}
            /\ call[w].h \in Split \cup {"asyncFailed", "pollExpire", "create"}
            /\ call[w].h \in Handlers(rows[call[w].o].provider) \cup {"create"}
            /\ call[w].h = "create" => rows[call[w].o].provider \in CreatedFirst
        BY <1>1, <3>4 DEF Save, Credit, Mark, Rename, TopUpInv, CallInv, Split
      <4>2. call[w].o # o
        BY <2>0, <4>1 DEF Handlers, CreatedFirst, Split, RechargeProviders
      <4> QED
        BY <1>1, <3>4, <4>2 DEF Save, Credit, Mark, Rename, TopUpInv, TopUpTypeOK
    <3>5. CASE MarkPending(w) \/ CommitPending(w)
      BY <1>1, <2>0, <3>5 DEF MarkPending, CommitPending, TopUpInv, TopUpTypeOK
    <3>6. CASE \E p \in Orders : Create(w, p)
      BY <1>1, <2>0, <3>6 DEF Create, TopUpInv, TopUpTypeOK
    <3> QED
      BY <3>1, <3>2, <3>3, <3>4, <3>5, <3>6
      DEF Step, Progress, Deliver, Locked, Read, Fail, Return, Unlocked
  <2> QED
    BY <1>1, <2>1, <2>2
<1>2. TopUpInv /\ [Next]_vars =>
        [\A o \in Orders : rows[o].trade # NoTrade =>
           \/ rows'[o].trade = rows[o].trade /\ credits'[o] = credits[o]
           \/ /\ rows'[o].trade = NoTrade /\ credits'[o] = credits[o] + 1
              /\ \E w \in Workers : CompletesByHand(w, o)]_vars
  BY <1>1
<1> QED
  BY <1>2, TopUpInvariant, PTL DEF Spec, TradeKept
-----------------------------------------------------------------------------
(* The handlers use LockOrder and UnlockOrder as module OrderLock models    *)
(* them: seen through the lock's variables, every behaviour of the payment  *)
(* handlers is one of OrderLock, and whatever is proved of it holds here.   *)
THEOREM HandlersImplementLock == Spec => LockSpec
<1>1. Init => LockInit
  BY DEF Init
<1>2. [Next]_vars => [LockNext]_lockVars
  <2>1. ASSUME NEW w \in Workers, Step(w) PROVE [LockNext]_lockVars
    BY <2>1
    DEF Step, Progress, Create, Deliver, Locked, Read, Commit, CommitPending, Save, Credit,
        Mark, MarkPending, Rename, Fail, Return, Unlocked, LockNext
  <2>2. UNCHANGED vars => UNCHANGED lockVars
    BY DEF vars
  <2> QED
    BY <2>1, <2>2, NextIsStep
<1> QED
  BY <1>1, <1>2, PTL DEF Spec, LockSpec

(* So no two handlers of one process are in the critical section of one     *)
(* order, through all the early returns, errors and retries of the          *)
(* handlers.                                                                *)
THEOREM HandlersExclude == Spec => []OrderExclusion
BY HandlersImplementLock, LockOrderExcludes, PTL

(* And the UnlockOrder a handler defers finds the mutex it locked, locked.  *)
THEOREM HandlersUnlockTheirMutex == Spec => []UnlockFindsItsMutex
BY HandlersImplementLock, UnlockOrderFindsItsMutex, PTL
=============================================================================
