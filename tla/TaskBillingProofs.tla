------------------------- MODULE TaskBillingProofs -------------------------
(***************************************************************************)
(* Proofs about TaskBilling, for any number of tasks and polling           *)
(* processes: types, the compare-and-set argument (one biller per task),   *)
(* no double refund, terminal rows stay terminal, exact billing.           *)
(***************************************************************************)
EXTENDS TaskBilling, TLAPS

\* The initial rows, copies and counters have their types.
LEMMA InitType == Init => TypeOK
<1>1. AnyTask \in Tasks
  BY TaskSets DEF AnyTask
<1> QED
  BY <1>1 DEF Init, TypeOK, NoRow, Row, PollerPCs

\* Rows built by the polling loop are rows.
LEMMA MovedType ==
  ASSUME NEW task \in Row, NEW status \in Active \cup Terminal, NEW complete \in BOOLEAN
  PROVE  Moved(task, status, complete) \in Row
BY DEF Moved, Row

\* The placeholder of a task that was not inserted is a row.
LEMMA NoRowType == NoRow \in Row
BY DEF NoRow, Row

USE DEF Goto, Fault, Logged, Handled, NoBilling, accounts, poller, bounds

\* The compare-and-set keeps the table's type.
LEMMA UpdateType ==
  ASSUME NEW t \in Tasks, NEW task \in Row, NEW fromStatus, row \in [Tasks -> Row],
         UpdateWithStatus(t, task, fromStatus)
  PROVE  row' \in [Tasks -> Row]
BY DEF UpdateWithStatus

\* History flags stay flags.
LEMMA FlagType ==
  ASSUME clean \in [Tasks -> BOOLEAN], NEW t \in Tasks, UNCHANGED clean \/ Logged(t)
  PROVE  clean' \in [Tasks -> BOOLEAN]
OBVIOUS

\* The fault counter stays a number.
LEMMA FaultType ==
  ASSUME faults \in Nat, UNCHANGED faults \/ Fault
  PROVE  faults' \in Nat
OBVIOUS

\* Finish keeps the types of the rows and of the process that runs it.
LEMMA FinishType ==
  ASSUME TypeOK, NEW p \in Pollers, NEW t \in Tasks, NEW task \in Row, NEW n \in Int,
         Finish(p, t, task, n)
  PROVE  /\ row' \in [Tasks -> Row] /\ faults' \in Nat
         /\ pc' \in [Pollers -> PollerPCs] /\ mem' \in [Pollers -> [Tasks -> Row]]
         /\ cur' \in [Pollers -> Tasks] /\ amount' \in [Pollers -> Int]
<1>2. \/ /\ UpdateWithStatus(t, task, mem[p][t].status)
         /\ Bill(p, t, task, n) \/ NoBilling
         /\ UNCHANGED faults
      \/ Fault /\ NoBilling /\ UNCHANGED row
  BY DEF Finish
<1>3. CASE Fault /\ NoBilling /\ UNCHANGED row
  BY <1>3 DEF TypeOK
<1>4. CASE /\ UpdateWithStatus(t, task, mem[p][t].status)
           /\ Bill(p, t, task, n) \/ NoBilling
           /\ UNCHANGED faults
  <2>1. row' \in [Tasks -> Row] /\ faults' \in Nat
    BY <1>4, UpdateType DEF TypeOK
  <2>2. CASE NoBilling
    BY <2>1, <2>2 DEF TypeOK
  <2>3. CASE Bill(p, t, task, n)
    BY <2>1, <2>3 DEF TypeOK, Bill, PollerPCs
  <2> QED
    BY <1>4, <2>2, <2>3
<1> QED
  BY <1>2, <1>3, <1>4

\* Submissions keep the types.
LEMMA SubmitType ==
  ASSUME TypeOK, NEW t \in Tasks, Submit(t)
  PROVE  TypeOK'
<1>1. PICK estimate \in Estimates, quota \in Prices, stored \in BOOLEAN :
        \E paid, paidTok \in {estimate, quota} : Submit(t)!2!(estimate, quota, stored)!(paid, paidTok)
  BY DEF Submit
<1>2. PICK paid \in {estimate, quota}, paidTok \in {estimate, quota} :
        Submit(t)!2!(estimate, quota, stored)!(paid, paidTok)
  BY <1>1
<1>3. estimate \in Nat /\ quota \in Nat /\ paid \in Nat /\ paidTok \in Nat
  BY TaskAmounts
<1>4. row' \in [Tasks -> Row]
  <2>1. [status |-> "NOT_START", complete |-> FALSE, quota |-> quota] \in Row
    BY <1>3 DEF Row, Active
  <2>2. \/ row' = row
        \/ row' = [row EXCEPT ![t] = [status |-> "NOT_START", complete |-> FALSE, quota |-> quota]]
    BY <1>2
  <2> QED
    BY <2>1, <2>2 DEF TypeOK
<1>5. held' \in [Tasks -> Int] /\ tok' \in [Tasks -> Int]
  BY <1>2, <1>3 DEF TypeOK
<1>6. unpaid' \in [Tasks -> Int] /\ unpaidTok' \in [Tasks -> Int]
  BY <1>2, <1>3 DEF TypeOK
<1>7. clean' \in [Tasks -> BOOLEAN]
  BY <1>2 DEF TypeOK
<1>8. faults' \in Nat
  BY <1>2 DEF TypeOK
<1> QED
  BY <1>4, <1>5, <1>6, <1>7, <1>8 DEF TypeOK, Submit

\* The steps of a polling process keep the types.
LEMMA PollerType ==
  ASSUME TypeOK, NEW p \in Pollers, PollerStep(p) \/ Crash(p)
  PROVE  TypeOK'
<1>1. ASSUME StartSweep(p) PROVE TypeOK'
  BY <1>1 DEF TypeOK, StartSweep, PollerPCs
<1>2. ASSUME StartPoll(p) PROVE TypeOK'
  BY <1>2 DEF TypeOK, StartPoll, PollerPCs
<1>3. ASSUME Forget(p)
      PROVE  /\ mem' \in [Pollers -> [Tasks -> Row]]
             /\ cur' \in [Pollers -> Tasks] /\ amount' \in [Pollers -> Int]
  <2>1. AnyTask \in Tasks
    BY TaskSets DEF AnyTask
  <2> QED
    BY <1>3, <2>1, NoRowType DEF TypeOK, Forget
<1>4. ASSUME EndRound(p) PROVE TypeOK'
  BY <1>4, <1>3 DEF TypeOK, EndRound, PollerPCs
<1>5. ASSUME Crash(p) PROVE TypeOK'
  <2>1. (UNCHANGED clean \/ Logged(cur[p])) /\ cur[p] \in Tasks /\ Forget(p)
    BY <1>5 DEF TypeOK, Crash
  <2>2. clean' \in [Tasks -> BOOLEAN]
    BY <2>1, FlagType DEF TypeOK
  <2>3. pc' \in [Pollers -> PollerPCs] /\ crashes' \in Nat /\ todo' \in [Pollers -> SUBSET Tasks]
    BY <1>5 DEF TypeOK, Crash, PollerPCs
  <2> QED
    BY <1>5, <1>3, <2>1, <2>2, <2>3 DEF TypeOK, Crash
<1>6. ASSUME NEW t \in Tasks, Sweep(p, t) PROVE TypeOK'
  <2>1. -mem[p][t].quota \in Int
    BY DEF TypeOK, Row
  <2>2. /\ Finish(p, t, Moved(mem[p][t], "FAILURE", TRUE), -mem[p][t].quota)
        /\ Moved(mem[p][t], "FAILURE", TRUE) \in Row
    BY <1>6, MovedType DEF Sweep, TypeOK, Terminal
  <2>3. /\ row' \in [Tasks -> Row] /\ faults' \in Nat
        /\ pc' \in [Pollers -> PollerPCs] /\ mem' \in [Pollers -> [Tasks -> Row]]
        /\ cur' \in [Pollers -> Tasks] /\ amount' \in [Pollers -> Int]
    BY <2>1, <2>2, FinishType
  <2> QED
    BY <1>6, <2>3 DEF TypeOK, Sweep
<1>7. ASSUME NEW t \in Tasks, PollVideo(p, t) PROVE TypeOK'
  <2> DEFINE Poll == /\ row' \in [Tasks -> Row] /\ faults' \in Nat
                     /\ pc' \in [Pollers -> PollerPCs] /\ mem' \in [Pollers -> [Tasks -> Row]]
                     /\ cur' \in [Pollers -> Tasks] /\ amount' \in [Pollers -> Int]
  <2>0. mem[p][t] \in Row /\ mem[p][t].quota \in Int
    BY DEF TypeOK, Row
  <2>1. ASSUME NoBilling, UNCHANGED <<row, faults>> PROVE Poll
    BY <2>1 DEF TypeOK
  <2>2. ASSUME NEW status \in Active, NEW complete \in BOOLEAN, NoBilling, UNCHANGED faults,
               UpdateWithStatus(t, Moved(mem[p][t], status, complete), mem[p][t].status)
        PROVE Poll
    <3>1. Moved(mem[p][t], status, complete) \in Row
      BY <2>0, MovedType
    <3>2. row' \in [Tasks -> Row]
      BY <2>2, <3>1, UpdateType DEF TypeOK
    <3> QED
      BY <2>2, <3>2 DEF TypeOK
  <2>3. ASSUME NEW actual \in Prices \cup {0}, NEW complete \in BOOLEAN,
               Finish(p, t, Moved(mem[p][t], "SUCCESS", complete), Settlement(t, mem[p][t], actual))
        PROVE Poll
    <3>0. actual \in Int
      BY TaskAmounts
    <3>1. Settlement(t, mem[p][t], actual) \in Int
      BY <2>0, <3>0 DEF Settlement
    <3>2. Moved(mem[p][t], "SUCCESS", complete) \in Row
      BY <2>0, MovedType DEF Terminal
    <3> QED
      BY <2>3, <3>1, <3>2, FinishType
  <2>4. ASSUME Finish(p, t, Moved(mem[p][t], "FAILURE", TRUE), -mem[p][t].quota) PROVE Poll
    <3>1. -mem[p][t].quota \in Int
      BY <2>0
    <3>2. Moved(mem[p][t], "FAILURE", TRUE) \in Row
      BY <2>0, MovedType DEF Terminal
    <3> QED
      BY <3>1, <3>2, <2>4, FinishType
  <2>5. Poll
    BY <1>7, <2>1, <2>2, <2>3, <2>4 DEF PollVideo
  <2> QED
    BY <1>7, <2>5 DEF TypeOK, PollVideo
<1>8. ASSUME NEW t \in Tasks, PollSuno(p, t) PROVE TypeOK'
  <2>0. mem[p][t] \in Row /\ t \in todo[p]
    BY <1>8 DEF TypeOK, PollSuno
  <2>A. todo' \in [Pollers -> SUBSET Tasks] /\ repeats' \in Nat
    <3>1. \/ Handled(p, t) /\ UNCHANGED repeats
          \/ repeats' = repeats + 1 /\ UNCHANGED todo
      BY <1>8 DEF PollSuno
    <3> QED
      BY <3>1 DEF TypeOK
  <2>1. CASE NoBilling
    BY <1>8, <2>A, <2>1 DEF TypeOK, PollSuno
  <2>2. ASSUME NEW task \in Row, task.quota \in Int, NEW n \in Int,
               \/ Bill(p, t, task, n)
               \/ /\ mem' = [mem EXCEPT ![p][t] = task] /\ cur' = [cur EXCEPT ![p] = t]
                  /\ Goto(p, "save") /\ UNCHANGED amount
        PROVE TypeOK'
    <3>1. mem' = [mem EXCEPT ![p][t] = task] /\ cur' = [cur EXCEPT ![p] = t]
      BY <2>2 DEF Bill
    <3>2. mem' \in [Pollers -> [Tasks -> Row]] /\ cur' \in [Pollers -> Tasks]
      BY <3>1 DEF TypeOK
    <3>3. pc' \in [Pollers -> PollerPCs] /\ amount' \in [Pollers -> Int]
      <4>1. pc' = [pc EXCEPT ![p] = "fund"] \/ pc' = [pc EXCEPT ![p] = "save"]
        BY <2>2 DEF Bill
      <4>2. amount' = amount \/ amount' = [amount EXCEPT ![p] = n]
        BY <2>2 DEF Bill
      <4>3. {"fund", "save"} \subseteq PollerPCs
        BY DEF PollerPCs
      <4>4. pc' \in [Pollers -> PollerPCs]
        BY <4>1, <4>3 DEF TypeOK
      <4>5. amount' \in [Pollers -> Int]
        BY <4>2 DEF TypeOK
      <4> QED
        BY <4>4, <4>5
    <3> QED
      BY <1>8, <2>A, <3>2, <3>3 DEF TypeOK, PollSuno
  <2>3. ASSUME NEW status \in Active \cup Terminal,
               NEW failing \in BOOLEAN, PollSuno(p, t)!3!2!(status, failing)
        PROVE TypeOK'
    <3> DEFINE failed == failing \/ status = "FAILURE"
               task == Moved(mem[p][t], status, mem[p][t].complete \/ failed \/ status = "SUCCESS")
    <3>1. task \in Row /\ task.quota \in Int
      BY <2>0 DEF Moved, Row, Active, Terminal
    <3>2. -task.quota \in Int
      BY <3>1
    <3>3. \/ Bill(p, t, task, -task.quota)
          \/ /\ mem' = [mem EXCEPT ![p][t] = task] /\ cur' = [cur EXCEPT ![p] = t]
             /\ Goto(p, "save") /\ UNCHANGED amount
      BY <2>3
    <3> HIDE DEF task
    <3> QED
      BY <3>1, <3>2, <3>3, <2>2
  <2> QED
    BY <1>8, <2>1, <2>3 DEF PollSuno
<1>9. ASSUME NEW t \in Tasks, BulkFail(p, t) PROVE TypeOK'
  <2>1. Moved(row[t], "FAILURE", TRUE) \in Row
    BY MovedType DEF TypeOK, Terminal
  <2> QED
    <3>1. row' = row \/ row' = [row EXCEPT ![t] = Moved(row[t], "FAILURE", TRUE)]
      BY <1>9 DEF BulkFail
    <3>2. row' \in [Tasks -> Row]
      BY <2>1, <3>1 DEF TypeOK
    <3>3. faults' \in Nat /\ bulks' \in Nat /\ todo' \in [Pollers -> SUBSET Tasks]
      <4>1. UNCHANGED faults \/ Fault
        BY <1>9 DEF BulkFail
      <4>2. faults' \in Nat
        BY <4>1, FaultType DEF TypeOK
      <4>3. bulks' = bulks + 1 /\ todo' = [todo EXCEPT ![p] = @ \ {t}]
        BY <1>9 DEF BulkFail
      <4> QED
        BY <4>2, <4>3 DEF TypeOK
    <3> QED
      BY <1>9, <3>2, <3>3 DEF TypeOK, BulkFail
<1>10. ASSUME AdjustFunding(p) PROVE TypeOK'
  <2>1. cur[p] \in Tasks /\ amount[p] \in Int /\ loop[p] \in {"sweep", "poll"}
    BY DEF TypeOK
  <2>2. (UNCHANGED clean \/ Logged(cur[p])) /\ (UNCHANGED faults \/ Fault)
    BY <1>10 DEF AdjustFunding
  <2>3. clean' \in [Tasks -> BOOLEAN] /\ faults' \in Nat
    BY <2>1, <2>2, FlagType, FaultType DEF TypeOK
  <2>4. held' \in [Tasks -> Int]
    BY <1>10, <2>1 DEF TypeOK, AdjustFunding
  <2>5. pc' \in [Pollers -> PollerPCs]
    BY <1>10, <2>1 DEF TypeOK, AdjustFunding, PollerPCs
  <2> QED
    BY <1>10, <2>3, <2>4, <2>5 DEF TypeOK, AdjustFunding
<1>11. ASSUME AdjustToken(p) PROVE TypeOK'
  <2> DEFINE t == cur[p]
             task == mem[p][t]
             repriced == Repriced(task, task.quota + amount[p])
  <2>1. t \in Tasks /\ task \in Row /\ repriced \in Row
    BY DEF TypeOK, Row, Repriced
  <2>2. mem' = mem \/ mem' = [mem EXCEPT ![p][t] = repriced]
    BY <1>11 DEF AdjustToken
  <2> HIDE DEF repriced
  <2>3. mem' \in [Pollers -> [Tasks -> Row]]
    <3>1. CASE mem' = mem
      BY <3>1 DEF TypeOK
    <3>2. CASE mem' = [mem EXCEPT ![p][t] = repriced]
      BY <2>1, <3>2 DEF TypeOK
    <3> QED
      BY <2>2, <3>1, <3>2
  <2>4. pc' \in [Pollers -> PollerPCs]
    <3>1. loop[p] \in {"sweep", "poll"}
      BY DEF TypeOK
    <3>2. Goto(p, "save") \/ Goto(p, loop[p])
      BY <1>11 DEF AdjustToken
    <3> QED
      BY <3>1, <3>2 DEF TypeOK, PollerPCs
  <2>5. tok' \in [Tasks -> Int]
    BY <1>11, <2>1 DEF AdjustToken, TypeOK
  <2>6. clean' \in [Tasks -> BOOLEAN] /\ faults' \in Nat
    <3>1. (UNCHANGED clean \/ Logged(t)) /\ (UNCHANGED faults \/ Fault)
      BY <1>11 DEF AdjustToken
    <3> QED
      BY <2>1, <3>1, FlagType, FaultType DEF TypeOK
  <2> QED
    BY <1>11, <2>3, <2>4, <2>5, <2>6 DEF AdjustToken, TypeOK
<1>12. ASSUME SaveTask(p) PROVE TypeOK'
  <2>1. cur[p] \in Tasks /\ loop[p] \in {"sweep", "poll"} /\ mem[p][cur[p]] \in Row
    BY DEF TypeOK
  <2>2. (UNCHANGED clean \/ Logged(cur[p])) /\ (UNCHANGED faults \/ Fault)
    BY <1>12 DEF SaveTask
  <2>3. clean' \in [Tasks -> BOOLEAN] /\ faults' \in Nat
    BY <2>1, <2>2, FlagType, FaultType DEF TypeOK
  <2>4. row' \in [Tasks -> Row]
    BY <1>12, <2>1 DEF TypeOK, SaveTask
  <2>5. pc' \in [Pollers -> PollerPCs]
    BY <1>12, <2>1 DEF TypeOK, SaveTask, PollerPCs
  <2>6. expired' \subseteq Tasks
    BY <1>12 DEF TypeOK, SaveTask
  <2> QED
    BY <1>12, <2>3, <2>4, <2>5, <2>6 DEF TypeOK, SaveTask
<1> QED
  BY <1>1, <1>2, <1>4, <1>5, <1>6, <1>7, <1>8, <1>9, <1>10, <1>11, <1>12 DEF PollerStep, LocalStep

\* Time and users keep the types.
LEMMA UserType ==
  ASSUME TypeOK, NEW t \in Tasks, Expire(t) \/ FetchRead(t) \/ FetchWrite(t)
  PROVE  TypeOK'
<1>1. CASE Expire(t)
  BY <1>1 DEF TypeOK, Expire
<1>2. CASE FetchRead(t)
  BY <1>2 DEF TypeOK, FetchRead
<1>3. CASE FetchWrite(t)
  <2>1. row' \in [Tasks -> Row]
    <3>1. CASE UNCHANGED row
      BY <3>1 DEF TypeOK
    <3>2. ASSUME NEW status \in Active \cup Terminal,
                 NEW complete \in {fetch[t].complete, status \in Terminal},
                 UpdateWithStatus(t, Moved(fetch[t], status, complete), fetch[t].status)
          PROVE  row' \in [Tasks -> Row]
      <4>1. Moved(fetch[t], status, complete) \in Row
        <5>1. fetch[t] \in Row /\ (status \in Terminal) \in BOOLEAN
          BY DEF TypeOK
        <5>2. complete \in BOOLEAN
          BY <5>1 DEF Row
        <5> QED
          BY <5>1, <5>2, MovedType
      <4> QED
        BY <3>2, <4>1, UpdateType DEF TypeOK
    <3> QED
      BY <1>3, <3>1, <3>2 DEF FetchWrite
  <2> QED
    BY <1>3, <2>1, NoRowType DEF TypeOK, FetchWrite
<1> QED
  BY <1>1, <1>2, <1>3

\* Every step keeps the types.
LEMMA NextType == TypeOK /\ [Next]_vars => TypeOK'
<1> SUFFICES ASSUME TypeOK, [Next]_vars PROVE TypeOK'
  OBVIOUS
<1>1. CASE UNCHANGED vars
  BY <1>1 DEF TypeOK, vars
<1> QED
  BY <1>1, SubmitType, PollerType, UserType DEF Next

\* The task table, the accounts and the polling processes always have their types.
THEOREM TaskTypeCorrect == Spec => []TypeOK
BY InitType, NextType, PTL DEF Spec

-----------------------------------------------------------------------------
(***************************************************************************)
(* The invariant of one guarded task                                       *)
(***************************************************************************)

\* What TaskInv says of t.
OneTaskInv(t) ==
  /\ \A p \in Pollers : CopyInv(p, t) /\ BillerInv(p, t)
  /\ AccountInv(t) /\ ExactInv(t)

\* A task whose accounts are left alone is charged what it was.
LEMMA ChargedSame ==
  ASSUME NEW t \in Tasks, held'[t] = held[t], tok'[t] = tok[t],
         unpaid'[t] = unpaid[t], unpaidTok'[t] = unpaidTok[t]
  PROVE  Charged(t)' = Charged(t) /\ ChargedTok(t)' = ChargedTok(t)
BY DEF Charged, ChargedTok

\* Amounts are numbers.
LEMMA ChargedType ==
  ASSUME TypeOK, NEW t \in Tasks
  PROVE  Charged(t) \in Int /\ ChargedTok(t) \in Int
BY DEF TypeOK, Charged, ChargedTok

\* The row of t is the same, or as unfinished as before and with the same quota.
SameRow(t) ==
  \/ row'[t] = row[t]
  \/ row[t].status \in Active /\ row'[t].status \in Active /\ row'[t].quota = row[t].quota

\* p's copy of t, if it is still to be handled, is the old one or a fresh one.
SameCopy(p, t) ==
  t \in todo'[p] => \/ t \in todo[p] /\ mem'[p][t] = mem[p][t]
                    \/ row[t].status \in Active /\ mem'[p][t] = row[t]

\* p bills t exactly as before, or stopped and the interruption is recorded.
SameBiller(p, t) ==
  /\ Billing(p, t)' =>
       /\ Billing(p, t) /\ pc'[p] = pc[p] /\ amount'[p] = amount[p]
       /\ mem'[p][t] = mem[p][t] /\ todo'[p] \subseteq todo[p]
  /\ Billing(p, t) => Billing(p, t)' \/ ~ clean'[t]

\* A step that does not bill or finish t.
Frame(t) ==
  /\ SameRow(t) /\ Charged(t)' = Charged(t) /\ ChargedTok(t)' = ChargedTok(t)
  /\ clean'[t] => clean[t]
  /\ \A p \in Pollers : SameCopy(p, t) /\ SameBiller(p, t)

\* Such a step keeps the invariant of t.
LEMMA FrameKeeps ==
  ASSUME TypeOK, NEW t \in Guarded, OneTaskInv(t), Frame(t)
  PROVE  OneTaskInv(t)'
<1>1. \A p \in Pollers : CopyInv(p, t)'
  BY DEF OneTaskInv, CopyInv, Frame, SameRow, SameCopy, Active
<1>2. \A p \in Pollers : BillerInv(p, t)'
  <2> SUFFICES ASSUME NEW p \in Pollers, Billing(p, t)'
               PROVE  BillerInv(p, t)'
    BY DEF BillerInv
  <2>1. Billing(p, t) /\ BillerInv(p, t) /\ SameBiller(p, t)
    BY DEF Frame, SameBiller, OneTaskInv
  <2>2. row'[t] = row[t]
    BY <2>1 DEF Frame, SameRow, BillerInv, Active, Terminal
  <2>3. \A q \in Pollers : Billing(q, t)' => q = p
    BY <2>1 DEF Frame, SameBiller, BillerInv
  <2> QED
    BY <2>1, <2>2, <2>3 DEF SameBiller, BillerInv
<1>3. AccountInv(t)'
  <2>1. AccountInv(t)
    BY DEF OneTaskInv
  <2>2. Charged(t)' = Charged(t) /\ ChargedTok(t)' = ChargedTok(t) /\ SameRow(t)
    BY DEF Frame
  <2>3. \A p \in Pollers : Billing(p, t)' =>
          Billing(p, t) /\ pc'[p] = pc[p] /\ amount'[p] = amount[p] /\ mem'[p][t] = mem[p][t]
    BY DEF Frame, SameBiller
  <2> QED
    BY <2>1, <2>2, <2>3 DEF AccountInv, SameRow
<1>4. ExactInv(t)'
  <2> SUFFICES ASSUME MaxBulk = 0, clean'[t] PROVE ExactInv(t)'
    BY DEF ExactInv
  <2>1. clean[t] /\ ExactInv(t)
    BY DEF Frame, OneTaskInv
  <2>2. Charged(t)' = Charged(t) /\ ChargedTok(t)' = ChargedTok(t) /\ SameRow(t)
    BY DEF Frame
  <2>3. \A p \in Pollers : Billing(p, t)' <=> Billing(p, t)
    BY DEF Frame, SameBiller
  <2>4. \A p \in Pollers : Billing(p, t)' =>
          pc'[p] = pc[p] /\ amount'[p] = amount[p] /\ mem'[p][t] = mem[p][t]
    BY DEF Frame, SameBiller
  <2>5. BilledAsShown(t)'
    <3>1. BilledAsShown(t)
      BY <2>1 DEF ExactInv
    <3> SUFFICES ASSUME row'[t].status # "NONE", \A p \in Pollers : ~ Billing(p, t)'
                 PROVE  /\ Charged(t)' = IF row'[t].status = "FAILURE" THEN 0 ELSE row'[t].quota
                        /\ ChargedTok(t)' = IF row'[t].status = "FAILURE" THEN 0 ELSE row'[t].quota
      BY DEF BilledAsShown
    <3>2. row[t].status # "NONE" /\ \A p \in Pollers : ~ Billing(p, t)
      BY <2>2, <2>3 DEF SameRow, Active
    <3>3. /\ Charged(t) = IF row[t].status = "FAILURE" THEN 0 ELSE row[t].quota
          /\ ChargedTok(t) = IF row[t].status = "FAILURE" THEN 0 ELSE row[t].quota
      BY <2>1, <3>1, <3>2 DEF BilledAsShown
    <3> QED
      BY <2>2, <3>3 DEF SameRow, Active
  <2>6. \A p \in Pollers : Billing(p, t)' =>
         /\ row'[t].status = mem'[p][t].status
         /\ pc'[p] = "save" => Charged(t)' = mem'[p][t].quota /\ ChargedTok(t)' = mem'[p][t].quota
    <3> SUFFICES ASSUME NEW p \in Pollers, Billing(p, t)'
                 PROVE  /\ row'[t].status = mem'[p][t].status
                        /\ pc'[p] = "save" => Charged(t)' = mem'[p][t].quota /\ ChargedTok(t)' = mem'[p][t].quota
      OBVIOUS
    <3>1. Billing(p, t) /\ BillerInv(p, t)
      BY <2>3 DEF OneTaskInv
    <3>2. row'[t] = row[t]
      BY <3>1, <2>2 DEF SameRow, BillerInv, Active, Terminal
    <3> QED
      BY <2>1, <2>2, <2>4, <3>1, <3>2 DEF ExactInv
  <2> QED
    BY <2>5, <2>6 DEF ExactInv
<1> QED
  BY <1>1, <1>2, <1>3, <1>4 DEF OneTaskInv

-----------------------------------------------------------------------------
(***************************************************************************)
(* The steps that concern t                                                *)
(***************************************************************************)

\* The loops only get shorter, and p is through with t.
Shrinks(p, t) == t \notin todo'[p] /\ \A q \in Pollers : todo'[q] \subseteq todo[q]

\* p's compare-and-set replaced the row of t by the finished task; p bills it by n, or n is 0.
Won(p, t, task, n) ==
  /\ pc[p] \in {"sweep", "poll"} /\ t \in todo[p] /\ Shrinks(p, t)
  /\ row[t].status = mem[p][t].status
  /\ row' = [row EXCEPT ![t] = task]
  /\ IF n # 0 THEN Bill(p, t, task, n) ELSE NoBilling
  /\ UNCHANGED accounts

\* What Finish is called with.
Finished(p, t, task, n) ==
  /\ task.status \in Terminal /\ task.quota = mem[p][t].quota
  /\ n = 0 \/ task.quota + n >= 0
  /\ task.status = "FAILURE" => n = -task.quota

\* A step of Finish for any task either is a win for t or leaves t alone.
LEMMA FinishCases ==
  ASSUME TypeOK, NEW t \in Guarded, OneTaskInv(t), NEW p \in Pollers, NEW u \in Tasks,
         NEW task \in Row, NEW n \in Int, pc[p] \in {"sweep", "poll"}, u \in todo[p], Shrinks(p, u),
         Finish(p, u, task, n), held' = held, tok' = tok, unpaid' = unpaid, unpaidTok' = unpaidTok, clean' = clean
  PROVE  Frame(t) \/ (u = t /\ Won(p, t, task, n))
<1>1. t \in Tasks
  BY DEF Guarded
<1>2. \A q \in Pollers : todo'[q] \subseteq todo[q]
  BY DEF Shrinks
<1>3. Charged(t)' = Charged(t) /\ ChargedTok(t)' = ChargedTok(t) /\ clean'[t] = clean[t]
  BY <1>1, ChargedSame
<1>4. ASSUME NoBilling, row'[t] = row[t] PROVE Frame(t)
  BY <1>2, <1>3, <1>4 DEF Frame, SameRow, SameCopy, SameBiller, Billing
<1>5. CASE Fault /\ NoBilling /\ UNCHANGED row
  BY <1>4, <1>5
<1>6. CASE /\ UpdateWithStatus(u, task, mem[p][u].status)
           /\ IF StatusMatches(u, mem[p][u].status) /\ n # 0 THEN Bill(p, u, task, n) ELSE NoBilling
  <2>1. CASE ~ StatusMatches(u, mem[p][u].status)
    BY <1>4, <1>6, <2>1 DEF UpdateWithStatus
  <2>2. CASE StatusMatches(u, mem[p][u].status)
    <3>1. row' = [row EXCEPT ![u] = task]
      BY <1>6, <2>2 DEF UpdateWithStatus
    <3>2. CASE u = t
      BY <1>6, <2>2, <3>1, <3>2 DEF Won, StatusMatches
    <3>3. CASE u # t
      <4>1. row'[t] = row[t]
        BY <3>1, <3>3, <1>1 DEF TypeOK
      <4>2. CASE NoBilling
        BY <1>4, <4>1, <4>2
      <4>3. CASE Bill(p, u, task, n)
        <5>1. \A q \in Pollers : mem'[q][t] = mem[q][t]
          BY <4>3, <3>3, <1>1 DEF Bill, TypeOK
        <5>2. \A q \in Pollers : q # p => pc'[q] = pc[q] /\ amount'[q] = amount[q] /\ cur'[q] = cur[q]
          BY <4>3 DEF Bill, TypeOK
        <5>3. cur'[p] = u /\ ~ Billing(p, t)
          BY <4>3 DEF Bill, TypeOK, Billing
        <5> QED
          BY <1>2, <1>3, <3>3, <4>1, <5>1, <5>2, <5>3 DEF Frame, SameRow, SameCopy, SameBiller, Billing
      <4> QED
        BY <1>6, <4>2, <4>3
    <3> QED
      BY <3>2, <3>3
  <2> QED
    BY <2>1, <2>2
<1> QED
  BY <1>5, <1>6 DEF Finish

\* What a step can mean for t.
Touches(t) ==
  \/ Submit(t)
  \/ \E p \in Pollers :
       \/ BulkFail(p, t)
       \/ \E task \in Row, n \in Int : Won(p, t, task, n) /\ Finished(p, t, task, n)
       \/ Billing(p, t) /\ (AdjustFunding(p) \/ AdjustToken(p) \/ SaveTask(p))

\* Every step of a polling process leaves t alone or is one of those.
LEMMA PollerCases ==
  ASSUME TypeOK, NEW t \in Guarded, OneTaskInv(t), NEW p \in Pollers, PollerStep(p) \/ Crash(p)
  PROVE  Frame(t) \/ Touches(t)
<1>0. t \in Tasks /\ t \notin Suno
  BY DEF Guarded
<1>S. UNCHANGED <<held, tok, unpaid, unpaidTok>> =>
        Charged(t)' = Charged(t) /\ ChargedTok(t)' = ChargedTok(t)
  BY <1>0, ChargedSame
<1>1. CASE StartSweep(p) \/ StartPoll(p)
  <2>1. UNCHANGED <<row, accounts, cur, amount>> /\ pc[p] \in {"idle", "sweep"}
    BY <1>1 DEF StartSweep, StartPoll
  <2>2. \A q \in Pollers : q # p => pc'[q] = pc[q] /\ todo'[q] = todo[q] /\ mem'[q] = mem[q]
    BY <1>1 DEF StartSweep, StartPoll, TypeOK
  <2>3. /\ pc'[p] \in {"sweep", "poll"} /\ mem'[p] = row
        /\ \A u \in todo'[p] : row[u].status \in Active
    BY <1>1 DEF StartSweep, StartPoll, TypeOK, Unfinished
  <2> QED
    BY <1>S, <2>1, <2>2, <2>3 DEF Frame, SameRow, SameCopy, SameBiller, Billing
<1>2. CASE EndRound(p)
  <2>1. UNCHANGED <<row, accounts, todo>> /\ pc[p] = "poll" /\ todo[p] = {} /\ Forget(p)
    BY <1>2 DEF EndRound
  <2>2. \A q \in Pollers : q # p => pc'[q] = pc[q] /\ mem'[q] = mem[q] /\ cur'[q] = cur[q] /\ amount'[q] = amount[q]
    BY <1>2, <2>1 DEF EndRound, Forget, TypeOK
  <2>3. pc'[p] = "idle"
    BY <1>2 DEF EndRound, TypeOK
  <2> QED
    BY <1>S, <2>1, <2>2, <2>3 DEF Frame, SameRow, SameCopy, SameBiller, Billing
<1>3. CASE Crash(p)
  <2>1. UNCHANGED <<row, held, tok, unpaid, unpaidTok>> /\ Forget(p)
    BY <1>3 DEF Crash
  <2>2. \A q \in Pollers : q # p => pc'[q] = pc[q] /\ todo'[q] = todo[q] /\ mem'[q] = mem[q] /\ cur'[q] = cur[q] /\ amount'[q] = amount[q]
    BY <1>3, <2>1 DEF Crash, Forget, TypeOK
  <2>3. pc'[p] = "idle" /\ todo'[p] = {}
    BY <1>3 DEF Crash, TypeOK
  <2>4. clean'[t] => clean[t]
    BY <1>3, <1>0 DEF Crash, TypeOK
  <2>5. Billing(p, t) => ~ clean'[t]
    BY <1>3, <1>0 DEF Crash, TypeOK, Billing
  <2> QED
    BY <1>S, <2>1, <2>2, <2>3, <2>4, <2>5 DEF Frame, SameRow, SameCopy, SameBiller, Billing
<1>4. ASSUME NEW u \in Tasks, Sweep(p, u) PROVE Frame(t) \/ Touches(t)
  <2>1. /\ pc[p] \in {"sweep", "poll"} /\ u \in todo[p] /\ Shrinks(p, u)
        /\ held' = held /\ tok' = tok /\ unpaid' = unpaid /\ unpaidTok' = unpaidTok /\ clean' = clean
        /\ Finish(p, u, Moved(mem[p][u], "FAILURE", TRUE), -mem[p][u].quota)
    BY <1>4 DEF Sweep, Shrinks, TypeOK
  <2>2. Moved(mem[p][u], "FAILURE", TRUE) \in Row /\ -mem[p][u].quota \in Int
    <3>1. mem[p][u] \in Row
      BY DEF TypeOK
    <3>2. -mem[p][u].quota \in Int
      BY <3>1 DEF Row
    <3> QED
      BY <3>1, <3>2, MovedType DEF Terminal
  <2>3. Frame(t) \/ (u = t /\ Won(p, t, Moved(mem[p][u], "FAILURE", TRUE), -mem[p][u].quota))
    <3> DEFINE task == Moved(mem[p][u], "FAILURE", TRUE)
               n == -mem[p][u].quota
    <3>1. task \in Row /\ n \in Int /\ Finish(p, u, task, n)
      BY <2>1, <2>2
    <3> HIDE DEF task, n
    <3>2. Frame(t) \/ (u = t /\ Won(p, t, task, n))
      BY <2>1, <3>1, FinishCases
    <3> QED
      BY <3>2 DEF task, n
  <2>4. Finished(p, u, Moved(mem[p][u], "FAILURE", TRUE), -mem[p][u].quota)
    BY <2>2 DEF Finished, Moved, Terminal, TypeOK, Row
  <2> QED
    BY <2>2, <2>3, <2>4 DEF Touches
<1>5. ASSUME NEW u \in Tasks, PollVideo(p, u) PROVE Frame(t) \/ Touches(t)
  <2>1. /\ pc[p] \in {"sweep", "poll"} /\ u \in todo[p] /\ Shrinks(p, u)
        /\ held' = held /\ tok' = tok /\ unpaid' = unpaid /\ unpaidTok' = unpaidTok /\ clean' = clean
    BY <1>5 DEF PollVideo, Shrinks, TypeOK
  <2>2. ASSUME NoBilling, SameRow(t) PROVE Frame(t)
    <3>1. \A q \in Pollers : todo'[q] \subseteq todo[q]
      BY <2>1 DEF Shrinks
    <3> QED
      BY <1>S, <2>1, <2>2, <3>1 DEF Frame, SameCopy, SameBiller, Billing
  <2>3. CASE NoBilling /\ UNCHANGED <<row, faults>>
    BY <2>2, <2>3 DEF SameRow
  <2>4. ASSUME NEW status \in Active, NEW complete \in BOOLEAN, NoBilling,
               UpdateWithStatus(u, Moved(mem[p][u], status, complete), mem[p][u].status)
        PROVE  Frame(t)
    <3>1. CASE u # t \/ ~ StatusMatches(u, mem[p][u].status)
      <4>1. row'[t] = row[t]
        BY <2>4, <3>1, <1>0 DEF UpdateWithStatus, TypeOK
      <4> QED
        BY <2>2, <2>4, <4>1 DEF SameRow
    <3>2. CASE u = t /\ StatusMatches(t, mem[p][t].status)
      <4>1. row'[t] = Moved(mem[p][t], status, complete)
        BY <2>4, <3>2, <1>0 DEF UpdateWithStatus, TypeOK
      <4>2. CopyInv(p, t) /\ t \in todo[p] /\ row[t].status = mem[p][t].status
        BY <3>2, <2>1 DEF OneTaskInv, StatusMatches
      <4>3. row[t].status \in Active /\ mem[p][t].quota = row[t].quota
        BY <4>2 DEF CopyInv
      <4>4. row'[t].status \in Active /\ row'[t].quota = row[t].quota
        BY <4>1, <4>3 DEF Moved, Active
      <4> QED
        BY <2>2, <2>4, <4>3, <4>4 DEF SameRow
    <3> QED
      BY <3>1, <3>2
  <2>5. ASSUME NEW actual \in Prices \cup {0}, NEW complete \in BOOLEAN,
               Finish(p, u, Moved(mem[p][u], "SUCCESS", complete), Settlement(u, mem[p][u], actual))
        PROVE  Frame(t) \/ Touches(t)
    <3>0. mem[p][u] \in Row /\ "SUCCESS" \in Active \cup Terminal
      BY DEF TypeOK, Terminal
    <3>1. Moved(mem[p][u], "SUCCESS", complete) \in Row
      BY <3>0, MovedType
    <3>2. mem[p][u].quota \in Int /\ actual \in Nat
      BY TaskAmounts DEF TypeOK, Row
    <3>3. /\ Settlement(u, mem[p][u], actual) \in Int
          /\ Settlement(u, mem[p][u], actual) = 0 \/ mem[p][u].quota + Settlement(u, mem[p][u], actual) >= 0
      BY <3>2 DEF Settlement
    <3>4. Frame(t) \/ (u = t /\ Won(p, t, Moved(mem[p][u], "SUCCESS", complete), Settlement(u, mem[p][u], actual)))
      BY <2>1, <2>5, <3>1, <3>3, FinishCases
    <3>5. Finished(p, u, Moved(mem[p][u], "SUCCESS", complete), Settlement(u, mem[p][u], actual))
      BY <3>3 DEF Finished, Moved, Terminal
    <3> QED
      BY <3>1, <3>3, <3>4, <3>5 DEF Touches
  <2>6. ASSUME Finish(p, u, Moved(mem[p][u], "FAILURE", TRUE), -mem[p][u].quota)
        PROVE  Frame(t) \/ Touches(t)
    <3>1. Moved(mem[p][u], "FAILURE", TRUE) \in Row /\ -mem[p][u].quota \in Int
      <4>1. mem[p][u] \in Row
        BY DEF TypeOK
      <4>2. -mem[p][u].quota \in Int
        BY <4>1 DEF Row
      <4> QED
        BY <4>1, <4>2, MovedType DEF Terminal
    <3>2. Frame(t) \/ (u = t /\ Won(p, t, Moved(mem[p][u], "FAILURE", TRUE), -mem[p][u].quota))
      <4> DEFINE task == Moved(mem[p][u], "FAILURE", TRUE)
                 n == -mem[p][u].quota
      <4>1. task \in Row /\ n \in Int /\ Finish(p, u, task, n)
        BY <2>1, <2>6, <3>1
      <4> HIDE DEF task, n
      <4>2. Frame(t) \/ (u = t /\ Won(p, t, task, n))
        BY <2>1, <4>1, FinishCases
      <4> QED
        BY <4>2 DEF task, n
    <3>3. Finished(p, u, Moved(mem[p][u], "FAILURE", TRUE), -mem[p][u].quota)
      BY <3>1 DEF Finished, Moved, Terminal, TypeOK, Row
    <3> QED
      BY <3>1, <3>2, <3>3 DEF Touches
  <2> QED
    BY <1>5, <2>3, <2>4, <2>5, <2>6 DEF PollVideo
<1>6. ASSUME NEW u \in Tasks, PollSuno(p, u) PROVE Frame(t)
  <2>1. /\ u # t /\ pc[p] = "poll" /\ UNCHANGED <<row, accounts>>
        /\ Handled(p, u) \/ UNCHANGED todo
    BY <1>6, <1>0 DEF PollSuno
  <2>2. \A q \in Pollers : todo'[q] \subseteq todo[q]
    BY <2>1 DEF TypeOK
  <2>3. CASE NoBilling
    BY <1>S, <2>1, <2>2, <2>3 DEF Frame, SameRow, SameCopy, SameBiller, Billing
  <2>4. ASSUME NEW task, NEW l, mem' = [mem EXCEPT ![p][u] = task], cur' = [cur EXCEPT ![p] = u],
               Goto(p, l), \A q \in Pollers : q # p => amount'[q] = amount[q]
        PROVE  Frame(t)
    <3>1. \A q \in Pollers : mem'[q][t] = mem[q][t]
      BY <2>4, <2>1, <1>0 DEF TypeOK
    <3>2. \A q \in Pollers : q # p => pc'[q] = pc[q] /\ cur'[q] = cur[q]
      BY <2>4 DEF TypeOK
    <3>3. cur'[p] = u
      BY <2>4 DEF TypeOK
    <3> QED
      BY <1>S, <2>1, <2>2, <2>4, <3>1, <3>2, <3>3 DEF Frame, SameRow, SameCopy, SameBiller, Billing
  <2>5. ASSUME ~ NoBilling
        PROVE  \E task, l : /\ mem' = [mem EXCEPT ![p][u] = task] /\ cur' = [cur EXCEPT ![p] = u]
                            /\ Goto(p, l) /\ \A q \in Pollers : q # p => amount'[q] = amount[q]
    <3>1. PICK status \in Active \cup Terminal, failing \in BOOLEAN :
            PollSuno(p, u)!3!2!(status, failing)
      BY <1>6, <2>5 DEF PollSuno
    <3> DEFINE failed == failing \/ status = "FAILURE"
               task == Moved(mem[p][u], status, mem[p][u].complete \/ failed \/ status = "SUCCESS")
    <3>2. \/ Bill(p, u, task, -task.quota)
          \/ /\ mem' = [mem EXCEPT ![p][u] = task] /\ cur' = [cur EXCEPT ![p] = u]
             /\ Goto(p, "save") /\ UNCHANGED amount
      BY <3>1
    <3> HIDE DEF task
    <3> QED
      BY <3>2 DEF Bill, TypeOK
  <2> QED
    BY <2>3, <2>4, <2>5
<1>7. ASSUME NEW u \in Tasks, BulkFail(p, u) PROVE Frame(t) \/ Touches(t)
  <2>1. CASE u = t
    BY <1>7, <2>1 DEF Touches
  <2>2. CASE u # t
    <3>1. row'[t] = row[t]
      BY <1>7, <2>2, <1>0 DEF BulkFail, TypeOK
    <3>2. UNCHANGED <<accounts, pc, mem, cur, amount>> /\ \A q \in Pollers : todo'[q] \subseteq todo[q]
      BY <1>7 DEF BulkFail, TypeOK
    <3> QED
      BY <1>S, <3>1, <3>2 DEF Frame, SameRow, SameCopy, SameBiller, Billing
  <2> QED
    BY <2>1, <2>2
<1>8. CASE AdjustFunding(p) \/ AdjustToken(p) \/ SaveTask(p)
  <2>1. pc[p] \in {"fund", "token", "save"}
    BY <1>8 DEF AdjustFunding, AdjustToken, SaveTask
  <2>2. CASE cur[p] = t
    BY <1>8, <2>1, <2>2 DEF Touches, Billing
  <2>3. CASE cur[p] # t
    <3>0. cur[p] \in Tasks
      BY DEF TypeOK
    <3>1. UNCHANGED <<unpaid, unpaidTok, todo, cur, amount>>
      BY <1>8 DEF AdjustFunding, AdjustToken, SaveTask
    <3>2. \A q \in Pollers : q # p => pc'[q] = pc[q]
      BY <1>8 DEF AdjustFunding, AdjustToken, SaveTask, TypeOK
    <3>3. row'[t] = row[t]
      BY <1>8, <1>0, <2>3, <3>0 DEF AdjustFunding, AdjustToken, SaveTask, TypeOK
    <3>4. Charged(t)' = Charged(t) /\ ChargedTok(t)' = ChargedTok(t)
      <4>1. held'[t] = held[t] /\ tok'[t] = tok[t]
        BY <1>8, <1>0, <2>3, <3>0 DEF AdjustFunding, AdjustToken, SaveTask, TypeOK
      <4> QED
        BY <1>0, <3>1, <4>1, ChargedSame
    <3>5. clean'[t] = clean[t]
      <4>1. UNCHANGED clean \/ Logged(cur[p])
        BY <1>8 DEF AdjustFunding, AdjustToken, SaveTask
      <4> QED
        BY <4>1, <1>0, <2>3, <3>0 DEF TypeOK
    <3>6. \A q \in Pollers : mem'[q][t] = mem[q][t]
      <4> DEFINE paid == Repriced(mem[p][cur[p]], mem[p][cur[p]].quota + amount[p])
      <4>1. mem' = mem \/ mem' = [mem EXCEPT ![p][cur[p]] = paid]
        <5>1. CASE AdjustToken(p)
          BY <5>1 DEF AdjustToken
        <5>2. CASE AdjustFunding(p) \/ SaveTask(p)
          BY <5>2 DEF AdjustFunding, SaveTask
        <5> QED
          BY <1>8, <5>1, <5>2
      <4> HIDE DEF paid
      <4>2. mem \in [Pollers -> [Tasks -> Row]]
        BY DEF TypeOK
      <4> QED
        BY <4>1, <4>2, <1>0, <2>3, <3>0
    <3> QED
      BY <1>S, <2>3, <3>1, <3>2, <3>3, <3>4, <3>5, <3>6 DEF Frame, SameRow, SameCopy, SameBiller, Billing
  <2> QED
    BY <2>2, <2>3
<1> QED
  BY <1>1, <1>2, <1>3, <1>4, <1>5, <1>6, <1>7, <1>8 DEF PollerStep, LocalStep


\* A submission leaves every other task alone.
LEMMA SubmitOther ==
  ASSUME TypeOK, NEW t \in Tasks, NEW u \in Tasks, u # t, Submit(u)
  PROVE  /\ row'[t] = row[t] /\ clean'[t] = clean[t]
         /\ Charged(t)' = Charged(t) /\ ChargedTok(t)' = ChargedTok(t)
<1>1. \E paid, paidTok, lack, lackTok, new, stored :
        /\ held' = [held EXCEPT ![u] = paid] /\ tok' = [tok EXCEPT ![u] = paidTok]
        /\ unpaid' = [unpaid EXCEPT ![u] = lack] /\ unpaidTok' = [unpaidTok EXCEPT ![u] = lackTok]
        /\ row' = row \/ row' = [row EXCEPT ![u] = new]
        /\ clean' = [clean EXCEPT ![u] = stored]
  <2>1. PICK estimate \in Estimates, quota \in Prices, stored \in BOOLEAN :
          \E paid, paidTok \in {estimate, quota} : Submit(u)!2!(estimate, quota, stored)!(paid, paidTok)
    BY DEF Submit
  <2>2. PICK paid \in {estimate, quota}, paidTok \in {estimate, quota} :
          Submit(u)!2!(estimate, quota, stored)!(paid, paidTok)
    BY <2>1
  <2> QED
    BY <2>2
<1>2. held'[t] = held[t] /\ tok'[t] = tok[t] /\ unpaid'[t] = unpaid[t] /\ unpaidTok'[t] = unpaidTok[t]
  BY <1>1 DEF TypeOK
<1>3. row'[t] = row[t] /\ clean'[t] = clean[t]
  BY <1>1 DEF TypeOK
<1> QED
  BY <1>2, <1>3, ChargedSame

\* It charges its own task the quota of the row, whatever of that it could not take.
LEMMA SubmitSelf ==
  ASSUME TypeOK, NEW t \in Tasks, Submit(t)
  PROVE  \E quota \in Nat, stored \in BOOLEAN :
           /\ Charged(t)' = quota /\ ChargedTok(t)' = quota /\ clean'[t] = stored
           /\ stored => row'[t].status = "NOT_START" /\ row'[t].quota = quota
           /\ ~ stored => row'[t] = row[t] /\ faults' # 0
<1>1. PICK estimate \in Estimates, quota \in Prices, stored \in BOOLEAN :
        \E paid, paidTok \in {estimate, quota} : Submit(t)!2!(estimate, quota, stored)!(paid, paidTok)
  BY DEF Submit
<1>2. PICK paid \in {estimate, quota}, paidTok \in {estimate, quota} :
        Submit(t)!2!(estimate, quota, stored)!(paid, paidTok)
  BY <1>1
<1>3. estimate \in Nat /\ quota \in Nat /\ paid \in Nat /\ paidTok \in Nat /\ faults \in Nat
  BY TaskAmounts DEF TypeOK
<1>4. held'[t] = paid /\ tok'[t] = paidTok /\ unpaid'[t] = quota - paid /\ unpaidTok'[t] = quota - paidTok
  BY <1>2 DEF TypeOK
<1>5. Charged(t)' = quota /\ ChargedTok(t)' = quota
  BY <1>3, <1>4 DEF Charged, ChargedTok
<1>6. clean'[t] = stored
  BY <1>2 DEF TypeOK
<1>7. stored => row'[t].status = "NOT_START" /\ row'[t].quota = quota
  BY <1>2 DEF TypeOK
<1>8. ~ stored => row'[t] = row[t] /\ faults' # 0
  BY <1>2, <1>3
<1> QED
  BY <1>3, <1>5, <1>6, <1>7, <1>8

\* So does every step of the system.
LEMMA StepCases ==
  ASSUME TypeOK, FetchInv, NEW t \in Guarded, OneTaskInv(t), Next
  PROVE  Frame(t) \/ Touches(t)
<1>0. t \in Tasks /\ t \notin Realtime
  BY DEF Guarded
<1>1. ASSUME NEW p \in Pollers, PollerStep(p) \/ Crash(p) PROVE Frame(t) \/ Touches(t)
  BY <1>1, PollerCases
<1>2. ASSUME UNCHANGED poller PROVE \A p \in Pollers : SameCopy(p, t) /\ SameBiller(p, t)
  BY <1>2 DEF SameCopy, SameBiller, Billing
<1>3. ASSUME NEW u \in Tasks, Submit(u) PROVE Frame(t) \/ Touches(t)
  <2>1. CASE u = t
    BY <1>3, <2>1 DEF Touches
  <2>2. CASE u # t
    <3>1. /\ row'[t] = row[t] /\ clean'[t] = clean[t]
          /\ Charged(t)' = Charged(t) /\ ChargedTok(t)' = ChargedTok(t)
      BY <1>0, <1>3, <2>2, SubmitOther
    <3>2. UNCHANGED poller
      BY <1>3 DEF Submit
    <3> QED
      BY <3>1, <3>2, <1>2 DEF Frame, SameRow
  <2> QED
    BY <2>1, <2>2
<1>4. ASSUME NEW u \in Tasks, Expire(u) \/ FetchRead(u) \/ FetchWrite(u) PROVE Frame(t)
  <2>1. UNCHANGED <<accounts, poller>>
    BY <1>4 DEF Expire, FetchRead, FetchWrite
  <2>2. row'[t] = row[t]
    <3>1. CASE Expire(u) \/ FetchRead(u)
      BY <3>1 DEF Expire, FetchRead
    <3>2. CASE FetchWrite(u)
      <4>1. u # t
        BY <3>2, <1>0 DEF FetchWrite, FetchInv
      <4>2. row' = row \/ \E task : row' = [row EXCEPT ![u] = task]
        BY <3>2 DEF FetchWrite, UpdateWithStatus
      <4> QED
        BY <4>1, <4>2, <1>0 DEF TypeOK
    <3> QED
      BY <1>4, <3>1, <3>2
  <2>3. Charged(t)' = Charged(t) /\ ChargedTok(t)' = ChargedTok(t)
    BY <1>0, <2>1, ChargedSame
  <2> QED
    BY <2>1, <2>2, <2>3, <1>2 DEF Frame, SameRow
<1> QED
  BY <1>1, <1>3, <1>4 DEF Next

\* A submission starts a task that holds its quota and that nobody polls yet.
LEMMA SubmitKeeps ==
  ASSUME TypeOK, NEW t \in Guarded, OneTaskInv(t), Submit(t)
  PROVE  OneTaskInv(t)'
<1>0. t \in Tasks /\ row[t].status = "NONE" /\ UNCHANGED poller
  BY DEF Guarded, Submit
<1>1. \A p \in Pollers : t \notin todo'[p] /\ ~ Billing(p, t)'
  BY <1>0 DEF OneTaskInv, CopyInv, BillerInv, Billing, Terminal
<1>2. PICK quota \in Nat, stored \in BOOLEAN :
        /\ Charged(t)' = quota /\ ChargedTok(t)' = quota /\ clean'[t] = stored
        /\ stored => row'[t].status = "NOT_START" /\ row'[t].quota = quota
        /\ ~ stored => row'[t] = row[t]
  BY <1>0, SubmitSelf
<1>3. AccountInv(t)'
  BY <1>0, <1>1, <1>2 DEF AccountInv, Active
<1>4. ExactInv(t)'
  BY <1>1, <1>2 DEF ExactInv, BilledAsShown
<1> QED
  BY <1>1, <1>3, <1>4 DEF OneTaskInv, CopyInv, BillerInv

\* Failing the tasks of a missing channel moves the row and nothing else.
LEMMA BulkKeeps ==
  ASSUME TypeOK, NEW t \in Guarded, OneTaskInv(t), NEW p \in Pollers, BulkFail(p, t)
  PROVE  OneTaskInv(t)'
<1>0. t \in Tasks /\ MaxBulk # 0 /\ bulks \in Nat
  BY TaskAmounts DEF Guarded, BulkFail, TypeOK
<1>1. UNCHANGED <<accounts, pc, mem, cur, amount>> /\ \A q \in Pollers : todo'[q] \subseteq todo[q]
  BY DEF BulkFail, TypeOK
<1>2. row'[t] = row[t] \/ row'[t].status = "FAILURE"
  BY <1>0 DEF BulkFail, TypeOK, Moved
<1>3. \A q \in Pollers : CopyInv(q, t)'
  BY <1>1, <1>2 DEF OneTaskInv, CopyInv, Active
<1>4. \A q \in Pollers : BillerInv(q, t)'
  BY <1>1, <1>2 DEF OneTaskInv, BillerInv, Billing, Terminal
<1>S. Charged(t)' = Charged(t) /\ ChargedTok(t)' = ChargedTok(t)
  BY <1>0, <1>1, ChargedSame
<1>5. AccountInv(t)'
  BY <1>1, <1>2, <1>S DEF OneTaskInv, AccountInv, Billing, Active
<1> QED
  BY <1>0, <1>3, <1>4, <1>5 DEF OneTaskInv, ExactInv

\* Who wins the compare-and-set becomes the only biller, from a full account.
LEMMA WonKeeps ==
  ASSUME TypeOK, NEW t \in Guarded, OneTaskInv(t), NEW p \in Pollers,
         NEW task \in Row, NEW n \in Int, Won(p, t, task, n), Finished(p, t, task, n)
  PROVE  OneTaskInv(t)'
<1>0. t \in Tasks /\ CopyInv(p, t)
  BY DEF Guarded, OneTaskInv
<1>1. /\ row[t].status \in Active /\ row[t].status = mem[p][t].status
      /\ mem[p][t].quota = row[t].quota
  BY <1>0 DEF Won, CopyInv
<1>2. \A q \in Pollers : ~ Billing(q, t)
  BY <1>1 DEF OneTaskInv, BillerInv, Active, Terminal
<1>3. row'[t] = task /\ task.status \in Terminal /\ task.quota = mem[p][t].quota
  BY <1>0 DEF Won, TypeOK, Finished
<1>4. Charged(t)' = Charged(t) /\ ChargedTok(t)' = ChargedTok(t) /\ clean'[t] = clean[t]
  <2>1. UNCHANGED accounts
    BY DEF Won
  <2> QED
    BY <1>0, <2>1, ChargedSame
<1>5. Charged(t) = row[t].quota /\ ChargedTok(t) = row[t].quota /\ row[t].quota >= 0
  BY <1>1 DEF OneTaskInv, AccountInv
<1>6. t \notin todo'[p] /\ \A q \in Pollers : todo'[q] \subseteq todo[q]
  BY DEF Won, Shrinks
<1>7. CASE n # 0
  <2>1. Bill(p, t, task, n)
    BY <1>7 DEF Won
  <2>2. /\ cur'[p] = t /\ amount'[p] = n /\ mem'[p][t] = task /\ pc'[p] = "fund"
        /\ \A q \in Pollers : q # p => cur'[q] = cur[q] /\ pc'[q] = pc[q] /\ mem'[q] = mem[q]
    BY <1>0, <2>1 DEF Bill, TypeOK
  <2>3. Billing(p, t)' /\ \A q \in Pollers : Billing(q, t)' => q = p
    BY <1>2, <2>2 DEF Billing
  <2>4. \A q \in Pollers : CopyInv(q, t)'
    BY <1>3, <1>6, <2>2 DEF OneTaskInv, CopyInv, Active, Terminal
  <2>5. \A q \in Pollers : BillerInv(q, t)'
    <3>1. BillerInv(p, t)'
      BY <1>3, <1>6, <1>7, <2>2, <2>3 DEF BillerInv, Finished
    <3> QED
      BY <3>1, <2>3 DEF BillerInv
  <2>6. AccountInv(t)'
    BY <1>1, <1>3, <1>4, <1>5, <2>2, <2>3 DEF AccountInv, Active, Terminal
  <2>7. ExactInv(t)'
    BY <1>3, <2>2, <2>3 DEF ExactInv, BilledAsShown
  <2> QED
    BY <2>4, <2>5, <2>6, <2>7 DEF OneTaskInv
<1>8. CASE n = 0
  <2>1. UNCHANGED <<pc, mem, cur, amount>>
    BY <1>8 DEF Won
  <2>2. \A q \in Pollers : ~ Billing(q, t)'
    BY <1>2, <2>1 DEF Billing
  <2>3. \A q \in Pollers : CopyInv(q, t)'
    BY <1>3, <1>6, <2>1 DEF OneTaskInv, CopyInv, Active, Terminal
  <2>4. AccountInv(t)'
    BY <1>1, <1>3, <1>4, <1>5, <2>2 DEF AccountInv, Active, Terminal
  <2>5. task.status = "FAILURE" => task.quota = 0
    <3>1. task.quota \in Int
      BY DEF Row
    <3>2. task.status = "FAILURE" => 0 = -task.quota
      BY <1>8 DEF Finished
    <3> QED
      BY <3>1, <3>2
  <2>6. ExactInv(t)'
    BY <1>1, <1>3, <1>4, <1>5, <2>2, <2>5 DEF ExactInv, BilledAsShown
  <2> QED
    BY <2>2, <2>3, <2>4, <2>6 DEF OneTaskInv, BillerInv
<1> QED
  BY <1>7, <1>8

\* A step on the accounts keeps the invariant: held, then token, then the new quota.
LEMMA FundingKeeps ==
  ASSUME TypeOK, NEW t \in Guarded, OneTaskInv(t), NEW p \in Pollers, Billing(p, t), AdjustFunding(p)
  PROVE  OneTaskInv(t)'
<1>0. t \in Tasks /\ t \notin Suno /\ cur[p] = t /\ pc[p] = "fund" /\ loop[p] \in {"sweep", "poll"}
  BY DEF Guarded, Billing, TypeOK, AdjustFunding
<1>1. /\ BillerInv(p, t) /\ AccountInv(t) /\ ExactInv(t)
      /\ UNCHANGED <<row, tok, unpaid, unpaidTok, todo, mem, cur, amount>>
      /\ \A q \in Pollers : q # p => pc'[q] = pc[q]
  BY DEF OneTaskInv, AdjustFunding, TypeOK
<1>2. \A q \in Pollers : q # p => ~ Billing(q, t)
  BY <1>1 DEF BillerInv
<1>3. \A q \in Pollers : q # p => ~ Billing(q, t)'
  BY <1>1, <1>2 DEF Billing
<1>4. \A q \in Pollers : CopyInv(q, t)'
  BY <1>1 DEF OneTaskInv, CopyInv
<1>S. ChargedTok(t)' = ChargedTok(t) /\ Charged(t) \in Int /\ ChargedTok(t) \in Int
  BY <1>0, <1>1, ChargedType DEF ChargedTok
<1>5. \/ Charged(t)' = Charged(t) + amount[p] /\ pc'[p] = "token" /\ clean' = clean
      \/ Charged(t)' = Charged(t) /\ pc'[p] = loop[p] /\ Logged(t)
  <2>1. \/ held'[t] = held[t] + amount[p] /\ pc'[p] = "token" /\ clean' = clean
        \/ held'[t] = held[t] /\ pc'[p] = loop[p] /\ Logged(t)
    BY <1>0 DEF AdjustFunding, TypeOK
  <2>2. held[t] \in Int /\ unpaid[t] \in Int /\ amount[p] \in Int /\ unpaid'[t] = unpaid[t]
    BY <1>0, <1>1 DEF TypeOK
  <2> QED
    BY <2>1, <2>2 DEF Charged
<1>6. CASE Charged(t)' = Charged(t) + amount[p] /\ pc'[p] = "token" /\ clean' = clean
  <2>1. Billing(p, t)'
    BY <1>0, <1>1, <1>6 DEF Billing
  <2>2. \A q \in Pollers : BillerInv(q, t)'
    BY <1>0, <1>1, <1>3, <1>6, <2>1 DEF BillerInv
  <2>3. AccountInv(t)'
    BY <1>0, <1>1, <1>S, <1>3, <1>6, <2>1 DEF BillerInv, AccountInv, Active, Terminal
  <2>4. ExactInv(t)'
    BY <1>0, <1>1, <1>S, <1>3, <1>6, <2>1 DEF ExactInv, BilledAsShown
  <2> QED
    BY <1>4, <2>2, <2>3, <2>4 DEF OneTaskInv
<1>7. CASE Charged(t)' = Charged(t) /\ pc'[p] = loop[p] /\ Logged(t)
  <2>1. \A q \in Pollers : ~ Billing(q, t)'
    BY <1>0, <1>3, <1>7 DEF Billing
  <2>2. ~ clean'[t]
    BY <1>0, <1>7 DEF TypeOK
  <2>3. AccountInv(t)'
    BY <1>1, <1>S, <1>7, <2>1 DEF AccountInv
  <2> QED
    BY <1>4, <2>1, <2>2, <2>3 DEF OneTaskInv, BillerInv, ExactInv
<1> QED
  BY <1>5, <1>6, <1>7

\* The token follows the funding source; a recalculated task goes on to be saved.
LEMMA TokenKeeps ==
  ASSUME TypeOK, NEW t \in Guarded, OneTaskInv(t), NEW p \in Pollers, Billing(p, t), AdjustToken(p)
  PROVE  OneTaskInv(t)'
<1> DEFINE new == Repriced(mem[p][t], mem[p][t].quota + amount[p])
<1>0. t \in Tasks /\ t \notin Suno /\ cur[p] = t /\ pc[p] = "token" /\ loop[p] \in {"sweep", "poll"}
  BY DEF Guarded, Billing, TypeOK, AdjustToken
<1>1. /\ BillerInv(p, t) /\ AccountInv(t) /\ ExactInv(t)
      /\ UNCHANGED <<row, held, unpaid, unpaidTok, todo, cur, amount>>
      /\ \A q \in Pollers : q # p => pc'[q] = pc[q] /\ mem'[q] = mem[q]
  BY DEF OneTaskInv, AdjustToken, TypeOK
<1>2. \A q \in Pollers : q # p => ~ Billing(q, t)'
  BY <1>1 DEF BillerInv, Billing
<1>3. t \notin todo[p] /\ mem[p][t].status \in Terminal /\ row[t].status \in Terminal
  BY DEF OneTaskInv, BillerInv
<1>4. \A q \in Pollers : CopyInv(q, t)'
  BY <1>1, <1>3 DEF OneTaskInv, CopyInv
<1>5. mem[p][t].quota \in Int /\ amount[p] \in Int /\ mem[p][t].quota + amount[p] >= 0
  BY <1>0, <1>1 DEF TypeOK, Row, BillerInv
<1>S. Charged(t)' = Charged(t) /\ Charged(t) \in Int /\ ChargedTok(t) \in Int
  BY <1>0, <1>1, ChargedType DEF Charged
<1>6. \/ ChargedTok(t)' = ChargedTok(t) + amount[p] /\ clean' = clean
      \/ ChargedTok(t)' = ChargedTok(t) /\ Logged(t)
  <2>1. \/ tok'[t] = tok[t] + amount[p] /\ clean' = clean
        \/ tok'[t] = tok[t] /\ Logged(t)
    BY <1>0 DEF AdjustToken, TypeOK
  <2>2. tok[t] \in Int /\ unpaidTok[t] \in Int /\ unpaidTok'[t] = unpaidTok[t]
    BY <1>0, <1>1 DEF TypeOK
  <2> QED
    BY <1>5, <2>1, <2>2 DEF ChargedTok
<1>7. /\ Logged(t) => ~ clean'[t]
      /\ clean' = clean \/ Logged(t)
  BY <1>0 DEF TypeOK, AdjustToken
<1>8. \/ mem[p][t].status = "SUCCESS" /\ mem'[p][t] = new /\ pc'[p] = "save"
      \/ mem[p][t].status = "FAILURE" /\ mem' = mem /\ pc'[p] = loop[p]
  BY <1>0, <1>3 DEF AdjustToken, TypeOK, Terminal
<1>9. /\ Charged(t) = mem[p][t].quota + amount[p] /\ ChargedTok(t) = mem[p][t].quota
      /\ ChargedTok(t) >= 0 /\ Charged(t) >= 0
  BY <1>0, <1>1 DEF AccountInv
<1>10. ChargedTok(t)' >= 0
  BY <1>5, <1>6, <1>9
<1>11. MaxBulk = 0 /\ clean[t] => row[t].status = mem[p][t].status
  BY <1>1 DEF ExactInv
<1>12. clean'[t] => clean[t] /\ ChargedTok(t)' = Charged(t)
  BY <1>5, <1>6, <1>7, <1>9
<1>13. CASE mem[p][t].status = "SUCCESS" /\ mem'[p][t] = new /\ pc'[p] = "save"
  <2>1. new.status = "SUCCESS" /\ new.quota = mem[p][t].quota + amount[p]
    BY <1>13 DEF Repriced
  <2> HIDE DEF new
  <2>2. Billing(p, t)'
    BY <1>0, <1>1, <1>13 DEF Billing
  <2>3. \A q \in Pollers : BillerInv(q, t)'
    BY <1>1, <1>2, <1>3, <1>5, <1>13, <2>1, <2>2 DEF BillerInv, Terminal
  <2>4. AccountInv(t)'
    BY <1>1, <1>S, <1>2, <1>3, <1>9, <1>10, <1>13 DEF AccountInv, Active, Terminal
  <2>5. ExactInv(t)'
    BY <1>1, <1>S, <1>2, <1>9, <1>11, <1>12, <1>13, <2>1, <2>2 DEF ExactInv, BilledAsShown
  <2> QED
    BY <1>4, <2>3, <2>4, <2>5 DEF OneTaskInv
<1>14. CASE mem[p][t].status = "FAILURE" /\ mem' = mem /\ pc'[p] = loop[p]
  <2>1. \A q \in Pollers : ~ Billing(q, t)'
    BY <1>0, <1>2, <1>14 DEF Billing
  <2>2. AccountInv(t)'
    BY <1>1, <1>S, <1>3, <1>9, <1>10, <2>1 DEF AccountInv, Active, Terminal
  <2>3. Charged(t) = 0
    BY <1>1, <1>5, <1>9, <1>14 DEF BillerInv
  <2>4. ExactInv(t)'
    BY <1>1, <1>S, <1>11, <1>12, <1>14, <2>1, <2>3 DEF ExactInv, BilledAsShown
  <2> QED
    BY <1>4, <2>1, <2>2, <2>4 DEF OneTaskInv, BillerInv
<1> QED
  BY <1>8, <1>13, <1>14

\* Saving the recalculated copy shows the price that is held.
LEMMA SaveKeeps ==
  ASSUME TypeOK, NEW t \in Guarded, OneTaskInv(t), NEW p \in Pollers, Billing(p, t), SaveTask(p)
  PROVE  OneTaskInv(t)'
<1>0. t \in Tasks /\ cur[p] = t /\ pc[p] = "save" /\ loop[p] \in {"sweep", "poll"}
  BY DEF Guarded, Billing, TypeOK, SaveTask
<1>1. /\ BillerInv(p, t) /\ AccountInv(t) /\ ExactInv(t)
      /\ UNCHANGED <<held, tok, unpaid, unpaidTok, todo, mem, cur, amount>>
      /\ pc'[p] = loop[p] /\ \A q \in Pollers : q # p => pc'[q] = pc[q]
  BY DEF OneTaskInv, SaveTask, TypeOK
<1>2. \A q \in Pollers : ~ Billing(q, t)'
  BY <1>0, <1>1 DEF BillerInv, Billing
<1>3. mem[p][t].status = "SUCCESS" /\ row[t].status \in Terminal
  BY <1>0, <1>1 DEF BillerInv
<1>4. (row'[t] = mem[p][t] /\ clean' = clean) \/ (row'[t] = row[t] /\ Logged(t))
  <2>1. \/ row' = [row EXCEPT ![t] = mem[p][t]] /\ clean' = clean
        \/ Logged(t) /\ row' = row
    BY <1>0 DEF SaveTask
  <2>2. row' = [row EXCEPT ![t] = mem[p][t]] => row'[t] = mem[p][t]
    BY <1>0 DEF TypeOK
  <2> QED
    BY <2>1, <2>2
<1>5. row'[t].status \in Terminal
  BY <1>3, <1>4 DEF Terminal
<1>6. \A q \in Pollers : CopyInv(q, t)'
  BY <1>1, <1>5 DEF OneTaskInv, CopyInv, Active, Terminal
<1>S. Charged(t)' = Charged(t) /\ ChargedTok(t)' = ChargedTok(t)
  BY <1>0, <1>1, ChargedSame
<1>7. AccountInv(t)'
  BY <1>1, <1>S, <1>2, <1>5 DEF AccountInv, Active, Terminal
<1>8. ExactInv(t)'
  <2>1. CASE row'[t] = mem[p][t] /\ clean' = clean
    <3> SUFFICES ASSUME MaxBulk = 0, clean'[t] PROVE ExactInv(t)'
      BY DEF ExactInv
    <3>1. Charged(t) = mem[p][t].quota /\ ChargedTok(t) = mem[p][t].quota
      BY <1>0, <1>1, <2>1 DEF ExactInv
    <3> QED
      BY <1>1, <1>S, <1>2, <1>3, <2>1, <3>1 DEF ExactInv, BilledAsShown
  <2>2. CASE Logged(t)
    <3>1. ~ clean'[t]
      BY <1>0, <2>2 DEF TypeOK
    <3> QED
      BY <3>1 DEF ExactInv
  <2> QED
    BY <1>4, <2>1, <2>2
<1> QED
  BY <1>2, <1>6, <1>7, <1>8 DEF OneTaskInv, BillerInv

-----------------------------------------------------------------------------
(***************************************************************************)
(* The theorems                                                            *)
(***************************************************************************)

\* The invariant of all tasks, for the proof.
LEMMA TaskInvSplit == TaskInv <=> FetchInv /\ \A t \in Guarded : OneTaskInv(t)
BY DEF TaskInv, OneTaskInv

\* It holds before the first submission.
LEMMA InitInv == Init => TaskInv
<1> SUFFICES ASSUME Init PROVE TaskInv
  OBVIOUS
<1>1. FetchInv
  BY DEF Init, FetchInv
<1>2. ASSUME NEW t \in Guarded PROVE OneTaskInv(t)
  <2>1. t \in Tasks /\ row[t].status = "NONE" /\ Charged(t) = 0 /\ ChargedTok(t) = 0
    BY DEF Guarded, Init, NoRow, Charged, ChargedTok
  <2>2. \A p \in Pollers : todo[p] = {} /\ ~ Billing(p, t)
    BY DEF Init, Billing
  <2> QED
    BY <2>1, <2>2 DEF OneTaskInv, CopyInv, BillerInv, AccountInv, ExactInv, BilledAsShown, Active
<1> QED
  BY <1>1, <1>2, TaskInvSplit

\* Fetches in flight stay those of realtime channels.
LEMMA FetchStep ==
  ASSUME TypeOK, FetchInv, [Next]_vars
  PROVE  FetchInv'
<1>1. fetch' = fetch \/ \E u \in Tasks : FetchRead(u) \/ FetchWrite(u)
  <2>1. CASE UNCHANGED vars
    BY <2>1 DEF vars
  <2>2. ASSUME NEW p \in Pollers, PollerStep(p) \/ Crash(p) PROVE fetch' = fetch
    BY <2>2 DEF PollerStep, LocalStep, Crash, StartSweep, StartPoll, EndRound, Sweep, PollVideo, PollSuno, BulkFail,
                AdjustFunding, AdjustToken, SaveTask
  <2>3. ASSUME NEW u \in Tasks, Submit(u) \/ Expire(u) PROVE fetch' = fetch
    BY <2>3 DEF Submit, Expire
  <2> QED
    BY <2>1, <2>2, <2>3 DEF Next
<1>2. CASE fetch' = fetch
  BY <1>2 DEF FetchInv
<1>3. ASSUME NEW u \in Tasks, FetchRead(u) PROVE FetchInv'
  BY <1>3 DEF FetchRead, FetchInv, TypeOK
<1>4. ASSUME NEW u \in Tasks, FetchWrite(u) PROVE FetchInv'
  BY <1>4 DEF FetchWrite, FetchInv, TypeOK
<1> QED
  BY <1>1, <1>2, <1>3, <1>4

\* One guarded task, any step.
LEMMA OneTaskStep ==
  ASSUME TypeOK, FetchInv, NEW t \in Guarded, OneTaskInv(t), [Next]_vars
  PROVE  OneTaskInv(t)'
<1>1. CASE UNCHANGED vars
  <2>1. Frame(t)
    BY <1>1 DEF vars, Frame, SameRow, SameCopy, SameBiller, Billing, Charged, ChargedTok
  <2> QED
    BY <2>1, FrameKeeps
<1>2. CASE Next
  <2>1. Frame(t) \/ Touches(t)
    BY <1>2, StepCases
  <2>2. CASE Frame(t)
    BY <2>2, FrameKeeps
  <2>3. CASE Submit(t)
    BY <2>3, SubmitKeeps
  <2>4. ASSUME NEW p \in Pollers, BulkFail(p, t) PROVE OneTaskInv(t)'
    BY <2>4, BulkKeeps
  <2>5. ASSUME NEW p \in Pollers, NEW task \in Row, NEW n \in Int,
               Won(p, t, task, n), Finished(p, t, task, n)
        PROVE  OneTaskInv(t)'
    BY <2>5, WonKeeps
  <2>6. ASSUME NEW p \in Pollers, Billing(p, t), AdjustFunding(p) \/ AdjustToken(p) \/ SaveTask(p)
        PROVE  OneTaskInv(t)'
    BY <2>6, FundingKeeps, TokenKeeps, SaveKeeps
  <2> QED
    BY <2>1, <2>2, <2>3, <2>4, <2>5, <2>6 DEF Touches
<1> QED
  BY <1>1, <1>2

\* The inductive step.
LEMMA InvStep == TypeOK /\ TaskInv /\ [Next]_vars => TaskInv'
<1> SUFFICES ASSUME TypeOK, TaskInv, [Next]_vars PROVE TaskInv'
  OBVIOUS
<1>1. FetchInv /\ FetchInv'
  BY TaskInvSplit, FetchStep
<1>2. \A t \in Guarded : OneTaskInv(t)'
  BY <1>1, TaskInvSplit, OneTaskStep
<1>3. Guarded' = Guarded
  BY DEF Guarded
<1> QED
  BY <1>1, <1>2, <1>3 DEF TaskInv, OneTaskInv

\* Row, copies, billers and accounts agree in every reachable state: TaskInv is
\* inductive (together with the types).
THEOREM TaskInvariant == Spec => []TaskInv
BY InitType, InitInv, NextType, InvStep, PTL DEF Spec

\* Whatever the number of polling processes, their crashes and the database's errors,
\* the compare-and-set of sweepTimedOutTasks and updateVideoSingleTask never lets a
\* task be refunded more than the quota of its row, of which SettleBilling may have
\* failed to take a part.
THEOREM NeverRefundedTwice == Spec => []NoDoubleRefund
<1>1. TaskInv => NoDoubleRefund
  BY DEF TaskInv, AccountInv, NoDoubleRefund
<1> QED
  BY <1>1, TaskInvariant, PTL

\* As long as no channel goes missing (MaxBulk = 0: TaskBulkUpdateByID is never used),
\* a task whose billing steps all succeeded costs what its row shows.
THEOREM BilledAsItsRowShows ==
  ASSUME MaxBulk = 0
  PROVE  Spec => []TasksBilledAsShown
<1>1. TaskInv => TasksBilledAsShown
  <2> SUFFICES ASSUME TaskInv, NEW t \in Guarded PROVE BilledAsShown(t)
    BY DEF TasksBilledAsShown
  <2>1. ExactInv(t)
    BY DEF TaskInv
  <2>2. CASE clean[t]
    BY <2>1, <2>2 DEF ExactInv
  <2>3. CASE ~ clean[t]
    BY <2>3 DEF BilledAsShown
  <2> QED
    BY <2>2, <2>3
<1> QED
  BY <1>1, TaskInvariant, PTL

\* No stale copy, late poll or restart brings a finished task back: rows guarded by
\* UpdateWithStatus leave their terminal statuses never.
THEOREM FinishedForGood == Spec => TerminalStays
<1> DEFINE Stays == \A t \in Guarded : row[t].status \in Terminal => row'[t].status \in Terminal
<1>1. TypeOK /\ TaskInv /\ [Next]_vars => [Stays]_vars
  <2> SUFFICES ASSUME TypeOK, TaskInv, Next, NEW t \in Guarded, row[t].status \in Terminal
               PROVE  row'[t].status \in Terminal
    OBVIOUS
  <2>1. FetchInv /\ OneTaskInv(t) /\ t \in Tasks
    BY TaskInvSplit DEF Guarded
  <2>2. Frame(t) \/ Touches(t)
    BY <2>1, StepCases
  <2>3. CASE Frame(t)
    BY <2>3 DEF Frame, SameRow, Active, Terminal
  <2>4. CASE Submit(t)
    BY <2>4 DEF Submit, Terminal
  <2>5. ASSUME NEW p \in Pollers, BulkFail(p, t) PROVE row'[t].status \in Terminal
    BY <2>1, <2>5 DEF BulkFail, TypeOK, Moved, Terminal
  <2>6. ASSUME NEW p \in Pollers, NEW task \in Row, NEW n \in Int,
               Won(p, t, task, n), Finished(p, t, task, n)
        PROVE  row'[t].status \in Terminal
    BY <2>1, <2>6 DEF Won, Finished, TypeOK
  <2>7. ASSUME NEW p \in Pollers, Billing(p, t), AdjustFunding(p) \/ AdjustToken(p)
        PROVE  row'[t].status \in Terminal
    BY <2>7 DEF AdjustFunding, AdjustToken
  <2>8. ASSUME NEW p \in Pollers, Billing(p, t), SaveTask(p) PROVE row'[t].status \in Terminal
    <3>1. cur[p] = t /\ mem[p][t].status \in Terminal
      BY <2>1, <2>8 DEF OneTaskInv, BillerInv, Billing
    <3>2. row' = [row EXCEPT ![t] = mem[p][t]] \/ row' = row
      BY <2>8, <3>1 DEF SaveTask
    <3> QED
      BY <2>1, <3>1, <3>2 DEF TypeOK
  <2> QED
    BY <2>2, <2>3, <2>4, <2>5, <2>6, <2>7, <2>8 DEF Touches
<1> QED
  BY <1>1, TaskTypeCorrect, TaskInvariant, PTL DEF TerminalStays, Spec

-----------------------------------------------------------------------------
(***************************************************************************)
(* Suno tasks: one polling process in whose work nothing fails             *)
(***************************************************************************)

\* Errors and crashes are only counted upwards: a calm state had calm predecessors.
LEMMA CalmBefore ==
  ASSUME TypeOK, [Next]_vars, Calm'
  PROVE  Calm /\ faults' = faults /\ crashes' = crashes /\ repeats' = repeats
<1>1. /\ faults \in Nat /\ crashes \in Nat /\ repeats \in Nat
      /\ faults' = 0 /\ crashes' = 0 /\ repeats' = 0
  BY DEF TypeOK, Calm
<1> DEFINE Counted == /\ faults' \in {faults, faults + 1, faults + 2} /\ crashes' \in {crashes, crashes + 1}
                      /\ repeats' \in {repeats, repeats + 1}
<1>2. Counted
  <2>1. CASE UNCHANGED vars
    BY <2>1 DEF vars
  <2>2. ASSUME NEW p \in Pollers, PollerStep(p) \/ Crash(p)
        PROVE  Counted
    <3>1. CASE StartSweep(p) \/ StartPoll(p) \/ EndRound(p)
      BY <3>1 DEF StartSweep, StartPoll, EndRound
    <3>2. ASSUME NEW t \in Tasks, Sweep(p, t) \/ PollVideo(p, t) \/ PollSuno(p, t) \/ BulkFail(p, t)
          PROVE  Counted
      BY <3>2 DEF Sweep, PollVideo, PollSuno, BulkFail, Finish
    <3>3. CASE AdjustFunding(p) \/ AdjustToken(p) \/ SaveTask(p)
      BY <3>3 DEF AdjustFunding, AdjustToken, SaveTask
    <3>4. CASE Crash(p)
      BY <3>4 DEF Crash
    <3> QED
      BY <2>2, <3>1, <3>2, <3>3, <3>4 DEF PollerStep, LocalStep
  <2>3. ASSUME NEW t \in Tasks, Submit(t) \/ Expire(t) \/ FetchRead(t) \/ FetchWrite(t)
        PROVE  Counted
    <3>1. CASE Submit(t)
      BY <1>1, <3>1 DEF Submit
    <3>2. CASE Expire(t) \/ FetchRead(t) \/ FetchWrite(t)
      BY <3>2 DEF Expire, FetchRead, FetchWrite
    <3> QED
      BY <2>3, <3>1, <3>2
  <2> QED
    BY <2>1, <2>2, <2>3 DEF Next
<1> QED
  BY <1>1, <1>2 DEF Calm

\* What SunoInv says of a task while it matters.
SunoState(t) ==
  /\ row[t].quota >= 0 /\ Charged(t) >= 0 /\ ChargedTok(t) >= 0
  /\ \A p \in Pollers : SunoCopy(p, t) /\ SunoBiller(p, t)
  /\ Unfinished(t) /\ (\A p \in Pollers : ~ Billing(p, t)) =>
       Charged(t) = row[t].quota /\ ChargedTok(t) = row[t].quota

\* A step that leaves the row of t, its accounts, its copies and its biller alone.
SunoFrame(t) ==
  /\ row'[t] = row[t] /\ Charged(t)' = Charged(t) /\ ChargedTok(t)' = ChargedTok(t)
  /\ \A p \in Pollers :
       /\ t \in todo'[p] => \/ t \in todo[p] /\ mem'[p][t] = mem[p][t]
                            \/ Unfinished(t) /\ mem'[p][t] = row[t] /\ ~ Billing(p, t)
       /\ Billing(p, t)' <=> Billing(p, t)
       /\ Billing(p, t) => pc'[p] = pc[p] /\ amount'[p] = amount[p] /\ mem'[p][t] = mem[p][t]

\* Such a step keeps what is known of t.
LEMMA SunoFrameKeeps ==
  ASSUME NEW t \in Suno, SunoState(t), SunoFrame(t)
  PROVE  SunoState(t)'
<1>1. Unfinished(t)' <=> Unfinished(t)
  BY DEF SunoFrame, Unfinished
<1>2. ASSUME NEW p \in Pollers PROVE SunoCopy(p, t)'
  BY <1>1 DEF SunoState, SunoFrame, SunoCopy
<1>3. ASSUME NEW p \in Pollers PROVE SunoBiller(p, t)'
  BY DEF SunoState, SunoFrame, SunoBiller
<1>4. Unfinished(t)' /\ (\A p \in Pollers : ~ Billing(p, t)') =>
        Charged(t)' = row'[t].quota /\ ChargedTok(t)' = row'[t].quota
  BY <1>1 DEF SunoState, SunoFrame
<1> QED
  BY <1>2, <1>3, <1>4 DEF SunoState, SunoFrame

\* What the only polling process does with t, in the terms of SunoState.
LEMMA SunoAlone ==
  ASSUME NEW t \in Suno, NEW p \in Pollers, Calm,
         row'[t].quota >= 0, Charged(t)' >= 0, ChargedTok(t)' >= 0, SunoCopy(p, t)', SunoBiller(p, t)',
         Unfinished(t)' /\ ~ Billing(p, t)' => Charged(t)' = row'[t].quota /\ ChargedTok(t)' = row'[t].quota
  PROVE  SunoState(t)'
<1>1. \A q \in Pollers : q = p
  BY DEF Calm
<1> QED
  BY <1>1 DEF SunoState

\* The loop over todo handles t.
LEMMA SunoHandled ==
  ASSUME TypeOK, NEW t \in Suno, SunoState(t), Calm, faults' = faults, repeats' = repeats,
         NEW p \in Pollers, Sweep(p, t) \/ PollSuno(p, t) \/ BulkFail(p, t)
  PROVE  SunoState(t)'
<1>A. /\ t \in Tasks /\ pc[p] \in {"sweep", "poll"} /\ t \in todo[p] /\ ~ Billing(p, t)
      /\ UNCHANGED accounts /\ faults \in Nat /\ repeats \in Nat
  BY TaskSets DEF Sweep, PollSuno, BulkFail, Billing, TypeOK
<1>B. todo' = [todo EXCEPT ![p] = todo[p] \ {t}]
  <2>1. CASE PollSuno(p, t)
    BY <1>A, <2>1 DEF PollSuno
  <2>2. CASE Sweep(p, t) \/ BulkFail(p, t)
    BY <2>2 DEF Sweep, BulkFail
  <2> QED
    BY <2>1, <2>2
<1>0. /\ t \in Tasks /\ pc[p] \in {"sweep", "poll"} /\ t \in todo[p] /\ ~ Billing(p, t)
      /\ todo' = [todo EXCEPT ![p] = todo[p] \ {t}] /\ faults \in Nat
      /\ Charged(t)' = Charged(t) /\ ChargedTok(t)' = ChargedTok(t)
  BY <1>A, <1>B, ChargedSame
<1>1. t \notin todo'[p] /\ SunoCopy(p, t)'
  BY <1>0 DEF TypeOK, SunoCopy
<1>2. /\ Unfinished(t) /\ mem[p][t] = row[t] /\ row[t] \in Row /\ row[t].quota \in Int
      /\ row[t].quota >= 0 /\ Charged(t) >= 0 /\ ChargedTok(t) >= 0 /\ row[t].status \in Active
  BY <1>0 DEF SunoState, SunoCopy, TypeOK, Row, Unfinished
<1>3. Charged(t) = row[t].quota /\ ChargedTok(t) = row[t].quota
  <2>1. \A q \in Pollers : ~ Billing(q, t)
    BY <1>0 DEF Calm
  <2> QED
    BY <1>2, <2>1 DEF SunoState
<1>4. ASSUME NEW task, task.quota = row[t].quota, task.complete, task.status # "NONE",
             Bill(p, t, task, -row[t].quota), row'[t] \in {row[t], task}
      PROVE  SunoState(t)'
  <2>1. /\ pc'[p] = "fund" /\ cur'[p] = t /\ amount'[p] = -row[t].quota /\ mem'[p][t] = task
    BY <1>0, <1>4 DEF Bill, TypeOK
  <2>2. Billing(p, t)' /\ row'[t].quota = row[t].quota /\ row'[t].status # "NONE"
    BY <1>2, <1>4, <2>1 DEF Billing, Active
  <2>3. SunoBiller(p, t)'
    BY <1>0, <1>1, <1>3, <1>4, <2>1, <2>2 DEF SunoBiller
  <2> QED
    BY <1>0, <1>1, <1>2, <2>2, <2>3, SunoAlone
<1>5. ASSUME row'[t].quota = row[t].quota, row'[t] = row[t] \/ row'[t].complete, NoBilling
      PROVE  SunoState(t)'
  <2>1. ~ Billing(p, t)'
    BY <1>0, <1>5 DEF Billing
  <2>2. SunoBiller(p, t)'
    BY <2>1 DEF SunoBiller
  <2>3. Unfinished(t)' => Charged(t)' = row'[t].quota /\ ChargedTok(t)' = row'[t].quota
    BY <1>0, <1>3, <1>5 DEF Unfinished
  <2> QED
    BY <1>0, <1>1, <1>2, <1>5, <2>1, <2>2, <2>3, SunoAlone
<1>F. ~ Fault
  BY <1>0
<1>6. CASE Sweep(p, t)
  <2> DEFINE task == Moved(mem[p][t], "FAILURE", TRUE)
  <2>1. /\ task.quota = row[t].quota /\ task.complete /\ task.status = "FAILURE"
    BY <1>2 DEF Moved
  <2> HIDE DEF task
  <2>2. /\ UpdateWithStatus(t, task, mem[p][t].status)
        /\ Bill(p, t, task, -mem[p][t].quota) \/ NoBilling
    <3> HIDE DEF Fault
    <3>1. Finish(p, t, task, -mem[p][t].quota)
      BY <1>6 DEF Sweep, task
    <3>2. /\ UpdateWithStatus(t, task, mem[p][t].status)
          /\ IF StatusMatches(t, mem[p][t].status) /\ -mem[p][t].quota # 0
               THEN Bill(p, t, task, -mem[p][t].quota) ELSE NoBilling
      BY <1>F, <3>1, Zenon DEF Finish
    <3>3. CASE StatusMatches(t, mem[p][t].status) /\ -mem[p][t].quota # 0
      BY <3>2, <3>3
    <3>4. CASE ~ (StatusMatches(t, mem[p][t].status) /\ -mem[p][t].quota # 0)
      BY <3>2, <3>4
    <3> QED
      BY <3>2, <3>3, <3>4
  <2>3. row'[t] = task
    BY <1>0, <1>2, <2>2 DEF UpdateWithStatus, StatusMatches, TypeOK
  <2> QED
    BY <1>2, <1>4, <1>5, <2>1, <2>2, <2>3
<1>7. CASE BulkFail(p, t)
  <2>1. row' = [row EXCEPT ![t] = Moved(row[t], "FAILURE", TRUE)] /\ UNCHANGED <<pc, mem, cur, amount>>
    <3> HIDE DEF Fault
    <3> QED
      BY <1>F, <1>7 DEF BulkFail
  <2>2. row'[t].quota = row[t].quota /\ row'[t].complete
    BY <1>0, <2>1 DEF TypeOK, Moved
  <2> QED
    BY <1>5, <2>1, <2>2
<1>8. CASE PollSuno(p, t)
  <2>1. CASE NoBilling
    BY <1>5, <1>8, <2>1 DEF PollSuno
  <2>2. CASE ~ NoBilling
    <3>1. PICK status \in Active \cup Terminal, failing \in BOOLEAN :
            LET failed == failing \/ status = "FAILURE"
                task   == Moved(mem[p][t], status, mem[p][t].complete \/ failed \/ status = "SUCCESS")
            IN
            \/ failed /\ task.quota # 0 /\ Bill(p, t, task, -task.quota)
            \/ /\ ~ failed \/ task.quota = 0
               /\ mem' = [mem EXCEPT ![p][t] = task] /\ cur' = [cur EXCEPT ![p] = t]
               /\ Goto(p, "save") /\ UNCHANGED amount
      BY <1>8, <2>2 DEF PollSuno
    <3> DEFINE failed == failing \/ status = "FAILURE"
               task   == Moved(mem[p][t], status, mem[p][t].complete \/ failed \/ status = "SUCCESS")
    <3>2. /\ task.quota = row[t].quota /\ (failed => task.complete)
          /\ task.status = status /\ status # "NONE" /\ row' = row
      BY <1>2, <1>8 DEF Moved, PollSuno, Active, Terminal
    <3>3. CASE failed /\ Bill(p, t, task, -task.quota)
      <4> HIDE DEF task, failed
      <4>1. /\ task.quota = row[t].quota /\ task.complete /\ task.status # "NONE"
            /\ row'[t] \in {row[t], task}
        BY <3>2, <3>3
      <4>2. Bill(p, t, task, -row[t].quota)
        BY <3>2, <3>3
      <4> QED
        BY <1>4, <4>1, <4>2
    <3>4. CASE mem' = [mem EXCEPT ![p][t] = task] /\ cur' = [cur EXCEPT ![p] = t] /\ Goto(p, "save")
      <4> HIDE DEF task, failed
      <4>1. mem'[p][t] = task /\ cur'[p] = t /\ pc'[p] = "save"
        BY <1>0, <3>4 DEF TypeOK
      <4>2. Billing(p, t)' /\ row'[t] = row[t] /\ row[t].status # "NONE"
        BY <1>2, <3>2, <4>1 DEF Billing, Active
      <4>3. /\ t \notin todo'[p] /\ row'[t].status # "NONE" /\ mem'[p][t].quota = row'[t].quota
            /\ pc'[p] = "save" /\ Charged(t)' = row'[t].quota /\ ChargedTok(t)' = row'[t].quota
        BY <1>0, <1>1, <1>3, <3>2, <4>1, <4>2
      <4>4. SunoBiller(p, t)'
        BY <4>3 DEF SunoBiller
      <4> QED
        BY <1>0, <1>1, <1>2, <4>2, <4>4, SunoAlone
    <3> QED
      BY <3>1, <3>3, <3>4
  <2> QED
    BY <2>1, <2>2
<1> QED
  BY <1>6, <1>7, <1>8

\* The refund of t, and the save of its row.
LEMMA SunoBilled ==
  ASSUME TypeOK, NEW t \in Suno, SunoState(t), Calm, faults' = faults, NEW p \in Pollers, cur[p] = t,
         AdjustFunding(p) \/ AdjustToken(p) \/ SaveTask(p)
  PROVE  SunoState(t)'
<1>0. /\ t \in Tasks /\ Billing(p, t) /\ faults \in Nat /\ UNCHANGED <<todo, cur, amount, loop>>
      /\ UNCHANGED <<unpaid, unpaidTok>> /\ unpaid[t] \in Int /\ unpaidTok[t] \in Int
      /\ row[t].quota \in Int /\ amount[p] \in Int /\ held[t] \in Int /\ tok[t] \in Int
      /\ loop[p] \in {"sweep", "poll"}
  BY TaskSets DEF AdjustFunding, AdjustToken, SaveTask, Billing, TypeOK, Row
<1>1. /\ t \notin todo[p] /\ row[t].status # "NONE" /\ mem[p][t].quota = row[t].quota
      /\ pc[p] # "save" => mem[p][t].complete /\ amount[p] = -row[t].quota /\ ChargedTok(t) = row[t].quota
      /\ pc[p] = "fund" => Charged(t) = row[t].quota
      /\ pc[p] = "save" => mem[p][t].complete \/ (Charged(t) = row[t].quota /\ ChargedTok(t) = row[t].quota)
      /\ row[t].quota >= 0 /\ Charged(t) >= 0 /\ ChargedTok(t) >= 0
  BY <1>0 DEF SunoState, SunoBiller
<1>2. SunoCopy(p, t)'
  BY <1>0, <1>1 DEF SunoCopy
<1>3. CASE AdjustFunding(p)
  <2>1. ~ (amount[p] > 0) /\ pc[p] = "fund"
    BY <1>0, <1>1, <1>3 DEF AdjustFunding
  <2>2. /\ held' = [held EXCEPT ![t] = held[t] + amount[p]] /\ pc' = [pc EXCEPT ![p] = "token"]
        /\ UNCHANGED <<row, tok, mem>>
    BY <1>0, <1>3, <2>1 DEF AdjustFunding
  <2>3. Charged(t)' = 0 /\ pc'[p] = "token" /\ ChargedTok(t)' = ChargedTok(t)
    <3>1. held'[t] = held[t] - row[t].quota /\ pc'[p] = "token"
      BY <1>0, <1>1, <2>1, <2>2 DEF TypeOK
    <3>2. held[t] + unpaid[t] = row[t].quota
      BY <1>1, <2>1 DEF Charged
    <3> QED
      BY <1>0, <2>2, <3>1, <3>2 DEF Charged, ChargedTok
  <2>4. Billing(p, t)'
    BY <1>0, <2>3 DEF Billing
  <2>5. SunoBiller(p, t)'
    BY <1>0, <1>1, <2>1, <2>2, <2>3 DEF SunoBiller
  <2> QED
    BY <1>1, <1>2, <2>2, <2>3, <2>4, <2>5, SunoAlone
<1>4. CASE AdjustToken(p)
  <2>1. /\ pc[p] = "token" /\ tok' = [tok EXCEPT ![t] = tok[t] + amount[p]]
        /\ pc' = [pc EXCEPT ![p] = "save"] /\ UNCHANGED <<row, held, mem>>
    BY <1>0, <1>4 DEF AdjustToken
  <2>2. ChargedTok(t)' = 0 /\ pc'[p] = "save" /\ Charged(t)' = Charged(t)
    <3>1. tok'[t] = tok[t] - row[t].quota /\ pc'[p] = "save"
      BY <1>0, <1>1, <2>1 DEF TypeOK
    <3>2. tok[t] + unpaidTok[t] = row[t].quota
      BY <1>1, <2>1 DEF ChargedTok
    <3> QED
      BY <1>0, <2>1, <3>1, <3>2 DEF Charged, ChargedTok
  <2>3. Billing(p, t)'
    BY <1>0, <2>2 DEF Billing
  <2>4. SunoBiller(p, t)'
    BY <1>0, <1>1, <2>1, <2>2 DEF SunoBiller
  <2> QED
    BY <1>1, <1>2, <2>1, <2>2, <2>3, <2>4, SunoAlone
<1>5. CASE SaveTask(p)
  <2>1. /\ pc[p] = "save" /\ row' = [row EXCEPT ![t] = mem[p][t]]
        /\ pc' = [pc EXCEPT ![p] = loop[p]] /\ UNCHANGED <<held, tok>>
    BY <1>0, <1>5 DEF SaveTask
  <2>2. /\ row'[t] = mem[p][t] /\ pc'[p] \in {"sweep", "poll"}
        /\ Charged(t)' = Charged(t) /\ ChargedTok(t)' = ChargedTok(t)
    BY <1>0, <2>1, ChargedSame DEF TypeOK
  <2>3. ~ Billing(p, t)' /\ SunoBiller(p, t)'
    BY <2>2 DEF Billing, SunoBiller
  <2>4. Unfinished(t)' => Charged(t)' = row'[t].quota /\ ChargedTok(t)' = row'[t].quota
    BY <1>1, <2>1, <2>2 DEF Unfinished
  <2> QED
    BY <1>1, <1>2, <2>1, <2>2, <2>3, <2>4, SunoAlone
<1> QED
  BY <1>3, <1>4, <1>5

\* Steps of the only polling process that do not handle or bill t.
LEMMA SunoOther ==
  ASSUME TypeOK, NEW t \in Suno, SunoState(t), Calm, NEW p \in Pollers, PollerStep(p),
         ~ (Sweep(p, t) \/ PollSuno(p, t) \/ BulkFail(p, t)),
         AdjustFunding(p) \/ AdjustToken(p) \/ SaveTask(p) => cur[p] # t
  PROVE  SunoFrame(t)
<1>0. t \in Tasks /\ \A q \in Pollers : q = p
  BY TaskSets DEF Calm
<1>1. ASSUME row'[t] = row[t], held'[t] = held[t], tok'[t] = tok[t],
             unpaid'[t] = unpaid[t], unpaidTok'[t] = unpaidTok[t],
             ~ Billing(p, t), ~ Billing(p, t)',
             t \in todo'[p] => \/ t \in todo[p] /\ mem'[p][t] = mem[p][t]
                               \/ Unfinished(t) /\ mem'[p][t] = row[t]
      PROVE  SunoFrame(t)
  BY <1>0, <1>1, ChargedSame DEF SunoFrame
<1>2. CASE StartSweep(p) \/ StartPoll(p)
  <2>1. UNCHANGED <<row, accounts>> /\ pc[p] \in {"idle", "sweep"} /\ pc'[p] \in {"sweep", "poll"}
    BY <1>2 DEF StartSweep, StartPoll, TypeOK
  <2>2. mem'[p] = row /\ \A u \in todo'[p] : Unfinished(u)
    BY <1>2 DEF StartSweep, StartPoll, TypeOK
  <2> QED
    BY <1>1, <2>1, <2>2 DEF Billing
<1>3. CASE EndRound(p)
  <2>1. UNCHANGED <<row, accounts, todo>> /\ pc[p] = "poll" /\ pc'[p] = "idle" /\ todo[p] = {}
    BY <1>3 DEF EndRound, TypeOK
  <2> QED
    BY <1>1, <2>1 DEF Billing
<1>4. ASSUME NEW u \in Tasks, Sweep(p, u) \/ PollVideo(p, u) \/ PollSuno(p, u) \/ BulkFail(p, u)
      PROVE  SunoFrame(t)
  <2>0. u # t
    BY <1>4 DEF PollVideo
  <2>1. u # t /\ pc[p] \in {"sweep", "poll"} /\ UNCHANGED accounts
    BY <1>4, <2>0 DEF PollVideo, Sweep, PollSuno, BulkFail
  <2>2. todo' = [todo EXCEPT ![p] = todo[p] \ {u}] \/ todo' = todo
    <3>1. CASE Sweep(p, u)
      BY <3>1 DEF Sweep
    <3>2. CASE PollVideo(p, u)
      BY <3>2 DEF PollVideo
    <3>3. CASE PollSuno(p, u)
      BY <3>3 DEF PollSuno
    <3>4. CASE BulkFail(p, u)
      BY <3>4 DEF BulkFail
    <3> QED
      BY <1>4, <3>1, <3>2, <3>3, <3>4
  <2>3. row' = row \/ \E task : row' = [row EXCEPT ![u] = task]
    BY <1>4 DEF PollVideo, Sweep, PollSuno, BulkFail, Finish, UpdateWithStatus
  <2>4. \/ UNCHANGED <<pc, mem, cur>>
        \/ \E task : cur' = [cur EXCEPT ![p] = u] /\ mem' = [mem EXCEPT ![p][u] = task]
    <3>1. CASE Sweep(p, u)
      BY <3>1 DEF Sweep, Finish, Bill
    <3>2. CASE PollVideo(p, u)
      BY <3>2 DEF PollVideo, Finish, Bill
    <3>3. CASE PollSuno(p, u)
      BY <3>3 DEF PollSuno, Bill
    <3>4. CASE BulkFail(p, u)
      BY <3>4 DEF BulkFail
    <3> QED
      BY <1>4, <3>1, <3>2, <3>3, <3>4
  <2>5. row'[t] = row[t] /\ (t \in todo'[p] => t \in todo[p])
    BY <1>0, <2>1, <2>2, <2>3 DEF TypeOK
  <2>6. mem'[p][t] = mem[p][t] /\ ~ Billing(p, t) /\ ~ Billing(p, t)'
    BY <1>0, <2>1, <2>4 DEF TypeOK, Billing
  <2> QED
    BY <1>1, <2>1, <2>5, <2>6
<1>5. CASE AdjustFunding(p) \/ AdjustToken(p) \/ SaveTask(p)
  <2>1. cur[p] # t /\ cur[p] \in Tasks /\ UNCHANGED <<unpaid, unpaidTok, todo, cur>>
    BY <1>5 DEF TypeOK, AdjustFunding, AdjustToken, SaveTask
  <2>2. row'[t] = row[t] /\ held'[t] = held[t] /\ tok'[t] = tok[t] /\ mem'[p][t] = mem[p][t]
    <3>1. CASE AdjustFunding(p)
      BY <1>0, <2>1, <3>1 DEF AdjustFunding, TypeOK
    <3>2. CASE AdjustToken(p)
      BY <1>0, <2>1, <3>2 DEF AdjustToken, TypeOK
    <3>3. CASE SaveTask(p)
      BY <1>0, <2>1, <3>3 DEF SaveTask, TypeOK
    <3> QED
      BY <1>5, <3>1, <3>2, <3>3
  <2> QED
    BY <1>1, <2>1, <2>2 DEF Billing
<1> QED
  BY <1>2, <1>3, <1>4, <1>5 DEF PollerStep, LocalStep

\* Submission, time and the fetches of users.
LEMMA SunoUsers ==
  ASSUME TypeOK, FetchInv, NEW t \in Suno, SunoState(t), Calm, faults' = faults,
         NEW u \in Tasks, Submit(u) \/ Expire(u) \/ FetchRead(u) \/ FetchWrite(u)
  PROVE  SunoState(t)'
<1>0. t \in Tasks /\ t \notin Realtime /\ UNCHANGED poller /\ faults \in Nat
  BY TaskSets DEF Submit, Expire, FetchRead, FetchWrite, TypeOK
<1>1. ASSUME row'[t] = row[t], Charged(t)' = Charged(t), ChargedTok(t)' = ChargedTok(t) PROVE SunoState(t)'
  <2>1. SunoFrame(t)
    BY <1>0, <1>1 DEF SunoFrame, Billing
  <2> QED
    BY <2>1, SunoFrameKeeps
<1>2. CASE Expire(u) \/ FetchRead(u)
  BY <1>0, <1>1, <1>2, ChargedSame DEF Expire, FetchRead
<1>3. CASE FetchWrite(u)
  <2>1. u # t /\ UNCHANGED accounts
    BY <1>0, <1>3 DEF FetchWrite, FetchInv
  <2>2. row' = row \/ \E task : row' = [row EXCEPT ![u] = task]
    BY <1>3 DEF FetchWrite, UpdateWithStatus
  <2>3. row'[t] = row[t]
    BY <1>0, <2>1, <2>2 DEF TypeOK
  <2> QED
    BY <1>0, <1>1, <2>1, <2>3, ChargedSame
<1>4. CASE Submit(u) /\ u # t
  BY <1>0, <1>1, <1>4, SubmitOther
<1>5. CASE Submit(t)
  <2>1. PICK quota \in Nat, stored \in BOOLEAN :
          /\ Charged(t)' = quota /\ ChargedTok(t)' = quota
          /\ stored => row'[t].status = "NOT_START" /\ row'[t].quota = quota
          /\ ~ stored => row'[t] = row[t] /\ faults' # 0
    BY <1>0, <1>5, SubmitSelf
  <2>2. row[t].status = "NONE" /\ stored
    BY <1>5, <2>1 DEF Submit, Calm
  <2>5. \A p \in Pollers : t \notin todo[p] /\ ~ Billing(p, t)
    BY <2>2 DEF SunoState, SunoCopy, SunoBiller, Unfinished, Active
  <2>6. \A p \in Pollers : SunoCopy(p, t)' /\ SunoBiller(p, t)'
    BY <1>0, <2>5 DEF SunoCopy, SunoBiller, Billing
  <2> QED
    BY <2>1, <2>2, <2>6 DEF SunoState
<1> QED
  BY <1>2, <1>3, <1>4, <1>5

AllSuno == \A t \in Suno : SunoInv(t)

\* The invariant of the Suno tasks is inductive.
LEMMA SunoStep == TypeOK /\ FetchInv /\ AllSuno /\ [Next]_vars => AllSuno'
<1> SUFFICES ASSUME TypeOK, FetchInv, AllSuno, [Next]_vars, NEW t \in Suno, Calm'
             PROVE  SunoState(t)'
  BY DEF AllSuno, SunoInv, SunoState
<1>0. t \in Tasks /\ Calm /\ faults' = faults /\ repeats' = repeats /\ crashes' = crashes /\ crashes \in Nat
  BY CalmBefore, TaskSets DEF TypeOK
<1>1. SunoState(t)
  BY <1>0 DEF AllSuno, SunoInv, SunoState
<1>2. CASE UNCHANGED vars
  <2>1. SunoFrame(t)
    BY <1>2 DEF SunoFrame, Billing, vars, Charged, ChargedTok
  <2> QED
    BY <1>1, <2>1, SunoFrameKeeps
<1>3. ASSUME NEW p \in Pollers, PollerStep(p) PROVE SunoState(t)'
  BY <1>0, <1>1, <1>3, SunoHandled, SunoBilled, SunoOther, SunoFrameKeeps
<1>4. ASSUME NEW p \in Pollers PROVE ~ Crash(p)
  BY <1>0 DEF Crash
<1>5. ASSUME NEW u \in Tasks, Submit(u) \/ Expire(u) \/ FetchRead(u) \/ FetchWrite(u)
      PROVE  SunoState(t)'
  BY <1>0, <1>1, <1>5, SunoUsers
<1> QED
  BY <1>2, <1>3, <1>4, <1>5 DEF Next

\* A single polling process in whose work nothing fails, that does not crash and that no
\* answer tells of a task twice never refunds a Suno task twice, although updateSunoTasks
\* refunds first and saves the whole row afterwards, without a compare-and-set.
THEOREM SunoNotRefundedTwice == Spec => []SunoRefundedOnce
<1>1. Init => AllSuno
  <2> SUFFICES ASSUME Init, NEW t \in Suno PROVE SunoInv(t)
    BY DEF AllSuno
  <2>1. t \in Tasks /\ row[t] = NoRow /\ Charged(t) = 0 /\ ChargedTok(t) = 0
    BY TaskSets DEF Init, Charged, ChargedTok
  <2>2. \A p \in Pollers : todo[p] = {} /\ ~ Billing(p, t)
    BY DEF Init, Billing
  <2> QED
    BY <2>1, <2>2 DEF SunoInv, SunoCopy, SunoBiller, Unfinished, NoRow, Active
<1>2. TaskInv => FetchInv
  BY DEF TaskInv
<1>3. AllSuno => SunoRefundedOnce
  BY DEF AllSuno, SunoInv, SunoRefundedOnce
<1> QED
  BY <1>1, <1>2, <1>3, SunoStep, TaskTypeCorrect, TaskInvariant, PTL DEF Spec

=============================================================================
