-------------------------- MODULE MCBillingSession --------------------------
(***************************************************************************)
(* BillingSession for TLC: requests of one user over one wallet, one token *)
(* and one or two subscriptions.                                           *)
(***************************************************************************)
EXTENDS BillingSession, TLC

CONSTANTS r1, r2

\* A profile as a constructor, so that configurations of requests stay readable.
P(pref, pre, playground, unlimited, force) ==
  [pref |-> pref, pre |-> pre, playground |-> playground,
   unlimited |-> unlimited, force |-> force, free |-> FALSE]

\* A request whose first group is free: billing starts, if at all, inside the relay loop.
FreeAtFirst(pref) == [P(pref, 0, FALSE, FALSE, FALSE) EXCEPT !.free = TRUE]

MCRequests == {r1, r2}
Symmetry == Permutations(MCRequests)

OneSub == {1}
TwoSubs == {1, 2}
TotalOf6 == [s \in OneSub |-> 6]
TotalOf3 == [s \in OneSub |-> 3]
TotalsOf3And4 == [s \in TwoSubs |-> IF s = 1 THEN 3 ELSE 4]

\* Requests over shared rows: wallet requests (an ordinary one, a playground one
\* that is never trusted, one whose estimate is zero) and one that may fall back from
\* the subscription to the wallet.
SharedProfiles ==
  {P("wallet_only", 3, FALSE, FALSE, FALSE), P("wallet_only", 3, TRUE, FALSE, TRUE),
   P("subscription_first", 3, FALSE, FALSE, FALSE),
   P("subscription_only", 0, FALSE, TRUE, FALSE), FreeAtFirst("wallet_first")}

SubscriptionProfiles == {P("subscription_only", 2, FALSE, TRUE, FALSE)}

ContractProfiles ==
  {P("subscription_first", 2, FALSE, FALSE, FALSE), P("wallet_first", 2, TRUE, FALSE, FALSE)}

\* The open transactions whose rows have changed since they read them.
Stale(copies) == \E c \in copies : c.used # amountUsed \/ c.active # subActive \/ c.reset # lastReset

StaleTransactions ==
  {<<"relay", r>> : r \in {q \in Requests : Stale(seen[q])}}
  \cup {<<"refund", r>> : r \in {q \in Requests : Stale(bgSeen[q])}}
  \cup {<<"reset", s>> : s \in {t \in Subs : Stale(resetSeen[t])}}

\* Rows change under one open transaction at a time, and no more once a save has overwritten
\* such a change (history variable lost).
OneOverwrite ==
  Cardinality(StaleTransactions) <= IF \E s \in Subs : lost[s] THEN 0 ELSE 1

=============================================================================
