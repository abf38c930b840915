--------------------------- MODULE BillingContract ---------------------------
(***************************************************************************)
(* What BillingSession promises for each request, without its mechanism.   *)
(* While a request is open, its funding source and its token may hold any  *)
(* non-negative amount.  It closes once, and then both have paid the same  *)
(* price (a playground request pays nothing from the token), unless a      *)
(* database error had to be left to the log.  Closed accounts never move.  *)
(***************************************************************************)
EXTENDS Integers

CONSTANTS Requests, Prices

VARIABLES outcome, fund, token

contractVars == <<outcome, fund, token>>

Init ==
  /\ outcome = [r \in Requests |-> "open"]
  /\ fund = [r \in Requests |-> 0] /\ token = [r \in Requests |-> 0]

\* The account of r, and no other account, changes.
Account(r, o) ==
  /\ outcome[r] = "open"
  /\ outcome' = [outcome EXCEPT ![r] = o]
  /\ fund' = [fund EXCEPT ![r] = fund'[r]]
  /\ token' = [token EXCEPT ![r] = token'[r]]
  /\ fund'[r] >= 0 /\ token'[r] >= 0

Hold(r) == Account(r, "open")

Close(r) ==
  /\ Account(r, "closed")
  /\ fund'[r] \in Prices
  /\ token'[r] \in {0, fund'[r]}

LeaveToLog(r) == Account(r, "unreconciled")

Next == \E r \in Requests : Hold(r) \/ Close(r) \/ LeaveToLog(r)

Spec == Init /\ [][Next]_contractVars

==============================================================================
