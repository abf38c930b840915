---------------------------- MODULE MCQuotaStore ----------------------------
(* QuotaStore for TLC: two callers and two goroutines, deltas of both signs. *)
EXTENDS QuotaStore

PlusMinusOne == {-1, 1}
=============================================================================
