------------------------------ MODULE MCTopUp ------------------------------
(* TopUp for TLC: every provider, one order, two handlers at a time. *)
EXTENDS TopUp
=============================================================================
