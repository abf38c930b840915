---------------------------- MODULE MCPlayground ----------------------------
(* Instance of Playground for TLC.                                           *)
EXTENDS Playground

(* Bound: once the page is astray, a further submit that waits for its files *)
(* and a failed save are not followed.                                       *)
OneRace == astray => pressed = <<>> /\ saveFailures = 0
=============================================================================
