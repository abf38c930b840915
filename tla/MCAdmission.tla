---------------------------- MODULE MCAdmission ----------------------------
(***************************************************************************)
(* Admission for TLC: r1, r2 and r3 are compact requests of one prompt     *)
(* cache key on the process n1, where a slot is handed from one to the     *)
(* next; r4 has no key and no token and is sent to n1, where it meets them *)
(* in the counters and on the channels, or to n2, where it meets them in   *)
(* Redis. Channel 1 is limited in total, channel 2 per user.               *)
(***************************************************************************)
EXTENDS Admission, TLC

CONSTANTS r1, r2, r3, r4, n1, n2, u1, k1, user, token0

FourRequests == {r1, r2, r3, r4}
MCServing == [r \in Requests |-> IF r = r4 THEN {n1, n2} ELSE {n1}]
MCUserOf == [r \in Requests |-> u1]
MCKeyOf == [r \in Requests |-> IF r = r4 THEN NoKey ELSE k1]
MCClaims == (r1 :> {user}) @@ (r2 :> {user}) @@ (r3 :> {}) @@ (r4 :> {user, token0})
MCLimit == (user :> 1) @@ (token0 :> 1)
MCChannelLimit == <<1, 2>>
MCUserChannelLimit == <<2, 1>>
MCAttempts == [r \in Requests |-> IF r = r4 THEN 2 ELSE 1]

\* r1 and r2 differ in nothing: it is enough that r1 arrives first.
InOrder == pc[r2] # "new" => pc[r1] # "new"
=============================================================================
