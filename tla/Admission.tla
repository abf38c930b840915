----------------------------- MODULE Admission -----------------------------
(***************************************************************************)
(* The concurrency limits a relay request passes before it reaches an      *)
(* upstream, in the order the router installs them:                        *)
(*                                                                         *)
(*   PromptCacheKeyConcurrencyLimit   one buffered channel of KeyLimit     *)
(*       slots per prompt-cache key and process, kept in a reference-      *)
(*       counted map (middleware/model-request-isolation.go);              *)
(*   ModelRequestConcurrencyLimit     user, token and large-body counters  *)
(*       in Redis, or in the process when Redis does not answer (same      *)
(*       file);                                                            *)
(*   the relay loop                   active requests per channel, and per *)
(*       user of a channel, in a tracker of the process                    *)
(*       (service/channel_active_users.go, controller/relay.go).           *)
(*                                                                         *)
(* A request is one goroutine; the state each limiter guards by a mutex or *)
(* by one Lua script changes in one step.                                  *)
(***************************************************************************)
EXTENDS Integers, FiniteSets

CONSTANTS
    Requests, Nodes, Keys, Counters, Channels, Users,
    NoKey, None,
    Serving,            \* the processes a request may be sent to
    UserOf,             \* the user that sent it
    KeyOf,              \* its prompt-cache key, or NoKey
    Claims,             \* the counters with a positive limit that apply to it
    RedisOnly,          \* the token counter of requests without a token (id 0),
                        \* which the fallback does not keep
    Limit,              \* the limit of a counter
    KeyLimit,           \* ModelRequestMaxConcurrencyPerPromptCacheKey
    ChannelLimit,       \* EffectiveMaxConcurrency of a channel
    UserChannelLimit,   \* EffectiveMaxConcurrencyPerUser of a channel
    Attempts,           \* the attempt budget of a request (1 unless Auto)
    MaxTroubles         \* bound: Redis outages, commands sent twice, expired
                        \* leases, crashes of a process, panics and clients
                        \* that disconnect

ASSUME AdmissionAssumption ==
    /\ IsFiniteSet(Requests)
    /\ Serving \in [Requests -> SUBSET Nodes]
    /\ UserOf \in [Requests -> Users]
    /\ KeyOf \in [Requests -> Keys \cup {NoKey}] /\ NoKey \notin Keys
    /\ Claims \in [Requests -> SUBSET Counters]
    /\ RedisOnly \subseteq Counters
    /\ Limit \in [Counters -> Nat \ {0}]
    /\ KeyLimit \in Nat \ {0}
    /\ ChannelLimit \in [Channels -> Nat \ {0}]
    /\ UserChannelLimit \in [Channels -> Nat \ {0}]
    /\ Attempts \in [Requests -> Nat \ {0}]
    /\ None \notin Requests /\ None \notin Channels
    /\ MaxTroubles \in Nat

VARIABLES
    nodeOf,     \* the process the load balancer sends a request to
    pc,         \* where a request stands
    cancelled,  \* the client is gone: c.Request.Context() is done
    entries,    \* promptCacheKeyLimiter.entries of a process; an entry is
                \* named after the request that made it
    refs,       \* entry.refs
    slots,      \* len(entry.slots)
    mine,       \* the entry a request's acquire holds on to
    up,         \* Redis answers in time
    redis,      \* the counters in Redis
    local,      \* activeModelRequestLimiter of a process
    holds,      \* which of the two admitted a request; "again": its release
                \* script has run and is sent once more
    active,     \* activeByChannel of a process
    users,      \* usersByChannel of a process
    on,         \* the channel a request occupies
    panicked,   \* history: a panic took the request out of the relay loop
                \* between begin and the deferred end
    excluded,   \* the channels this request no longer selects
    used,       \* relayAttemptBudget.used
    leaked,     \* history: counts in Redis whose request will not return them
    lapsed,     \* history: a counter fell under its holders, as its lease ran
                \* out or a release script ran twice
    troubles    \* how many things went wrong

keyVars     == <<entries, refs, slots, mine>>
counterVars == <<up, redis, local, holds, leaked, lapsed>>
channelVars == <<active, users, on, panicked>>
routeVars   == <<excluded, used>>
vars == <<nodeOf, pc, cancelled, keyVars, counterVars, channelVars, routeVars, troubles>>

Places == {"new", "slot", "keyed", "local", "route", "held", "use",
           "leave", "unkey", "drop", "gone"}

Init ==
    /\ nodeOf \in [Requests -> Nodes]
    /\ \A r \in Requests : nodeOf[r] \in Serving[r]
    /\ pc = [r \in Requests |-> "new"]
    /\ cancelled = [r \in Requests |-> FALSE]
    /\ entries = [n \in Nodes |-> [k \in Keys |-> None]]
    /\ refs = [e \in Requests |-> 0]
    /\ slots = [e \in Requests |-> 0]
    /\ mine = [r \in Requests |-> None]
    /\ up = TRUE
    /\ redis = [c \in Counters |-> 0]
    /\ local = [n \in Nodes |-> [c \in Counters |-> 0]]
    /\ holds = [r \in Requests |-> "none"]
    /\ active = [n \in Nodes |-> [ch \in Channels |-> 0]]
    /\ users = [n \in Nodes |-> [ch \in Channels |-> [u \in Users |-> 0]]]
    /\ on = [r \in Requests |-> None]
    /\ panicked = {}
    /\ excluded = [r \in Requests |-> {}]
    /\ used = [r \in Requests |-> 0]
    /\ leaked = [c \in Counters |-> 0]
    /\ lapsed = [c \in Counters |-> FALSE]
    /\ troubles = 0

At(r, place) == pc[r] = place
Go(r, place) == pc' = [pc EXCEPT ![r] = place]

Trouble == troubles < MaxTroubles /\ troubles' = troubles + 1

\* The context of a request and the variables of its relay loop die with it.
ForgetContext(r) == cancelled' = [cancelled EXCEPT ![r] = FALSE]
ForgetRoute(r) ==
    /\ excluded' = [excluded EXCEPT ![r] = {}]
    /\ used' = [used EXCEPT ![r] = 0]

Goes(r, places) == \E place \in places : Go(r, place)

-----------------------------------------------------------------------------
(* The prompt-cache key limiter *)

\* Requests without a key pass the middleware untouched. One whose body cannot
\* be read is answered before it touches any limiter: it never arrives here.
NoKeyNeeded(r) ==
    /\ At(r, "new") /\ KeyOf[r] = NoKey
    /\ Go(r, "keyed")
    /\ UNCHANGED <<cancelled, keyVars, counterVars, channelVars, routeVars, troubles>>

\* acquire, under the mutex: find or make the entry and count the reference.
KeyEnter(r) ==
    LET n == nodeOf[r]  k == KeyOf[r]
        e == IF entries[n][k] = None THEN r ELSE entries[n][k]
    IN  /\ At(r, "new") /\ KeyOf[r] \in Keys
        /\ entries' = [entries EXCEPT ![n][k] = e]
        /\ refs' = [refs EXCEPT ![e] = @ + 1]
        /\ mine' = [mine EXCEPT ![r] = e]
        /\ Go(r, "slot")
        /\ UNCHANGED <<cancelled, slots, counterVars, channelVars, routeVars, troubles>>

\* case entry.slots <- struct{}{}: a cancelled request gives the slot back.
KeySlot(r) ==
    /\ At(r, "slot")
    /\ slots[mine[r]] < KeyLimit
    /\ slots' = [slots EXCEPT ![mine[r]] = @ + 1]
    /\ Go(r, IF cancelled[r] THEN "unkey" ELSE "keyed")
    /\ UNCHANGED <<cancelled, entries, refs, mine, counterVars, channelVars,
                   routeVars, troubles>>

\* Mutant: the reference is not dropped.
KeyCancelledKeepsRef(r) ==
    /\ At(r, "slot") /\ cancelled[r]
    /\ Go(r, "gone") /\ ForgetContext(r)
    /\ mine' = [mine EXCEPT ![r] = None]
    /\ UNCHANGED <<entries, refs, slots, counterVars, channelVars, routeVars, troubles>>

\* case <-ctx.Done(): leave without a slot.
KeyCancelled(r) ==
    /\ At(r, "slot") /\ cancelled[r]
    /\ Go(r, "drop")
    /\ UNCHANGED <<cancelled, keyVars, counterVars, channelVars, routeVars, troubles>>

\* Mutant: the slot is not received from the channel.
KeyReleaseKeepsSlot(r) ==
    /\ At(r, "unkey")
    /\ IF mine[r] = None
       THEN Go(r, "gone") /\ ForgetContext(r)
       ELSE Go(r, "drop") /\ UNCHANGED cancelled
    /\ UNCHANGED <<keyVars, counterVars, channelVars, routeVars, troubles>>

\* <-entry.slots, the first half of release.
KeyRelease(r) ==
    /\ At(r, "unkey")
    /\ IF mine[r] = None
       THEN Go(r, "gone") /\ ForgetContext(r) /\ UNCHANGED slots
       ELSE Go(r, "drop") /\ UNCHANGED cancelled /\ slots' = [slots EXCEPT ![mine[r]] = @ - 1]
    /\ UNCHANGED <<entries, refs, mine, counterVars, channelVars,
                   routeVars, troubles>>

\* Mutant: the entry is deleted without asking for other references.
DropAnyway(e, k, n) == entries[n][k] = e

\* dropRef deletes the entry only with its last reference.
Droppable(e, k, n) == refs[e] = 1 /\ entries[n][k] = e

\* dropRef, under the mutex.
KeyDrop(r) ==
    LET n == nodeOf[r]  k == KeyOf[r]  e == mine[r]
    IN  /\ At(r, "drop")
        /\ refs' = [refs EXCEPT ![e] = @ - 1]
        /\ entries' = IF Droppable(e, k, n)
                      THEN [entries EXCEPT ![n][k] = None] ELSE entries
        /\ mine' = [mine EXCEPT ![r] = None]
        /\ Go(r, "gone") /\ ForgetContext(r)
        /\ UNCHANGED <<slots, counterVars, channelVars, routeVars, troubles>>

-----------------------------------------------------------------------------
(* The user, token and large-body counters *)

Plus(count, cs)  == [c \in Counters |-> IF c \in cs THEN count[c] + 1 ELSE count[c]]

\* DECR of a counter that exists; one that reaches zero is deleted, and the
\* process-local maps delete at one in the same way.
Minus(count, cs) ==
    [c \in Counters |-> IF c \in cs /\ count[c] > 0 THEN count[c] - 1 ELSE count[c]]

\* No counter of the request is at its limit.
Free(count, cs) == \A c \in cs : count[c] < Limit[c]

\* No limit applies: the middleware calls the next handler at once.
Unlimited(r) ==
    /\ At(r, "keyed") /\ Claims[r] = {}
    /\ Go(r, "route")
    /\ UNCHANGED <<cancelled, keyVars, counterVars, channelVars, routeVars, troubles>>

\* The acquire script runs and its answer arrives.
AdmitRedis(r) ==
    /\ At(r, "keyed") /\ Claims[r] # {} /\ up /\ ~cancelled[r]
    /\ IF Free(redis, Claims[r])
       THEN /\ redis' = Plus(redis, Claims[r])
            /\ holds' = [holds EXCEPT ![r] = "redis"]
            /\ Go(r, "route")
       ELSE /\ Go(r, "unkey")
            /\ UNCHANGED <<redis, holds>>
    /\ UNCHANGED <<cancelled, keyVars, up, local, leaked, lapsed, channelVars,
                   routeVars, troubles>>

\* The call fails (an error, 250 ms without an answer, the client gone). The
\* script may have run on the server all the same; then its counts belong to
\* nobody, as no release function was made.
RedisFails(r) ==
    /\ At(r, "keyed") /\ Claims[r] # {}
    /\ ~up \/ cancelled[r]
    /\ \/ UNCHANGED <<redis, leaked>>
       \/ /\ Free(redis, Claims[r])
          /\ redis' = Plus(redis, Claims[r])
          /\ leaked' = Plus(leaked, Claims[r])
    /\ Go(r, "local")
    /\ UNCHANGED <<cancelled, keyVars, up, local, holds, lapsed, channelVars, routeVars,
                   troubles>>

\* The connection breaks after the script has run, and go-redis sends it again
\* (MaxRetries, which the code leaves at its default): the first run's counts
\* belong to nobody.
AcquireRepeats(r) ==
    /\ At(r, "keyed") /\ Claims[r] # {} /\ up /\ ~cancelled[r]
    /\ Free(redis, Claims[r])
    /\ Trouble
    /\ redis' = Plus(redis, Claims[r])
    /\ leaked' = Plus(leaked, Claims[r])
    /\ UNCHANGED <<pc, cancelled, keyVars, up, local, holds, lapsed, channelVars, routeVars>>

\* acquireRequest tests tokenID > 0, which the scripts do not.
LocalClaims(r) == Claims[r] \ RedisOnly

\* The fallback: activeModelRequestLimiter.acquireRequest of the process.
AdmitLocal(r) ==
    LET n == nodeOf[r]
    IN  /\ At(r, "local")
        /\ IF Free(local[n], LocalClaims(r))
           THEN /\ local' = [local EXCEPT ![n] = Plus(@, LocalClaims(r))]
                /\ holds' = [holds EXCEPT ![r] = "local"]
                /\ Go(r, "route")
           ELSE /\ Go(r, "unkey")
                /\ UNCHANGED <<local, holds>>
        /\ UNCHANGED <<cancelled, keyVars, up, redis, leaked, lapsed, channelVars,
                       routeVars, troubles>>

\* Mutant: the script also runs for requests that the fallback admitted.
ReleaseScriptAlways(r) ==
    IF holds[r] # "none" THEN Minus(redis, Claims[r]) ELSE redis

\* The release script, run for a request that Redis admitted.
ReleaseScript(r) ==
    IF holds[r] \in {"redis", "again"} THEN Minus(redis, Claims[r]) ELSE redis

\* The counters that the script takes under their holders when it runs again.
LapsedAgain(r) ==
    [c \in Counters |-> \/ lapsed[c]
                        \/ holds[r] = "again" /\ c \in Claims[r] /\ redis[c] > 0]

\* The deferred release of the middleware.
Release(r) ==
    LET n == nodeOf[r]
    IN  /\ At(r, "leave") /\ (up \/ holds[r] \notin {"redis", "again"})
        /\ redis' = ReleaseScript(r)
        /\ lapsed' = LapsedAgain(r)
        /\ local' = IF holds[r] = "local"
                    THEN [local EXCEPT ![n] = Minus(@, LocalClaims(r))] ELSE local
        /\ holds' = [holds EXCEPT ![r] = "none"]
        /\ Go(r, "unkey") /\ ForgetRoute(r)
        /\ UNCHANGED <<cancelled, keyVars, up, leaked, channelVars, troubles>>

\* The script runs, the connection breaks and go-redis sends it again.
ReleaseRepeats(r) ==
    /\ At(r, "leave") /\ holds[r] = "redis" /\ up
    /\ Trouble
    /\ redis' = ReleaseScript(r)
    /\ holds' = [holds EXCEPT ![r] = "again"]
    /\ UNCHANGED <<pc, cancelled, keyVars, up, local, leaked, lapsed, channelVars, routeVars>>

\* The call of the release script fails or has no answer after a second, which
\* is only logged: the script has run, or it never will.
ReleaseFails(r) ==
    /\ At(r, "leave") /\ holds[r] \in {"redis", "again"} /\ ~up
    /\ \/ /\ redis' = ReleaseScript(r)
          /\ lapsed' = LapsedAgain(r)
          /\ UNCHANGED leaked
       \/ /\ leaked' = IF holds[r] = "redis" THEN Plus(leaked, Claims[r]) ELSE leaked
          /\ UNCHANGED <<redis, lapsed>>
    /\ holds' = [holds EXCEPT ![r] = "none"]
    /\ Go(r, "unkey") /\ ForgetRoute(r)
    /\ UNCHANGED <<cancelled, keyVars, up, local, channelVars, troubles>>

\* The requests a counter is charged for.
Holders(c) == {r \in Requests : holds[r] = "redis" /\ c \in Claims[r]}

\* EXPIRE: no admission renewed the lease of a counter for its whole length.
\* Requests may take longer than that, so holders do not stop it.
LeaseExpires(c) ==
    /\ Trouble /\ redis[c] > 0
    /\ redis' = [redis EXCEPT ![c] = 0]
    /\ leaked' = [leaked EXCEPT ![c] = 0]
    /\ lapsed' = [lapsed EXCEPT ![c] = @ \/ Holders(c) # {}]
    /\ UNCHANGED <<pc, cancelled, keyVars, up, local, holds, channelVars, routeVars>>

\* Redis stops answering within the time limits, and answers again.
Outage ==
    /\ Trouble /\ up
    /\ up' = FALSE
    /\ UNCHANGED <<pc, cancelled, keyVars, redis, local, holds, leaked, lapsed,
                   channelVars, routeVars>>

Recovery ==
    /\ ~up /\ up' = TRUE
    /\ UNCHANGED <<pc, cancelled, keyVars, redis, local, holds, leaked, lapsed,
                   channelVars, routeVars, troubles>>

-----------------------------------------------------------------------------
(* The relay loop and the channel tracker *)

\* capacityLocked
Allowed(r, ch) ==
    LET n == nodeOf[r]
    IN  active[n][ch] < ChannelLimit[ch] /\ users[n][ch][UserOf[r]] < UserChannelLimit[ch]

\* end of channelActiveUserTracker.
End(r) ==
    LET n == nodeOf[r]
    IN  /\ active' = [active EXCEPT ![n][on[r]] = @ - 1]
        /\ users' = [users EXCEPT ![n][on[r]][UserOf[r]] = @ - 1]
        /\ on' = [on EXCEPT ![r] = None]
        /\ UNCHANGED panicked

\* continueAutoRouteAfterFailure: a failure that did not reach an upstream
\* consumes an attempt too. A request outside Auto, or one whose failed group
\* cannot be marked or whose response has begun, ends in any case.
Continue(r, counted) ==
    /\ used' = [used EXCEPT ![r] = @ + 1 - counted]
    /\ IF used'[r] < Attempts[r] /\ ~cancelled[r]
       THEN Goes(r, {"route", "leave"}) ELSE Go(r, "leave")

\* getChannel finds no channel.
SelectFails(r) ==
    /\ At(r, "route")
    /\ Continue(r, 0)
    /\ UNCHANGED <<cancelled, keyVars, counterVars, channelVars, excluded, troubles>>

\* TryBeginChannelActiveUse(Waiting), with no waiting time, on a selected channel.
BeginUse(r, ch) ==
    LET n == nodeOf[r]
    IN  /\ At(r, "route") /\ ch \notin excluded[r]
        /\ Allowed(r, ch)
        /\ active' = [active EXCEPT ![n][ch] = @ + 1]
        /\ users' = [users EXCEPT ![n][ch][UserOf[r]] = @ + 1]
        /\ on' = [on EXCEPT ![r] = ch]
        /\ Go(r, "held")
        /\ UNCHANGED <<panicked, cancelled, keyVars, counterVars, routeVars, troubles>>

\* The channel is full: it is excluded for this request.
ChannelFull(r, ch) ==
    /\ At(r, "route") /\ ch \notin excluded[r]
    /\ ~Allowed(r, ch)
    /\ excluded' = [excluded EXCEPT ![r] = @ \cup {ch}]
    /\ Continue(r, 0)
    /\ UNCHANGED <<cancelled, keyVars, counterVars, channelVars, troubles>>

\* Mutant: the slot is kept when another channel is tried.
BillingFailsHolding(r) ==
    /\ At(r, "held")
    /\ excluded' = [excluded EXCEPT ![r] = @ \cup {on[r]}]
    /\ Continue(r, 0)
    /\ IF pc'[r] = "route" THEN UNCHANGED channelVars ELSE End(r)
    /\ UNCHANGED <<cancelled, keyVars, counterVars, troubles>>

\* refreshBillingForSelectedGroup fails: the slot goes back on both branches.
BillingFails(r) ==
    /\ At(r, "held")
    /\ excluded' = [excluded EXCEPT ![r] = @ \cup {on[r]}]
    /\ Continue(r, 0)
    /\ End(r)
    /\ UNCHANGED <<cancelled, keyVars, counterVars, troubles>>

\* The stored body cannot be read or rewound, or the budget is spent.
BodyFails(r) ==
    /\ At(r, "held")
    /\ End(r)
    /\ Go(r, "leave")
    /\ UNCHANGED <<cancelled, keyVars, counterVars, routeVars, troubles>>

\* A panic after begin and before endActiveUse is deferred: the recovery of the
\* router answers the client, the deferred releases of the middlewares run, and
\* the slot of the channel is never returned.
Panics(r) ==
    /\ At(r, "held")
    /\ Trouble
    /\ panicked' = panicked \cup {r}
    /\ Go(r, "leave")
    /\ UNCHANGED <<cancelled, keyVars, counterVars, active, users, on, routeVars>>

\* attemptBudget.acquire and the call of the relay handler.
CallUpstream(r) ==
    /\ At(r, "held") /\ used[r] < Attempts[r]
    /\ used' = [used EXCEPT ![r] = @ + 1]
    /\ Go(r, "use")
    /\ UNCHANGED <<cancelled, keyVars, counterVars, channelVars, excluded, troubles>>

\* The handler returns, or panics: the deferred endActiveUse runs. Success
\* ends the request, an error may go to the next Auto route.
UpstreamEnds(r) ==
    /\ At(r, "use")
    /\ End(r)
    /\ \/ Go(r, "leave") /\ UNCHANGED routeVars
       \/ /\ excluded' = [excluded EXCEPT ![r] = @ \cup {on[r]}]
          /\ Continue(r, 1)
    /\ UNCHANGED <<cancelled, keyVars, counterVars, troubles>>

-----------------------------------------------------------------------------
(* The environment *)

\* The client closes its connection.
Disconnect(r) ==
    /\ pc[r] \notin {"new", "gone"} /\ ~cancelled[r]
    /\ Trouble
    /\ cancelled' = [cancelled EXCEPT ![r] = TRUE]
    /\ UNCHANGED <<pc, keyVars, counterVars, channelVars, routeVars>>

\* A process dies and starts again: its memory is empty, and what its requests
\* hold in Redis stays there.
Crash(n) ==
    LET dead == {r \in Requests : nodeOf[r] = n /\ pc[r] \notin {"new", "gone"}}
    IN  /\ Trouble /\ dead # {}
        /\ pc' = [r \in Requests |-> IF r \in dead THEN "gone" ELSE pc[r]]
        /\ entries' = [entries EXCEPT ![n] = [k \in Keys |-> None]]
        /\ refs' = [e \in Requests |-> IF nodeOf[e] = n THEN 0 ELSE refs[e]]
        /\ slots' = [e \in Requests |-> IF nodeOf[e] = n THEN 0 ELSE slots[e]]
        /\ mine' = [r \in Requests |-> IF r \in dead THEN None ELSE mine[r]]
        /\ leaked' = [c \in Counters |-> leaked[c] + Cardinality(Holders(c) \cap dead)]
        /\ holds' = [r \in Requests |-> IF r \in dead THEN "none" ELSE holds[r]]
        /\ local' = [local EXCEPT ![n] = [c \in Counters |-> 0]]
        /\ active' = [active EXCEPT ![n] = [ch \in Channels |-> 0]]
        /\ users' = [users EXCEPT ![n] = [ch \in Channels |-> [u \in Users |-> 0]]]
        /\ on' = [r \in Requests |-> IF nodeOf[r] = n THEN None ELSE on[r]]
        /\ panicked' = {r \in panicked : nodeOf[r] # n}
        /\ cancelled' = [r \in Requests |-> r \notin dead /\ cancelled[r]]
        /\ excluded' = [r \in Requests |-> IF r \in dead THEN {} ELSE excluded[r]]
        /\ used' = [r \in Requests |-> IF r \in dead THEN 0 ELSE used[r]]
        /\ UNCHANGED <<up, redis, lapsed>>

\* One step of the goroutine of a request that needs no upstream.
LocalStep(r) ==
    \/ NoKeyNeeded(r) \/ KeyEnter(r) \/ KeySlot(r) \/ KeyCancelled(r)
    \/ KeyRelease(r) \/ KeyDrop(r)
    \/ Unlimited(r) \/ AdmitRedis(r) \/ RedisFails(r) \/ AdmitLocal(r)
    \/ Release(r) \/ ReleaseFails(r)
    \/ SelectFails(r) \/ BillingFails(r) \/ BodyFails(r)
    \/ CallUpstream(r)
    \/ \E ch \in Channels : BeginUse(r, ch) \/ ChannelFull(r, ch)

\* What may go wrong with a request.
Mishap(r) ==
    AcquireRepeats(r) \/ ReleaseRepeats(r) \/ Panics(r) \/ Disconnect(r)

Next ==
    /\ \/ \E r \in Requests : LocalStep(r) \/ UpstreamEnds(r) \/ Mishap(r)
       \/ \E c \in Counters : LeaseExpires(c)
       \/ \E n \in Nodes : Crash(n)
       \/ Outage \/ Recovery
    /\ UNCHANGED nodeOf

Spec == Init /\ [][Next]_vars

\* Some goroutine that can run does run; nothing more is assumed about the
\* scheduler or about the order in which waiters get a slot. An upstream call
\* need not end: RELAY_TIMEOUT is 0, no limit, by default, and a websocket has
\* none. Requests need not arrive.
Progress ==
    /\ \E r \in Requests : pc[r] # "new" /\ LocalStep(r)
    /\ UNCHANGED nodeOf

FairSpec == Spec /\ WF_vars(Progress)

-----------------------------------------------------------------------------
(* Properties *)

\* Every variable stays in its range; in particular no count of a process
\* becomes negative.
TypeOK ==
    /\ nodeOf \in [Requests -> Nodes]
    /\ pc \in [Requests -> Places]
    /\ cancelled \in [Requests -> BOOLEAN]
    /\ entries \in [Nodes -> [Keys -> Requests \cup {None}]]
    /\ refs \in [Requests -> Nat] /\ slots \in [Requests -> Nat]
    /\ mine \in [Requests -> Requests \cup {None}]
    /\ up \in BOOLEAN
    /\ redis \in [Counters -> Nat] /\ leaked \in [Counters -> Nat]
    /\ local \in [Nodes -> [Counters -> Nat]]
    /\ holds \in [Requests -> {"none", "redis", "local", "again"}]
    /\ active \in [Nodes -> [Channels -> Nat]]
    /\ users \in [Nodes -> [Channels -> [Users -> Nat]]]
    /\ on \in [Requests -> Channels \cup {None}] /\ panicked \subseteq Requests
    /\ excluded \in [Requests -> SUBSET Channels]
    /\ used \in [Requests -> Nat]
    /\ lapsed \in [Counters -> BOOLEAN]
    /\ troubles \in Nat

\* The requests that hold a slot of a key: from the send on the channel to
\* the receive in release.
WithSlot(n, k) ==
    {r \in Requests : /\ nodeOf[r] = n /\ KeyOf[r] = k
                      /\ pc[r] \in Places \ {"new", "slot", "drop", "gone"}}

\* The requests of a key that refer to its entry.
Referring(n, k) ==
    {r \in Requests : nodeOf[r] = n /\ KeyOf[r] = k /\ pc[r] \notin {"new", "gone"}}

\* "serializes compact requests that mutate the same Codex context": in one
\* process never more than KeyLimit requests of a key are past the limiter,
\* although entries are deleted and made again while requests come and go.
KeyExclusive == \A n \in Nodes, k \in Keys : Cardinality(WithSlot(n, k)) <= KeyLimit

\* Why: an entry is in the map exactly as long as a request refers to it, all
\* requests of a key refer to the same entry, and its references and slots
\* are those of these requests. (So the map also does not grow with old keys.)
KeyAt(n, k) ==
    LET e == entries[n][k]
    IN  /\ e = None <=> Referring(n, k) = {}
        /\ \A r \in Referring(n, k) : mine[r] = e
        /\ e # None => /\ refs[e] = Cardinality(Referring(n, k))
                       /\ slots[e] = Cardinality(WithSlot(n, k))

KeyInv == \A n \in Nodes, k \in Keys : KeyAt(n, k)

\* An entry belongs to the process and the key of the request that made it; one that
\* is not in the map has neither references nor slots.
EntryInv ==
    /\ \A n \in Nodes, k \in Keys : entries[n][k] # None =>
         /\ nodeOf[entries[n][k]] = n /\ KeyOf[entries[n][k]] = k
         /\ pc[entries[n][k]] # "new"
    /\ \A e \in Requests :
         /\ slots[e] <= KeyLimit
         /\ refs[e] # 0 \/ slots[e] # 0 =>
              KeyOf[e] \in Keys /\ entries[nodeOf[e]][KeyOf[e]] = e

\* What a request holds, from where it stands.
PlaceInv ==
    \A r \in Requests :
        /\ holds[r] # "none" => pc[r] \in {"route", "held", "use", "leave"}
        /\ on[r] # None <=> pc[r] \in {"held", "use"} \/ r \in panicked
        /\ r \in panicked => pc[r] \in {"leave", "unkey", "drop", "gone"}
        /\ mine[r] # None <=> KeyOf[r] \in Keys /\ pc[r] \notin {"new", "gone"}
        /\ pc[r] \in {"slot", "drop"} => KeyOf[r] \in Keys

\* The counters in Redis never count more than the requests that hold them
\* and the counts lost to failed or repeated calls and to crashes. As long as
\* no lease has run out under a holder and no release script has run twice they
\* count exactly these, so the limit holds across all processes.
RedisAccounts ==
    \A c \in Counters :
        LET n == Cardinality(Holders(c)) + leaked[c]
        IN  /\ redis[c] <= n
            /\ ~lapsed[c] => redis[c] = n /\ n <= Limit[c]

\* The fallback counters of a process count exactly its own admissions.
LocalHolders(n, c) ==
    {r \in Requests : nodeOf[r] = n /\ holds[r] = "local" /\ c \in LocalClaims(r)}

LocalExact ==
    \A n \in Nodes, c \in Counters :
        local[n][c] = Cardinality(LocalHolders(n, c)) /\ local[n][c] <= Limit[c]

\* What the limiters of the processes keep is right at every moment.
AdmissionInv == TypeOK /\ PlaceInv /\ KeyInv /\ EntryInv /\ LocalExact

\* A channel slot is returned exactly once on every path of the relay loop but
\* a panic ahead of the deferred endActiveUse: the tracker counts exactly the
\* requests between TryBegin and endActiveUse and those lost to such a panic,
\* within both limits of the channel.
Occupants(n, ch)    == {r \in Requests : nodeOf[r] = n /\ on[r] = ch}
UserOn(n, ch, u)    == {r \in Occupants(n, ch) : UserOf[r] = u}

ChannelExact ==
    \A n \in Nodes, ch \in Channels :
        /\ active[n][ch] = Cardinality(Occupants(n, ch))
        /\ active[n][ch] <= ChannelLimit[ch]
        /\ \A u \in Users :
             /\ users[n][ch][u] = Cardinality(UserOn(n, ch, u))
             /\ users[n][ch][u] <= UserChannelLimit[ch]
        /\ \A r \in Occupants(n, ch) : pc[r] \in {"held", "use"} \/ r \in panicked

\* All slots of the key of a waiting request are with calls that are upstream.
BehindUpstream(r) ==
    /\ pc[r] = "slot" /\ ~cancelled[r]
    /\ Cardinality({q \in WithSlot(nodeOf[r], KeyOf[r]) : pc[q] = "use"}) >= KeyLimit

\* Whatever its limits, routes and faults are, a request that has arrived ends
\* unless an upstream keeps it, or keeps all holders of the slots it waits for:
\* no group of waiters blocks itself, and no slot is lost to those that wait
\* for it.
RequestsEnd ==
    <>[](\A r \in Requests : pc[r] \in {"new", "gone", "use"} \/ BehindUpstream(r))
=============================================================================
