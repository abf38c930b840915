-------------------------- MODULE PlaygroundProofs --------------------------
(***************************************************************************)
(* Proofs about Playground, for any number of requests: requests that are  *)
(* not raced never overlap, a message shows text of its own request only,  *)
(* an unfinished message can be stopped, what was stopped stays silent and *)
(* a loaded page is at rest.                                               *)
(***************************************************************************)
EXTENDS Playground, SequenceTheorems, TLAPS

-----------------------------------------------------------------------------
(* Messages *)

\* Changing the status of a message keeps what it belongs to, and its text.
LEMMA StatusUpdate ==
  ASSUME NEW m \in Message, NEW s \in Statuses
  PROVE  /\ [m EXCEPT !.status = s] \in Message
         /\ [m EXCEPT !.status = s].from = m.from
         /\ [m EXCEPT !.status = s].req = m.req
         /\ [m EXCEPT !.status = s].status = s
         /\ [m EXCEPT !.status = s].by = m.by
BY DEF Message

\* n is m after a callback of request r: the same message, with no text of other requests.
Rewrites(m, n, W) ==
  n \in Message /\ n.from = m.from /\ n.req = m.req /\ n.by \subseteq m.by \cup {0} \cup W

\* The fields of a message.
LEMMA MessageTypes ==
  ASSUME NEW m \in Message
  PROVE  /\ m.from \in {"user", "assistant"} /\ m.req \in Requests /\ m.status \in Statuses
         /\ m.by \in SUBSET (0..MaxRequests)
BY DEF Message

\* Requests are numbered from 1; 0 stands for the user and the page.
LEMMA BoundType == MaxRequests \in Nat /\ {0} \in SUBSET (0..MaxRequests)
                   /\ \A r \in Requests : r \in 0..MaxRequests /\ r # 0
BY PlaygroundAssumption DEF PlaygroundAssumption, Requests

\* The updaters of message-utils.ts keep whose a message is, and which of them finish it.
LEMMA UpdaterFacts ==
  ASSUME NEW m \in Message, NEW r \in Requests
  PROVE  /\ Rewrites(m, Streamed(m, r), {r})
         /\ Rewrites(m, Errored(m), {}) /\ ~Unfinished(Errored(m))
         /\ \A b \in {{}, {0}, {r}} :
              Rewrites(m, Answered(m, b), b) /\ ~Unfinished(Answered(m, b))
         /\ Rewrites(m, ImageStatus(m), {})
         /\ Rewrites(m, StreamCompleted(m), {}) /\ ~Unfinished(StreamCompleted(m))
         /\ Rewrites(m, StopFinalized(m), {}) /\ ~Unfinished(StopFinalized(m))
         /\ Rewrites(m, Sanitized(m), {}) /\ ~Unfinished(Sanitized(m))
<1>0. /\ {"streaming", "error", "complete"} \subseteq Statuses /\ m.by \in SUBSET (0..MaxRequests)
      /\ {0} \in SUBSET (0..MaxRequests) /\ {r} \in SUBSET (0..MaxRequests)
      /\ m.by \cup {r} \in SUBSET (0..MaxRequests) /\ m.by \cup {0} \in SUBSET (0..MaxRequests)
  BY MessageTypes, BoundType DEF Statuses
<1>1. Rewrites(m, Streamed(m, r), {r})
  <2>1. CASE m.status = "error"
    BY <2>1 DEF Streamed, Rewrites
  <2>2. CASE m.status # "error"
    BY <1>0, <2>2 DEF Streamed, Rewrites, Message
  <2> QED
    BY <2>1, <2>2
<1>2. Rewrites(m, Errored(m), {}) /\ ~Unfinished(Errored(m))
  <2>1. /\ Errored(m) \in Message /\ Errored(m).from = m.from /\ Errored(m).req = m.req
        /\ Errored(m).status = "error" /\ Errored(m).by = m.by \cup {0}
    BY <1>0 DEF Errored, Message
  <2> QED
    BY <2>1 DEF Rewrites, Unfinished
<1>3. ASSUME NEW b \in {{}, {0}, {r}}
      PROVE  Rewrites(m, Answered(m, b), b) /\ ~Unfinished(Answered(m, b))
  <2>1. m.by \cup b \in SUBSET (0..MaxRequests)
    BY <1>0
  <2>2. /\ Answered(m, b) \in Message /\ Answered(m, b).from = m.from /\ Answered(m, b).req = m.req
        /\ Answered(m, b).status = "complete" /\ Answered(m, b).by = m.by \cup b
    BY <1>0, <2>1 DEF Answered, Message
  <2> QED
    BY <2>2 DEF Rewrites, Unfinished
<1>4. Rewrites(m, ImageStatus(m), {})
  BY <1>0 DEF ImageStatus, Rewrites, Message
<1>5. /\ [m EXCEPT !.status = "complete"] \in Message
      /\ Rewrites(m, [m EXCEPT !.status = "complete"], {})
      /\ ~Unfinished([m EXCEPT !.status = "complete"])
      /\ Rewrites(m, m, {})
  BY <1>0, StatusUpdate DEF Rewrites, Unfinished
<1>6. Rewrites(m, StreamCompleted(m), {}) /\ ~Unfinished(StreamCompleted(m))
  <2>1. CASE m.status \in {"complete", "error"}
    BY <1>5, <2>1 DEF StreamCompleted, Unfinished
  <2>2. CASE m.status \notin {"complete", "error"}
    BY <1>5, <2>2 DEF StreamCompleted
  <2> QED
    BY <2>1, <2>2
<1>7. Rewrites(m, StopFinalized(m), {}) /\ ~Unfinished(StopFinalized(m))
  BY <1>5 DEF StopFinalized
<1>8. Rewrites(m, Sanitized(m), {}) /\ ~Unfinished(Sanitized(m))
  BY <1>2, <1>5 DEF Sanitized
<1> QED
  BY <1>1, <1>2, <1>3, <1>4, <1>6, <1>7, <1>8

-----------------------------------------------------------------------------
(* Conversations *)

\* What is used of a conversation as a sequence.
LEMMA SeqFacts ==
  ASSUME NEW ms \in Seq(Message)
  PROVE  /\ Len(ms) \in Nat /\ DOMAIN ms = 1..Len(ms)
         /\ \A i \in DOMAIN ms : ms[i] \in Message
         /\ ms # <<>> => Len(ms) \in DOMAIN ms /\ Last(ms) \in Message
<1>1. Len(ms) \in Nat /\ DOMAIN ms = 1..Len(ms) /\ \A i \in DOMAIN ms : ms[i] \in Message
  BY LenProperties, ElementOfSeq
<1>2. ms # <<>> => Len(ms) \in DOMAIN ms
  BY <1>1, EmptySeq
<1> QED
  BY <1>1, <1>2 DEF Last

\* updateLastAssistantMessage changes the last message, if it is an answer.
LEMMA UpdateFacts ==
  ASSUME NEW ms \in Seq(Message), NEW n,
         LastIsAssistant(ms) => n \in Message /\ n.from = "assistant"
  PROVE  /\ UpdateLast(ms, n) \in Seq(Message)
         /\ Len(UpdateLast(ms, n)) = Len(ms) /\ DOMAIN UpdateLast(ms, n) = DOMAIN ms
         /\ LastIsAssistant(UpdateLast(ms, n)) <=> LastIsAssistant(ms)
         /\ LastIsAssistant(ms) => Last(UpdateLast(ms, n)) = n /\ UpdateLast(ms, n)[Len(ms)] = n
         /\ ~LastIsAssistant(ms) => UpdateLast(ms, n) = ms
         /\ \A i \in DOMAIN ms : i # Len(ms) => UpdateLast(ms, n)[i] = ms[i]
<1>1. CASE LastIsAssistant(ms)
  <2>0. ms # <<>> /\ Len(ms) \in 1..Len(ms) /\ DOMAIN ms = 1..Len(ms)
    BY <1>1, SeqFacts DEF LastIsAssistant
  <2>1. UpdateLast(ms, n) = [ms EXCEPT ![Len(ms)] = n]
    BY <1>1 DEF UpdateLast
  <2>2. /\ [ms EXCEPT ![Len(ms)] = n] \in Seq(Message)
        /\ Len([ms EXCEPT ![Len(ms)] = n]) = Len(ms)
        /\ \A j \in 1..Len(ms) : [ms EXCEPT ![Len(ms)] = n][j] = IF j = Len(ms) THEN n ELSE ms[j]
    BY <1>1, <2>0, ExceptSeq
  <2>3. DOMAIN UpdateLast(ms, n) = DOMAIN ms /\ Last(UpdateLast(ms, n)) = n
    BY <2>0, <2>1, <2>2 DEF Last
  <2>4. UpdateLast(ms, n) # <<>>
    BY <2>0, <2>3
  <2> QED
    BY <1>1, <2>0, <2>1, <2>2, <2>3, <2>4 DEF LastIsAssistant
<1>2. CASE ~LastIsAssistant(ms)
  BY <1>2 DEF UpdateLast
<1> QED
  BY <1>1, <1>2

\* A conversation of kept messages and a new last one.
LEMMA ExtendFacts ==
  ASSUME NEW kept \in Seq(Message), NEW m \in Message, m.from = "assistant"
  PROVE  LET ms == kept \o <<m>>
         IN  /\ ms \in Seq(Message) /\ Len(ms) = Len(kept) + 1 /\ Last(ms) = m
             /\ LastIsAssistant(ms) /\ ms # <<>>
             /\ \A i \in DOMAIN ms : i # Len(ms) => i \in DOMAIN kept /\ ms[i] = kept[i]
<1> DEFINE ms == kept \o <<m>>
<1>1. <<m>> \in Seq(Message) /\ Len(<<m>>) = 1 /\ <<m>>[1] = m
  OBVIOUS
<1>2. /\ ms \in Seq(Message) /\ Len(ms) = Len(kept) + 1
      /\ \A i \in 1..Len(kept) + 1 : ms[i] = IF i <= Len(kept) THEN kept[i] ELSE <<m>>[i - Len(kept)]
  BY <1>1, ConcatProperties
<1>3. Len(kept) \in Nat /\ DOMAIN kept = 1..Len(kept) /\ DOMAIN ms = 1..Len(ms)
  BY <1>2, SeqFacts
<1> HIDE DEF ms
<1>4. Len(ms) - Len(kept) = 1 /\ Len(ms) \in 1..Len(kept) + 1
  BY <1>2, <1>3
<1>5. ms[Len(ms)] = m
  BY <1>1, <1>2, <1>3, <1>4
<1>6. ms # <<>>
  BY <1>2, <1>3, EmptySeq
<1>7. \A i \in DOMAIN ms : i # Len(ms) => i \in DOMAIN kept /\ ms[i] = kept[i]
  BY <1>2, <1>3
<1>8. LastIsAssistant(ms) /\ Last(ms) = m
  BY <1>5, <1>6 DEF LastIsAssistant, Last
<1> QED
  BY <1>2, <1>6, <1>7, <1>8 DEF ms

\* What a load makes of the saved conversation.
LEMMA SanitizeFacts ==
  ASSUME NEW ms \in Seq(Message)
  PROVE  LET new == SanitizeMessagesOnLoad(ms)
         IN  /\ new \in Seq(Message) /\ DOMAIN new = DOMAIN ms /\ Len(new) = Len(ms)
             /\ \A i \in DOMAIN ms : new[i] = ms[i] \/ new[i] = Sanitized(ms[i])
             /\ OnlyLastUnfinished(ms) => \A i \in DOMAIN ms : ~Unfinished(new[i])
<1> DEFINE new == SanitizeMessagesOnLoad(ms)
<1>1. Len(ms) \in Nat /\ DOMAIN ms = 1..Len(ms) /\ \A i \in DOMAIN ms : ms[i] \in Message
  BY SeqFacts
<1>2. ASSUME NEW i \in DOMAIN ms
      PROVE  /\ new[i] = ms[i] \/ new[i] = Sanitized(ms[i])
             /\ IsStuck(ms, i) /\ (\A j \in DOMAIN ms : j > i => ~IsStuck(ms, j)) =>
                  new[i] = Sanitized(ms[i])
  BY DEF SanitizeMessagesOnLoad
<1>3. \A i \in DOMAIN ms : Sanitized(ms[i]) \in Message /\ ~Unfinished(Sanitized(ms[i]))
  <2>1. ASSUME NEW i \in DOMAIN ms
        PROVE  Sanitized(ms[i]) \in Message /\ ~Unfinished(Sanitized(ms[i]))
    <3>1. ms[i] \in Message /\ ms[i].req \in Requests
      BY <1>1, MessageTypes
    <3> QED
      BY <3>1, UpdaterFacts DEF Rewrites
  <2> QED
    BY <2>1
<1>4. new \in [1..Len(ms) -> Message]
  <2>1. \A i \in 1..Len(ms) : new[i] \in Message
    BY <1>1, <1>2, <1>3
  <2>2. new = [i \in 1..Len(ms) |-> new[i]]
    BY <1>1 DEF SanitizeMessagesOnLoad
  <2> HIDE DEF new
  <2> QED
    BY <2>1, <2>2
<1>5. new \in Seq(Message)
  BY <1>1, <1>4, SeqDef
<1>6. DOMAIN new = DOMAIN ms /\ Len(new) = Len(ms)
  <2>1. DOMAIN new = 1..Len(ms)
    BY <1>4
  <2>2. DOMAIN new = 1..Len(new) /\ Len(new) \in Nat
    BY <1>5, SeqFacts
  <2> HIDE DEF new
  <2> QED
    BY <1>1, <2>1, <2>2
<1>7. ASSUME OnlyLastUnfinished(ms), NEW i \in DOMAIN ms PROVE ~Unfinished(new[i])
  <2>1. CASE Unfinished(ms[i])
    <3>1. ms[i].from = "assistant" /\ i = Len(ms)
      BY <1>7, <2>1 DEF OnlyLastUnfinished
    <3>2. IsStuck(ms, i) /\ \A j \in DOMAIN ms : ~(j > i)
      BY <1>1, <2>1, <3>1 DEF IsStuck
    <3> QED
      BY <1>2, <1>3, <3>2
  <2>2. CASE ~Unfinished(ms[i])
    BY <1>2, <1>3, <2>2
  <2> QED
    BY <2>1, <2>2
<1> QED
  BY <1>2, <1>5, <1>6, <1>7

-----------------------------------------------------------------------------
(* The inductive invariant *)

\* An unfinished message has a live request.
LiveText ==
  ~astray => \A i \in DOMAIN messages : Unfinished(messages[i]) => messages[i].req \in Live

Core ==
  /\ TypeOK /\ KindInv /\ RefInv /\ ShownInv /\ FlightInv /\ TextInv
  /\ OwnAnswer /\ GuardedSeesLatest /\ LiveText

\* A live request is of one of three kinds; only a plain one leaves Stop hidden for good.
LEMMA LiveKinds ==
  ASSUME Core, NEW r \in Live
  PROVE  /\ r \in Requests /\ r # 0 /\ phase[r] \in Phases \ {"idle", "closed"}
         /\ kind[r] \in {"stream", "plain", "image"}
         /\ ~astray /\ kind[r] # "plain" => IsGenerating /\ (shown \/ late)
         /\ ~astray /\ stream => shown \/ late
<1>1. r \in Requests /\ phase[r] \in Phases \ {"idle", "closed"}
  BY DEF Core, TypeOK, Live
<1>2. kind[r] \in {"stream", "plain", "image"}
  BY <1>1 DEF Core, KindInv, Phases
<1>3. ~astray /\ kind[r] # "plain" => IsGenerating /\ (shown \/ late)
  BY <1>1, <1>2, BoundType DEF Core, FlightInv, ShownInv, IsGenerating, None
<1>4. ~astray /\ stream => kind[r] # "plain"
  BY DEF Core, FlightInv
<1> QED
  BY <1>1, <1>2, <1>3, <1>4, BoundType

\* Without a live request nothing generates.
LEMMA AtRest ==
  ASSUME Core, IsGenerating
  PROVE  Live # {}
<1>1. CASE source # None
  <2>1. source \in Requests
    BY <1>1, BoundType DEF Core, TypeOK, None, Requests
  <2> QED
    BY <1>1, <2>1 DEF Core, RefInv, Live
<1>2. CASE imageGen
  BY <1>2 DEF Core, RefInv, Live, Waited
<1> QED
  BY <1>1, <1>2 DEF IsGenerating

\* The run's invariants follow.
LEMMA CoreImplies == Core => PageInv /\ OwnAnswer /\ UnfinishedIsStoppable
<1> SUFFICES ASSUME Core PROVE PageInv /\ UnfinishedIsStoppable
  BY DEF Core
<1>1. SingleFlight
  BY DEF Core, FlightInv, SingleFlight
<1>2. NeverLockedOut
  <2>1. ASSUME shown, ~due, LastIsAssistant(messages) PROVE Live # {}
    BY <2>1, AtRest DEF Core, ShownInv
  <2> QED
    BY <2>1 DEF NeverLockedOut
<1>3. UnfinishedIsStoppable
  <2>1. ASSUME ~astray, NEW i \in DOMAIN messages, Unfinished(messages[i])
        PROVE  /\ i = Len(messages) /\ messages[i].req \in Live
               /\ kind[messages[i].req] # "plain" => shown \/ (late /\ due)
    <3>1. i = Len(messages) /\ messages[i].req \in Live
      BY <2>1 DEF Core, TextInv, OnlyLastUnfinished, LiveText
    <3>2. kind[messages[i].req] # "plain" => shown \/ late
      BY <2>1, <3>1, LiveKinds
    <3> QED
      BY <3>1, <3>2 DEF Core, ShownInv
  <2> QED
    BY <2>1 DEF UnfinishedIsStoppable
<1> QED
  BY <1>1, <1>2, <1>3 DEF Core, PageInv

-----------------------------------------------------------------------------
(* The callbacks of a request *)

\* A callback of the live request r queues an update of the last message, n, or none,
\* and leaves r where it is, moves it on or ends it.
LEMMA NetworkInv ==
  ASSUME Core, NEW r \in Live, NEW p \in Phases \ {"idle"}, NEW n,
         phase' = [phase EXCEPT ![r] = p],
         UNCHANGED <<saved, saveFailures, rendered, shown, late, pressed, editing, stream, kind,
                     stopped>>,
         messages' \in {messages, UpdateLast(messages, n)},
         LastIsAssistant(messages) => Rewrites(Last(messages), n, {r}),
         \/ due' = (due \/ LastIsAssistant(messages) \/ imageGen' # imageGen)
         \/ UNCHANGED <<messages, due, source, imageGen>>,
         astray' \in {astray, TRUE},
         complete' \in BOOLEAN, controller' \in 0..MaxRequests,
         source' \in {source, None}, imageGen' \in {imageGen, FALSE},
         p = "closed" \/ UNCHANGED <<source, controller, imageGen>>,
         p = "closed" => \/ astray'
                         \/ /\ messages' = UpdateLast(messages, n)
                            /\ LastIsAssistant(messages) => ~Unfinished(n),
         KindInv', RefInv'
  PROVE  Core'
<1>0. TypeOK /\ messages \in Seq(Message) /\ r \in Requests /\ astray \in BOOLEAN /\ due \in BOOLEAN
  BY LiveKinds DEF Core, TypeOK
<1>1. /\ messages' \in Seq(Message) /\ Len(messages') = Len(messages)
      /\ DOMAIN messages' = DOMAIN messages
      /\ LastIsAssistant(messages') <=> LastIsAssistant(messages)
      /\ LastIsAssistant(messages) => /\ Last(messages') \in {Last(messages), n}
                                      /\ Last(messages').req = Last(messages).req
                                      /\ messages' = UpdateLast(messages, n) => Last(messages') = n
      /\ ~LastIsAssistant(messages) => messages' = messages
      /\ \A i \in DOMAIN messages : i # Len(messages) => messages'[i] = messages[i]
  <2>1. LastIsAssistant(messages) => n \in Message /\ n.from = "assistant" /\ n.req = Last(messages).req
    BY DEF Rewrites, LastIsAssistant
  <2>2. CASE messages' = messages
    <3>1. messages' = UpdateLast(messages, n) /\ LastIsAssistant(messages) => Last(messages') = n
      BY <1>0, <2>1, UpdateFacts
    <3> QED
      BY <1>0, <2>2, <3>1
  <2>3. CASE messages' = UpdateLast(messages, n)
    BY <1>0, <2>1, <2>3, UpdateFacts
  <2> QED
    BY <2>2, <2>3
<1>2. Live' = IF p = "closed" THEN Live \ {r} ELSE Live
  BY <1>0 DEF Live, TypeOK
<1>3. TypeOK'
  <2>1. /\ phase' \in [Requests -> Phases] /\ due' \in BOOLEAN /\ astray' \in BOOLEAN
        /\ source' \in 0..MaxRequests /\ imageGen' \in BOOLEAN
    BY <1>0, BoundType DEF TypeOK, None
  <2> QED
    BY <1>0, <1>1, <2>1 DEF TypeOK
<1>4. ShownInv'
  <2>1. IsGenerating' => IsGenerating
    BY DEF IsGenerating
  <2>2. ASSUME ~due'
        PROVE  /\ rendered' = messages'
               /\ LastIsAssistant(messages') => shown' = IsGenerating'
    <3>1. CASE due' = (due \/ LastIsAssistant(messages) \/ imageGen' # imageGen)
      BY <1>1, <2>2, <3>1 DEF Core, ShownInv
    <3>2. CASE UNCHANGED <<messages, due, source, imageGen>>
      BY <2>2, <3>2 DEF Core, ShownInv, IsGenerating
    <3> QED
      BY <3>1, <3>2
  <2>3. late' => due'
    BY <1>0 DEF Core, ShownInv
  <2>4. ~astray' => ~astray
    BY <1>0
  <2> QED
    BY <1>1, <2>1, <2>2, <2>3, <2>4 DEF Core, ShownInv
<1>5. ASSUME ~astray'
      PROVE  /\ ~astray /\ Live = {r} /\ LastIsAssistant(messages) /\ Last(messages).req = r
             /\ Live' \subseteq {r}
  <2>1. ~astray
    BY <1>0, <1>5
  <2>2. LastIsAssistant(messages) /\ \A q \in Live : Last(messages).req = q
    BY <2>1 DEF Core, FlightInv
  <2> QED
    BY <1>2, <2>1, <2>2
<1>6. FlightInv'
  <2>1. ASSUME ~astray', NEW q \in Live'
        PROVE  /\ LastIsAssistant(messages') /\ Last(messages').req = q
               /\ kind'[q] = "stream" => stream' /\ source' = q
               /\ kind'[q] = "image"  => imageGen' /\ controller' = q
               /\ kind'[q] = "plain"  => ~stream'
    <3>1. q = r /\ p # "closed"
      BY <1>2, <1>5, <2>1
    <3>2. UNCHANGED <<source, controller, imageGen>>
      BY <3>1
    <3> QED
      BY <1>1, <1>5, <2>1, <3>1, <3>2 DEF Core, FlightInv
  <2> QED
    BY <2>1 DEF FlightInv
<1>7. GuardedSeesLatest'
  <2>1. ~astray' /\ stream => shown \/ late
    BY <1>5, LiveKinds
  <2> QED
    BY <2>1 DEF GuardedSeesLatest
<1>8. ASSUME ~astray'
      PROVE  /\ Own(messages') /\ OnlyLastUnfinished(messages')
             /\ \A i \in DOMAIN messages' : Unfinished(messages'[i]) => messages'[i].req \in Live'
  <2>0. /\ Own(messages) /\ OnlyLastUnfinished(messages) /\ Len(messages) \in DOMAIN messages
        /\ Last(messages).from = "assistant"
    BY <1>0, <1>5, <1>8, SeqFacts DEF Core, TextInv, OwnAnswer, LastIsAssistant
  <2>1. ASSUME NEW i \in DOMAIN messages', i # Len(messages')
        PROVE  /\ messages'[i].from = "assistant" => messages'[i].by \subseteq {0, messages'[i].req}
               /\ ~Unfinished(messages'[i])
    BY <1>1, <2>0, <2>1 DEF Own, OnlyLastUnfinished
  <2>2. /\ Last(messages').from = "assistant" /\ Last(messages').req = r
        /\ Last(messages').by \subseteq {0, r}
    <3>1. Last(messages).by \subseteq {0, r}
      BY <1>5, <1>8, <2>0 DEF Own, Last
    <3> QED
      BY <1>1, <1>5, <1>8, <2>0, <3>1 DEF Rewrites
  <2>3. Unfinished(Last(messages')) => r \in Live'
    <3>1. CASE p = "closed"
      BY <1>1, <1>5, <1>8, <3>1
    <3>2. CASE p # "closed"
      BY <1>2, <3>2
    <3> QED
      BY <3>1, <3>2
  <2>4. messages'[Len(messages')] = Last(messages')
    BY DEF Last
  <2>5. Own(messages')
    BY <2>1, <2>2, <2>4 DEF Own
  <2>6. OnlyLastUnfinished(messages')
    BY <2>1, <2>2, <2>4 DEF OnlyLastUnfinished
  <2>7. \A i \in DOMAIN messages' : Unfinished(messages'[i]) => messages'[i].req \in Live'
    BY <2>1, <2>2, <2>3, <2>4
  <2> QED
    BY <2>5, <2>6, <2>7
<1>9. TextInv' /\ OwnAnswer' /\ LiveText'
  <2>1. ~astray' => OnlyLastUnfinished(saved) /\ Own(saved)
    BY <1>5 DEF Core, TextInv
  <2> QED
    BY <1>8, <2>1 DEF TextInv, OwnAnswer, LiveText
<1> QED
  BY <1>3, <1>4, <1>6, <1>7, <1>9 DEF Core

\* The references of the page follow the move of r.
LEMMA NetworkRefs ==
  ASSUME Core, NEW r \in Live, NEW p \in Phases \ {"idle"},
         phase' = [phase EXCEPT ![r] = p], UNCHANGED <<kind, stopped>>,
         \/ p = "closed" \/ p = phase[r]
         \/ p = "dead" /\ kind[r] = "stream"
         \/ p \in {"poll", "sleep"} /\ kind[r] = "image",
         source' \in {source, None}, controller' \in {controller, None},
         imageGen' \in {imageGen, FALSE},
         p = "closed" /\ kind[r] = "stream" => source' = None,
         p = "closed" /\ kind[r] = "image" => imageGen' = FALSE
  PROVE  KindInv' /\ RefInv'
<1>0. /\ r \in Requests /\ kind[r] \in {"stream", "plain", "image"} /\ phase[r] \notin {"idle", "closed"}
      /\ phase'[r] = p /\ \A q \in Requests : q # r => phase'[q] = phase[q]
      /\ KindInv /\ RefInv
  BY LiveKinds DEF Core, TypeOK
<1>1. KindInv'
  <2>1. ASSUME NEW q \in Requests
        PROVE  /\ phase'[q] = "open" => kind[q] \in {"stream", "plain"}
               /\ phase'[q] = "dead" => kind[q] = "stream"
               /\ phase'[q] \in {"post", "poll", "sleep"} => kind[q] = "image"
    <3>1. CASE q = r
      BY <1>0, <3>1 DEF KindInv
    <3>2. CASE q # r
      BY <1>0, <3>2 DEF KindInv
    <3> QED
      BY <3>1, <3>2
  <2> QED
    BY <2>1 DEF KindInv
<1>2. source' # None => kind[source'] = "stream" /\ phase'[source'] \in {"open", "dead"}
  <2>1. ASSUME source' # None PROVE phase'[source'] \in {"open", "dead"}
    <3>1. /\ source' = source /\ source \in Requests /\ kind[source] = "stream"
          /\ phase[source] \in {"open", "dead"}
      BY <1>0, <2>1 DEF RefInv, Core, TypeOK, Requests, None
    <3>2. CASE source = r
      BY <1>0, <2>1, <3>1, <3>2
    <3>3. CASE source # r
      BY <1>0, <3>1, <3>3
    <3> QED
      BY <3>2, <3>3
  <2> QED
    BY <1>0, <2>1 DEF RefInv
<1>3. controller' # None => kind[controller'] = "image" /\ phase'[controller'] # "idle"
  <2>1. ASSUME controller' # None PROVE phase'[controller'] # "idle"
    <3>1. controller' = controller /\ controller \in Requests /\ phase[controller] # "idle"
      BY <1>0, <2>1 DEF RefInv, Core, TypeOK, Requests, None
    <3> QED
      BY <1>0, <3>1
  <2> QED
    BY <1>0, <2>1 DEF RefInv
<1>4. imageGen' => \E q \in Requests : phase'[q] \in {"post", "poll", "sleep"}
  <2>1. ASSUME imageGen' PROVE \E q \in Requests : phase'[q] \in {"post", "poll", "sleep"}
    <3>1. PICK q \in Requests : phase[q] \in {"post", "poll", "sleep"}
      BY <1>0, <2>1 DEF RefInv, Waited
    <3>2. kind[q] = "image"
      BY <1>0, <3>1 DEF KindInv
    <3>3. CASE q = r
      BY <1>0, <2>1, <3>1, <3>2, <3>3
    <3>4. CASE q # r
      BY <1>0, <3>1, <3>4
    <3> QED
      BY <3>3, <3>4
  <2> QED
    BY <2>1
<1>5. \A q \in stopped : phase'[q] = "closed" \/ phase'[q] \in {"post", "poll", "sleep"}
  <2>1. ASSUME NEW q \in stopped
        PROVE  phase'[q] = "closed" \/ phase'[q] \in {"post", "poll", "sleep"}
    <3>1. q \in Requests /\ (phase[q] = "closed" \/ phase[q] \in {"post", "poll", "sleep"})
      BY <1>0 DEF RefInv, Waited, Core, TypeOK
    <3>2. CASE q = r
      <4>1. kind[r] = "image" /\ phase[r] \in {"post", "poll", "sleep"}
        BY <1>0, <3>1, <3>2 DEF KindInv
      <4> QED
        BY <1>0, <3>2, <4>1
    <3>3. CASE q # r
      BY <1>0, <3>1, <3>3
    <3> QED
      BY <3>2, <3>3
  <2> QED
    BY <2>1
<1>6. RefInv'
  BY <1>2, <1>3, <1>4, <1>5 DEF RefInv, Waited
<1> QED
  BY <1>1, <1>6

\* What the update of a callback makes of the last message.
LEMMA LastUpdates ==
  ASSUME Core, NEW r \in Requests, LastIsAssistant(messages)
  PROVE  /\ Rewrites(Last(messages), Streamed(Last(messages), r), {r})
         /\ Rewrites(Last(messages), Errored(Last(messages)), {r})
         /\ \A b \in {{}, {0}, {r}} : Rewrites(Last(messages), Answered(Last(messages), b), {r})
         /\ Rewrites(Last(messages), ImageStatus(Last(messages)), {r})
         /\ Rewrites(Last(messages), StreamCompleted(Last(messages)), {r})
         /\ ~Unfinished(Errored(Last(messages))) /\ ~Unfinished(StreamCompleted(Last(messages)))
         /\ \A b \in {{}, {0}, {r}} : ~Unfinished(Answered(Last(messages), b))
<1>1. Last(messages) \in Message
  BY SeqFacts DEF Core, TypeOK, LastIsAssistant
<1>2. \A n : Rewrites(Last(messages), n, {}) => Rewrites(Last(messages), n, {r})
  BY DEF Rewrites
<1>3. \A n : Rewrites(Last(messages), n, {0}) => Rewrites(Last(messages), n, {r})
  BY DEF Rewrites
<1> QED
  BY <1>1, <1>2, <1>3, UpdaterFacts

\* Every callback but the one without a choice ends or goes on with a queued update.
LEMMA QueuedInv ==
  ASSUME Core, NEW r \in Live, NEW p \in Phases \ {"idle"}, NEW n,
         phase' = [phase EXCEPT ![r] = p],
         UNCHANGED <<editing, stream, kind, stopped, astray>>,
         QueueUpdate(UpdateLast(messages, n)) \/ (p # "closed" /\ QueueUpdate(messages)),
         LastIsAssistant(messages) => Rewrites(Last(messages), n, {r}),
         LastIsAssistant(messages) /\ p = "closed" => ~Unfinished(n),
         \/ p = "closed" \/ p = phase[r]
         \/ p = "dead" /\ kind[r] = "stream"
         \/ p \in {"poll", "sleep"} /\ kind[r] = "image",
         p = "closed" \/ UNCHANGED <<source, controller, imageGen>>,
         complete' \in BOOLEAN, source' \in {source, None}, controller' \in {controller, None},
         imageGen' \in {imageGen, FALSE},
         p = "closed" /\ kind[r] = "stream" => source' = None,
         p = "closed" /\ kind[r] = "image" => imageGen' = FALSE
  PROVE  Core'
<1>1. KindInv' /\ RefInv'
  BY NetworkRefs
<1>2. /\ UNCHANGED <<saved, saveFailures, rendered, shown, late, pressed>>
      /\ messages' \in {messages, UpdateLast(messages, n)}
      /\ due' = (due \/ LastIsAssistant(messages) \/ imageGen' # imageGen)
      /\ p = "closed" => messages' = UpdateLast(messages, n)
  BY DEF QueueUpdate, NotRendered
<1>3. controller' \in 0..MaxRequests /\ astray' \in {astray, TRUE}
  BY BoundType DEF Core, TypeOK, None
<1> QED
  BY <1>1, <1>2, <1>3, NetworkInv

\* The events of a stream.
LEMMA StreamSteps ==
  ASSUME Core, NEW r \in Requests, StreamChunk(r) \/ StreamDone(r) \/ StreamError(r)
  PROVE  Core'
<1>0. /\ r \in Live /\ kind[r] = "stream" /\ phase[r] = "open" /\ {"open", "closed"} \subseteq Phases
      /\ UNCHANGED <<editing, stream, kind, controller, imageGen, stopped, astray>>
      /\ complete \in BOOLEAN /\ phase \in [Requests -> Phases]
  BY DEF StreamChunk, StreamDone, StreamError, IsOpen, StreamKeeps, Live, Core, TypeOK, Phases
<1>1. CASE StreamChunk(r)
  <2>1. /\ QueueUpdate(UpdateLast(messages, Streamed(Last(messages), r)))
        /\ UNCHANGED <<source, complete>> /\ phase' = [phase EXCEPT ![r] = "open"]
    BY <1>0, <1>1 DEF StreamChunk
  <2>2. LastIsAssistant(messages) => Rewrites(Last(messages), Streamed(Last(messages), r), {r})
    BY LastUpdates
  <2> QED
    BY <1>0, <2>1, <2>2, QueuedInv
<1>2. CASE StreamDone(r)
  <2>1. /\ QueueUpdate(UpdateLast(messages, StreamCompleted(Last(messages))))
        /\ complete' = TRUE /\ source' = None /\ phase' = [phase EXCEPT ![r] = "closed"]
    BY <1>2 DEF StreamDone, CloseSource
  <2>2. LastIsAssistant(messages) =>
          /\ Rewrites(Last(messages), StreamCompleted(Last(messages)), {r})
          /\ ~Unfinished(StreamCompleted(Last(messages)))
    BY LastUpdates
  <2> QED
    BY <1>0, <2>1, <2>2, QueuedInv
<1>3. CASE StreamError(r)
  <2>1. /\ QueueUpdate(UpdateLast(messages, Errored(Last(messages))))
        /\ complete' = complete /\ source' = None /\ phase' = [phase EXCEPT ![r] = "closed"]
    BY <1>3 DEF StreamError, CloseSource
  <2>2. LastIsAssistant(messages) =>
          /\ Rewrites(Last(messages), Errored(Last(messages)), {r})
          /\ ~Unfinished(Errored(Last(messages)))
    BY LastUpdates
  <2> QED
    BY <1>0, <2>1, <2>2, QueuedInv
<1> QED
  BY <1>1, <1>2, <1>3

\* The stream breaks and no handler speaks, or a plain answer has no choice: the
\* conversation stays.
LEMMA SilentSteps ==
  ASSUME Core, NEW r \in Requests, StreamErrorIgnored(r) \/ StreamEnds(r) \/ PlainEmpty(r)
  PROVE  Core'
<1>0. /\ r \in Live /\ phase[r] = "open" /\ {"dead", "closed"} \subseteq Phases
      /\ UNCHANGED <<editing, stream, kind, controller, imageGen, stopped, source, complete>>
      /\ UNCHANGED <<messages, saved, saveFailures, rendered, shown, due, late, pressed>>
      /\ complete \in BOOLEAN /\ controller \in 0..MaxRequests
  BY DEF StreamErrorIgnored, StreamEnds, PlainEmpty, PlainEnds, IsOpen, StreamKeeps, NotRendered,
         Live, Core, TypeOK, Phases
<1>1. PICK p \in {"dead", "closed"} :
        /\ phase' = [phase EXCEPT ![r] = p]
        /\ p = "dead" => kind[r] = "stream" /\ astray' = astray
        /\ p = "closed" => kind[r] = "plain" /\ astray' = TRUE
  BY DEF StreamErrorIgnored, StreamEnds, PlainEmpty, PlainEnds, IsOpen, StreamKeeps
<1>2. p \in Phases \ {"idle"}
  BY <1>0
<1>3. KindInv' /\ RefInv'
  BY <1>0, <1>1, <1>2, NetworkRefs
<1>4. LastIsAssistant(messages) => Rewrites(Last(messages), Last(messages), {r})
  BY SeqFacts DEF Rewrites, Core, TypeOK, LastIsAssistant
<1>5. astray' \in {astray, TRUE} /\ (p = "closed" => astray')
  BY <1>1
<1> QED
  BY <1>0, <1>1, <1>2, <1>3, <1>4, <1>5, NetworkInv

\* The answer of a plain request.
LEMMA PlainSteps ==
  ASSUME Core, NEW r \in Requests, PlainAnswer(r) \/ PlainError(r)
  PROVE  Core'
<1>0. /\ r \in Live /\ kind[r] = "plain" /\ "closed" \in Phases \ {"idle"}
      /\ UNCHANGED <<editing, stream, kind, source, complete, controller, imageGen, stopped, astray>>
      /\ complete \in BOOLEAN /\ phase' = [phase EXCEPT ![r] = "closed"]
  BY DEF PlainAnswer, PlainError, PlainEnds, IsOpen, Live, Core, TypeOK, Phases
<1>1. CASE PlainAnswer(r)
  <2>1. PICK b \in {{}, {r}} : QueueUpdate(UpdateLast(messages, Answered(Last(messages), b)))
    BY <1>1 DEF PlainAnswer
  <2>2. LastIsAssistant(messages) =>
          /\ Rewrites(Last(messages), Answered(Last(messages), b), {r})
          /\ ~Unfinished(Answered(Last(messages), b))
    BY LastUpdates
  <2> QED
    BY <1>0, <2>1, <2>2, QueuedInv
<1>2. CASE PlainError(r)
  <2>1. QueueUpdate(UpdateLast(messages, Errored(Last(messages))))
    BY <1>2 DEF PlainError
  <2>2. LastIsAssistant(messages) =>
          /\ Rewrites(Last(messages), Errored(Last(messages)), {r})
          /\ ~Unfinished(Errored(Last(messages)))
    BY LastUpdates
  <2> QED
    BY <1>0, <2>1, <2>2, QueuedInv
<1> QED
  BY <1>1, <1>2

\* The answers, polls and sleeps of an image request.
LEMMA ImageSteps ==
  ASSUME Core, NEW r \in Requests,
         \/ ImageAnswer(r) \/ ImageError(r) \/ ImageSubmitted(r) \/ ImagePolled(r) \/ ImageWakes(r)
  PROVE  Core'
<1>0. /\ r \in Live /\ kind[r] = "image" /\ {"closed", "poll", "sleep"} \subseteq Phases \ {"idle"}
      /\ UNCHANGED <<editing, stream, kind, source, complete, stopped, astray>>
      /\ complete \in BOOLEAN
  BY DEF ImageAnswer, ImageError, ImageSubmitted, ImagePolled, ImageWakes, IsImage, ImageFinally,
         ImageProgress, ImageKeeps, Live, Core, TypeOK, Phases
<1>1. ASSUME ImageFinally(r), NEW n, QueueUpdate(UpdateLast(messages, n)),
             LastIsAssistant(messages) => Rewrites(Last(messages), n, {r}) /\ ~Unfinished(n)
      PROVE  Core'
  <2>1. /\ phase' = [phase EXCEPT ![r] = "closed"] /\ controller' \in {controller, None}
        /\ imageGen' = FALSE
    BY <1>1 DEF ImageFinally
  <2> QED
    BY <1>0, <1>1, <2>1, QueuedInv
<1>2. ASSUME NEW p \in {"poll", "sleep"}, NEW ms, ImageProgress(r, p, ms),
             ms \in {messages, UpdateLast(messages, ImageStatus(Last(messages)))}
      PROVE  Core'
  <2>1. /\ phase' = [phase EXCEPT ![r] = p] /\ UNCHANGED <<controller, imageGen>> /\ p # "closed"
        /\ QueueUpdate(UpdateLast(messages, ImageStatus(Last(messages)))) \/ QueueUpdate(messages)
    BY <1>2 DEF ImageProgress
  <2>2. LastIsAssistant(messages) => Rewrites(Last(messages), ImageStatus(Last(messages)), {r})
    BY LastUpdates
  <2> QED
    BY <1>0, <2>1, <2>2, QueuedInv
<1>3. CASE ImageAnswer(r)
  <2>1. ImageFinally(r) /\ QueueUpdate(UpdateLast(messages, Answered(Last(messages), {r})))
    BY <1>3 DEF ImageAnswer
  <2> QED
    BY <1>1, <2>1, LastUpdates
<1>4. CASE ImageError(r)
  <2>1. ImageFinally(r) /\ QueueUpdate(UpdateLast(messages, Errored(Last(messages))))
    BY <1>4 DEF ImageError
  <2> QED
    BY <1>1, <2>1, LastUpdates
<1>5. CASE ImageSubmitted(r)
  BY <1>2, <1>5 DEF ImageSubmitted
<1>6. CASE ImagePolled(r)
  BY <1>2, <1>6 DEF ImagePolled
<1>7. CASE ImageWakes(r)
  <2>1. CASE r \in stopped
    <3>1. ImageFinally(r) /\ QueueUpdate(UpdateLast(messages, Answered(Last(messages), {0})))
      BY <1>7, <2>1 DEF ImageWakes
    <3> QED
      BY <1>1, <3>1, LastUpdates
  <2>2. CASE r \notin stopped
    BY <1>2, <1>7, <2>2 DEF ImageWakes
  <2> QED
    BY <2>1, <2>2
<1> QED
  BY <1>3, <1>4, <1>5, <1>6, <1>7

-----------------------------------------------------------------------------
(* The handlers of the user *)

\* What a render with the event leaves.
LEMMA RenderFacts ==
  ASSUME TypeOK, RenderNow, messages' \in Seq(Message)
  PROVE  /\ saved' \in {saved, messages'} /\ saved' \in Seq(Message)
         /\ saveFailures' \in 0..MaxSaveFailures
         /\ rendered' = messages' /\ shown' = IsGenerating' /\ due' = FALSE
         /\ shown' \in BOOLEAN /\ late' = FALSE
<1>1. /\ saved' \in {saved, messages'} /\ rendered' = messages' /\ shown' = IsGenerating'
      /\ due' = FALSE /\ late' = FALSE
  BY DEF RenderNow, SaveMessages
<1>2. saveFailures' \in 0..MaxSaveFailures
  <2>1. saveFailures \in 0..MaxSaveFailures /\ MaxSaveFailures \in Nat
    BY PlaygroundAssumption DEF TypeOK, PlaygroundAssumption
  <2>2. \/ saveFailures' = saveFailures
        \/ saveFailures < MaxSaveFailures /\ saveFailures' = saveFailures + 1
    BY DEF RenderNow, SaveMessages
  <2> QED
    BY <2>1, <2>2
<1>3. shown' \in BOOLEAN
  BY <1>1 DEF IsGenerating
<1> QED
  BY <1>1, <1>2, <1>3 DEF TypeOK

\* A handler that leaves the run unraced finds no live request and has the latest
\* conversation at hand.
LEMMA HandlerSees ==
  ASSUME Core, NEW guarded \in BOOLEAN, guarded => ~shown, Touch(guarded)
  PROVE  /\ astray' \in BOOLEAN
         /\ ~astray' => ~astray /\ Live = {} /\ rendered = messages
<1>1. astray' = (astray \/ late \/ (~(guarded /\ stream) /\ (Live # {} \/ due)))
  BY DEF Touch
<1>2. astray \in BOOLEAN /\ due \in BOOLEAN /\ stream \in BOOLEAN /\ late \in BOOLEAN
  BY DEF Core, TypeOK
<1>3. ASSUME ~astray' PROVE ~astray /\ Live = {} /\ rendered = messages
  <2>1. ~astray /\ ~late
    BY <1>1, <1>3
  <2>2. CASE guarded /\ stream
    <3>1. Live = {}
      BY <2>1, <2>2, LiveKinds
    <3> QED
      BY <2>1, <2>2, <3>1 DEF Core, GuardedSeesLatest
  <2>3. CASE ~(guarded /\ stream)
    BY <1>1, <1>3, <2>1, <2>3 DEF Core, ShownInv
  <2> QED
    BY <2>2, <2>3
<1> QED
  BY <1>1, <1>2, <1>3

\* A conversation a handler makes of the messages it has at hand: text that is not the
\* user's, and an unfinished message, come from there.
Drawn(ms, old) ==
  \A i \in DOMAIN ms :
    /\ Unfinished(ms[i]) => \E j \in DOMAIN old : Unfinished(old[j])
    /\ ms[i].by # {0} => \E j \in DOMAIN old :
                           Key(old[j]) = Key(ms[i]) /\ ms[i].by \subseteq old[j].by \cup {0}

\* The step adds no text of a request that was stopped before.
Silent ==
  \A r \in stopped : \A i \in DOMAIN messages' :
    r \in messages'[i].by =>
      \E ms \in Copies : \E j \in DOMAIN ms :
        Key(ms[j]) = Key(messages'[i]) /\ r \in ms[j].by

\* What text of a stopped request is drawn from.
LEMMA DrawnSilent ==
  ASSUME Core, NEW old \in Copies, NEW ms, Drawn(ms, old), NEW q \in stopped, NEW i \in DOMAIN ms,
         q \in ms[i].by
  PROVE  \E j \in DOMAIN old : Key(old[j]) = Key(ms[i]) /\ q \in old[j].by
<1>1. q # 0
  BY BoundType DEF Core, TypeOK
<1> QED
  BY <1>1 DEF Drawn

\* Without a live request it has finished messages with their own text only.
LEMMA DrawnText ==
  ASSUME Core, NEW ms \in Seq(Message), Drawn(ms, messages), ~astray, Live = {}
  PROVE  Own(ms) /\ \A i \in DOMAIN ms : ~Unfinished(ms[i])
<1>1. /\ Own(messages) /\ \A j \in DOMAIN messages : ~Unfinished(messages[j])
  BY DEF Core, OwnAnswer, LiveText
<1>2. \A i \in DOMAIN ms : ~Unfinished(ms[i])
  BY <1>1 DEF Drawn
<1>3. ASSUME NEW i \in DOMAIN ms, ms[i].from = "assistant"
      PROVE  ms[i].by \subseteq {0, ms[i].req}
  <2>1. CASE ms[i].by = {0}
    BY <2>1
  <2>2. CASE ms[i].by # {0}
    <3>1. PICK j \in DOMAIN messages : Key(messages[j]) = Key(ms[i]) /\ ms[i].by \subseteq messages[j].by \cup {0}
      BY <2>2 DEF Drawn
    <3>2. messages[j].from = ms[i].from /\ messages[j].req = ms[i].req
      BY <3>1 DEF Key
    <3> QED
      BY <1>1, <1>3, <3>1, <3>2 DEF Own
  <2> QED
    BY <2>1, <2>2
<1> QED
  BY <1>2, <1>3 DEF Own

\* The text of an unraced run, from a conversation with its own text that is finished
\* but for its last message.
LEMMA TextSteps ==
  ASSUME Core, messages' \in Seq(Message), saved' \in {saved, messages'},
         ~astray' => /\ ~astray /\ Own(messages') /\ OnlyLastUnfinished(messages')
                     /\ \A i \in DOMAIN messages' :
                          Unfinished(messages'[i]) => messages'[i].req \in Live'
  PROVE  TextInv' /\ OwnAnswer' /\ LiveText'
<1>1. ~astray' => OnlyLastUnfinished(saved) /\ Own(saved)
  BY DEF Core, TextInv
<1> QED
  BY <1>1 DEF TextInv, OwnAnswer, LiveText

\* A handler that rewrites the conversation and starts nothing.
LEMMA RewriteInv ==
  ASSUME Core, NEW guarded \in BOOLEAN, guarded => ~shown, Touch(guarded),
         messages' \in Seq(Message), Drawn(messages', rendered), RenderNow,
         UNCHANGED <<source, imageGen, stream, kind, phase, complete, controller, stopped, pressed>>,
         editing' \in {NoKey} \cup ({"user", "assistant"} \X Requests)
  PROVE  Core' /\ Silent
<1>1. /\ astray' \in BOOLEAN /\ (~astray' => ~astray /\ Live = {} /\ rendered = messages)
      /\ Live' = Live
  BY HandlerSees DEF Live
<1>2. /\ saved' \in {saved, messages'} /\ saved' \in Seq(Message)
      /\ saveFailures' \in 0..MaxSaveFailures
      /\ rendered' = messages' /\ shown' = IsGenerating' /\ due' = FALSE
      /\ shown' \in BOOLEAN /\ late' = FALSE
  BY RenderFacts DEF Core
<1>3. TypeOK'
  BY <1>1, <1>2 DEF Core, TypeOK
<1>4. KindInv' /\ RefInv'
  BY DEF Core, KindInv, RefInv, Waited
<1>5. ShownInv'
  <2>1. ~astray' => ~IsGenerating'
    BY <1>1, AtRest DEF IsGenerating
  <2> QED
    BY <1>2, <2>1 DEF ShownInv
<1>6. FlightInv'
  BY <1>1 DEF FlightInv
<1>7. GuardedSeesLatest'
  BY <1>2 DEF GuardedSeesLatest
<1>8. TextInv' /\ OwnAnswer' /\ LiveText'
  <2>1. ~astray' => /\ ~astray /\ Own(messages') /\ OnlyLastUnfinished(messages')
                    /\ \A i \in DOMAIN messages' :
                         Unfinished(messages'[i]) => messages'[i].req \in Live'
    BY <1>1, DrawnText DEF OnlyLastUnfinished
  <2> QED
    BY <1>2, <2>1, TextSteps
<1>9. Silent
  <2>1. rendered \in Copies
    BY DEF Copies
  <2> QED
    BY <2>1, DrawnSilent DEF Silent
<1> QED
  BY <1>3, <1>4, <1>5, <1>6, <1>7, <1>8, <1>9 DEF Core

\* What sending leaves of the new message and of the page, for the three kinds.
Sent(r, k, p, m) ==
  /\ kind' = [kind EXCEPT ![r] = k] /\ phase' = [phase EXCEPT ![r] = p]
  /\ m \in Message /\ m.from = "assistant" /\ m.req = r /\ m.by \subseteq {0}
  /\ p = "closed" => ~Unfinished(m)
  /\ k = "stream" => /\ stream /\ p \in {"open", "closed"} /\ UNCHANGED <<controller, imageGen>>
                     /\ source' = IF p = "open" THEN r ELSE None
  /\ k = "plain"  => ~stream /\ p = "open" /\ UNCHANGED <<source, controller, imageGen>>
  /\ k = "image"  => /\ p \in {"post", "closed"} /\ source' = source
                     /\ IF p = "post" THEN controller' = r /\ imageGen' = TRUE
                        ELSE UNCHANGED <<controller, imageGen>>

Replaced(ms, m) ==
  /\ messages' \in Seq(Message) /\ Len(messages') = Len(ms) /\ LastIsAssistant(messages')
  /\ messages'[Len(ms)] = m /\ DOMAIN messages' = DOMAIN ms
  /\ \A i \in DOMAIN ms : i # Len(ms) => messages'[i] = ms[i]

\* sendChat and sendImage start at most one request and replace the placeholder.
LEMMA SendFacts ==
  ASSUME TypeOK, NEW r \in Requests, NEW ms \in Seq(Message), LastIsAssistant(ms),
         Last(ms) = LoadingMessage(r), SendEither(r, ms)
  PROVE  /\ complete' \in BOOLEAN
         /\ \E k \in {"stream", "plain", "image"}, p \in {"open", "post", "closed"}, m \in Message :
              Sent(r, k, p, m) /\ Replaced(ms, m)
<1>0. /\ LoadingMessage(r) \in Message /\ LoadingMessage(r).from = "assistant"
      /\ LoadingMessage(r).req = r /\ LoadingMessage(r).by = {}
  BY BoundType DEF LoadingMessage, Message, Statuses
<1>1. /\ Rewrites(Last(ms), Errored(Last(ms)), {}) /\ ~Unfinished(Errored(Last(ms)))
      /\ Rewrites(Last(ms), ImageStatus(Last(ms)), {})
  BY <1>0, UpdaterFacts
<1>2. ASSUME NEW m, Rewrites(Last(ms), m, {})
      PROVE  /\ m \in Message /\ m.from = "assistant" /\ m.req = r /\ m.by \subseteq {0}
             /\ messages' = UpdateLast(ms, m) => Replaced(ms, m)
  <2>1. m \in Message /\ m.from = "assistant" /\ m.req = r /\ m.by \subseteq {0}
    BY <1>0, <1>2 DEF Rewrites
  <2> QED
    BY <2>1, UpdateFacts DEF Replaced
<1>3. messages' = ms => Replaced(ms, LoadingMessage(r))
  BY DEF Replaced, Last
<1>4. CASE SendImage(r, ms)
  <2>0. UNCHANGED <<source, complete>>
    BY <1>4 DEF SendImage
  <2>1. CASE /\ Begin(r, "image", "post") /\ controller' = r /\ imageGen' = TRUE
             /\ messages' = UpdateLast(ms, ImageStatus(Last(ms)))
    <3>1. Sent(r, "image", "post", ImageStatus(Last(ms))) /\ Replaced(ms, ImageStatus(Last(ms)))
      BY <1>1, <1>2, <2>0, <2>1 DEF Sent, Begin
    <3> QED
      BY <1>1, <1>2, <2>0, <3>1 DEF TypeOK
  <2>2. CASE /\ Begin(r, "image", "closed") /\ messages' = UpdateLast(ms, Errored(Last(ms)))
             /\ UNCHANGED <<controller, imageGen>>
    <3>1. Sent(r, "image", "closed", Errored(Last(ms))) /\ Replaced(ms, Errored(Last(ms)))
      BY <1>1, <1>2, <2>0, <2>2 DEF Sent, Begin
    <3> QED
      BY <1>1, <1>2, <2>0, <3>1 DEF TypeOK
  <2> QED
    BY <1>4, <2>1, <2>2 DEF SendImage
<1>5. CASE stream /\ SendStreamingChat(r, ms)
  <2>0. UNCHANGED <<controller, imageGen>> /\ complete' = FALSE
    BY <1>5 DEF SendStreamingChat
  <2>1. CASE Begin(r, "stream", "open") /\ source' = r /\ messages' = ms
    <3>1. Sent(r, "stream", "open", LoadingMessage(r)) /\ Replaced(ms, LoadingMessage(r))
      BY <1>0, <1>3, <1>5, <2>0, <2>1 DEF Sent, Begin
    <3> QED
      BY <1>0, <2>0, <3>1
  <2>2. CASE /\ Begin(r, "stream", "closed") /\ source' = None
             /\ messages' = UpdateLast(ms, Errored(Last(ms)))
    <3>1. Sent(r, "stream", "closed", Errored(Last(ms))) /\ Replaced(ms, Errored(Last(ms)))
      BY <1>1, <1>2, <1>5, <2>0, <2>2 DEF Sent, Begin
    <3> QED
      BY <1>1, <1>2, <2>0, <3>1
  <2> QED
    BY <1>5, <2>1, <2>2 DEF SendStreamingChat
<1>6. CASE ~stream /\ SendNonStreamingChat(r, ms)
  <2>1. /\ Begin(r, "plain", "open") /\ messages' = ms
        /\ UNCHANGED <<source, complete, controller, imageGen>>
    BY <1>6 DEF SendNonStreamingChat
  <2>2. Sent(r, "plain", "open", LoadingMessage(r)) /\ Replaced(ms, LoadingMessage(r))
    BY <1>0, <1>3, <1>6, <2>1 DEF Sent, Begin
  <2> QED
    BY <1>0, <2>1, <2>2 DEF TypeOK
<1> QED
  BY <1>4, <1>5, <1>6 DEF SendEither, SendChat

\* A handler that starts request r with a new last message, after the messages of the
\* conversation old it has at hand; rendered with its event or later.
LEMMA StartInv ==
  ASSUME Core, NEW old \in Copies,
         astray' \in BOOLEAN, ~astray' => ~astray /\ Live = {} /\ old = messages,
         NEW r \in Requests, phase[r] = "idle",
         NEW kept \in Seq(Message), Drawn(kept, old),
         SendEither(r, kept \o <<LoadingMessage(r)>>), UNCHANGED <<stream, stopped>>,
         RenderNow \/ (NotRendered /\ due' = TRUE /\ late' = TRUE),
         pressed' \in Seq(Seq(Message)),
         editing' \in {NoKey} \cup ({"user", "assistant"} \X Requests)
  PROVE  Core' /\ Silent
<1>0. LoadingMessage(r) \in Message /\ LoadingMessage(r).from = "assistant"
  BY BoundType DEF LoadingMessage, Message, Statuses
<1>a. PICK ms \in Seq(Message) :
        /\ ms = kept \o <<LoadingMessage(r)>> /\ LastIsAssistant(ms) /\ Last(ms) = LoadingMessage(r)
        /\ \A i \in DOMAIN ms : i # Len(ms) => i \in DOMAIN kept /\ ms[i] = kept[i]
  BY <1>0, ExtendFacts
<1>b. /\ complete' \in BOOLEAN
      /\ \E k \in {"stream", "plain", "image"}, p \in {"open", "post", "closed"}, m \in Message :
           Sent(r, k, p, m) /\ Replaced(ms, m)
  BY <1>a, SendFacts DEF Core
<1>c. PICK k \in {"stream", "plain", "image"}, p \in {"open", "post", "closed"}, m \in Message :
        Sent(r, k, p, m) /\ Replaced(ms, m)
  BY <1>b
<1>1. /\ kind'[r] = k /\ phase'[r] = p /\ r # 0
      /\ kind' \in [Requests -> {"none", "stream", "plain", "image"}]
      /\ phase' \in [Requests -> Phases]
      /\ \A q \in Requests : q # r => kind'[q] = kind[q] /\ phase'[q] = phase[q]
  BY <1>c, BoundType DEF Sent, Core, TypeOK, Phases
<1>2. /\ messages' \in Seq(Message) /\ LastIsAssistant(messages') /\ Last(messages') = m
      /\ Len(messages') = Len(ms) /\ DOMAIN messages' = DOMAIN ms
      /\ \A i \in DOMAIN ms : i # Len(ms) => messages'[i] = ms[i]
  BY <1>c DEF Replaced, Last
<1>3. /\ saved' \in {saved, messages'} /\ saved' \in Seq(Message)
      /\ saveFailures' \in 0..MaxSaveFailures
      /\ rendered' \in Seq(Message) /\ shown' \in BOOLEAN
      /\ due' \in BOOLEAN /\ late' \in BOOLEAN
      /\ \/ rendered' = messages' /\ shown' = IsGenerating' /\ due' = FALSE /\ late' = FALSE
         \/ due' = TRUE /\ late' = TRUE
  <2>1. CASE RenderNow
    BY <1>2, <2>1, RenderFacts DEF Core
  <2>2. CASE NotRendered /\ due' = TRUE /\ late' = TRUE
    BY <2>2 DEF NotRendered, Core, TypeOK
  <2> QED
    BY <2>1, <2>2
<1>4. astray' \in BOOLEAN /\ (~astray' => ~astray /\ Live = {} /\ old = messages)
  OBVIOUS
<1>5. TypeOK'
  <2>1. source' \in 0..MaxRequests /\ controller' \in 0..MaxRequests /\ imageGen' \in BOOLEAN
    BY <1>c, BoundType DEF Sent, Core, TypeOK, None
  <2> QED
    BY <1>b, <1>1, <1>2, <1>3, <1>4, <2>1 DEF Core, TypeOK
<1>6. KindInv'
  <2>1. ASSUME NEW q \in Requests
        PROVE  /\ phase'[q] = "open" => kind'[q] \in {"stream", "plain"}
               /\ phase'[q] = "dead" => kind'[q] = "stream"
               /\ phase'[q] \in {"post", "poll", "sleep"} => kind'[q] = "image"
    <3>1. CASE q = r
      BY <1>1, <1>c, <3>1 DEF Sent
    <3>2. CASE q # r
      BY <1>1, <3>2 DEF Core, KindInv
    <3> QED
      BY <3>1, <3>2
  <2> QED
    BY <2>1 DEF KindInv
<1>7. RefInv'
  <2>1. ASSUME source' # None PROVE kind'[source'] = "stream" /\ phase'[source'] \in {"open", "dead"}
    <3>1. CASE source' = r /\ k = "stream" /\ p = "open"
      BY <1>1, <3>1
    <3>2. CASE source' = source
      <4>1. source \in Requests /\ kind[source] = "stream" /\ phase[source] \in {"open", "dead"}
        BY <2>1, <3>2 DEF Core, RefInv, TypeOK, Requests, None
      <4> QED
        BY <1>1, <3>2, <4>1
    <3> QED
      BY <1>c, <2>1, <3>1, <3>2 DEF Sent
  <2>2. ASSUME controller' # None PROVE kind'[controller'] = "image" /\ phase'[controller'] # "idle"
    <3>1. CASE controller' = r /\ k = "image" /\ p = "post"
      BY <1>1, <3>1
    <3>2. CASE controller' = controller
      <4>1. controller \in Requests /\ kind[controller] = "image" /\ phase[controller] # "idle"
        BY <2>2, <3>2 DEF Core, RefInv, TypeOK, Requests, None
      <4> QED
        BY <1>1, <3>2, <4>1
    <3> QED
      BY <1>c, <2>2, <3>1, <3>2 DEF Sent
  <2>3. ASSUME imageGen' PROVE \E q \in Requests : phase'[q] \in {"post", "poll", "sleep"}
    <3>1. CASE p = "post"
      BY <1>1, <3>1
    <3>2. CASE p # "post"
      <4>1. imageGen
        BY <1>c, <2>3, <3>2 DEF Sent
      <4>2. PICK q \in Requests : phase[q] \in {"post", "poll", "sleep"}
        BY <4>1 DEF Core, RefInv, Waited
      <4> QED
        BY <1>1, <4>2
    <3> QED
      BY <3>1, <3>2
  <2>4. ASSUME NEW q \in stopped
        PROVE  phase'[q] = "closed" \/ phase'[q] \in {"post", "poll", "sleep"}
    <3>1. q \in Requests /\ (phase[q] = "closed" \/ phase[q] \in {"post", "poll", "sleep"})
      BY DEF Core, RefInv, Waited, TypeOK
    <3> QED
      BY <1>1, <3>1
  <2> QED
    BY <2>1, <2>2, <2>3, <2>4 DEF RefInv, Waited
<1>8. ShownInv'
  BY <1>2, <1>3 DEF ShownInv
<1>9. GuardedSeesLatest'
  BY <1>3 DEF GuardedSeesLatest
<1>10. ASSUME ~astray' PROVE Live' \subseteq {r} /\ (p # "closed" => r \in Live')
  <2>1. Live = {}
    BY <1>4, <1>10
  <2> QED
    BY <1>1, <2>1 DEF Live
<1>11. FlightInv'
  <2>1. ASSUME ~astray', NEW q \in Live'
        PROVE  /\ LastIsAssistant(messages') /\ Last(messages').req = q
               /\ kind'[q] = "stream" => stream' /\ source' = q
               /\ kind'[q] = "image"  => imageGen' /\ controller' = q
               /\ kind'[q] = "plain"  => ~stream'
    <3>1. q = r /\ p # "closed"
      BY <1>1, <1>10, <2>1 DEF Live
    <3>2. Last(messages').req = r
      BY <1>2, <1>c DEF Sent
    <3>3. k = "stream" => stream /\ source' = r
      BY <1>1, <1>c, <3>1 DEF Sent
    <3>4. k = "image" => imageGen' /\ controller' = r
      BY <1>c, <3>1 DEF Sent
    <3>5. k = "plain" => ~stream
      BY <1>c DEF Sent
    <3> QED
      BY <1>1, <1>2, <3>1, <3>2, <3>3, <3>4, <3>5
  <2> QED
    BY <2>1 DEF FlightInv
<1>12. TextInv' /\ OwnAnswer' /\ LiveText'
  <2>1. ASSUME ~astray'
        PROVE  /\ ~astray /\ Own(messages') /\ OnlyLastUnfinished(messages')
               /\ \A i \in DOMAIN messages' : Unfinished(messages'[i]) => messages'[i].req \in Live'
    <3>1. ~astray /\ Own(kept) /\ \A i \in DOMAIN kept : ~Unfinished(kept[i])
      BY <1>4, <2>1, DrawnText
    <3>2. ASSUME NEW i \in DOMAIN messages', i # Len(messages')
          PROVE  i \in DOMAIN kept /\ messages'[i] = kept[i]
      BY <1>2, <1>a, <3>2
    <3>3. /\ messages'[Len(messages')] = m /\ m.from = "assistant" /\ m.req = r
          /\ m.by \subseteq {0, m.req}
          /\ Unfinished(m) => r \in Live'
      BY <1>2, <1>10, <1>c, <2>1 DEF Last, Sent
    <3>4. Own(messages')
      BY <3>1, <3>2, <3>3 DEF Own
    <3>5. OnlyLastUnfinished(messages')
      BY <3>1, <3>2, <3>3 DEF OnlyLastUnfinished
    <3> QED
      BY <3>1, <3>2, <3>3, <3>4, <3>5
  <2> QED
    BY <1>2, <1>3, <2>1, TextSteps
<1>13. Silent
  <2>1. \A q \in stopped : q # 0
    BY BoundType DEF Core, TypeOK
  <2>2. ASSUME NEW q \in stopped, NEW i \in DOMAIN messages', q \in messages'[i].by
        PROVE  \E j \in DOMAIN old : Key(old[j]) = Key(messages'[i]) /\ q \in old[j].by
    <3>1. i # Len(messages')
      BY <1>2, <1>c, <2>1, <2>2 DEF Last, Sent
    <3>2. i \in DOMAIN kept /\ messages'[i] = kept[i]
      BY <1>2, <1>a, <3>1
    <3> QED
      BY <2>2, <3>2, DrawnSilent
  <2> QED
    BY <2>2 DEF Silent
<1> QED
  BY <1>5, <1>6, <1>7, <1>8, <1>9, <1>11, <1>12, <1>13 DEF Core

-----------------------------------------------------------------------------
(* What the handlers make of the conversation *)

\* Cutting a conversation.
LEMMA DrawnSub ==
  ASSUME NEW ms \in Seq(Message), NEW old, Drawn(ms, old),
         NEW a \in Nat \ {0}, NEW b \in Nat, b <= Len(ms)
  PROVE  SubSeq(ms, a, b) \in Seq(Message) /\ Drawn(SubSeq(ms, a, b), old)
<1>1. DOMAIN ms = 1..Len(ms) /\ Len(ms) \in Nat /\ \A i \in 1..Len(ms) : ms[i] \in Message
  BY SeqFacts
<1>2. \A i \in a..b : ms[i] \in Message
  BY <1>1
<1>3. /\ SubSeq(ms, a, b) \in Seq(Message)
      /\ Len(SubSeq(ms, a, b)) = IF a <= b THEN b - a + 1 ELSE 0
      /\ \A i \in 1..b - a + 1 : SubSeq(ms, a, b)[i] = ms[a + i - 1]
  BY <1>2, SubSeqProperties
<1>4. ASSUME NEW i \in DOMAIN SubSeq(ms, a, b)
      PROVE  \E j \in DOMAIN ms : SubSeq(ms, a, b)[i] = ms[j]
  <2>1. i \in 1..Len(SubSeq(ms, a, b))
    BY <1>3, SeqFacts
  <2>2. a <= b /\ i \in 1..b - a + 1
    BY <1>3, <2>1
  <2>3. a + i - 1 \in 1..Len(ms)
    BY <1>1, <2>2
  <2> QED
    BY <1>1, <1>3, <2>2, <2>3
<1>5. Drawn(SubSeq(ms, a, b), old)
  <2> HIDE <1>3
  <2>1. ASSUME NEW i \in DOMAIN SubSeq(ms, a, b)
        PROVE  /\ Unfinished(SubSeq(ms, a, b)[i]) => \E j \in DOMAIN old : Unfinished(old[j])
               /\ SubSeq(ms, a, b)[i].by # {0} =>
                    \E j \in DOMAIN old : /\ Key(old[j]) = Key(SubSeq(ms, a, b)[i])
                                           /\ SubSeq(ms, a, b)[i].by \subseteq old[j].by \cup {0}
    <3>1. PICK j \in DOMAIN ms : SubSeq(ms, a, b)[i] = ms[j]
      BY <1>4
    <3> QED
      BY <3>1 DEF Drawn
  <2> QED
    BY <2>1 DEF Drawn
<1> QED
  BY <1>3, <1>5

\* Joining two conversations.
LEMMA DrawnConcat ==
  ASSUME NEW s \in Seq(Message), NEW t \in Seq(Message), NEW old, Drawn(s, old), Drawn(t, old)
  PROVE  s \o t \in Seq(Message) /\ Drawn(s \o t, old)
<1>1. /\ s \o t \in Seq(Message) /\ Len(s \o t) = Len(s) + Len(t)
      /\ \A i \in 1..Len(s) + Len(t) : (s \o t)[i] = IF i <= Len(s) THEN s[i] ELSE t[i - Len(s)]
  BY ConcatProperties
<1>2. /\ Len(s) \in Nat /\ DOMAIN s = 1..Len(s) /\ Len(t) \in Nat /\ DOMAIN t = 1..Len(t)
      /\ DOMAIN (s \o t) = 1..Len(s) + Len(t)
  BY <1>1, SeqFacts
<1>3. ASSUME NEW i \in DOMAIN (s \o t)
      PROVE  \/ \E j \in DOMAIN s : (s \o t)[i] = s[j]
             \/ \E j \in DOMAIN t : (s \o t)[i] = t[j]
  <2>1. CASE i <= Len(s)
    BY <1>1, <1>2, <2>1
  <2>2. CASE ~(i <= Len(s))
    <3>1. i - Len(s) \in DOMAIN t /\ (s \o t)[i] = t[i - Len(s)]
      BY <1>1, <1>2, <2>2
    <3> QED
      BY <3>1
  <2> QED
    BY <2>1, <2>2
<1>4. ASSUME NEW i \in DOMAIN (s \o t)
      PROVE  /\ Unfinished((s \o t)[i]) => \E j \in DOMAIN old : Unfinished(old[j])
             /\ (s \o t)[i].by # {0} =>
                  \E j \in DOMAIN old : /\ Key(old[j]) = Key((s \o t)[i])
                                         /\ (s \o t)[i].by \subseteq old[j].by \cup {0}
  <2>1. PICK m : /\ m = (s \o t)[i]
                 /\ (\E j \in DOMAIN s : m = s[j]) \/ (\E j \in DOMAIN t : m = t[j])
    BY <1>3
  <2>2. /\ Unfinished(m) => \E j \in DOMAIN old : Unfinished(old[j])
        /\ m.by # {0} => \E j \in DOMAIN old : Key(old[j]) = Key(m) /\ m.by \subseteq old[j].by \cup {0}
    BY <2>1 DEF Drawn
  <2> QED
    BY <2>1, <2>2
<1> QED
  BY <1>1, <1>4 DEF Drawn

\* Editing a message: its content is the user's from then on.
LEMMA EditedFacts ==
  ASSUME NEW ms \in Seq(Message), NEW i \in DOMAIN ms
  PROVE  /\ Edited(ms, i) \in Seq(Message) /\ Len(Edited(ms, i)) = Len(ms)
         /\ Drawn(Edited(ms, i), ms)
         /\ LastIsAssistant(ms) => LastIsAssistant(Edited(ms, i))
<1> DEFINE m == [ms[i] EXCEPT !.by = @ \cup {0}]
<1>0. Len(ms) \in Nat /\ DOMAIN ms = 1..Len(ms) /\ ms[i] \in Message
  BY SeqFacts
<1>1. /\ m \in Message /\ m.from = ms[i].from /\ m.req = ms[i].req /\ m.status = ms[i].status
      /\ m.by = ms[i].by \cup {0}
  <2>1. ms[i].by \cup {0} \in SUBSET (0..MaxRequests)
    BY <1>0, BoundType, MessageTypes
  <2> QED
    BY <1>0, <2>1 DEF Message
<1>2. Edited(ms, i) = [ms EXCEPT ![i] = m]
  BY DEF Edited
<1> HIDE DEF m
<1>3. /\ [ms EXCEPT ![i] = m] \in Seq(Message) /\ Len([ms EXCEPT ![i] = m]) = Len(ms)
      /\ \A j \in 1..Len(ms) : [ms EXCEPT ![i] = m][j] = IF j = i THEN m ELSE ms[j]
  BY <1>0, <1>1, ExceptSeq
<1>4. /\ Edited(ms, i) \in Seq(Message) /\ Len(Edited(ms, i)) = Len(ms)
      /\ DOMAIN Edited(ms, i) = DOMAIN ms
      /\ \A j \in DOMAIN ms : Edited(ms, i)[j] = IF j = i THEN m ELSE ms[j]
  <2>1. DOMAIN [ms EXCEPT ![i] = m] = DOMAIN ms
    OBVIOUS
  <2> QED
    BY <1>0, <1>2, <1>3, <2>1
<1>5. Drawn(Edited(ms, i), ms)
  <2>1. ASSUME NEW j \in DOMAIN Edited(ms, i)
        PROVE  /\ Unfinished(Edited(ms, i)[j]) => \E q \in DOMAIN ms : Unfinished(ms[q])
               /\ Edited(ms, i)[j].by # {0} =>
                    \E q \in DOMAIN ms : /\ Key(ms[q]) = Key(Edited(ms, i)[j])
                                          /\ Edited(ms, i)[j].by \subseteq ms[q].by \cup {0}
    <3>1. CASE j = i
      BY <1>1, <1>4, <3>1 DEF Unfinished, Key
    <3>2. CASE j # i
      BY <1>4, <3>2
    <3> QED
      BY <3>1, <3>2
  <2> QED
    BY <2>1 DEF Drawn
<1>6. ASSUME LastIsAssistant(ms) PROVE LastIsAssistant(Edited(ms, i))
  <2>1. Len(ms) \in DOMAIN ms /\ ms[Len(ms)].from = "assistant"
    BY <1>6, SeqFacts DEF LastIsAssistant, Last
  <2>2. Edited(ms, i)[Len(ms)].from = "assistant"
    BY <1>1, <1>4, <2>1
  <2>3. Edited(ms, i) # <<>>
    BY <1>4, <2>1
  <2> QED
    BY <1>4, <2>2, <2>3 DEF LastIsAssistant, Last
<1> QED
  BY <1>4, <1>5, <1>6

\* The two messages of a question are those of its parts.
LEMMA PairConcat ==
  ASSUME NEW m \in Message, NEW n \in Message
  PROVE  <<m>> \o <<n>> = <<m, n>>
<1>1. /\ <<m>> \in Seq(Message) /\ Len(<<m>>) = 1 /\ <<n>> \in Seq(Message) /\ Len(<<n>>) = 1
      /\ <<m>>[1] = m /\ <<n>>[1] = n
  OBVIOUS
<1>2. <<m, n>> \in Seq(Message) /\ Len(<<m, n>>) = 2 /\ <<m, n>>[1] = m /\ <<m, n>>[2] = n
  OBVIOUS
<1>3. /\ <<m>> \o <<n>> \in Seq(Message) /\ Len(<<m>> \o <<n>>) = 2
      /\ (<<m>> \o <<n>>)[1] = m /\ (<<m>> \o <<n>>)[2] = n
  BY <1>1, ConcatProperties
<1> DEFINE s == <<m>> \o <<n>>
           t == <<m, n>>
<1>4. s \in Seq(Message) /\ t \in Seq(Message) /\ Len(s) = Len(t) /\ Len(s) = 2
      /\ s[1] = t[1] /\ s[2] = t[2]
  BY <1>2, <1>3
<1> HIDE DEF s, t
<1>5. \A i \in 1..Len(s) : s[i] = t[i]
  BY <1>4
<1>6. s = t
  BY <1>4, <1>5, SeqEqual
<1> QED
  BY <1>6 DEF s, t

-----------------------------------------------------------------------------
(* The steps *)

\* A sequence without one of its elements.
LEMMA WithoutType ==
  ASSUME NEW S, NEW s \in Seq(S), NEW i \in DOMAIN s
  PROVE  Without(s, i) \in Seq(S)
<1>1. Len(s) \in Nat /\ DOMAIN s = 1..Len(s) /\ \A j \in 1..Len(s) : s[j] \in S
  BY LenProperties, ElementOfSeq
<1>2. SubSeq(s, 1, i - 1) \in Seq(S)
  BY <1>1, SubSeqProperties
<1>3. SubSeq(s, i + 1, Len(s)) \in Seq(S)
  BY <1>1, SubSeqProperties
<1> QED
  BY <1>2, <1>3, ConcatProperties DEF Without

\* A question and its placeholder after the conversation old.
LEMMA SendStep ==
  ASSUME Core, NEW old \in Copies, old \in Seq(Message), NEW r \in Requests,
         astray' \in BOOLEAN, ~astray' => ~astray /\ Live = {} /\ old = messages,
         HandleSendMessage(r, old), RenderNow \/ (NotRendered /\ due' = TRUE /\ late' = TRUE),
         pressed' \in Seq(Seq(Message))
  PROVE  Core' /\ Silent
<1>0. /\ phase[r] = "idle" /\ UNCHANGED <<editing, stream, stopped>>
      /\ editing' \in {NoKey} \cup ({"user", "assistant"} \X Requests)
      /\ SendEither(r, old \o <<UserMessage(r), LoadingMessage(r)>>)
  BY DEF HandleSendMessage, NextRequest, Core, TypeOK
<1>2. /\ UserMessage(r) \in Message /\ LoadingMessage(r) \in Message
      /\ UserMessage(r).by = {0} /\ UserMessage(r).status = "none"
  BY BoundType DEF UserMessage, LoadingMessage, Message, Statuses
<1>3. <<UserMessage(r)>> \in Seq(Message) /\ Drawn(<<UserMessage(r)>>, old)
  BY <1>2 DEF Drawn, Unfinished
<1>4. Drawn(old, old)
  BY DEF Drawn
<1> DEFINE kept == old \o <<UserMessage(r)>>
<1>5. kept \in Seq(Message) /\ Drawn(kept, old)
  BY <1>3, <1>4, DrawnConcat
<1>6. old \o <<UserMessage(r), LoadingMessage(r)>> = kept \o <<LoadingMessage(r)>>
  <2>1. <<LoadingMessage(r)>> \in Seq(Message)
    BY <1>2
  <2>2. <<UserMessage(r)>> \o <<LoadingMessage(r)>> = <<UserMessage(r), LoadingMessage(r)>>
    BY <1>2, PairConcat
  <2> QED
    BY <1>3, <2>1, <2>2, ConcatAssociative
<1> HIDE DEF kept
<1> QED
  BY <1>0, <1>5, <1>6, StartInv

\* A suggestion.
LEMMA SuggestionStep ==
  ASSUME Core, NEW r \in Requests, SuggestionClick(r)
  PROVE  Core' /\ Silent
<1>1. /\ HandleSendMessage(r, rendered) /\ RenderNow /\ Touch(FALSE) /\ pressed' = pressed
      /\ rendered \in Seq(Message) /\ rendered \in Copies /\ pressed \in Seq(Seq(Message))
  BY DEF SuggestionClick, Core, TypeOK, Copies
<1>2. astray' \in BOOLEAN /\ (~astray' => ~astray /\ Live = {} /\ rendered = messages)
  BY <1>1, HandlerSees
<1> QED
  BY <1>1, <1>2, SendStep

\* The composer sends what its submit closed over.
LEMMA SubmitStep ==
  ASSUME Core, NEW k \in DOMAIN pressed, NEW r \in Requests, Submit(k, r)
  PROVE  Core' /\ Silent
<1>1. /\ HandleSendMessage(r, pressed[k]) /\ NotRendered /\ due' = TRUE /\ late' = TRUE
      /\ pressed' = Without(pressed, k)
      /\ astray' = (astray \/ Live # {} \/ pressed[k] # messages)
  BY DEF Submit
<1>2. pressed[k] \in Copies /\ pressed \in Seq(Seq(Message)) /\ astray \in BOOLEAN
  BY DEF Copies, Core, TypeOK
<1>3. pressed[k] \in Seq(Message)
  BY <1>2, LenProperties, ElementOfSeq
<1>4. pressed' \in Seq(Seq(Message))
  BY <1>1, <1>2, WithoutType
<1>5. astray' \in BOOLEAN /\ (~astray' => ~astray /\ Live = {} /\ pressed[k] = messages)
  BY <1>1, <1>2
<1> QED
  BY <1>1, <1>2, <1>3, <1>4, <1>5, SendStep

\* Regenerating an answer drops it and what follows.
LEMMA RegenerateStep ==
  ASSUME Core, NEW r \in Requests, NEW i \in DOMAIN rendered, HandleRegenerateMessage(i, r)
  PROVE  Core' /\ Silent
<1>0. /\ phase[r] = "idle" /\ rendered \in Seq(Message) /\ ~shown /\ Touch(TRUE)
      /\ UNCHANGED <<pressed, editing, stream, stopped>> /\ RenderNow
      /\ editing' \in {NoKey} \cup ({"user", "assistant"} \X Requests)
      /\ SendEither(r, SubSeq(rendered, 1, i - 1) \o <<LoadingMessage(r)>>)
      /\ rendered \in Copies /\ pressed' \in Seq(Seq(Message))
  BY DEF HandleRegenerateMessage, SendEither, NextRequest, Core, TypeOK, Copies
<1>1. i - 1 \in Nat /\ i - 1 <= Len(rendered) /\ 1 \in Nat \ {0}
  BY <1>0, SeqFacts
<1>2. Drawn(rendered, rendered)
  BY DEF Drawn
<1>3. SubSeq(rendered, 1, i - 1) \in Seq(Message) /\ Drawn(SubSeq(rendered, 1, i - 1), rendered)
  BY <1>0, <1>1, <1>2, DrawnSub
<1>4. astray' \in BOOLEAN /\ (~astray' => ~astray /\ Live = {} /\ rendered = messages)
  BY <1>0, HandlerSees
<1> QED
  BY <1>0, <1>3, <1>4, StartInv

\* Save & Submit drops what follows the edited question.
LEMMA EditSubmitStep ==
  ASSUME Core, NEW r \in Requests, NEW i \in DOMAIN rendered, SaveEditAndSubmit(i, r)
  PROVE  Core' /\ Silent
<1>0. /\ phase[r] = "idle" /\ rendered \in Seq(Message) /\ Touch(FALSE)
      /\ UNCHANGED <<pressed, stream, stopped>> /\ RenderNow
      /\ editing' \in {NoKey} \cup ({"user", "assistant"} \X Requests)
      /\ SendEither(r, SubSeq(Edited(rendered, i), 1, i) \o <<LoadingMessage(r)>>)
      /\ rendered \in Copies /\ pressed' \in Seq(Seq(Message))
  BY DEF SaveEditAndSubmit, NextRequest, Core, TypeOK, Copies
<1>1. /\ Edited(rendered, i) \in Seq(Message) /\ Len(Edited(rendered, i)) = Len(rendered)
      /\ Drawn(Edited(rendered, i), rendered)
  BY <1>0, EditedFacts
<1>2. i \in Nat /\ i <= Len(Edited(rendered, i)) /\ 1 \in Nat \ {0}
  BY <1>0, <1>1, SeqFacts
<1> DEFINE kept == SubSeq(Edited(rendered, i), 1, i)
<1>3. kept \in Seq(Message) /\ Drawn(kept, rendered)
  BY <1>1, <1>2, DrawnSub
<1> HIDE DEF kept
<1>4. SendEither(r, kept \o <<LoadingMessage(r)>>)
  BY <1>0 DEF kept
<1>5. astray' \in BOOLEAN /\ (~astray' => ~astray /\ Live = {} /\ rendered = messages)
  BY <1>0, HandlerSees
<1> QED
  BY <1>0, <1>3, <1>4, <1>5, StartInv

\* Deleting, saving an edit and clearing start no request.
LEMMA RewriteSteps ==
  ASSUME Core,
         \/ \E i \in DOMAIN rendered : HandleDeleteMessage(i) \/ SaveEdit(i)
         \/ HandleClearMessages
  PROVE  Core' /\ Silent
<1>0. /\ RenderNow
      /\ UNCHANGED <<source, imageGen, stream, kind, phase, complete, controller, stopped, pressed>>
      /\ editing' \in {NoKey} \cup ({"user", "assistant"} \X Requests)
      /\ rendered \in Seq(Message) /\ Drawn(rendered, rendered)
  BY DEF HandleDeleteMessage, SaveEdit, HandleClearMessages, Core, TypeOK, Drawn
<1>1. ASSUME NEW i \in DOMAIN rendered, HandleDeleteMessage(i) PROVE Core' /\ Silent
  <2>1. /\ ~shown /\ Touch(TRUE)
        /\ messages' = SubSeq(rendered, 1, i - 1) \o SubSeq(rendered, i + 1, Len(rendered))
    BY <1>1 DEF HandleDeleteMessage, Without
  <2>2. /\ i - 1 \in Nat /\ i - 1 <= Len(rendered) /\ 1 \in Nat \ {0} /\ i + 1 \in Nat \ {0}
        /\ Len(rendered) \in Nat /\ Len(rendered) <= Len(rendered)
    BY <1>0, SeqFacts
  <2>3. /\ SubSeq(rendered, 1, i - 1) \in Seq(Message)
        /\ Drawn(SubSeq(rendered, 1, i - 1), rendered)
    BY <1>0, <2>2, DrawnSub
  <2>4. /\ SubSeq(rendered, i + 1, Len(rendered)) \in Seq(Message)
        /\ Drawn(SubSeq(rendered, i + 1, Len(rendered)), rendered)
    BY <1>0, <2>2, DrawnSub
  <2>5. messages' \in Seq(Message) /\ Drawn(messages', rendered)
    BY <2>1, <2>3, <2>4, DrawnConcat
  <2> QED
    BY <1>0, <2>1, <2>5, RewriteInv
<1>2. ASSUME NEW i \in DOMAIN rendered, SaveEdit(i) PROVE Core' /\ Silent
  <2>1. Touch(FALSE) /\ messages' = Edited(rendered, i)
    BY <1>2 DEF SaveEdit
  <2>2. messages' \in Seq(Message) /\ Drawn(messages', rendered)
    BY <1>0, <2>1, EditedFacts
  <2> QED
    BY <1>0, <2>1, <2>2, RewriteInv
<1>3. CASE HandleClearMessages
  <2>1. ~shown /\ Touch(TRUE) /\ messages' = <<>>
    BY <1>3 DEF HandleClearMessages
  <2>2. messages' \in Seq(Message) /\ Drawn(messages', rendered)
    BY <2>1 DEF Drawn
  <2> QED
    BY <1>0, <2>1, <2>2, RewriteInv
<1> QED
  BY <1>1, <1>2, <1>3

\* Opening and closing the editor, submitting the form and a submit that comes to nothing.
LEMMA AsideSteps ==
  ASSUME Core,
         \/ \E i \in DOMAIN rendered : HandleEditMessage(i)
         \/ HandleEditOpenChange \/ HandleSubmit
         \/ \E k \in DOMAIN pressed : SubmitDropped(k)
  PROVE  Core' /\ Silent
<1>0. UNCHANGED <<messages, saved, saveFailures, rendered, shown, due, late, stream, kind, phase,
                  source, complete, controller, imageGen, stopped, astray>>
  BY DEF HandleEditMessage, HandleEditOpenChange, HandleSubmit, SubmitDropped
<1>a. /\ rendered \in Seq(Message) /\ pressed \in Seq(Seq(Message))
      /\ editing \in {NoKey} \cup ({"user", "assistant"} \X Requests)
  BY DEF Core, TypeOK
<1>1. editing' \in {NoKey} \cup ({"user", "assistant"} \X Requests)
  <2>1. ASSUME NEW i \in DOMAIN rendered, HandleEditMessage(i)
        PROVE  editing' \in {"user", "assistant"} \X Requests
    <3>1. rendered[i] \in Message
      BY <1>a, SeqFacts
    <3> QED
      BY <2>1, <3>1, MessageTypes DEF HandleEditMessage, Key
  <2> QED
    BY <1>a, <2>1 DEF HandleEditOpenChange, HandleSubmit, SubmitDropped
<1>b. pressed' \in Seq(Seq(Message))
  <2>1. HandleSubmit => pressed' \in Seq(Seq(Message))
    BY <1>a, AppendProperties DEF HandleSubmit
  <2>2. ASSUME NEW k \in DOMAIN pressed, SubmitDropped(k) PROVE pressed' \in Seq(Seq(Message))
    BY <1>a, <2>2, WithoutType DEF SubmitDropped
  <2> QED
    BY <1>a, <2>1, <2>2 DEF HandleEditMessage, HandleEditOpenChange
<1>2. TypeOK'
  BY <1>0, <1>1, <1>b DEF Core, TypeOK
<1>3. KindInv' /\ RefInv' /\ Live' = Live
  BY <1>0 DEF Core, KindInv, RefInv, Waited, Live
<1>4. ShownInv' /\ GuardedSeesLatest'
  BY <1>0 DEF Core, ShownInv, GuardedSeesLatest, IsGenerating
<1>5. FlightInv' /\ TextInv' /\ OwnAnswer' /\ LiveText'
  BY <1>0, <1>3 DEF Core, FlightInv, TextInv, OwnAnswer, LiveText
<1>6. Silent
  BY <1>0 DEF Silent, Copies
<1> QED
  BY <1>2, <1>3, <1>4, <1>5, <1>6 DEF Core

\* A render catches up with the queued updates.
LEMMA RenderStep ==
  ASSUME Core, Render
  PROVE  Core' /\ Silent
<1>0. /\ UNCHANGED <<messages, pressed, editing, stream, kind, phase, source, complete, controller,
                     imageGen, stopped, astray>>
      /\ messages \in Seq(Message) /\ RenderNow
  BY DEF Render, Core, TypeOK
<1>1. /\ saved' \in {saved, messages'} /\ saved' \in Seq(Message)
      /\ saveFailures' \in 0..MaxSaveFailures
      /\ rendered' = messages' /\ shown' = IsGenerating' /\ due' = FALSE
      /\ shown' \in BOOLEAN /\ late' = FALSE
  BY <1>0, RenderFacts DEF Core
<1>2. TypeOK'
  BY <1>0, <1>1 DEF Core, TypeOK
<1>3. KindInv' /\ RefInv' /\ Live' = Live
  BY <1>0 DEF Core, KindInv, RefInv, Waited, Live
<1>4. ShownInv' /\ GuardedSeesLatest'
  <2>1. ASSUME ~astray', IsGenerating' PROVE LastIsAssistant(messages')
    <3>1. IsGenerating /\ ~astray
      BY <1>0, <2>1 DEF IsGenerating
    <3>2. Live # {}
      BY <3>1, AtRest
    <3> QED
      BY <1>0, <3>1, <3>2 DEF Core, FlightInv
  <2> QED
    BY <1>1, <2>1 DEF ShownInv, GuardedSeesLatest
<1>5. FlightInv'
  <2>1. ASSUME ~astray', NEW q \in Live'
        PROVE  /\ LastIsAssistant(messages') /\ Last(messages').req = q
               /\ kind'[q] = "stream" => stream' /\ source' = q
               /\ kind'[q] = "image"  => imageGen' /\ controller' = q
               /\ kind'[q] = "plain"  => ~stream'
    BY <1>0, <1>3, <2>1 DEF Core, FlightInv
  <2> QED
    BY <2>1 DEF FlightInv
<1>6. TextInv' /\ OwnAnswer' /\ LiveText'
  <2>1. ~astray' => /\ ~astray /\ Own(messages') /\ OnlyLastUnfinished(messages')
                    /\ \A i \in DOMAIN messages' :
                         Unfinished(messages'[i]) => messages'[i].req \in Live'
    BY <1>0, <1>3 DEF Core, TextInv, OwnAnswer, LiveText
  <2> QED
    BY <1>0, <1>1, <2>1, TextSteps
<1>7. Silent
  BY <1>0 DEF Silent, Copies
<1> QED
  BY <1>2, <1>3, <1>4, <1>5, <1>6, <1>7 DEF Core

\* An update of the last message, with text of requests that were not stopped.
LEMMA UpdateSilent ==
  ASSUME Core, NEW n, NEW W, W \cap stopped = {},
         LastIsAssistant(messages) => Rewrites(Last(messages), n, W),
         messages' \in {messages, UpdateLast(messages, n)}
  PROVE  Silent
<1>1. CASE messages' = messages
  BY <1>1 DEF Silent, Copies
<1>2. CASE messages' = UpdateLast(messages, n) /\ ~LastIsAssistant(messages)
  BY <1>2 DEF Silent, UpdateLast, Copies
<1>3. CASE messages' = UpdateLast(messages, n) /\ LastIsAssistant(messages)
  <2>0. /\ \A q \in stopped : q # 0 /\ q \notin W
        /\ messages \in Seq(Message)
        /\ n \in Message /\ n.from = "assistant" /\ Last(messages).from = "assistant"
        /\ n.req = Last(messages).req /\ n.by \subseteq Last(messages).by \cup {0} \cup W
        /\ Len(messages) \in DOMAIN messages
    BY <1>3, BoundType, SeqFacts DEF Core, TypeOK, Rewrites, LastIsAssistant
  <2>1. /\ DOMAIN messages' = DOMAIN messages /\ messages'[Len(messages)] = n
        /\ \A i \in DOMAIN messages : i # Len(messages) => messages'[i] = messages[i]
    BY <1>3, <2>0, UpdateFacts
  <2>2. ASSUME NEW q \in stopped, NEW i \in DOMAIN messages', q \in messages'[i].by
        PROVE  \E j \in DOMAIN messages : Key(messages[j]) = Key(messages'[i]) /\ q \in messages[j].by
    <3>1. CASE i = Len(messages)
      <4>1. q \in Last(messages).by /\ messages'[i] = n /\ messages[i] = Last(messages)
        BY <2>0, <2>1, <2>2, <3>1 DEF Last
      <4>2. Key(messages[i]) = Key(messages'[i])
        BY <2>0, <4>1 DEF Key
      <4> QED
        BY <2>1, <4>1, <4>2
    <3>2. CASE i # Len(messages)
      BY <2>1, <2>2, <3>2
    <3> QED
      BY <3>1, <3>2
  <2> QED
    BY <2>2 DEF Silent, Copies
<1> QED
  BY <1>1, <1>2, <1>3

\* No callback writes text of a stopped request.
LEMMA NetworkSilent ==
  ASSUME Core, NEW r \in Requests, Network(r)
  PROVE  Silent
<1>0. LastIsAssistant(messages) => Last(messages) \in Message
  BY SeqFacts DEF Core, TypeOK, LastIsAssistant
<1>1. phase[r] = "open" => {r} \cap stopped = {}
  BY DEF Core, RefInv, Waited
<1>2. CASE StreamChunk(r)
  <2>1. /\ messages' = UpdateLast(messages, Streamed(Last(messages), r))
        /\ {r} \cap stopped = {}
    BY <1>1, <1>2 DEF StreamChunk, QueueUpdate, IsOpen
  <2>2. LastIsAssistant(messages) => Rewrites(Last(messages), Streamed(Last(messages), r), {r})
    BY <1>0, UpdaterFacts
  <2> QED
    BY <2>1, <2>2, UpdateSilent
<1>3. CASE PlainAnswer(r) \/ ImageAnswer(r)
  <2>1. PICK b \in {{}, {r}} :
          messages' = UpdateLast(messages, Answered(Last(messages), b)) /\ b \cap stopped = {}
    BY <1>1, <1>3 DEF PlainAnswer, PlainEnds, ImageAnswer, QueueUpdate, IsOpen
  <2>2. LastIsAssistant(messages) => Rewrites(Last(messages), Answered(Last(messages), b), b)
    BY <1>0, UpdaterFacts
  <2> QED
    BY <2>1, <2>2, UpdateSilent
<1>4. CASE StreamDone(r)
  <2>1. messages' = UpdateLast(messages, StreamCompleted(Last(messages)))
    BY <1>4 DEF StreamDone, QueueUpdate
  <2>2. LastIsAssistant(messages) => Rewrites(Last(messages), StreamCompleted(Last(messages)), {})
    BY <1>0, UpdaterFacts
  <2>3. {} \cap stopped = {}
    OBVIOUS
  <2> QED
    BY <2>1, <2>2, <2>3, UpdateSilent
<1>5. CASE StreamError(r) \/ PlainError(r) \/ ImageError(r)
  <2>1. messages' = UpdateLast(messages, Errored(Last(messages)))
    BY <1>5 DEF StreamError, PlainError, ImageError, QueueUpdate
  <2>2. LastIsAssistant(messages) => Rewrites(Last(messages), Errored(Last(messages)), {})
    BY <1>0, UpdaterFacts
  <2>3. {} \cap stopped = {}
    OBVIOUS
  <2> QED
    BY <2>1, <2>2, <2>3, UpdateSilent
<1>6. CASE ImageSubmitted(r) \/ ImagePolled(r)
  <2>1. messages' \in {messages, UpdateLast(messages, ImageStatus(Last(messages)))}
    BY <1>6 DEF ImageSubmitted, ImagePolled, ImageProgress, QueueUpdate
  <2>2. LastIsAssistant(messages) => Rewrites(Last(messages), ImageStatus(Last(messages)), {})
    BY <1>0, UpdaterFacts
  <2>3. {} \cap stopped = {}
    OBVIOUS
  <2> QED
    BY <2>1, <2>2, <2>3, UpdateSilent
<1>7. CASE ImageWakes(r)
  <2>1. messages' \in {messages, UpdateLast(messages, Answered(Last(messages), {0}))}
    BY <1>7 DEF ImageWakes, ImageProgress, QueueUpdate
  <2>2. LastIsAssistant(messages) => Rewrites(Last(messages), Answered(Last(messages), {0}), {0})
    BY <1>0, UpdaterFacts
  <2>3. {0} \cap stopped = {}
    BY BoundType DEF Core, TypeOK
  <2> QED
    BY <2>1, <2>2, <2>3, UpdateSilent
<1>8. CASE StreamErrorIgnored(r) \/ StreamEnds(r) \/ PlainEmpty(r)
  <2>1. messages' = messages
    BY <1>8 DEF StreamErrorIgnored, StreamEnds, PlainEmpty
  <2> QED
    BY <2>1 DEF Silent, Copies
<1> QED
  BY <1>2, <1>3, <1>4, <1>5, <1>6, <1>7, <1>8 DEF Network

\* Stop closes the stream, tells the image and finishes the last message.
LEMMA StopStep ==
  ASSUME Core, StopGeneration
  PROVE  Core' /\ Silent
<1>0. /\ UNCHANGED <<imageGen, pressed, editing, stream, kind, complete, controller, astray>> /\ shown
      /\ source' = None /\ StopRenders
      /\ stopped' = stopped \cup ({source, controller} \ {None})
      /\ messages' = UpdateLast(messages, StopFinalized(Last(messages)))
      /\ phase' = [r \in Requests |-> IF r = source THEN "closed" ELSE phase[r]]
      /\ messages \in Seq(Message) /\ TypeOK
      /\ ~astray => LastIsAssistant(messages)
  BY DEF StopGeneration, Core, ShownInv, TypeOK
<1>1. LastIsAssistant(messages) => /\ Last(messages) \in Message /\ Last(messages).req \in Requests
                                   /\ Last(messages).from = "assistant"
  BY <1>0, SeqFacts, MessageTypes DEF LastIsAssistant
<1>a. PICK n : n = StopFinalized(Last(messages))
  OBVIOUS
<1>2. LastIsAssistant(messages) => Rewrites(Last(messages), n, {}) /\ ~Unfinished(n)
  BY <1>1, <1>a, UpdaterFacts
<1>3. /\ messages' \in Seq(Message) /\ Len(messages') = Len(messages)
      /\ DOMAIN messages' = DOMAIN messages
      /\ LastIsAssistant(messages') <=> LastIsAssistant(messages)
      /\ LastIsAssistant(messages) => /\ Last(messages') = n /\ messages'[Len(messages)] = n
                                      /\ n.req = Last(messages).req
      /\ ~LastIsAssistant(messages) => messages' = messages
      /\ \A i \in DOMAIN messages : i # Len(messages) => messages'[i] = messages[i]
  <2>1. LastIsAssistant(messages) =>
          n \in Message /\ n.from = "assistant" /\ n.req = Last(messages).req
    BY <1>1, <1>2 DEF Rewrites
  <2> QED
    BY <1>0, <1>a, <2>1, UpdateFacts
<1>4. /\ saved' \in {saved, messages'} /\ saved' \in Seq(Message)
      /\ saveFailures' \in 0..MaxSaveFailures /\ shown' \in BOOLEAN
      /\ rendered' \in Seq(Message) /\ due' \in BOOLEAN /\ late' \in BOOLEAN
      /\ LastIsAssistant(messages) =>
           rendered' = messages' /\ shown' = IsGenerating' /\ due' = FALSE /\ late' = FALSE
      /\ ~LastIsAssistant(messages) => UNCHANGED <<rendered, shown, due, late>>
  <2>1. CASE LastIsAssistant(messages)
    <3>1. RenderNow
      BY <1>0, <2>1 DEF StopRenders
    <3> QED
      BY <1>0, <1>3, <2>1, <3>1, RenderFacts
  <2>2. CASE ~LastIsAssistant(messages)
    BY <1>0, <2>2 DEF StopRenders, NotRendered, TypeOK
  <2> QED
    BY <2>1, <2>2
<1>5. /\ source # None => source \in Requests /\ kind[source] = "stream"
      /\ controller # None => /\ controller \in Requests /\ kind[controller] = "image"
                              /\ phase[controller] # "idle"
  BY DEF Core, RefInv, TypeOK, Requests, None
<1>6. TypeOK'
  <2>1. phase' \in [Requests -> Phases]
    BY <1>0 DEF TypeOK, Phases
  <2>2. stopped' \subseteq Requests
    BY <1>0, <1>5 DEF TypeOK
  <2>3. source' \in 0..MaxRequests
    BY <1>0, BoundType DEF None
  <2> QED
    BY <1>0, <1>3, <1>4, <2>1, <2>2, <2>3 DEF TypeOK
<1>7. /\ \A q \in Requests : phase'[q] = IF q = source THEN "closed" ELSE phase[q]
      /\ Live' = Live \ {source}
  BY <1>0 DEF Live
<1>8. KindInv'
  BY <1>0, <1>7 DEF Core, KindInv
<1>9. RefInv'
  <2>1. controller' # None => kind'[controller'] = "image" /\ phase'[controller'] # "idle"
    BY <1>0, <1>5, <1>7
  <2>2. ASSUME imageGen' PROVE \E q \in Requests : phase'[q] \in {"post", "poll", "sleep"}
    <3>1. PICK q \in Requests : phase[q] \in {"post", "poll", "sleep"}
      BY <1>0, <2>2 DEF Core, RefInv, Waited
    <3>2. kind[q] = "image" /\ q # 0
      BY <3>1, BoundType DEF Core, KindInv
    <3>3. q # source
      BY <1>5, <3>2 DEF None
    <3> QED
      BY <1>7, <3>1, <3>3
  <2>3. ASSUME NEW q \in stopped'
        PROVE  phase'[q] = "closed" \/ phase'[q] \in {"post", "poll", "sleep"}
    <3>1. CASE q \in stopped
      <4>1. q \in Requests /\ (phase[q] = "closed" \/ phase[q] \in {"post", "poll", "sleep"})
        BY <3>1 DEF Core, RefInv, Waited, TypeOK
      <4> QED
        BY <1>7, <4>1
    <3>2. CASE q = source /\ q # None
      BY <1>5, <1>7, <3>2
    <3>3. CASE q = controller /\ q # None
      <4>1. q \in Requests /\ kind[q] = "image" /\ phase[q] # "idle" /\ phase[q] \in Phases
        BY <1>0, <1>5, <3>3 DEF TypeOK
      <4>2. phase[q] \in {"closed", "post", "poll", "sleep"}
        BY <4>1 DEF Core, KindInv, Phases
      <4> QED
        BY <1>7, <4>1, <4>2
    <3> QED
      BY <1>0, <2>3, <3>1, <3>2, <3>3
  <2> QED
    BY <1>0, <2>1, <2>2, <2>3 DEF RefInv, Waited
<1>10. ShownInv' /\ GuardedSeesLatest'
  <2>1. IsGenerating' => IsGenerating
    BY <1>0 DEF IsGenerating
  <2>2. CASE LastIsAssistant(messages)
    BY <1>3, <1>4, <2>2 DEF ShownInv, GuardedSeesLatest
  <2>3. CASE ~LastIsAssistant(messages)
    <3>1. UNCHANGED <<messages, rendered, shown, due, late, astray>> /\ astray
      BY <1>0, <1>3, <1>4, <2>3 DEF TypeOK
    <3>2. ShownInv'
      BY <1>3, <2>1, <2>3, <3>1 DEF Core, ShownInv
    <3>3. GuardedSeesLatest'
      BY <3>1 DEF GuardedSeesLatest
    <3> QED
      BY <3>2, <3>3
  <2> QED
    BY <2>2, <2>3
<1>11. FlightInv'
  <2>1. ASSUME ~astray', NEW q \in Live'
        PROVE  /\ LastIsAssistant(messages') /\ Last(messages').req = q
               /\ kind'[q] = "stream" => stream' /\ source' = q
               /\ kind'[q] = "image"  => imageGen' /\ controller' = q
               /\ kind'[q] = "plain"  => ~stream'
    <3>1. q \in Live /\ q # source /\ ~astray
      BY <1>0, <1>7, <2>1
    <3>2. /\ Last(messages).req = q /\ kind[q] # "stream"
          /\ kind[q] = "image" => imageGen /\ controller = q
          /\ kind[q] = "plain" => ~stream
      BY <3>1 DEF Core, FlightInv
    <3> QED
      BY <1>0, <1>3, <3>1, <3>2
  <2> QED
    BY <2>1 DEF FlightInv
<1>12. TextInv' /\ OwnAnswer' /\ LiveText'
  <2>1. ASSUME ~astray'
        PROVE  /\ ~astray /\ Own(messages') /\ OnlyLastUnfinished(messages')
               /\ \A i \in DOMAIN messages' : Unfinished(messages'[i]) => messages'[i].req \in Live'
    <3>0. ~astray /\ Own(messages) /\ OnlyLastUnfinished(messages) /\ Len(messages) \in DOMAIN messages
      BY <1>0, <2>1, SeqFacts DEF Core, TextInv, OwnAnswer, LastIsAssistant
    <3>1. \A i \in DOMAIN messages' : ~Unfinished(messages'[i])
      BY <1>0, <1>2, <1>3, <3>0 DEF OnlyLastUnfinished
    <3>2. n.by \subseteq {0, n.req}
      <4>1. Last(messages).by \subseteq {0, Last(messages).req}
        BY <1>0, <1>1, <3>0 DEF Own, Last
      <4> QED
        BY <1>0, <1>2, <3>0, <4>1 DEF Rewrites
    <3>3. Own(messages')
      BY <1>0, <1>3, <3>0, <3>2 DEF Own
    <3> QED
      BY <3>0, <3>1, <3>3 DEF OnlyLastUnfinished
  <2> QED
    BY <1>3, <1>4, <2>1, TextSteps
<1>13. Silent
  <2>1. {} \cap stopped = {} /\ messages' \in {messages, UpdateLast(messages, n)}
    BY <1>0, <1>a
  <2> QED
    BY <1>2, <2>1, UpdateSilent
<1> QED
  BY <1>6, <1>8, <1>9, <1>10, <1>11, <1>12, <1>13 DEF Core

\* Loading the page ends every request and finishes the last message that was saved.
LEMMA ReloadStep ==
  ASSUME Core, Reload
  PROVE  /\ Core' /\ Silent
         /\ ~astray => \A i \in DOMAIN messages' : ~Unfinished(messages'[i])
<1>0. /\ UNCHANGED <<kind, stopped, astray>> /\ SaveMessages(messages') /\ rendered' = messages'
      /\ messages' = SanitizeMessagesOnLoad(saved)
      /\ phase' = [r \in Requests |-> IF phase[r] = "idle" THEN "idle" ELSE "closed"]
      /\ shown' = FALSE /\ due' = FALSE /\ late' = FALSE /\ pressed' = <<>>
      /\ editing' = NoKey /\ stream' \in Streams
      /\ source' = None /\ complete' = FALSE /\ controller' = None /\ imageGen' = FALSE
  BY DEF Reload
<1>1. /\ messages' \in Seq(Message) /\ DOMAIN messages' = DOMAIN saved
      /\ \A i \in DOMAIN saved : messages'[i] = saved[i] \/ messages'[i] = Sanitized(saved[i])
      /\ OnlyLastUnfinished(saved) => \A i \in DOMAIN saved : ~Unfinished(messages'[i])
      /\ \A i \in DOMAIN saved : saved[i] \in Message
  BY <1>0, SanitizeFacts, SeqFacts DEF Core, TypeOK
<1>2. ASSUME NEW i \in DOMAIN saved
      PROVE  Rewrites(saved[i], messages'[i], {})
  <2>1. saved[i] \in Message /\ saved[i].req \in Requests
    BY <1>1, MessageTypes
  <2>2. Rewrites(saved[i], Sanitized(saved[i]), {}) /\ Rewrites(saved[i], saved[i], {})
    BY <2>1, UpdaterFacts DEF Rewrites
  <2> QED
    BY <1>1, <2>2
<1>3. ~astray => \A i \in DOMAIN messages' : ~Unfinished(messages'[i])
  BY <1>1 DEF Core, TextInv
<1>4. /\ \A q \in Requests : phase'[q] = IF phase[q] = "idle" THEN "idle" ELSE "closed"
      /\ Live' = {}
  BY <1>0 DEF Live
<1>5. TypeOK'
  <2>1. phase' \in [Requests -> Phases]
    BY <1>0 DEF Phases
  <2>2. saved' \in Seq(Message) /\ saveFailures' \in 0..MaxSaveFailures
    <3>1. saveFailures \in 0..MaxSaveFailures /\ MaxSaveFailures \in Nat /\ saved \in Seq(Message)
      BY PlaygroundAssumption DEF Core, TypeOK, PlaygroundAssumption
    <3> QED
      BY <1>0, <1>1, <3>1 DEF SaveMessages
  <2>3. stream' \in BOOLEAN
    BY <1>0, PlaygroundAssumption DEF PlaygroundAssumption
  <2>4. source' \in 0..MaxRequests /\ controller' \in 0..MaxRequests
    BY <1>0, BoundType DEF None
  <2>5. pressed' \in Seq(Seq(Message))
    BY <1>0, EmptySeq
  <2> QED
    BY <1>0, <1>1, <2>1, <2>2, <2>3, <2>4, <2>5 DEF Core, TypeOK
<1>6. KindInv'
  BY <1>4 DEF KindInv
<1>7. RefInv'
  <2>1. \A q \in stopped' : phase'[q] = "closed"
    BY <1>0, <1>4 DEF Core, TypeOK, RefInv, Waited
  <2> QED
    BY <1>0, <2>1 DEF RefInv
<1>8. ShownInv' /\ GuardedSeesLatest'
  BY <1>0 DEF ShownInv, GuardedSeesLatest, IsGenerating
<1>9. FlightInv'
  BY <1>4 DEF FlightInv
<1>10. TextInv' /\ OwnAnswer' /\ LiveText'
  <2>1. saved' \in {saved, messages'}
    BY <1>0 DEF SaveMessages
  <2>2. ASSUME ~astray' PROVE Own(messages')
    <3>1. Own(saved)
      BY <1>0, <2>2 DEF Core, TextInv
    <3> QED
      BY <1>1, <1>2, <3>1 DEF Own, Rewrites
  <2>3. ~astray' => ~astray /\ OnlyLastUnfinished(messages')
    BY <1>0, <1>3 DEF OnlyLastUnfinished
  <2> QED
    BY <1>0, <1>1, <1>3, <2>1, <2>2, <2>3, TextSteps
<1>11. Silent
  <2>1. ASSUME NEW q \in stopped, NEW i \in DOMAIN messages', q \in messages'[i].by
        PROVE  \E j \in DOMAIN saved : Key(saved[j]) = Key(messages'[i]) /\ q \in saved[j].by
    <3>1. q # 0 /\ i \in DOMAIN saved
      BY <1>1, <2>1, BoundType DEF Core, TypeOK
    <3>2. q \in saved[i].by /\ Key(saved[i]) = Key(messages'[i])
      BY <1>2, <2>1, <3>1 DEF Rewrites, Key
    <3> QED
      BY <3>1, <3>2
  <2> QED
    BY <2>1 DEF Silent, Copies
<1> QED
  BY <1>3, <1>5, <1>6, <1>7, <1>8, <1>9, <1>10, <1>11 DEF Core

-----------------------------------------------------------------------------
(* The theorems *)

\* An empty page.
LEMMA InitInv == Init => Core
<1> SUFFICES ASSUME Init PROVE Core
  OBVIOUS
<1>1. /\ messages = <<>> /\ saved = <<>> /\ rendered = <<>>
      /\ <<>> \in Seq(Message) /\ DOMAIN messages = {} /\ DOMAIN saved = {}
  BY EmptySeq, SeqFacts DEF Init
<1>2. TypeOK
  <2>1. /\ stream \in BOOLEAN /\ 0 \in 0..MaxSaveFailures
        /\ None \in 0..MaxRequests
    BY PlaygroundAssumption, BoundType DEF Init, PlaygroundAssumption, None
  <2>2. pressed \in Seq(Seq(Message))
    BY EmptySeq DEF Init
  <2> QED
    BY <1>1, <2>1, <2>2 DEF Init, TypeOK, Phases
<1>3. Live = {} /\ KindInv /\ RefInv
  BY DEF Init, Live, KindInv, RefInv
<1>4. ShownInv /\ GuardedSeesLatest
  BY <1>1 DEF Init, ShownInv, GuardedSeesLatest, IsGenerating
<1>5. FlightInv /\ TextInv /\ OwnAnswer /\ LiveText
  BY <1>1, <1>3 DEF FlightInv, TextInv, OwnAnswer, LiveText, Own, OnlyLastUnfinished
<1> QED
  BY <1>2, <1>3, <1>4, <1>5 DEF Core

\* A step that changes nothing.
LEMMA StutterInv ==
  ASSUME Core, UNCHANGED vars
  PROVE  Core' /\ Silent
<1>1. TypeOK'
  BY DEF Core, TypeOK, vars
<1>2. KindInv' /\ RefInv' /\ Live' = Live
  BY DEF Core, KindInv, RefInv, Waited, Live, vars
<1>3. ShownInv' /\ GuardedSeesLatest'
  BY DEF Core, ShownInv, GuardedSeesLatest, IsGenerating, vars
<1>4. FlightInv' /\ LiveText'
  BY <1>2 DEF Core, FlightInv, LiveText, vars
<1>5. TextInv' /\ OwnAnswer'
  BY DEF Core, TextInv, OwnAnswer, vars
<1>6. Silent
  BY DEF Silent, Copies, vars
<1> QED
  BY <1>1, <1>2, <1>3, <1>4, <1>5, <1>6 DEF Core

\* Every step keeps the invariant and adds no text of a stopped request.
LEMMA StepInv ==
  ASSUME Core, [Next]_vars
  PROVE  Core' /\ Silent
<1>1. CASE User
  <2>1. CASE \E r \in Requests : SuggestionClick(r)
    BY <2>1, SuggestionStep
  <2>2. CASE \E i \in DOMAIN rendered, r \in Requests :
               HandleRegenerateMessage(i, r) \/ SaveEditAndSubmit(i, r)
    BY <2>2, RegenerateStep, EditSubmitStep
  <2>3. CASE \/ \E i \in DOMAIN rendered : HandleDeleteMessage(i) \/ SaveEdit(i)
             \/ HandleClearMessages
    BY <2>3, RewriteSteps
  <2>4. CASE \/ \E i \in DOMAIN rendered : HandleEditMessage(i)
             \/ HandleEditOpenChange \/ HandleSubmit
    BY <2>4, AsideSteps
  <2>5. CASE StopGeneration
    BY <2>5, StopStep
  <2>6. CASE Reload
    BY <2>6, ReloadStep
  <2> QED
    BY <1>1, <2>1, <2>2, <2>3, <2>4, <2>5, <2>6 DEF User
<1>2. CASE Render
  BY <1>2, RenderStep
<1>3. ASSUME NEW r \in Requests, Network(r)
      PROVE  Core' /\ Silent
  <2>1. Silent
    BY <1>3, NetworkSilent
  <2>2. CASE StreamChunk(r) \/ StreamDone(r) \/ StreamError(r)
    BY <2>1, <2>2, StreamSteps
  <2>3. CASE StreamErrorIgnored(r) \/ StreamEnds(r) \/ PlainEmpty(r)
    BY <2>1, <2>3, SilentSteps
  <2>4. CASE PlainAnswer(r) \/ PlainError(r)
    BY <2>1, <2>4, PlainSteps
  <2>5. CASE \/ ImageAnswer(r) \/ ImageError(r) \/ ImageSubmitted(r) \/ ImagePolled(r)
             \/ ImageWakes(r)
    BY <2>1, <2>5, ImageSteps
  <2> QED
    BY <1>3, <2>2, <2>3, <2>4, <2>5 DEF Network
<1>4. CASE UNCHANGED vars
  BY <1>4, StutterInv
<1>5. CASE \E k \in DOMAIN pressed : FilesRead(k)
  BY <1>5, AsideSteps, SubmitStep DEF FilesRead
<1> QED
  BY <1>1, <1>2, <1>3, <1>4, <1>5 DEF Next

\* The only callback of a stopped request that changes the conversation ends it.
LEMMA LastWord ==
  ASSUME Core, NEW r \in stopped, ~astray, messages' # messages, Network(r)
  PROVE  /\ Last(messages).req = r /\ ~Unfinished(Last(messages'))
         /\ phase'[r] = "closed"
<1>0. r \in Requests /\ phase[r] # "open" /\ phase \in [Requests -> Phases]
  BY DEF Core, TypeOK, RefInv, Waited
<1>1. ImageError(r) \/ ImageWakes(r)
  BY <1>0 DEF Network, StreamChunk, StreamDone, StreamError, StreamErrorIgnored, StreamEnds,
              PlainAnswer, PlainError, PlainEmpty, PlainEnds, IsOpen, ImageAnswer, ImageSubmitted,
              ImagePolled
<1>2. r \in Live
  BY <1>0, <1>1 DEF ImageError, ImageWakes, IsImage, Live
<1>3. LastIsAssistant(messages) /\ Last(messages).req = r
  BY <1>2 DEF Core, FlightInv
<1>4. /\ ImageFinally(r)
      /\ \/ messages' = UpdateLast(messages, Errored(Last(messages)))
         \/ messages' = UpdateLast(messages, Answered(Last(messages), {0}))
  BY <1>1 DEF ImageError, ImageWakes, QueueUpdate
<1>5. phase'[r] = "closed"
  BY <1>0, <1>4 DEF ImageFinally
<1>6. /\ messages \in Seq(Message)
      /\ Errored(Last(messages)) \in Message /\ Errored(Last(messages)).from = "assistant"
      /\ Answered(Last(messages), {0}) \in Message
      /\ Answered(Last(messages), {0}).from = "assistant"
      /\ ~Unfinished(Errored(Last(messages))) /\ ~Unfinished(Answered(Last(messages), {0}))
  BY <1>0, <1>3, LastUpdates DEF Core, TypeOK, Rewrites, LastIsAssistant
<1>7. ~Unfinished(Last(messages'))
  BY <1>3, <1>4, <1>6, UpdateFacts
<1> QED
  BY <1>3, <1>5, <1>7

\* The inductive invariant of the page holds in every reachable state.
LEMMA CoreHolds == Spec => []Core
<1>1. Init => Core
  BY InitInv
<1>2. Core /\ [Next]_vars => Core'
  BY StepInv
<1> QED
  BY <1>1, <1>2, PTL DEF Spec

\* Every reachable state of the page satisfies PageInv: as long as no handler without an
\* isGenerating guard raced a request and no submit of the composer was overtaken while its
\* files were read, requests do not overlap and the guarded handlers of index.tsx close over
\* the latest conversation; and, after races too, the composer is never locked without a
\* live request or a render to come while the conversation ends with an answer.
THEOREM PageBookkeeping == Spec => []PageInv
<1>1. Core => PageInv
  BY CoreImplies
<1> QED
  BY <1>1, CoreHolds, PTL

\* In such a run a message shows text of its own request only, although every callback
\* of use-chat-handler.ts and use-stream-request.ts writes to whatever message is the last.
THEOREM AnswersOwned == Spec => []OwnAnswer
<1>1. Core => OwnAnswer
  BY CoreImplies
<1> QED
  BY <1>1, CoreHolds, PTL

\* In such a run a message that is loading or streaming is the last one, its request is
\* live and, unless that is a plain request, the Stop button is shown or comes with the
\* render that is due after the composer sent it.
THEOREM Stoppable == Spec => []UnfinishedIsStoppable
<1>1. Core => UnfinishedIsStoppable
  BY CoreImplies
<1> QED
  BY <1>1, CoreHolds, PTL

\* A request that Stop closed or aborted adds no text of its own to the conversation: neither
\* a late event of its stream, nor a poll of its image, nor a reload, nor a handler that
\* writes back what the page rendered earlier.  What an aborted image still reports, its
\* end, goes to its own message, unless the page was raced, and is the last of it.
THEOREM Silence == Spec => StoppedIsSilent
<1> DEFINE Quiet(r) ==
      /\ \A i \in DOMAIN messages' : r \in messages'[i].by =>
           \E ms \in Copies : \E j \in DOMAIN ms :
             Key(ms[j]) = Key(messages'[i]) /\ r \in ms[j].by
      /\ ~astray /\ messages' # messages /\ Network(r) =>
           /\ Last(messages).req = r /\ ~Unfinished(Last(messages'))
           /\ phase'[r] = "closed"
    AllQuiet == \A r \in stopped : Quiet(r)
<1>1. Core /\ [Next]_vars => AllQuiet
  <2>1. SUFFICES ASSUME Core, [Next]_vars, NEW r \in stopped PROVE Quiet(r)
    OBVIOUS
  <2>2. \A i \in DOMAIN messages' : r \in messages'[i].by =>
           \E ms \in Copies : \E j \in DOMAIN ms :
             Key(ms[j]) = Key(messages'[i]) /\ r \in ms[j].by
    BY <2>1, StepInv DEF Silent
  <2>3. ASSUME ~astray, messages' # messages, Network(r)
        PROVE  /\ Last(messages).req = r /\ ~Unfinished(Last(messages'))
               /\ phase'[r] = "closed"
    BY <2>1, <2>3, LastWord
  <2> QED
    BY <2>2, <2>3
<1> HIDE DEF AllQuiet
<1>2. Spec => [][AllQuiet]_vars
  BY <1>1, CoreHolds, PTL DEF Spec
<1> QED
  BY <1>2, PTL DEF StoppedIsSilent, AllQuiet

\* Loading the page leaves no message loading or streaming: sanitizeMessagesOnLoad repairs
\* only the last unfinished message, and there never is another one in what was saved.
THEOREM LoadedPage == Spec => LoadIsStable
<1> DEFINE Settled == ~astray /\ Reload => \A i \in DOMAIN messages' : ~Unfinished(messages'[i])
<1>1. Core => Settled
  BY ReloadStep DEF Settled
<1> HIDE DEF Settled
<1>2. Spec => [][Settled]_vars
  BY <1>1, CoreHolds, PTL DEF Spec
<1> QED
  BY <1>2, PTL DEF LoadIsStable, Settled

=============================================================================
