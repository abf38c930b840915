----------------------------- MODULE Playground -----------------------------
(***************************************************************************)
(* The chat playground of the web front end                                *)
(* (web/default/src/features/playground): the conversation kept in React   *)
(* state and in localStorage, the requests the page has in flight (an SSE  *)
(* stream, a plain completion or an image task) and the handlers of the    *)
(* user.  Every callback of a request rewrites the LAST message of the     *)
(* conversation, so what keeps an answer with its question is that two     *)
(* requests never overlap, and what keeps them apart is isGenerating, a    *)
(* value computed at the last render.                                      *)
(*                                                                         *)
(* Requests are numbered in the order they start.  A message carries the   *)
(* request it was created for and, for its text, the set of requests that  *)
(* may have written some of it, 0 standing for text of the user or of the  *)
(* page itself (an error, the progress of an image).  Reasoning counts as  *)
(* text, and it outlives the content: no update drops it.                  *)
(*                                                                         *)
(* React: a handler of a user event reads the values of the last render    *)
(* and its updates are rendered before the next event.  The updates of a   *)
(* network callback, and of the composer, which sends from the .then of a  *)
(* promise, are rendered later, by Render.                                 *)
(***************************************************************************)
EXTENDS Naturals, Sequences

CONSTANTS
  MaxRequests,    \* bound: requests started in one behaviour
  Streams,        \* the values of config.stream a load may find
  MaxSaveFailures,\* bound: how often localStorage.setItem throws
  MaxPressed      \* bound: submits of the composer waiting for their files

ASSUME PlaygroundAssumption ==
  /\ MaxRequests \in Nat
  /\ Streams \subseteq BOOLEAN /\ Streams # {}
  /\ MaxSaveFailures \in Nat /\ MaxPressed \in Nat

VARIABLES
  messages,      \* the conversation, queued updates included
  saved,         \* the conversation in localStorage
  saveFailures,  \* saves that failed (quota exceeded)
  rendered,      \* the conversation the handlers of the page close over
  shown,         \* isGenerating at the last render
  due,           \* a state update waits to be rendered
  late,          \* what the composer sent waits to be rendered
  pressed,       \* the submits to come: the conversation each closes over
  editing,       \* editingMessageKey, NoKey when no message is edited
  stream,        \* config.stream
  kind,          \* what each request is: stream, plain or image
  phase,         \* how far each request is
  source,        \* sseSourceRef.current
  complete,      \* isStreamCompleteRef.current
  controller,    \* imageAbortRef.current
  imageGen,      \* isImageGenerating
  stopped,       \* requests Stop closed (streams) or aborted (images)
  astray         \* history: the guards were bypassed, see Touch

vars == <<messages, saved, saveFailures, rendered, shown, due, late, pressed,
          editing, stream, kind, phase, source, complete, controller, imageGen,
          stopped, astray>>

Requests == 1..MaxRequests
None == 0
NoKey == <<"none", 0>>
Statuses == {"none", "loading", "streaming", "complete", "error"}
Message == [from : {"user", "assistant"}, req : Requests,
            status : Statuses, by : SUBSET (0..MaxRequests)]
Phases == {"idle", "open", "dead", "post", "poll", "sleep", "closed"}

UserMessage(r) == [from |-> "user", req |-> r, status |-> "none", by |-> {0}]
LoadingMessage(r) ==
  [from |-> "assistant", req |-> r, status |-> "loading", by |-> {}]
Key(m) == <<m.from, m.req>>
Unfinished(m) == m.status \in {"loading", "streaming"}

(* Requests that may still write to the conversation, or whose source the    *)
(* page still holds: a stream the server ended without [DONE] is dead.       *)
Live == {r \in Requests : phase[r] \notin {"idle", "closed"}}

-----------------------------------------------------------------------------
(* lib/message-utils.ts                                                      *)

Without(s, i) == SubSeq(s, 1, i - 1) \o SubSeq(s, i + 1, Len(s))
Last(ms) == ms[Len(ms)]
LastIsAssistant(ms) == ms # <<>> /\ Last(ms).from = "assistant"

(* m is what the updater makes of the last message.                          *)
UpdateLast(ms, m) ==
  IF LastIsAssistant(ms) THEN [ms EXCEPT ![Len(ms)] = m] ELSE ms

Streamed(m, r) ==
  IF m.status = "error" THEN m
  ELSE [m EXCEPT !.status = "streaming", !.by = @ \cup {r}]
Errored(m) == [m EXCEPT !.status = "error", !.by = @ \cup {0}]
Answered(m, b) == [m EXCEPT !.status = "complete", !.by = @ \cup b]
ImageStatus(m) == [m EXCEPT !.status = "streaming", !.by = @ \cup {0}]
StreamCompleted(m) ==
  IF m.status \in {"complete", "error"} THEN m
  ELSE [m EXCEPT !.status = "complete"]
\* Mutant: only a message that already shows text is finalized.
StopFinalizedStreaming(m) ==
  IF m.status = "streaming" THEN [m EXCEPT !.status = "complete"] ELSE m

StopFinalized(m) ==
  IF Unfinished(m) THEN [m EXCEPT !.status = "complete"] ELSE m

(* sanitizeMessagesOnLoad converts the last unfinished message, and only it. *)
Sanitized(m) ==
  IF m.by # {} THEN [m EXCEPT !.status = "complete"] ELSE Errored(m)
\* Mutant: only placeholders count as stuck.
IsStuckLoading(ms, i) == ms[i].from = "assistant" /\ ms[i].status = "loading"

IsStuck(ms, i) == ms[i].from = "assistant" /\ Unfinished(ms[i])
SanitizeMessagesOnLoad(ms) ==
  [i \in DOMAIN ms |->
     IF IsStuck(ms, i) /\ \A j \in DOMAIN ms : j > i => ~IsStuck(ms, j)
     THEN Sanitized(ms[i]) ELSE ms[i]]

-----------------------------------------------------------------------------
(* React and localStorage                                                    *)

IsGenerating == source # None \/ imageGen

SaveMessages(ms) ==
  \/ saved' = ms /\ saveFailures' = saveFailures
  \/ /\ saveFailures < MaxSaveFailures
     /\ saveFailures' = saveFailures + 1
     /\ saved' = saved

(* The updates of a user event are rendered, and saved, with it.             *)
RenderNow ==
  /\ SaveMessages(messages')
  /\ rendered' = messages'
  /\ shown' = IsGenerating'
  /\ due' = FALSE /\ late' = FALSE

NotRendered == UNCHANGED <<saved, saveFailures, rendered, shown>>

(* The updates of a network callback wait.  An update of the last message    *)
(* yields the same array, and no render, when that is not an assistant's.    *)
QueueUpdate(ms) ==
  /\ messages' = ms
  /\ due' = (due \/ LastIsAssistant(messages) \/ imageGen' # imageGen)
  /\ NotRendered /\ UNCHANGED <<late, pressed>>

Render ==
  /\ due
  /\ UNCHANGED <<messages, pressed, editing, stream, kind, phase, source,
                 complete, controller, imageGen, stopped, astray>>
  /\ RenderNow

(* History: a handler without an isGenerating guard, or any handler while    *)
(* config.stream is off (isGenerating does not cover plain requests), ran    *)
(* while a request was live or the render was behind; or a handler ran       *)
(* before what the composer had sent was rendered.                           *)
Touch(guarded) ==
  astray' = (astray \/ late
               \/ (~(guarded /\ stream) /\ (Live # {} \/ due)))

-----------------------------------------------------------------------------
(* Starting a request                                                        *)

NextRequest(r) ==
  phase[r] = "idle" /\ \A q \in Requests : q < r => phase[q] # "idle"

Begin(r, k, p) ==
  /\ kind' = [kind EXCEPT ![r] = k]
  /\ phase' = [phase EXCEPT ![r] = p]

(* sendStreamRequest; source.stream() may throw.                             *)
SendStreamingChat(r, ms) ==
  /\ complete' = FALSE
  /\ \/ /\ Begin(r, "stream", "open")
        /\ source' = r
        /\ messages' = ms
     \/ /\ Begin(r, "stream", "closed")
        /\ source' = None
        /\ messages' = UpdateLast(ms, Errored(Last(ms)))
  /\ UNCHANGED <<controller, imageGen>>

SendNonStreamingChat(r, ms) ==
  /\ Begin(r, "plain", "open")
  /\ messages' = ms
  /\ UNCHANGED <<source, complete, controller, imageGen>>

SendChat(r, ms) ==
  IF stream THEN SendStreamingChat(r, ms) ELSE SendNonStreamingChat(r, ms)

(* sendImage up to its first await; the prompt may be blank.                 *)
SendImage(r, ms) ==
  /\ \/ /\ Begin(r, "image", "post")
        /\ controller' = r
        /\ imageGen' = TRUE
        /\ messages' = UpdateLast(ms, ImageStatus(Last(ms)))
     \/ /\ Begin(r, "image", "closed")
        /\ messages' = UpdateLast(ms, Errored(Last(ms)))
        /\ UNCHANGED <<controller, imageGen>>
  /\ UNCHANGED <<source, complete>>

SendEither(r, ms) == SendChat(r, ms) \/ SendImage(r, ms)

-----------------------------------------------------------------------------
(* The user's handlers                                                       *)

HandleSendMessage(r, ms) ==
  /\ NextRequest(r)
  /\ SendEither(r, ms \o <<UserMessage(r), LoadingMessage(r)>>)
  /\ UNCHANGED <<editing, stream, stopped>>

(* The form of the composer.  PromptInput waits for the files of the message *)
(* and calls onSubmit of the render the form was submitted in: whether it is *)
(* disabled, and the conversation, are those of that render.                 *)
HandleSubmit ==
  /\ ~shown
  /\ Len(pressed) < MaxPressed
  /\ pressed' = Append(pressed, rendered)
  /\ UNCHANGED <<messages, saved, saveFailures, rendered, shown, due, late,
                 editing, stream, kind, phase, source, complete, controller,
                 imageGen, stopped, astray>>

(* A submit that other steps overtook counts as astray, too.                 *)
Submit(k, r) ==
  /\ k \in DOMAIN pressed
  /\ astray' = (astray \/ Live # {} \/ pressed[k] # messages)
  /\ HandleSendMessage(r, pressed[k])
  /\ pressed' = Without(pressed, k)
  /\ due' = TRUE /\ late' = TRUE
  /\ NotRendered

(* A file cannot be read, or there is nothing to send.                       *)
SubmitDropped(k) ==
  /\ k \in DOMAIN pressed
  /\ pressed' = Without(pressed, k)
  /\ UNCHANGED <<messages, saved, saveFailures, rendered, shown, due, late,
                 editing, stream, kind, phase, source, complete, controller,
                 imageGen, stopped, astray>>

(* A suggestion is submitted at once, without looking at disabled.           *)
SuggestionClick(r) ==
  /\ Touch(FALSE)
  /\ HandleSendMessage(r, rendered)
  /\ RenderNow
  /\ UNCHANGED pressed

(* The buttons of a message: there once it has text.                         *)
HasActions(i) == i \in DOMAIN rendered /\ rendered[i].by # {}

\* Mutant: the buttons do not look at isGenerating.
RegenerateUnguarded(i, r) ==
  /\ HasActions(i)
  /\ rendered[i].from = "assistant" /\ ~Unfinished(rendered[i])
  /\ NextRequest(r)
  /\ SendChat(r, SubSeq(rendered, 1, i - 1) \o <<LoadingMessage(r)>>)
  /\ RenderNow
  /\ Touch(TRUE)
  /\ UNCHANGED <<pressed, editing, stream, stopped>>

(* Regenerating always asks for a chat, whatever the model.                  *)
HandleRegenerateMessage(i, r) ==
  /\ ~shown
  /\ HasActions(i)
  /\ rendered[i].from = "assistant" /\ ~Unfinished(rendered[i])
  /\ NextRequest(r)
  /\ SendChat(r, SubSeq(rendered, 1, i - 1) \o <<LoadingMessage(r)>>)
  /\ RenderNow
  /\ Touch(TRUE)
  /\ UNCHANGED <<pressed, editing, stream, stopped>>

HandleDeleteMessage(i) ==
  /\ ~shown
  /\ HasActions(i)
  /\ messages' = Without(rendered, i)
  /\ UNCHANGED <<source, imageGen>>
  /\ RenderNow
  /\ Touch(TRUE)
  /\ UNCHANGED <<pressed, editing, stream, kind, phase, complete, controller,
                 stopped>>

HandleClearMessages ==
  /\ ~shown
  /\ rendered # <<>>
  /\ messages' = <<>>
  /\ UNCHANGED <<source, imageGen>>
  /\ RenderNow
  /\ Touch(TRUE)
  /\ UNCHANGED <<pressed, editing, stream, kind, phase, complete, controller,
                 stopped>>

HandleEditMessage(i) ==
  /\ ~shown
  /\ HasActions(i)
  /\ editing' = Key(rendered[i])
  /\ UNCHANGED <<messages, saved, saveFailures, rendered, shown, due, late,
                 pressed, stream, kind, phase, source, complete, controller,
                 imageGen, stopped, astray>>

HandleEditOpenChange ==
  /\ editing # NoKey
  /\ editing' = NoKey
  /\ UNCHANGED <<messages, saved, saveFailures, rendered, shown, due, late,
                 pressed, stream, kind, phase, source, complete, controller,
                 imageGen, stopped, astray>>

(* An edit replaces the content and keeps the reasoning.                     *)
Edited(ms, i) == [ms EXCEPT ![i].by = @ \cup {0}]

(* Save and Save & Submit are not guarded: the editor may be opened before a *)
(* request starts and saved while it runs.                                   *)
SaveEdit(i) ==
  /\ i \in DOMAIN rendered
  /\ editing = Key(rendered[i])
  /\ editing' = NoKey
  /\ messages' = Edited(rendered, i)
  /\ UNCHANGED <<source, imageGen>>
  /\ RenderNow
  /\ Touch(FALSE)
  /\ UNCHANGED <<pressed, stream, kind, phase, complete, controller, stopped>>

SaveEditAndSubmit(i, r) ==
  /\ i \in DOMAIN rendered
  /\ editing = Key(rendered[i])
  /\ rendered[i].from = "user"
  /\ NextRequest(r)
  /\ editing' = NoKey
  /\ SendEither(r, SubSeq(Edited(rendered, i), 1, i) \o <<LoadingMessage(r)>>)
  /\ RenderNow
  /\ Touch(FALSE)
  /\ UNCHANGED <<pressed, stream, stopped>>

(* Stop, like a callback, causes a render only if there is an answer.        *)
StopRenders ==
  IF LastIsAssistant(messages) THEN RenderNow
  ELSE NotRendered /\ UNCHANGED <<due, late>>

\* Mutant: the reference is dropped, the source goes on.
StopForgetsSource ==
  /\ shown
  /\ source' = None
  /\ stopped' = stopped \cup ({source, controller} \ {None})
  /\ messages' = UpdateLast(messages, StopFinalized(Last(messages)))
  /\ UNCHANGED imageGen
  /\ StopRenders
  /\ UNCHANGED <<pressed, editing, stream, kind, phase, complete, controller,
                 astray>>

(* The Stop button is there while isGenerating is shown.                     *)
StopGeneration ==
  /\ shown
  /\ phase' = [r \in Requests |-> IF r = source THEN "closed" ELSE phase[r]]
  /\ source' = None
  /\ stopped' = stopped \cup ({source, controller} \ {None})
  /\ messages' = UpdateLast(messages, StopFinalized(Last(messages)))
  /\ UNCHANGED imageGen
  /\ StopRenders
  /\ UNCHANGED <<pressed, editing, stream, kind, complete, controller, astray>>

(* Reloading the page ends its requests and loads what was saved.            *)
Reload ==
  /\ messages' = SanitizeMessagesOnLoad(saved)
  /\ SaveMessages(messages')
  /\ rendered' = messages'
  /\ phase' = [r \in Requests |->
                 IF phase[r] = "idle" THEN "idle" ELSE "closed"]
  /\ shown' = FALSE /\ due' = FALSE /\ late' = FALSE
  /\ pressed' = <<>>
  /\ editing' = NoKey
  /\ stream' \in Streams
  /\ source' = None /\ complete' = FALSE
  /\ controller' = None /\ imageGen' = FALSE
  /\ UNCHANGED <<kind, stopped, astray>>

-----------------------------------------------------------------------------
(* Events of a stream (hooks/use-stream-request.ts)                          *)

IsOpen(r, k) == kind[r] = k /\ phase[r] = "open"

StreamKeeps ==
  UNCHANGED <<editing, stream, kind, controller, imageGen, stopped, astray>>

StreamChunk(r) ==
  /\ IsOpen(r, "stream")
  /\ StreamKeeps
  /\ QueueUpdate(UpdateLast(messages, Streamed(Last(messages), r)))
  /\ UNCHANGED <<phase, source, complete>>

\* Mutant: the source is left open.
CloseSourceLeavesOpen(r) == source' = None /\ UNCHANGED phase

(* closeSource drops the page's source, whichever it is.                     *)
CloseSource(r) ==
  /\ phase' = [phase EXCEPT ![r] = "closed"]
  /\ source' = None

StreamDone(r) ==
  /\ IsOpen(r, "stream")
  /\ complete' = TRUE
  /\ CloseSource(r)
  /\ StreamKeeps
  /\ QueueUpdate(UpdateLast(messages, StreamCompleted(Last(messages))))

(* An error is reported unless a stream completed since the last one was     *)
(* started; after a broken connection the source is gone in any case, after  *)
(* an unreadable chunk it goes on.                                           *)
StreamError(r) ==
  /\ IsOpen(r, "stream")
  /\ ~complete
  /\ CloseSource(r)
  /\ StreamKeeps
  /\ QueueUpdate(UpdateLast(messages, Errored(Last(messages))))
  /\ UNCHANGED complete

StreamErrorIgnored(r) ==
  /\ IsOpen(r, "stream")
  /\ complete
  /\ phase' = [phase EXCEPT ![r] = "dead"]
  /\ StreamKeeps
  /\ NotRendered
  /\ UNCHANGED <<messages, due, late, pressed, source, complete>>

(* The server ends the response without [DONE]: no handler fires.            *)
StreamEnds(r) ==
  /\ IsOpen(r, "stream")
  /\ phase' = [phase EXCEPT ![r] = "dead"]
  /\ StreamKeeps
  /\ NotRendered
  /\ UNCHANGED <<messages, due, late, pressed, source, complete>>

-----------------------------------------------------------------------------
(* The answer of a plain request                                             *)

PlainEnds(r) ==
  /\ IsOpen(r, "plain")
  /\ phase' = [phase EXCEPT ![r] = "closed"]
  /\ UNCHANGED <<editing, stream, kind, source, complete, controller,
                 imageGen, stopped>>

PlainAnswer(r) ==
  /\ PlainEnds(r)
  /\ \E b \in {{}, {r}} :
       QueueUpdate(UpdateLast(messages, Answered(Last(messages), b)))
  /\ UNCHANGED astray

PlainError(r) ==
  /\ PlainEnds(r)
  /\ QueueUpdate(UpdateLast(messages, Errored(Last(messages))))
  /\ UNCHANGED astray

(* An answer without a choice leaves its message loading.                    *)
PlainEmpty(r) ==
  /\ PlainEnds(r)
  /\ astray' = TRUE
  /\ NotRendered
  /\ UNCHANGED <<messages, due, late, pressed>>

-----------------------------------------------------------------------------
(* An image request (sendImage after its first await, waitForImageTask)      *)

ImageKeeps ==
  UNCHANGED <<editing, stream, kind, source, complete, stopped, astray>>

IsImage(r, p) == kind[r] = "image" /\ phase[r] = p

\* Mutant: isImageGenerating is not reset after an abort.
ImageFinallyUnlessAborted(r) ==
  /\ phase' = [phase EXCEPT ![r] = "closed"]
  /\ controller' = IF controller = r THEN None ELSE controller
  /\ imageGen' = (imageGen /\ r \in stopped)
  /\ ImageKeeps

(* The finally block.                                                        *)
ImageFinally(r) ==
  /\ phase' = [phase EXCEPT ![r] = "closed"]
  /\ controller' = IF controller = r THEN None ELSE controller
  /\ imageGen' = FALSE
  /\ ImageKeeps

ImageProgress(r, p, ms) ==
  /\ phase' = [phase EXCEPT ![r] = p]
  /\ UNCHANGED <<controller, imageGen>>
  /\ ImageKeeps
  /\ QueueUpdate(ms)

(* A response with an image, from either call.                               *)
ImageAnswer(r) ==
  /\ IsImage(r, "post") \/ IsImage(r, "poll")
  /\ r \notin stopped
  /\ ImageFinally(r)
  /\ QueueUpdate(UpdateLast(messages, Answered(Last(messages), {r})))

(* No image, a failed task, a failed call or, from a sleep, the deadline of  *)
(* 15 minutes, which the loop tests before signal.aborted.  The client       *)
(* rejects an aborted call the same way: the error is not an AbortError, so  *)
(* the message reports it.                                                   *)
ImageError(r) ==
  /\ IsImage(r, "post") \/ IsImage(r, "poll") \/ IsImage(r, "sleep")
  /\ ImageFinally(r)
  /\ QueueUpdate(UpdateLast(messages, Errored(Last(messages))))

(* A task id: report it and begin to poll.                                   *)
ImageSubmitted(r) ==
  /\ IsImage(r, "post")
  /\ r \notin stopped
  /\ ImageProgress(r, "poll", UpdateLast(messages, ImageStatus(Last(messages))))

(* An unfinished task: report a new status or progress, then sleep.          *)
ImagePolled(r) ==
  /\ IsImage(r, "poll")
  /\ r \notin stopped
  /\ \E ms \in {messages, UpdateLast(messages, ImageStatus(Last(messages)))} :
       ImageProgress(r, "sleep", ms)

(* The sleep ends: the loop looks at signal.aborted before it asks again.    *)
ImageWakes(r) ==
  /\ IsImage(r, "sleep")
  /\ IF r \in stopped
     THEN /\ ImageFinally(r)
          /\ QueueUpdate(UpdateLast(messages, Answered(Last(messages), {0})))
     ELSE ImageProgress(r, "poll", messages)

-----------------------------------------------------------------------------
Init ==
  /\ messages = <<>> /\ saved = <<>> /\ saveFailures = 0 /\ rendered = <<>>
  /\ shown = FALSE /\ due = FALSE /\ late = FALSE /\ pressed = <<>>
  /\ editing = NoKey
  /\ stream \in Streams
  /\ kind = [r \in Requests |-> "none"]
  /\ phase = [r \in Requests |-> "idle"]
  /\ source = None /\ complete = FALSE
  /\ controller = None /\ imageGen = FALSE
  /\ stopped = {} /\ astray = FALSE

User ==
  \/ HandleSubmit
  \/ \E r \in Requests : SuggestionClick(r)
  \/ \E i \in DOMAIN rendered, r \in Requests :
       HandleRegenerateMessage(i, r) \/ SaveEditAndSubmit(i, r)
  \/ \E i \in DOMAIN rendered :
       HandleDeleteMessage(i) \/ HandleEditMessage(i) \/ SaveEdit(i)
  \/ HandleClearMessages \/ HandleEditOpenChange
  \/ StopGeneration \/ Reload

(* The files of a submitted message have been read, or not.                  *)
FilesRead(k) == SubmitDropped(k) \/ \E r \in Requests : Submit(k, r)

Network(r) ==
  \/ StreamChunk(r) \/ StreamDone(r) \/ StreamError(r)
  \/ StreamErrorIgnored(r) \/ StreamEnds(r)
  \/ PlainAnswer(r) \/ PlainError(r) \/ PlainEmpty(r)
  \/ ImageAnswer(r) \/ ImageError(r) \/ ImageSubmitted(r)
  \/ ImagePolled(r) \/ ImageWakes(r)

Next ==
  \/ User \/ Render
  \/ \E k \in DOMAIN pressed : FilesRead(k)
  \/ \E r \in Requests : Network(r)

Spec == Init /\ [][Next]_vars

(* The browser renders and runs its timers, and the client rejects a call    *)
(* that was aborted.  Nothing is assumed of the server or of the user.       *)
FairSpec ==
  /\ Spec
  /\ WF_vars(Render)
  /\ \A r \in Requests :
       WF_vars(ImageWakes(r) \/ (r \in stopped /\ ImageError(r)))

-----------------------------------------------------------------------------
(* The values of the variables: a message has one of the four statuses of    *)
(* types.ts or none, and each reference holds a request or nothing.          *)
TypeOK ==
  /\ messages \in Seq(Message) /\ saved \in Seq(Message)
  /\ rendered \in Seq(Message) /\ saveFailures \in 0..MaxSaveFailures
  /\ shown \in BOOLEAN /\ due \in BOOLEAN /\ late \in BOOLEAN
  /\ pressed \in Seq(Seq(Message)) /\ stream \in BOOLEAN
  /\ editing \in {NoKey} \cup ({"user", "assistant"} \X Requests)
  /\ kind \in [Requests -> {"none", "stream", "plain", "image"}]
  /\ phase \in [Requests -> Phases]
  /\ source \in 0..MaxRequests /\ controller \in 0..MaxRequests
  /\ complete \in BOOLEAN /\ imageGen \in BOOLEAN
  /\ stopped \subseteq Requests /\ astray \in BOOLEAN

(* The guards on isGenerating keep requests apart: as long as no unguarded   *)
(* handler races one and no submit is overtaken, at most one is live.        *)
SingleFlight == ~astray => \A q, r \in Live : q = r

(* Although every callback writes to the last message, whichever it is, a    *)
(* message then only ever shows text of its own request.                     *)
Own(ms) ==
  \A i \in DOMAIN ms :
    ms[i].from = "assistant" => ms[i].by \subseteq {0, ms[i].req}

OwnAnswer == ~astray => Own(messages)

(* When a guarded handler may run, the conversation it closes over is the    *)
(* current one: nothing it writes back undoes a queued update, but for what  *)
(* the composer has just sent.                                               *)
GuardedSeesLatest ==
  ~astray /\ ~shown /\ stream => rendered = messages \/ late

(* A message that is loading or streaming can be stopped: its request is     *)
(* live, it is the last message and (but for a plain request, which has no   *)
(* Stop) the Stop button is shown, or comes with the render that is due.     *)
UnfinishedIsStoppable ==
  ~astray => \A i \in DOMAIN messages :
    Unfinished(messages[i]) =>
      /\ i = Len(messages)
      /\ messages[i].req \in Live
      /\ kind[messages[i].req] # "plain" => shown \/ (late /\ due)

(* The page never stays locked in isGenerating with nothing left to stop,    *)
(* even after races: a shown Stop button has a live request, or a render is  *)
(* due.  Only where a race took the last answer off the conversation does    *)
(* the end of a stream change nothing that would be rendered.                *)
NeverLockedOut == shown /\ ~due /\ LastIsAssistant(messages) => Live # {}

(* What a request is fits where it stands.                                   *)
KindInv ==
  \A r \in Requests :
    /\ phase[r] = "open" => kind[r] \in {"stream", "plain"}
    /\ phase[r] = "dead" => kind[r] = "stream"
    /\ phase[r] \in {"post", "poll", "sleep"} => kind[r] = "image"

(* The references of the page: a held source is a stream that has not ended, *)
(* isImageGenerating means that an image is waited for, and what Stop closed *)
(* or aborted has ended or is an image that will notice.                     *)
Waited(r) == phase[r] \in {"post", "poll", "sleep"}

RefInv ==
  /\ source # None =>
       kind[source] = "stream" /\ phase[source] \in {"open", "dead"}
  /\ controller # None =>
       kind[controller] = "image" /\ phase[controller] # "idle"
  /\ imageGen => \E r \in Requests : Waited(r)
  /\ \A r \in stopped : phase[r] = "closed" \/ Waited(r)

(* What the last render shows: Stop is there whenever something generates,   *)
(* unless the composer has just sent it, and a render that is not due would  *)
(* show nothing new.  Unraced, a shown Stop comes with an answer.            *)
ShownInv ==
  /\ IsGenerating => shown \/ late
  /\ late => due
  /\ ~astray /\ shown => LastIsAssistant(messages)
  /\ ~due => /\ rendered = messages
             /\ LastIsAssistant(messages) => shown = IsGenerating

(* A live request has the last message to itself, and the page holds it.     *)
FlightInv ==
  ~astray => \A r \in Live :
    /\ LastIsAssistant(messages) /\ Last(messages).req = r
    /\ kind[r] = "stream" => stream /\ source = r
    /\ kind[r] = "image"  => imageGen /\ controller = r
    /\ kind[r] = "plain"  => ~stream

(* Only the last message of a conversation, an answer, may be unfinished;    *)
(* this and the ownership of text hold of what was saved, too.               *)
OnlyLastUnfinished(ms) ==
  \A i \in DOMAIN ms :
    Unfinished(ms[i]) => ms[i].from = "assistant" /\ i = Len(ms)

TextInv ==
  ~astray => /\ OnlyLastUnfinished(messages) /\ OnlyLastUnfinished(saved)
             /\ Own(saved)

(* The page's own bookkeeping: requests do not overlap, guarded handlers see *)
(* the latest conversation, and the composer is not locked for nothing; with *)
(* what makes it so.                                                         *)
PageInv ==
  /\ TypeOK /\ SingleFlight /\ GuardedSeesLatest /\ NeverLockedOut
  /\ KindInv /\ RefInv /\ ShownInv /\ FlightInv /\ TextInv

(* Whatever the page still has of the conversation: what it rendered, what   *)
(* it saved and what its pending submits close over.                         *)
Copies == {messages, saved, rendered} \cup {pressed[k] : k \in DOMAIN pressed}

(* A stopped request adds no text of its own to the conversation, races      *)
(* included.  An aborted image still reports that it was stopped or failed:  *)
(* unraced, once, in its own message, which is finished and the request      *)
(* over with it.                                                             *)
StoppedIsSilent ==
  [][\A r \in stopped :
       /\ \A i \in DOMAIN messages' : r \in messages'[i].by =>
            \E ms \in Copies : \E j \in DOMAIN ms :
              Key(ms[j]) = Key(messages'[i]) /\ r \in ms[j].by
       /\ ~astray /\ messages' # messages /\ Network(r) =>
            /\ Last(messages).req = r /\ ~Unfinished(Last(messages'))
            /\ phase'[r] = "closed"]_vars

(* Loading the page leaves no message loading or streaming.                  *)
LoadIsStable ==
  [][~astray /\ Reload =>
       \A i \in DOMAIN messages' : ~Unfinished(messages'[i])]_vars

(* Stop frees the page: the stopped request ends, also when it is asleep     *)
(* between two polls, and the composer is unlocked unless another request    *)
(* is live, or a race has taken the last answer off the conversation.        *)
StopFrees ==
  \A r \in Requests :
    r \in stopped ~>
      /\ phase[r] = "closed"
      /\ ~shown \/ Live # {} \/ ~LastIsAssistant(messages)
=============================================================================
