--------------------------- MODULE StatusStreams ---------------------------
(***************************************************************************)
(* The event streams a client listens to. A chat with status_stream: the   *)
(* generator _status_stream_chat runs the workflow as a task of its own,   *)
(* forwards the events it emits through a bounded queue, asks Redis now    *)
(* and then whether the client has cancelled, and cleans up when it ends   *)
(* or the client goes away. And the events of a generation task, which     *)
(* are polled from its row.                                                *)
(*                                                                         *)
(* The cancel flag is kept for the user and the request's id, which the    *)
(* client chooses: chats may share it. It is read in one step and deleted  *)
(* in another. An event is its number; the workflow of a chat is running   *)
(* until it ends one way or another (agent_executor makes every chat a     *)
(* batch, so no upstream stream is passed on).                             *)
(***************************************************************************)
EXTENDS Integers, Sequences

CONSTANTS
  Chats,        \* chats with status_stream
  RequestId,    \* RequestId[c]: the id the client chose
  Watched,      \* generation tasks whose events a client polls
  QueueSize,    \* maxsize of the queue
  MaxEvents,    \* bound on the events of a workflow
  MaxCancels    \* bound on the cancel calls

VARIABLES
  chat,         \* chat[c]: the generator, the task and what the client got
  flag,         \* the ids with a cancel flag in Redis
  cancels,      \* cancel calls so far
  generation,   \* generation[g]: status of the generation task's row
  watcher       \* watcher[g]: its event stream

streamVars == <<chat, flag, cancels, generation, watcher>>

Ids == {RequestId[c] : c \in Chats}

Chat == [at : {"idle", "loop", "consume", "closing", "joining", "over"},
         task : {"none", "running", "ok", "failed", "raised", "cancelled"},
         queue : Seq(1..MaxEvents), emitted : 0..MaxEvents, shown : Seq(1..MaxEvents),
         error : {"none", "step", "CLIENT_CANCELLED", "CLIENT_DISCONNECTED"},
         got : {"nothing", "answer", "error", "done"}]

NoChat == [at |-> "idle", task |-> "none", queue |-> <<>>, emitted |-> 0, shown |-> <<>>,
           error |-> "none", got |-> "nothing"]

Unfinished == {"queued", "running"}
Finished == {"succeeded", "failed", "canceled"}

\* loaded: the row as the session has it, and the last status sent; current: it was the
\* row's status when it was sent.
Watcher == [at : {"off", "polling", "over"}, loaded : Unfinished \cup Finished \cup {"none"},
            current : BOOLEAN]

Init ==
  /\ chat = [c \in Chats |-> NoChat]
  /\ flag = {}
  /\ cancels = 0
  /\ generation = [g \in Watched |-> "queued"]
  /\ watcher = [g \in Watched |-> [at |-> "off", loaded |-> "none", current |-> TRUE]]

At(c, s) == chat[c].at = s
TaskDone(c) == chat[c].task \notin {"none", "running"}
Rest == <<generation, watcher>>

-----------------------------------------------------------------------------
(* The workflow and its events *)

\* emitter: what does not fit in the queue is dropped.
Emitted(r) ==
  LET n == r.emitted + 1 IN
  [r EXCEPT !.emitted = n, !.queue = IF Len(@) < QueueSize THEN Append(@, n) ELSE @]

\* The route, the generator's first event and its task.
Open(c) ==
  /\ At(c, "idle")
  /\ chat' = [chat EXCEPT ![c] = Emitted([@ EXCEPT !.at = "loop", !.task = "running"])]
  /\ UNCHANGED <<flag, cancels, Rest>>

EmitStatus(c) ==
  /\ chat[c].task = "running" /\ chat[c].emitted < MaxEvents
  /\ chat' = [chat EXCEPT ![c] = Emitted(@)]
  /\ UNCHANGED <<flag, cancels, Rest>>

\* A failed step marks the error; a step's exception may leave it unmarked.
WorkflowEnds(c) ==
  /\ chat[c].task = "running" /\ chat[c].at # "joining"
  /\ \E o \in {"ok", "failed", "raised"} :
       chat' = [chat EXCEPT ![c].task = o, ![c].error = IF o = "failed" THEN "step" ELSE @]
  /\ UNCHANGED <<flag, cancels, Rest>>

-----------------------------------------------------------------------------
(* The generator's loop *)

\* consume_cancel, asked at most every 0.3 s: cache.get, then cache.delete.
SeeCancel(c) ==
  /\ At(c, "loop") /\ RequestId[c] \in flag
  /\ chat' = [chat EXCEPT ![c].at = "consume"]
  /\ UNCHANGED <<flag, cancels, Rest>>

ConsumeCancel(c) ==
  /\ At(c, "consume")
  /\ flag' = flag \ {RequestId[c]}
  /\ chat' = [chat EXCEPT ![c].at = "closing", ![c].error = "CLIENT_CANCELLED", ![c].got = "done"]
  /\ UNCHANGED <<cancels, Rest>>

Forward(c) ==
  /\ At(c, "loop") /\ chat[c].queue # <<>>
  /\ chat' = [chat EXCEPT ![c].queue = Tail(@), ![c].shown = Append(@, Head(chat[c].queue))]
  /\ UNCHANGED <<flag, cancels, Rest>>

\* The task is done and all it emitted is forwarded: the answer or the error, and
\* [DONE]. What the task raised ends the stream without either.
Conclude(c) ==
  /\ At(c, "loop") /\ TaskDone(c) /\ chat[c].queue = <<>>
  /\ chat' = [chat EXCEPT ![c].at = IF chat[c].task = "raised" THEN "closing" ELSE "over",
                ![c].got = CASE chat[c].task = "raised" -> @
                             [] chat[c].task = "ok" /\ chat[c].error = "none" -> "answer"
                             [] OTHER -> "error"]
  /\ UNCHANGED <<flag, cancels, Rest>>

\* The client closes the connection while the generator waits.
Disconnect(c) ==
  /\ chat[c].at \in {"loop", "consume"}
  /\ chat' = [chat EXCEPT ![c].at = "closing"]
  /\ UNCHANGED <<flag, cancels, Rest>>

\* The finally block: it marks the error, if none is, and cancels the task.
CleanUp(c) ==
  /\ At(c, "closing")
  /\ chat' = [chat EXCEPT
       ![c].at = IF TaskDone(c) THEN "over" ELSE "joining",
       ![c].error = IF ~TaskDone(c) /\ @ = "none" THEN "CLIENT_DISCONNECTED" ELSE @]
  /\ UNCHANGED <<flag, cancels, Rest>>

\* The task takes the cancellation at its next await, or ends before it comes to one.
JoinTask(c) ==
  /\ At(c, "joining")
  /\ \E o \in {"cancelled", "ok", "failed", "raised"} :
       chat' = [chat EXCEPT ![c].task = o, ![c].at = "over",
                  ![c].error = IF o = "failed" THEN "step" ELSE @]
  /\ UNCHANGED <<flag, cancels, Rest>>

-----------------------------------------------------------------------------
(* The cancel route *)

MarkCancel(i) ==
  /\ cancels < MaxCancels
  /\ flag' = flag \cup {i}
  /\ cancels' = cancels + 1
  /\ UNCHANGED <<chat, Rest>>

\* DEFAULT_TTL_SECONDS pass.
FlagExpires(i) ==
  /\ i \in flag
  /\ flag' = flag \ {i}
  /\ UNCHANGED <<chat, cancels, Rest>>

-----------------------------------------------------------------------------
(* The events of a generation task *)

RowMoves(g) ==
  /\ \E t \in CASE generation[g] = "queued"  -> {"running", "canceled"}
               [] generation[g] = "running" -> Finished
               [] OTHER -> {} :
       generation' = [generation EXCEPT ![g] = t]
  /\ UNCHANGED <<chat, flag, cancels, watcher>>

Watch(g) ==
  /\ watcher[g].at = "off"
  /\ watcher' = [watcher EXCEPT ![g].at = "polling"]
  /\ UNCHANGED <<chat, flag, cancels, generation>>

\* session.get returns the row it has loaded before, as it was then: the generator
\* holds on to it and nothing expires it.
Loaded(g) == IF watcher[g].loaded = "none" THEN generation[g] ELSE watcher[g].loaded

Poll(g) ==
  /\ watcher[g].at = "polling"
  /\ watcher' = [watcher EXCEPT ![g] = [at |-> IF Loaded(g) \in Finished THEN "over" ELSE "polling",
                                       loaded |-> Loaded(g), current |-> Loaded(g) = generation[g]]]
  /\ UNCHANGED <<chat, flag, cancels, generation>>

WatchTimesOut(g) ==
  /\ watcher[g].at = "polling" /\ watcher[g].loaded # "none"
  /\ watcher' = [watcher EXCEPT ![g].at = "over"]
  /\ UNCHANGED <<chat, flag, cancels, generation>>

-----------------------------------------------------------------------------
Next ==
  \/ \E c \in Chats :
       \/ Open(c) \/ EmitStatus(c) \/ WorkflowEnds(c) \/ SeeCancel(c) \/ ConsumeCancel(c)
       \/ Forward(c) \/ Conclude(c) \/ Disconnect(c) \/ CleanUp(c) \/ JoinTask(c)
  \/ \E i \in Ids : MarkCancel(i) \/ FlagExpires(i)
  \/ \E g \in Watched : RowMoves(g) \/ Watch(g) \/ Poll(g) \/ WatchTimesOut(g)

\* The event loop runs the generator and the task; a workflow ends (EveryRunEnds of
\* the engine), also when it is cancelled.
ChatStep(c) ==
  ConsumeCancel(c) \/ Forward(c) \/ Conclude(c) \/ CleanUp(c) \/ JoinTask(c) \/ WorkflowEnds(c)

Spec == Init /\ [][Next]_streamVars /\ \A c \in Chats : WF_streamVars(ChatStep(c))

-----------------------------------------------------------------------------
\* Types, and with them the bound of a stream's queue of events.
TypeOK ==
  /\ chat \in [Chats -> Chat]
  /\ \A c \in Chats : Len(chat[c].queue) <= QueueSize
  /\ flag \subseteq Ids
  /\ cancels \in 0..MaxCancels
  /\ generation \in [Watched -> Unfinished \cup Finished]
  /\ watcher \in [Watched -> Watcher]

\* However a stream ends (answered, cancelled, left by its client, broken by an
\* exception), no workflow goes on without it; and a client that gets the answer has
\* seen every event that the queue had room for, in order, and was not cancelled.
NoneRunsOn ==
  \A c \in Chats :
    /\ At(c, "over") => chat[c].task # "running"
    /\ chat[c].got = "answer" => chat[c].queue = <<>> /\ chat[c].error = "none"
    /\ \A i, j \in DOMAIN chat[c].shown : i < j => chat[c].shown[i] < chat[c].shown[j]

\* Every stream comes to an end.
StreamsEnd == \A c \in Chats : []<>~At(c, "loop")

\* A cancel call cancels what runs when it is made. Not so: a flag nobody has consumed
\* lasts 600 s and cancels the next chat with the id.
CancelsOwn ==
  [][\A c \in Chats : Open(c) => RequestId[c] \notin flag]_streamVars

\* A poll sends the status the row has (poll_interval: "轮询间隔（秒）"). Not so: the
\* session of the stream answers from its identity map.
PollIsCurrent == \A g \in Watched : watcher[g].current

=============================================================================
