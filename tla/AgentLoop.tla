------------------------------ MODULE AgentLoop -----------------------------
(***************************************************************************)
(* The agent_executor step: it asks the model, makes the tool calls the    *)
(* answer contains one after the other, adds their results to the history  *)
(* and asks again, up to max_turns.  A call may activate or deactivate an  *)
(* assistant, whose prompt and tools then take part in the next question;  *)
(* an earlier step may have set an assistant as well.  A timeout of the    *)
(* whole step degrades it to the last answer it had.                       *)
(***************************************************************************)
EXTENDS Integers, FiniteSets

CONSTANTS
  Assistants,   \* assistants the model may activate
  MaxTurns,     \* max_turns after its clamp
  MaxBatch      \* bound: tool calls in one answer

VARIABLES
  preset,      \* ctx assistant.id: the assistant an earlier step chose, if any
  loop,        \* the step
  asked,       \* tool calls in the history
  answers,     \* answers[c]: tool results for call c in the history
  sent,        \* sent[c]: how often call c was dispatched
  voice,       \* whom the last assistant message of the history speaks for
  offered,     \* assistants whose tools are in the request, on top of the base tools
  activation,  \* assistant_activation: pending and active
  stream       \* the stream flag in the rendered request

agentVars == <<preset, loop, asked, answers, sent, voice, offered, activation, stream>>

Nobody == "nobody"
Calls == (1..MaxTurns) \X (1..MaxBatch)
Kinds == {"tool", "blocked", "malformed", "deactivate"} \cup Assistants

\* injected: injected_assistant_id; good: the turn of _last_good_response; shown: the
\* turn of the answer the next steps see.
Start == [at |-> "ask", turn |-> 0, left |-> 0, next |-> 1, injected |-> Nobody,
          good |-> 0, shown |-> 0, wanted |-> FALSE, status |-> "none"]

Init ==
  /\ preset \in Assistants \cup {Nobody}
  /\ \E s \in BOOLEAN : loop = [Start EXCEPT !.wanted = s] /\ stream = s
  /\ asked = {}
  /\ answers = [c \in Calls |-> 0]
  /\ sent = [c \in Calls |-> 0]
  /\ voice = preset
  /\ offered = IF preset = Nobody THEN {} ELSE {preset}
  /\ activation = [pending |-> Nobody, active |-> Nobody]

At(s) == loop.at = s
Call == <<loop.turn, loop.next>>

\* The stream flag is put back for the next steps.
Finish(l, status) == /\ loop' = [l EXCEPT !.at = "done", !.status = status]
                     /\ stream' = loop.wanted

-----------------------------------------------------------------------------
\* A turn: without streaming, the upstream step is executed.
Ask ==
  /\ At("ask")
  /\ loop.turn < MaxTurns
  /\ stream' = FALSE
  /\ loop' = [loop EXCEPT !.at = "upstream", !.turn = @ + 1]
  /\ UNCHANGED <<preset, asked, answers, sent, voice, offered, activation>>

\* Out of turns: the last answer stays, tool calls and all.
OutOfTurns ==
  /\ At("ask")
  /\ loop.turn = MaxTurns
  /\ Finish(loop, "success")
  /\ UNCHANGED <<preset, asked, answers, sent, voice, offered, activation>>

\* The upstream step fails, and so does this one, which has nothing to retry on.
UpstreamFails ==
  /\ At("upstream")
  /\ loop' = [loop EXCEPT !.at = "done", !.status = "failed"]
  /\ UNCHANGED <<preset, asked, answers, sent, voice, offered, activation, stream>>

\* An answer without tool calls is the final one.
FinalAnswer ==
  /\ At("upstream")
  /\ Finish([loop EXCEPT !.good = loop.turn, !.shown = loop.turn], "success")
  /\ UNCHANGED <<preset, asked, answers, sent, voice, offered, activation>>

\* The answer's calls are sanitised and added to the history together.
ToolCalls(n) ==
  /\ At("upstream")
  /\ loop' = [loop EXCEPT !.at = "tool", !.left = n, !.next = 1, !.good = loop.turn, !.shown = loop.turn]
  /\ asked' = asked \cup {<<loop.turn, i>> : i \in 1..n}
  /\ UNCHANGED <<preset, answers, sent, voice, offered, activation, stream>>

Answered == answers' = [answers EXCEPT ![Call] = @ + 1]
NextCall == loop' = [loop EXCEPT !.at = IF loop.left = 1 THEN "turn" ELSE "tool", !.left = @ - 1, !.next = @ + 1]

\* Arguments that are no JSON come back to the model as the call's result.
Malformed ==
  /\ At("tool")
  /\ Answered
  /\ NextCall
  /\ UNCHANGED <<preset, asked, sent, voice, offered, activation, stream>>

\* _dispatch_tool_inner refuses: code mode is available, or the monitor's list does
\* not have the tool.
Blocked ==
  /\ At("tool")
  /\ Answered
  /\ NextCall
  /\ UNCHANGED <<preset, asked, sent, voice, offered, activation, stream>>

\* Tools of the core plugin: activate_assistant and deactivate_assistant leave their
\* wish in the context.
CallCorePlugin(kind) ==
  activation' = IF kind = "tool" THEN activation
                ELSE [activation EXCEPT !.pending = IF kind \in Assistants THEN kind ELSE "off"]

\* The tool is an MCP server's, a core one or a skill's, for at most its timeout;
\* an error of it is a result as well.
Dispatch(kind) ==
  /\ At("tool")
  /\ sent' = [sent EXCEPT ![Call] = @ + 1]
  /\ CallCorePlugin(kind)
  /\ loop' = [loop EXCEPT !.at = "result"]
  /\ UNCHANGED <<preset, asked, answers, voice, offered, stream>>

\* _apply_assistant_activation_payload and _apply_assistant_deactivation_payload.
Transition(l) ==
  LET p == activation.pending IN
  IF p = Nobody THEN loop' = l /\ UNCHANGED <<voice, offered, activation>>
  ELSE LET a == IF p = "off" THEN Nobody ELSE p IN
       /\ loop' = [l EXCEPT !.injected = a]
       /\ voice' = a
       /\ offered' = (IF preset = Nobody THEN {} ELSE {preset}) \cup ({a} \ {Nobody})
       /\ activation' = [pending |-> Nobody, active |-> a]

\* The result, or an error or a timeout of the tool, goes into the history, and a
\* pending transition is made.
Result ==
  /\ At("result")
  /\ Answered
  /\ Transition([loop EXCEPT !.at = IF loop.left = 1 THEN "turn" ELSE "tool", !.left = @ - 1, !.next = @ + 1])
  /\ UNCHANGED <<preset, asked, sent, stream>>

\* After the batch, an assistant set by an earlier step is injected unless it is the
\* one injected last.
Inject ==
  /\ At("turn")
  /\ IF preset # Nobody /\ preset # loop.injected
     THEN /\ loop' = [loop EXCEPT !.at = "ask", !.injected = preset]
          /\ voice' = preset
          /\ offered' = offered \cup {preset}
     ELSE loop' = [loop EXCEPT !.at = "ask"] /\ UNCHANGED <<voice, offered>>
  /\ UNCHANGED <<preset, asked, answers, sent, activation, stream>>

\* The engine's timeout cancels the step anywhere; on_degrade shows the last answer.
StepTimeout ==
  /\ ~At("done")
  /\ loop' = [loop EXCEPT !.at = "done", !.status = "degraded", !.shown = loop.good]
  /\ UNCHANGED <<preset, asked, answers, sent, voice, offered, activation, stream>>

Move ==
  \/ Ask \/ OutOfTurns \/ UpstreamFails \/ FinalAnswer \/ Malformed \/ Blocked \/ Result \/ Inject
  \/ \E n \in 1..MaxBatch : ToolCalls(n)
  \/ \E kind \in Kinds \ {"blocked", "malformed"} : Dispatch(kind)

Next == Move \/ StepTimeout

Spec == Init /\ [][Next]_agentVars /\ WF_agentVars(Move)

-----------------------------------------------------------------------------
\* The step, its history and its activation stay in range.
TypeOK ==
  /\ loop.turn \in 0..MaxTurns /\ loop.good \in 0..MaxTurns /\ loop.shown \in 0..MaxTurns
  /\ asked \subseteq Calls
  /\ offered \subseteq Assistants
  /\ {voice, activation.active} \subseteq Assistants \cup {Nobody}
  /\ activation.pending \in Assistants \cup {Nobody, "off"}

\* The model is asked again only with a complete history: every call of every earlier
\* answer has its one result, malformed, refused, failed and timed out ones too.
Paired ==
  At("upstream") => \A c \in Calls : answers[c] = IF c \in asked THEN 1 ELSE 0

\* No call is dispatched twice, nor after the step has ended (on_failure: the loop is
\* not retried because tools have side effects).
SentOnce == \A c \in Calls : sent[c] <= 1 /\ (sent[c] = 1 => c \in asked)

\* The model is offered the tools of the base request and of the one assistant that is
\* active now, of none that was active before.
ToolsFollowActive ==
  At("upstream") => offered = {preset, activation.active} \ {Nobody}

\* What a degraded step shows is the latest answer the model gave.
DegradedShowsLatest ==
  loop.status = "degraded" => loop.shown = loop.good /\ (asked # {} => loop.shown > 0)

\* The assistant the model activated last is the one the history speaks for when it is
\* asked again ("Replace any previously activated request-scoped assistant
\* instructions with the following prompt"). Not so: after the batch the preset is
\* injected once more.
ActivationWins ==
  At("upstream") /\ activation.active # Nobody => voice = activation.active

\* The loop ends (and stays so).
LoopEnds == []<>At("done")
=============================================================================
