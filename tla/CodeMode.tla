------------------------------ MODULE CodeMode ------------------------------
(***************************************************************************)
(* Code mode: search_sdk leaves a snapshot of tool names in the workflow   *)
(* context; execute_code_plan validates a plan of tool calls against it,   *)
(* makes the calls, and runs the model's code in a sandbox.  The code      *)
(* reaches the host's tools through a bridge, with a token that allows so  *)
(* many calls; the token lives in Redis, or in the process when Redis      *)
(* fails.  Every execution leaves a record.                                *)
(***************************************************************************)
EXTENDS Integers, Sequences, FiniteSets

CONSTANTS
  Executions,    \* executions
  Replays,       \* those of them that replay another one
  ToolNames,     \* tools that search_sdk can find
  Plans,         \* tool plans: sequences of [tool, onError]
  MaxCalls,      \* _MAX_RUNTIME_TOOL_CALLS
  MaxOutages     \* bound: Redis going away and coming back, failed writes

VARIABLES
  snapshot,    \* snapshot[e]: what the latest search found, in the context of e
  execution,   \* execution[e]
  redisToken,  \* redisToken[e]: calls used under the token in Redis
  localToken,  \* localToken[e]: the same, in the memory of the process
  storedIn,    \* storedIn[e]: where the context for the code is kept
  served,      \* served[e]: bridge calls that were let through, by store
  onboarding,  \* traces whose assistant onboarding failed
  records,     \* records[e]: rows of code_mode_execution
  redisUp,     \* whether Redis answers
  outages      \* outages so far

codeVars == <<snapshot, execution, redisToken, localToken, storedIn, served, onboarding, records, redisUp, outages>>

NoSnapshot == {"no snapshot"}
NoToken == -1
Reserved == {"search_sdk", "execute_code_plan"}

\* next: the step of the plan to be dispatched; stopped: a step failed that must stop
\* it; ran: the code was sent to the sandbox; saved: the record was written.
Fresh == [at |-> "idle", plan |-> <<>>, next |-> 1, called |-> {}, stopped |-> FALSE,
          ran |-> FALSE, status |-> "none", saved |-> FALSE]

Init ==
  /\ snapshot = [e \in Executions |-> NoSnapshot]
  /\ execution = [e \in Executions |-> Fresh]
  /\ redisToken = [e \in Executions |-> NoToken]
  /\ localToken = [e \in Executions |-> NoToken]
  /\ storedIn = [e \in Executions |-> "none"]
  /\ served = [e \in Executions |-> [redis |-> 0, local |-> 0]]
  /\ onboarding = {}
  /\ records = [e \in Executions |-> 0]
  /\ redisUp = TRUE
  /\ outages = 0

At(e, s) == execution[e].at = s
HasSnapshot(e) == snapshot[e] # NoSnapshot

\* handle_search_sdk: the two tools of code mode itself are left out.
SearchSdk(e, found) ==
  /\ At(e, "idle")
  /\ ~HasSnapshot(e)
  /\ snapshot' = [snapshot EXCEPT ![e] = found]
  /\ UNCHANGED <<execution, redisToken, localToken, storedIn, served, onboarding, records, redisUp, outages>>

\* _validate_tool_plan and _validate_tool_plan_allowed_tools.
PlanIsValid(e, plan) ==
  \A i \in DOMAIN plan : /\ plan[i].tool \notin Reserved
                         /\ HasSnapshot(e) => plan[i].tool \in snapshot[e]

\* handle_execute_code_plan up to the first call: empty, long, foreign or forbidden
\* code fails, and so does an invalid plan; a dry run stops here.
ExecuteCodePlan(e, plan, verdict) ==
  /\ At(e, "idle")
  /\ execution' = [execution EXCEPT ![e] = [Fresh EXCEPT !.plan = plan,
       !.at = IF verdict # "run" \/ ~PlanIsValid(e, plan) THEN "final" ELSE "plan",
       !.status = IF verdict = "dry_run" THEN "dry_run"
                  ELSE IF verdict = "refused" \/ ~PlanIsValid(e, plan) THEN "failed" ELSE "none"]]
  /\ UNCHANGED <<snapshot, redisToken, localToken, storedIn, served, onboarding, records, redisUp, outages>>

\* _execute_tool_plan: a step that fails ends the execution unless it may continue.
PlanStep(e, ok) ==
  LET x == execution[e]
      stop == ~ok /\ x.plan[x.next].onError = "stop"
  IN
  /\ At(e, "plan")
  /\ x.next <= Len(x.plan)
  /\ execution' = [execution EXCEPT ![e] = [x EXCEPT !.next = @ + 1, !.called = @ \cup {x.plan[x.next].tool},
       !.stopped = stop, !.at = IF stop THEN "final" ELSE "plan", !.status = IF stop THEN "failed" ELSE "none"]]
  /\ UNCHANGED <<snapshot, redisToken, localToken, storedIn, served, onboarding, records, redisUp, outages>>

\* _build_runtime_sdk_bundle: without a snapshot, the tools found for the code become one.
BuildBundle(e, found) ==
  /\ At(e, "plan")
  /\ execution[e].next > Len(execution[e].plan)
  /\ snapshot' = IF ~HasSnapshot(e) /\ found # {} THEN [snapshot EXCEPT ![e] = found] ELSE snapshot
  /\ execution' = [execution EXCEPT ![e].at = "issue"]
  /\ UNCHANGED <<redisToken, localToken, storedIn, served, onboarding, records, redisUp, outages>>

-----------------------------------------------------------------------------
(* The bridge's token *)

\* issue_token writes the hash and then its time to live.
IssueToken(e) ==
  /\ At(e, "issue")
  /\ IF redisUp THEN /\ redisToken' = [redisToken EXCEPT ![e] = 0]
                     /\ execution' = [execution EXCEPT ![e].at = "expire"]
                     /\ UNCHANGED localToken
     ELSE /\ localToken' = [localToken EXCEPT ![e] = 0]
          /\ execution' = [execution EXCEPT ![e].at = "context"]
          /\ UNCHANGED redisToken
  /\ UNCHANGED <<snapshot, storedIn, served, onboarding, records, redisUp, outages>>

\* When the time to live cannot be set the process keeps the token as well.
SetExpiry(e) ==
  /\ At(e, "expire")
  /\ localToken' = IF redisUp THEN localToken ELSE [localToken EXCEPT ![e] = 0]
  /\ execution' = [execution EXCEPT ![e].at = "context"]
  /\ UNCHANGED <<snapshot, redisToken, storedIn, served, onboarding, records, redisUp, outages>>

\* Without a bridge the code has to do with what it is given.
NoBridge(e) ==
  /\ At(e, "issue")
  /\ execution' = [execution EXCEPT ![e].at = "running", ![e].ran = TRUE]
  /\ UNCHANGED <<snapshot, redisToken, localToken, storedIn, served, onboarding, records, redisUp, outages>>

\* store_context, and the code is sent to the sandbox.
StoreContext(e) ==
  /\ At(e, "context")
  /\ storedIn' = [storedIn EXCEPT ![e] = IF redisUp THEN "redis" ELSE "local"]
  /\ execution' = [execution EXCEPT ![e].at = "running", ![e].ran = TRUE]
  /\ UNCHANGED <<snapshot, redisToken, localToken, served, onboarding, records, redisUp, outages>>

\* code_mode_bridge_consume.lua: refused unless the hash exists and has calls left.
ConsumeRedis(e) ==
  /\ redisUp
  /\ redisToken[e] # NoToken
  /\ redisToken[e] < MaxCalls
  /\ redisToken' = [redisToken EXCEPT ![e] = @ + 1]
  /\ served' = [served EXCEPT ![e].redis = @ + 1]
  /\ UNCHANGED localToken

\* consume_call asks the process's own store only when the script cannot be run.
ConsumeLocal(e) ==
  /\ ~redisUp
  /\ localToken[e] # NoToken
  /\ localToken[e] < MaxCalls
  /\ localToken' = [localToken EXCEPT ![e] = @ + 1]
  /\ served' = [served EXCEPT ![e].local = @ + 1]
  /\ UNCHANGED redisToken

\* Code in the sandbox, or what it left behind there, calls the host: a tool, the
\* context or a file.  Every such call is counted first.
BridgeCall(e) ==
  /\ ConsumeRedis(e) \/ ConsumeLocal(e)
  /\ UNCHANGED <<snapshot, execution, storedIn, onboarding, records, redisUp, outages>>

\* code_mode_call_tool for assistant_onboarding: a failure blocks later memory
\* writes of the trace, a success lifts the block.
Onboard(e, ok) ==
  /\ ConsumeRedis(e) \/ ConsumeLocal(e)
  /\ onboarding' = IF ok THEN onboarding \ {e} ELSE onboarding \cup {e}
  /\ UNCHANGED <<snapshot, execution, storedIn, records, redisUp, outages>>

\* The hash expires if its time to live was set; the local entry with its own.
TokenExpires(e) ==
  /\ redisToken[e] # NoToken \/ localToken[e] # NoToken
  /\ ~At(e, "expire")
  /\ localToken' = [localToken EXCEPT ![e] = NoToken]
  /\ redisToken' = IF localToken[e] = NoToken THEN [redisToken EXCEPT ![e] = NoToken] ELSE redisToken
  /\ UNCHANGED <<snapshot, execution, storedIn, served, onboarding, records, redisUp, outages>>

-----------------------------------------------------------------------------
(* The end of an execution *)

\* _finalize_code_mode_response: what the execution is said to have come to.
Finalize(e, status) == execution' = [execution EXCEPT ![e].at = "final", ![e].status = status]

\* _format_execution_result: the exit code alone decides.
FormatExecutionResult(end) == IF end = "exit 0" THEN "success" ELSE "failed"

\* The sandbox reports an error, a request for a host tool that is no longer served,
\* or an exit.
RunEnds(e, end) ==
  /\ At(e, "running")
  /\ Finalize(e, CASE end = "error chunk" -> "error"
                   [] end = "tool marker" -> "failed"
                   [] OTHER -> FormatExecutionResult(end))
  /\ UNCHANGED <<snapshot, redisToken, localToken, storedIn, served, onboarding, records, redisUp, outages>>

\* _finalize_response: _persist_execution_record commits one row.
Persist(e) ==
  /\ At(e, "final")
  /\ records' = [records EXCEPT ![e] = @ + 1]
  /\ execution' = [execution EXCEPT ![e].at = "done", ![e].saved = TRUE]
  /\ UNCHANGED <<snapshot, redisToken, localToken, storedIn, served, onboarding, redisUp, outages>>

\* A record that cannot be written is only logged.
PersistFails(e) ==
  /\ At(e, "final")
  /\ outages < MaxOutages
  /\ outages' = outages + 1
  /\ execution' = [execution EXCEPT ![e].at = "done"]
  /\ UNCHANGED <<snapshot, redisToken, localToken, storedIn, served, onboarding, records, redisUp>>

\* sync_code_mode_executions: the desktop sends what it has; a row that exists is kept.
SyncExecution(e) ==
  /\ At(e, "done")
  /\ records[e] = 0
  /\ records' = [records EXCEPT ![e] = 1]
  /\ UNCHANGED <<snapshot, execution, redisToken, localToken, storedIn, served, onboarding, redisUp, outages>>

\* replay_code_mode_execution: the code and plan of a recorded execution as a new
\* one, in a context without a snapshot.
Replay(old, e) ==
  /\ records[old] > 0
  /\ At(e, "idle")
  /\ ~HasSnapshot(e)
  /\ execution' = [execution EXCEPT ![e] = [Fresh EXCEPT !.plan = execution[old].plan,
       !.at = IF PlanIsValid(e, execution[old].plan) THEN "plan" ELSE "final",
       !.status = IF PlanIsValid(e, execution[old].plan) THEN "none" ELSE "failed"]]
  /\ UNCHANGED <<snapshot, redisToken, localToken, storedIn, served, onboarding, records, redisUp, outages>>

RedisFails ==
  /\ redisUp
  /\ outages < MaxOutages
  /\ outages' = outages + 1
  /\ redisUp' = FALSE
  /\ UNCHANGED <<snapshot, execution, redisToken, localToken, storedIn, served, onboarding, records>>

RedisReturns ==
  /\ ~redisUp
  /\ redisUp' = TRUE
  /\ UNCHANGED <<snapshot, execution, redisToken, localToken, storedIn, served, onboarding, records, outages>>

-----------------------------------------------------------------------------
ExecutionStep(e) ==
  \/ IssueToken(e) \/ SetExpiry(e) \/ NoBridge(e) \/ StoreContext(e) \/ Persist(e) \/ PersistFails(e)
  \/ \E ok \in BOOLEAN : PlanStep(e, ok)
  \/ \E found \in {{}, ToolNames} : BuildBundle(e, found)
  \/ \E end \in {"error chunk", "tool marker", "exit 0", "exit 1"} : RunEnds(e, end)

Next ==
  \/ \E e \in Executions : ExecutionStep(e) \/ BridgeCall(e) \/ TokenExpires(e) \/ SyncExecution(e)
  \/ \E e \in Executions, ok \in BOOLEAN : Onboard(e, ok)
  \/ \E e \in Executions \ Replays, found \in SUBSET ToolNames : SearchSdk(e, found)
  \/ \E e \in Executions \ Replays, plan \in Plans, v \in {"run", "dry_run", "refused"} : ExecuteCodePlan(e, plan, v)
  \/ \E old \in Executions, e \in Replays : Replay(old, e)
  \/ RedisFails \/ RedisReturns

Spec == Init /\ [][Next]_codeVars /\ \A e \in Executions : WF_codeVars(ExecutionStep(e))

-----------------------------------------------------------------------------
\* Executions, tokens and records stay in range.
TypeOK ==
  /\ \A e \in Executions :
       /\ snapshot[e] = NoSnapshot \/ snapshot[e] \subseteq ToolNames
       /\ execution[e].status \in {"none", "dry_run", "failed", "error", "success"}
       /\ {redisToken[e], localToken[e]} \subseteq NoToken..MaxCalls
       /\ records[e] \in 0..1
  /\ onboarding \subseteq Executions

\* A token buys MaxCalls calls from the store it is in, whatever Redis does in
\* between; the two stores add up only when its time to live could not be set.
CallsBounded ==
  \A e \in Executions : served[e].redis <= MaxCalls /\ served[e].local <= MaxCalls

\* Every execution that ended has one record, refused ones, dry runs, replays and
\* failures included, unless the write failed and nobody has sent it again.
OneRecord ==
  \A e \in Executions : At(e, "done") => (records[e] = 1 \/ ~execution[e].saved)

\* A plan's failed step is the last thing that happens when it says stop: no later
\* tool is called and the code never reaches the sandbox.
StopMeansStop ==
  \A e \in Executions : execution[e].stopped => ~execution[e].ran /\ execution[e].status = "failed"

\* What a plan calls was found by the search, when there was one: an execution that
\* has called a tool outside the snapshot had none when it started.
PlanWithinSearch ==
  \A e \in Executions : \A t \in execution[e].called :
    t \notin Reserved /\ (HasSnapshot(e) /\ At(e, "plan") => t \in snapshot[e])

\* Every execution comes to its end.
ExecutionsEnd == \A e \in Executions : []<>(At(e, "idle") \/ At(e, "done"))
=============================================================================
