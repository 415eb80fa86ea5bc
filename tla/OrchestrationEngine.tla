------------------------ MODULE OrchestrationEngine ------------------------
(***************************************************************************)
(* One run of OrchestrationEngine.execute(ctx): the steps of a workflow    *)
(* are released layer by layer, run with retries, time-outs and fallbacks, *)
(* and the run ends with a verdict.                                        *)
(*                                                                         *)
(* The layers of Kahn's algorithm are static, so the model releases them   *)
(* lazily: the next layer is every step whose dependencies all lie in the  *)
(* layers released so far (module ExecutionLayers checks that this is the  *)
(* list that _get_execution_layers computes, order included).              *)
(*                                                                         *)
(* With a database session in the context, the steps of a layer run one    *)
(* after the other; without one they run under asyncio.gather, which       *)
(* forwards the first exception and leaves the other coroutines running.   *)
(***************************************************************************)
EXTENDS Integers, FiniteSets

CONSTANTS
  Step,           \* the names of the steps of the workflow
  OrderIdx,       \* OrderIdx[s]: position of s in the workflow's list of steps
  DependsOn,      \* DependsOn[s]: the steps s depends on
  MaxRetries,     \* MaxRetries[s]: step.config.max_retries
  OnFailure(_, _),\* OnFailure(s, n): what on_failure may answer on attempt n
  MarksError,     \* steps that call ctx.mark_error before they raise
  Failover,       \* steps whose on_degrade executes once more elsewhere
  Skippable,      \* steps should_skip may leave out, for some channel or config
  Sessions,       \* the values of "ctx.db_session is not None" to consider
  NoStep          \* "no step" (None)

FailureAction == {"retry", "skip", "degrade", "abort"}

ASSUME StepAssumption ==
  /\ IsFiniteSet(Step)
  /\ NoStep \notin Step
  /\ OrderIdx \in [Step -> Nat]
  /\ \A s, t \in Step : OrderIdx[s] = OrderIdx[t] => s = t
  /\ DependsOn \in [Step -> SUBSET Step]
  /\ MaxRetries \in [Step -> Nat]
  /\ Skippable \subseteq Step
  /\ Sessions \subseteq BOOLEAN
  /\ \A s \in Step : \A n \in 1 .. MaxRetries[s] + 1 : OnFailure(s, n) \subseteq FailureAction

\* _validate_dag raises CyclicDependencyError otherwise: every set of steps has a
\* step that depends on no other step of the set.
ASSUME AcyclicAssumption ==
  \A T \in (SUBSET Step) \ {{}} : \E s \in T : DependsOn[s] \cap T = {}

VARIABLES
  dbSession,  \* ctx.db_session is not None
  skips,      \* the steps should_skip leaves out of this run
  released,   \* the steps of the layers already finished
  layer,      \* the steps of the layer being executed
  pos,        \* pos[s]: index of s in its layer's list
  phase,      \* where the coroutine of each step is
  attempt,    \* attempt[s]: the attempts of s begun so far
  status,     \* result.step_results: status of each step, "none" when absent
  executed,   \* executed[s]: times s occurs in ctx.executed_steps
  error,      \* the step that last called ctx.mark_error (NoStep: is_success)
  verdict,    \* what execute() returned, "running" until it does
  failedStep  \* result.failed_step

engineVars == <<released, layer, pos, verdict, failedStep>>
stepVars   == <<phase, attempt, status, executed, error>>
vars == <<dbSession, skips, engineVars, stepVars>>

Phase   == {"waiting", "ready", "running", "backoff", "settled", "raised"}
Status  == {"none", "success", "failed", "skipped", "degraded"}
Verdict == {"running", "completed", "aborted", "raised"}

\* Types: the run of execute() and, of each step, its phase, attempts and result.
TypeOK ==
  /\ dbSession \in BOOLEAN
  /\ skips \in SUBSET Step
  /\ released \in SUBSET Step
  /\ layer \in SUBSET Step
  /\ pos \in [Step -> Nat]
  /\ phase \in [Step -> Phase]
  /\ attempt \in [Step -> Nat]
  /\ status \in [Step -> Status]
  /\ executed \in [Step -> Nat]
  /\ error \in Step \cup {NoStep}
  /\ verdict \in Verdict
  /\ failedStep \in Step \cup {NoStep}

Init ==
  /\ dbSession \in Sessions
  /\ skips \in SUBSET Skippable
  /\ released = {}
  /\ layer = {}
  /\ pos = [s \in Step |-> 0]
  /\ phase = [s \in Step |-> "waiting"]
  /\ attempt = [s \in Step |-> 0]
  /\ status = [s \in Step |-> "none"]
  /\ executed = [s \in Step |-> 0]
  /\ error = NoStep
  /\ verdict = "running"
  /\ failedStep = NoStep

(***************************************************************************)
(* The layers. After the steps `done` comes every step that depends on     *)
(* them alone, in the order in which Kahn's algorithm releases them: the   *)
(* dependency that releases t stands before the one that releases s in     *)
(* the last layer's list, or they are the same and t stands first in the   *)
(* workflow.                                                               *)
(***************************************************************************)
ReadySteps(steps, deps, done) == {s \in steps \ done : deps[s] \subseteq done}

ReleasedEarlier(deps, order, last, at, t, s) ==
  LET in(u) == deps[u] \cap last
      later == \E d \in in(s) : \A e \in in(t) : at[e] < at[d]
      earlier == \E e \in in(t) : \A d \in in(s) : at[d] < at[e]
  IN later \/ (~earlier /\ order[t] < order[s])

NextLayer == ReadySteps(Step, DependsOn, released \cup layer)

ReleasedBefore(t, s) == ReleasedEarlier(DependsOn, OrderIdx, layer, pos, t, s)

\* Mutant: the check for FAILED results after the layer is missing.
LayerOver == \A s \in layer : phase[s] = "settled"

\* The layer is over and none of its steps failed.
LayerPassed == \A s \in layer : phase[s] = "settled" /\ status[s] # "failed"

\* The engine takes up the next layer; should_skip filters its steps first.
StartLayer ==
  /\ verdict = "running"
  /\ LayerPassed
  /\ NextLayer # {}
  /\ released' = released \cup layer
  /\ layer' = NextLayer
  /\ pos' = [s \in Step |->
               IF s \in NextLayer
               THEN Cardinality({t \in NextLayer : ReleasedBefore(t, s)})
               ELSE pos[s]]
  /\ phase' = [s \in Step |->
                 IF s \in NextLayer
                 THEN IF s \in skips THEN "settled" ELSE "ready"
                 ELSE phase[s]]
  /\ status' = [s \in Step |->
                  IF s \in NextLayer \cap skips THEN "skipped" ELSE status[s]]
  /\ UNCHANGED <<dbSession, skips, attempt, executed, error, verdict, failedStep>>

\* The last layer passed: execute() returns a successful result.
Complete ==
  /\ verdict = "running"
  /\ LayerPassed
  /\ NextLayer = {}
  /\ verdict' = "completed"
  /\ UNCHANGED <<dbSession, skips, released, layer, pos, failedStep, stepVars>>

\* Mutant: the step's own message is trusted to have marked the error.
AbortLayerUnmarked ==
  /\ verdict = "running"
  /\ \A s \in layer : phase[s] = "settled"
  /\ \E s \in layer :
       /\ status[s] = "failed"
       /\ \A t \in layer : status[t] = "failed" => pos[s] <= pos[t]
       /\ failedStep' = s
  /\ verdict' = "aborted"
  /\ UNCHANGED <<dbSession, skips, released, layer, pos, stepVars>>

\* The layer is over and a step of it returned FAILED: the first such step in
\* the layer's list is blamed and the run ends.
AbortLayer ==
  /\ verdict = "running"
  /\ \A s \in layer : phase[s] = "settled"
  /\ \E s \in layer :
       /\ status[s] = "failed"
       /\ \A t \in layer : status[t] = "failed" => pos[s] <= pos[t]
       /\ error' = IF error = NoStep THEN s ELSE error
       /\ failedStep' = s
  /\ verdict' = "aborted"
  /\ UNCHANGED <<dbSession, skips, released, layer, pos, phase, attempt, status, executed>>

\* Mutant: only an exception that left a FAILED result ends the run.
PropagateRecorded ==
  /\ verdict = "running"
  /\ \E s \in layer :
       /\ phase[s] = "raised"
       /\ status[s] = "failed"
       /\ error' = IF error = NoStep THEN s ELSE error
  /\ verdict' = "raised"
  /\ UNCHANGED <<dbSession, skips, released, layer, pos, failedStep, phase, attempt,
                 status, executed>>

\* The exception of a step reaches execute(): the run ends at once. failed_step
\* stays None, and the coroutines gather() started are not cancelled.
PropagateException ==
  /\ verdict = "running"
  /\ \E s \in layer :
       /\ phase[s] = "raised"
       /\ error' = IF error = NoStep THEN s ELSE error
  /\ verdict' = "raised"
  /\ UNCHANGED <<dbSession, skips, released, layer, pos, failedStep, phase, attempt,
                 status, executed>>

(***************************************************************************)
(* One step: _execute_step.                                                *)
(***************************************************************************)

\* Mutants: gather() is used whether or not there is a session; the serial loop
\* goes on with the next step after one has raised.
MayStartAnyway(s) == dbSession => verdict = "running"

MayStartAfterRaise(s) ==
  dbSession => \A t \in layer : \/ phase[t] \in {"settled", "raised"}
                                \/ phase[t] = "ready" /\ pos[s] <= pos[t]

\* With a session, the loop awaits one step after the other, in list order;
\* under gather() every coroutine of the layer was scheduled at once.
MayStart(s) ==
  dbSession =>
    /\ verdict = "running"
    /\ \A t \in layer : \/ phase[t] = "settled"
                        \/ phase[t] = "ready" /\ pos[s] <= pos[t]

StartStep(s) ==
  /\ s \in layer
  /\ phase[s] = "ready"
  /\ MayStart(s)
  /\ phase' = [phase EXCEPT ![s] = "running"]
  /\ attempt' = [attempt EXCEPT ![s] = @ + 1]
  /\ UNCHANGED <<dbSession, skips, engineVars, status, executed, error>>

\* The back-off delay is over: the while loop begins another attempt.
ResumeStep(s) ==
  /\ phase[s] = "backoff"
  /\ phase' = [phase EXCEPT ![s] = "running"]
  /\ attempt' = [attempt EXCEPT ![s] = @ + 1]
  /\ UNCHANGED <<dbSession, skips, engineVars, status, executed, error>>

\* s leaves _execute_step with result r, listed in ctx.executed_steps.
Settle(s, r) ==
  /\ phase' = [phase EXCEPT ![s] = "settled"]
  /\ status' = [status EXCEPT ![s] = r]
  /\ executed' = [executed EXCEPT ![s] = @ + 1]
  /\ UNCHANGED <<dbSession, skips, engineVars, attempt>>

\* execute(ctx) returns. A step that returns FAILED may have marked the error.
StepReturns(s) ==
  /\ phase[s] = "running"
  /\ \/ Settle(s, "success") /\ UNCHANGED error
     \/ Settle(s, "failed") /\ error' \in {error, s}

\* execute(ctx) raises or times out. The error the step marked stays marked.
Fails(s, a) ==
  /\ phase[s] = "running"
  /\ a \in OnFailure(s, attempt[s])

ErrorAfterRaise(s) == IF s \in MarksError THEN {error, s} ELSE {error}

\* Mutant: the first attempt is not counted.
CanRetryOnceMore(s) == attempt[s] <= MaxRetries[s] + 1

CanRetry(s) == attempt[s] < MaxRetries[s] + 1

StepRetries(s) ==
  /\ Fails(s, "retry")
  /\ CanRetry(s)
  /\ phase' = [phase EXCEPT ![s] = "backoff"]
  /\ error' \in ErrorAfterRaise(s)
  /\ UNCHANGED <<dbSession, skips, engineVars, attempt, status, executed>>

\* Mutant: the action is stored where the status belongs.
StepSkipsAction(s) ==
  /\ Fails(s, "skip")
  /\ phase' = [phase EXCEPT ![s] = "settled"]
  /\ status' = [status EXCEPT ![s] = "skip"]
  /\ error' \in ErrorAfterRaise(s)
  /\ UNCHANGED <<dbSession, skips, engineVars, attempt, executed>>

StepSkips(s) ==
  /\ Fails(s, "skip")
  /\ phase' = [phase EXCEPT ![s] = "settled"]
  /\ status' = [status EXCEPT ![s] = "skipped"]
  /\ error' \in ErrorAfterRaise(s)
  /\ UNCHANGED <<dbSession, skips, engineVars, attempt, executed>>

\* on_degrade answers with a degraded result or, for a step that fails over,
\* with the result of the other upstream. Its exception is not handled: no
\* result is recorded.
StepDegrades(s) ==
  /\ Fails(s, "degrade")
  /\ error' \in ErrorAfterRaise(s)
  /\ \/ Settle(s, "degraded")
     \/ s \in Failover /\ \E r \in {"success", "failed"} : Settle(s, r)
     \/ /\ s \in Failover
        /\ phase' = [phase EXCEPT ![s] = "raised"]
        /\ UNCHANGED <<dbSession, skips, engineVars, attempt, status, executed>>

\* Abort, or a retry asked for when no attempt is left.
StepAborts(s) ==
  /\ \/ Fails(s, "abort")
     \/ Fails(s, "retry") /\ ~CanRetry(s)
  /\ phase' = [phase EXCEPT ![s] = "raised"]
  /\ status' = [status EXCEPT ![s] = "failed"]
  /\ executed' = [executed EXCEPT ![s] = @ + 1]
  /\ error' = s
  /\ UNCHANGED <<dbSession, skips, engineVars, attempt>>

StepAction(s) ==
  \/ StartStep(s)
  \/ ResumeStep(s)
  \/ StepReturns(s)
  \/ StepRetries(s)
  \/ StepSkips(s)
  \/ StepDegrades(s)
  \/ StepAborts(s)

EngineAction == StartLayer \/ Complete \/ AbortLayer \/ PropagateException

\* execute() has returned and no coroutine is left: the request is over.
InFlight == {s \in Step : phase[s] \in {"running", "backoff"}}
Quiet == InFlight = {} /\ (dbSession \/ \A s \in Step : phase[s] # "ready")

Finished ==
  /\ verdict # "running"
  /\ Quiet
  /\ UNCHANGED vars

Next == EngineAction \/ (\E s \in Step : StepAction(s)) \/ Finished

\* asyncio.wait_for bounds every attempt, sleep bounds every back-off, and the
\* event loop resumes every coroutine that is ready.
Fairness == WF_vars(EngineAction) /\ \A s \in Step : WF_vars(StepAction(s))

Spec == Init /\ [][Next]_vars /\ Fairness

(***************************************************************************)
(* Properties.                                                             *)
(***************************************************************************)
Accepted == {"success", "skipped", "degraded"}

\* A step is attempted only when every step it depends on has left its own
\* coroutine with a result that is not FAILED: no step ever reads the output of
\* a step that is still running, failed or raised (engine.execute's layers).
DependenciesFirst ==
  \A s \in Step : attempt[s] > 0 => \A d \in DependsOn[s] : status[d] \in Accepted

\* With a shared AsyncSession at most one coroutine uses it at any time
\* (engine.py: steps are serialised when ctx.db_session is set).
SerialSession == dbSession => \A s, t \in InFlight : s = t

\* With a shared session nothing of the run is left once execute() returned, so
\* that the caller may commit or close the session.
NothingLeftBehind == dbSession /\ verdict # "running" => InFlight = {}

\* The verdict tells the truth: a successful result means that every step has
\* an accepted result; an abort blames a step that failed; and every
\* unsuccessful run leaves an error code in the context.
VerdictSound ==
  /\ verdict = "completed" => \A s \in Step : status[s] \in Accepted
  /\ verdict = "aborted" => failedStep \in Step /\ status[failedStep] = "failed"
  /\ verdict \in {"aborted", "raised"} => error # NoStep

\* However often it was retried, a step is listed at most once in
\* ctx.executed_steps, and exactly when it left a result of its own.
ExecutedOnce ==
  \A s \in Step :
    /\ executed[s] <= 1
    /\ status[s] \in {"success", "failed", "degraded"} => executed[s] = 1
    /\ attempt[s] <= MaxRetries[s] + 1

(***************************************************************************)
(* The inductive invariant behind the properties above: released steps are *)
(* done, the layer's steps depend on released ones only, and what a step   *)
(* has recorded follows from where its coroutine is.                       *)
(***************************************************************************)
Active == {"running", "backoff", "raised"}

\* Layers already passed hold accepted results, and everything that was
\* released depends on them alone.
LayerInv ==
  /\ released \cap layer = {}
  /\ \A s \in released : phase[s] = "settled" /\ status[s] \in Accepted
  /\ \A s \in released \cup layer : DependsOn[s] \subseteq released
  /\ \A s \in Step : phase[s] = "waiting" <=> s \notin released \cup layer

\* What the coroutine of s has recorded at each of its phases.
CoroutineInv(s) ==
  /\ phase[s] \in {"waiting", "ready"} => attempt[s] = 0
  /\ phase[s] = "backoff" => attempt[s] <= MaxRetries[s]
  /\ attempt[s] <= MaxRetries[s] + 1
  /\ phase[s] \in {"waiting", "ready", "running", "backoff"} => status[s] = "none"
  /\ phase[s] = "settled" => status[s] # "none"
  /\ status[s] = "none" => executed[s] = 0
  /\ executed[s] <= 1
  /\ status[s] \in {"success", "failed", "degraded"} => executed[s] = 1

\* With a shared session at most one coroutine is past "ready" and not settled.
SessionInv ==
  dbSession => \A s, t \in layer : phase[s] \in Active /\ phase[t] \in Active => s = t

VerdictInv ==
  /\ dbSession /\ verdict # "running" => \A s \in layer : phase[s] \notin {"running", "backoff"}
  /\ verdict = "completed" => \A s \in Step : phase[s] = "settled" /\ status[s] \in Accepted
  /\ verdict = "aborted" =>
       failedStep \in Step /\ phase[failedStep] = "settled" /\ status[failedStep] = "failed"
  /\ verdict \in {"aborted", "raised"} => error # NoStep

IInv ==
  TypeOK /\ LayerInv /\ (\A s \in Step : CoroutineInv(s)) /\ SessionInv /\ VerdictInv

(***************************************************************************)
(* The order of the steps. When everything t depends on comes no later     *)
(* than something s depends on, t is in no later layer than s; when it     *)
(* also stands before it in the lists, t stands before s in a layer that   *)
(* they share.                                                             *)
(***************************************************************************)
NotLater(t, s) ==
  \A e \in DependsOn[t] : \E d \in DependsOn[s] : e = d \/ DependsOn[e] \subseteq DependsOn[d]

StandsBefore(t, s) ==
  /\ OrderIdx[t] < OrderIdx[s]
  /\ \A e \in DependsOn[t] : \E d \in DependsOn[s] :
       e = d \/ (DependsOn[e] \subseteq DependsOn[d] /\ OrderIdx[e] < OrderIdx[d])

LayersInOrder ==
  \A s, t \in Step : NotLater(t, s) =>
    /\ s \in released \cup layer => t \in released \cup layer
    /\ s \in released => t \in released

ListsInOrder == \A s, t \in layer : StandsBefore(t, s) => pos[t] < pos[s]

OneByOne ==
  dbSession =>
    \A s, t \in layer : attempt[s] > 0 /\ pos[t] < pos[s] => phase[t] = "settled"

OrderInv == LayersInOrder /\ ListsInOrder /\ OneByOne

\* With a shared session a step is attempted only when every step that stands before it
\* is done, whether it depends on that step or not.
StepsTakeTurns ==
  dbSession => \A s, t \in Step : attempt[s] > 0 /\ StandsBefore(t, s) => phase[t] = "settled"

\* A coroutine that began counts its attempt, only such a one can fail, and one that
\* raised left no accepted result.
BegunInv ==
  \A s \in Step :
    /\ phase[s] \in Active \/ status[s] = "failed" => attempt[s] > 0
    /\ phase[s] = "raised" => status[s] \notin Accepted

\* The engine keeps the contract of a workflow run: a step is begun when it is first
\* attempted, and both ways of failing look the same from outside.
Contract == INSTANCE WorkflowContract
  WITH shared <- dbSession,
       begun <- {s \in Step : attempt[s] > 0},
       accepted <- {s \in Step : status[s] \in Accepted},
       outcome <- IF verdict \in {"aborted", "raised"} THEN "failed" ELSE verdict

\* Layers, retries, fall-backs and gathered coroutines together implement the
\* contract: every step of execute() is a step of it, or none.
ImplementsContract == Contract!Spec

\* Once execute() returned, only coroutines of the layer that raised, started by
\* gather(), still run: no step of a later layer begins, and no step at all when
\* the session is shared.
NoLateStart ==
  [][verdict # "running" =>
       \A s \in Step : attempt'[s] # attempt[s] => ~dbSession /\ s \in layer]_vars

\* Every run ends: execute() returns, and every coroutine it started ends.
EveryRunEnds == <>(verdict # "running") /\ <>[]Quiet

\* A run whose steps all ended well leaves no error in the context: what
\* ctx.is_success says is what result.success says.
SuccessLeavesNoError == verdict = "completed" => error = NoStep


(***************************************************************************)
(* A workflow for TLC: a diamond of four steps that use every answer of    *)
(* on_failure. "route" and "quota" depend on "check", "call" on both.      *)
(***************************************************************************)
Diamond == {"check", "quota", "route", "call"}
Place == [check |-> 1, quota |-> 2, route |-> 3, call |-> 4]
Needs == [check |-> {}, quota |-> {"check"}, route |-> {"check"}, call |-> {"quota", "route"}]
OneRetry == [s \in Diamond |-> IF s \in {"route", "call"} THEN 1 ELSE 0]

\* "route" asks for one retry; "call" may give any answer, and ask for a retry when none
\* is left; "quota" may be skipped; everything else aborts.
Answers(s, n) ==
  CASE s = "check" -> {"abort"}
    [] s = "quota" -> {"skip", "abort"}
    [] s = "route" -> IF n <= 1 THEN {"retry"} ELSE {"abort"}
    [] s = "call"  -> {"retry", "degrade", "abort"}

Caller == {"call"}
Optional == {"quota", "call"}
=============================================================================
