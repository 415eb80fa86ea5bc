--------------------- MODULE OrchestrationEngineProofs ---------------------
(***************************************************************************)
(* Invariance proofs for OrchestrationEngine, for every workflow: any      *)
(* finite set of steps, any dependencies, any retry limits and any answers *)
(* of on_failure.                                                          *)
(***************************************************************************)
EXTENDS OrchestrationEngine, FiniteSetTheorems, TLAPS

\* The index of a step in its layer's list is a natural number: the list that
\* _get_execution_layers builds for a layer is finite.
LEMMA LayerIndexIsNat ==
  ASSUME NEW s
  PROVE  Cardinality({t \in NextLayer : ReleasedBefore(t, s)}) \in Nat
<1> DEFINE earlier == {t \in NextLayer : ReleasedBefore(t, s)}
<1>1. earlier \subseteq Step
  BY DEF NextLayer, ReadySteps
<1>2. IsFiniteSet(earlier)
  BY <1>1, StepAssumption, FS_Subset DEF StepAssumption
<1> QED
  BY <1>2, FS_CardinalityType

\* Every step of the engine or of a coroutine keeps the types of ctx, result and
\* the coroutines' locals.
LEMMA TypeInductive ==
  ASSUME TypeOK, [Next]_vars
  PROVE  TypeOK'
<1> USE DEF TypeOK, Phase, Status, Verdict
<1>1. CASE StartLayer
  <2>1. pos' \in [Step -> Nat]
    BY <1>1, LayerIndexIsNat DEF StartLayer
  <2>2. layer' \in SUBSET Step /\ released' \in SUBSET Step
    BY <1>1 DEF StartLayer, NextLayer, ReadySteps
  <2>3. phase' \in [Step -> Phase] /\ status' \in [Step -> Status]
    BY <1>1 DEF StartLayer
  <2> QED
    BY <1>1, <2>1, <2>2, <2>3 DEF StartLayer
<1>2. CASE Complete
  BY <1>2 DEF Complete, stepVars
<1>3. CASE AbortLayer
  BY <1>3 DEF AbortLayer
<1>4. CASE PropagateException
  BY <1>4 DEF PropagateException
<1>5. ASSUME NEW s \in Step, StartStep(s) \/ ResumeStep(s)
      PROVE  TypeOK'
  BY <1>5 DEF StartStep, ResumeStep, engineVars
<1>6. ASSUME NEW s \in Step, StepReturns(s)
      PROVE  TypeOK'
  BY <1>6 DEF StepReturns, Settle, engineVars
<1>7. ASSUME NEW s \in Step, StepRetries(s) \/ StepSkips(s)
      PROVE  TypeOK'
  BY <1>7 DEF StepRetries, StepSkips, ErrorAfterRaise, engineVars
<1>8. ASSUME NEW s \in Step, StepDegrades(s)
      PROVE  TypeOK'
  BY <1>8 DEF StepDegrades, Settle, ErrorAfterRaise, engineVars
<1>9. ASSUME NEW s \in Step, StepAborts(s)
      PROVE  TypeOK'
  BY <1>9 DEF StepAborts, engineVars
<1>10. CASE UNCHANGED vars
  BY <1>10 DEF vars, engineVars, stepVars
<1> QED
  BY <1>1, <1>2, <1>3, <1>4, <1>5, <1>6, <1>7, <1>8, <1>9, <1>10
  DEF Next, EngineAction, StepAction, Finished

\* Every variable of a run keeps its type (ctx, result and the coroutines of
\* _execute_step).
THEOREM TypeCorrect == Spec => []TypeOK
<1>1. Init => TypeOK
  BY StepAssumption DEF Init, TypeOK, Phase, Status, Verdict, StepAssumption
<1> QED
  BY <1>1, TypeInductive, PTL DEF Spec

\* An action of _execute_step touches the coroutine and the results of its own
\* step only, and can only take a step forward that was scheduled and not done.
LEMMA StepFrame ==
  ASSUME TypeOK, NEW s \in Step, StepAction(s)
  PROVE  /\ UNCHANGED <<dbSession, skips, released, layer, pos, verdict, failedStep>>
         /\ \A t \in Step \ {s} : /\ phase'[t] = phase[t]
                                 /\ attempt'[t] = attempt[t]
                                 /\ status'[t] = status[t]
                                 /\ executed'[t] = executed[t]
         /\ phase[s] \in {"ready", "running", "backoff"}
         /\ phase[s] = "ready" => s \in layer /\ MayStart(s)
         /\ phase'[s] \in {"running", "backoff", "settled", "raised"}
         /\ error' \in {error, s}
<1> USE DEF TypeOK
<1>1. CASE StartStep(s) \/ ResumeStep(s)
  BY <1>1 DEF StartStep, ResumeStep, engineVars
<1>2. CASE StepReturns(s)
  BY <1>2 DEF StepReturns, Settle, engineVars
<1>3. CASE StepRetries(s) \/ StepSkips(s)
  BY <1>3 DEF StepRetries, StepSkips, Fails, ErrorAfterRaise, engineVars
<1>4. CASE StepDegrades(s)
  BY <1>4 DEF StepDegrades, Settle, Fails, ErrorAfterRaise, engineVars
<1>5. CASE StepAborts(s)
  BY <1>5 DEF StepAborts, Fails, engineVars
<1> QED
  BY <1>1, <1>2, <1>3, <1>4, <1>5 DEF StepAction

\* The records of a step follow its coroutine through the loop of _execute_step:
\* attempts stay within max_retries + 1, and a result is recorded once.
LEMMA StepKeepsCoroutine ==
  ASSUME TypeOK, NEW s \in Step, CoroutineInv(s), StepAction(s)
  PROVE  CoroutineInv(s)'
<1> USE StepAssumption DEF TypeOK, CoroutineInv, StepAssumption
<1>1. CASE StartStep(s) \/ ResumeStep(s)
  BY <1>1 DEF StartStep, ResumeStep
<1>2. CASE StepReturns(s)
  BY <1>2 DEF StepReturns, Settle
<1>3. CASE StepRetries(s)
  BY <1>3 DEF StepRetries, Fails, CanRetry
<1>4. CASE StepSkips(s)
  BY <1>4 DEF StepSkips, Fails
<1>5. CASE StepDegrades(s)
  BY <1>5 DEF StepDegrades, Settle, Fails
<1>6. CASE StepAborts(s)
  BY <1>6 DEF StepAborts, Fails
<1> QED
  BY <1>1, <1>2, <1>3, <1>4, <1>5, <1>6 DEF StepAction

\* Taking up a layer: its steps depend on what was released before, and their
\* coroutines are fresh (the layer loop of execute).
LEMMA StartLayerKeepsIInv ==
  ASSUME IInv, StartLayer
  PROVE  IInv'
<1> USE DEF IInv
<1>1. TypeOK'
  BY TypeInductive DEF Next, EngineAction
<1>2. \A s \in Step : s \in NextLayer => phase[s] = "waiting"
  BY DEF LayerInv, NextLayer, ReadySteps
<1>3. \A s \in Step : phase'[s] = IF s \in NextLayer
                                THEN IF s \in skips THEN "settled" ELSE "ready"
                                ELSE phase[s]
  BY DEF StartLayer, TypeOK
<1>4. \A s \in Step : status'[s] = IF s \in NextLayer \cap skips THEN "skipped" ELSE status[s]
  BY DEF StartLayer, TypeOK
<1>5. LayerInv'
  <2>1. \A s \in layer : phase[s] = "settled" /\ status[s] \in Accepted
    BY DEF StartLayer, LayerPassed, TypeOK, Status, Accepted, CoroutineInv
  <2>2. /\ released' = released \cup layer
        /\ layer' = NextLayer
        /\ released' \cap layer' = {}
    BY DEF StartLayer, NextLayer, ReadySteps
  <2>3. \A s \in released' : phase'[s] = "settled" /\ status'[s] \in Accepted
    BY <1>3, <1>4, <2>1, <2>2 DEF LayerInv, TypeOK
  <2>4. \A s \in released' \cup layer' : DependsOn[s] \subseteq released'
    BY <2>2 DEF LayerInv, NextLayer, ReadySteps
  <2>5. \A s \in Step : phase'[s] = "waiting" <=> s \notin released' \cup layer'
    BY <1>2, <1>3, <2>2 DEF LayerInv
  <2> QED
    BY <2>2, <2>3, <2>4, <2>5 DEF LayerInv
<1>6. \A s \in Step : CoroutineInv(s)'
  BY <1>2, <1>3, <1>4 DEF StartLayer, CoroutineInv
<1>7. SessionInv'
  BY <1>3 DEF StartLayer, SessionInv, Active, NextLayer, ReadySteps
<1>8. VerdictInv'
  BY DEF StartLayer, VerdictInv
<1> QED
  BY <1>1, <1>5, <1>6, <1>7, <1>8

\* The ways execute() ends. A completed run has released every step, because
\* the dependencies are acyclic: a step left out would have a least one.
LEMMA EndKeepsIInv ==
  ASSUME IInv, Complete \/ AbortLayer \/ PropagateException
  PROVE  IInv'
<1> USE DEF IInv
<1>1. TypeOK'
  BY TypeInductive DEF Next, EngineAction
<1>2. UNCHANGED <<dbSession, released, layer, pos, phase, attempt, status, executed>>
  BY DEF Complete, AbortLayer, PropagateException, stepVars
<1>3. LayerInv' /\ SessionInv'
  BY <1>2 DEF LayerInv, SessionInv
<1>4. \A s \in Step : CoroutineInv(s)'
  BY <1>2 DEF CoroutineInv
<1>5. CASE Complete
  <2>1. \A s \in layer : phase[s] = "settled" /\ status[s] \in Accepted
    BY <1>5 DEF Complete, LayerPassed, TypeOK, Status, Accepted, CoroutineInv
  <2>2. Step \subseteq released \cup layer
    <3> DEFINE rest == Step \ (released \cup layer)
    <3>1. ASSUME rest # {} PROVE FALSE
      <4>1. PICK s \in rest : DependsOn[s] \cap rest = {}
        BY <3>1, AcyclicAssumption DEF AcyclicAssumption
      <4>2. s \in NextLayer
        BY <4>1, StepAssumption DEF NextLayer, ReadySteps, StepAssumption
      <4> QED
        BY <4>2, <1>5 DEF Complete
    <3> QED
      BY <3>1
  <2> QED
    BY <1>1, <1>2, <1>3, <1>4, <1>5, <2>1, <2>2
    DEF Complete, VerdictInv, LayerInv, TypeOK
<1>6. CASE AbortLayer
  <2>1. VerdictInv'
    BY <1>2, <1>6, StepAssumption DEF AbortLayer, VerdictInv, TypeOK, StepAssumption
  <2> QED
    BY <1>1, <1>3, <1>4, <2>1
<1>7. CASE PropagateException
  <2>1. VerdictInv'
    BY <1>2, <1>7, StepAssumption
    DEF PropagateException, VerdictInv, SessionInv, Active, TypeOK, StepAssumption
  <2> QED
    BY <1>1, <1>3, <1>4, <2>1
<1> QED
  BY <1>5, <1>6, <1>7

\* An action of a step's coroutine keeps the layers, the shared session and the
\* verdict in order: with a session, a step starts only when the others of the
\* layer are settled or not begun.
LEMMA StepKeepsIInv ==
  ASSUME IInv, NEW s \in Step, StepAction(s)
  PROVE  IInv'
<1> USE StepFrame DEF IInv
<1>1. TypeOK'
  BY TypeInductive DEF Next
<1>2. s \in layer
  BY DEF LayerInv
<1>3. LayerInv'
  BY <1>2 DEF LayerInv, TypeOK
<1>4. \A t \in Step : CoroutineInv(t)'
  BY StepKeepsCoroutine DEF CoroutineInv
<1>5. SessionInv'
  <2> SUFFICES ASSUME dbSession, NEW t \in layer, NEW u \in layer,
                      phase'[t] \in Active, phase'[u] \in Active
               PROVE  t = u
    BY DEF SessionInv
  <2>1. CASE phase[s] = "ready"
    BY <2>1 DEF MayStart, Active, TypeOK
  <2>2. CASE phase[s] # "ready"
    BY <1>2, <2>2 DEF SessionInv, Active, TypeOK
  <2> QED
    BY <2>1, <2>2
<1>6. VerdictInv'
  <2>1. dbSession => verdict = "running"
    BY <1>2 DEF VerdictInv, MayStart
  <2>2. verdict # "completed"
    BY DEF VerdictInv
  <2>3. verdict = "aborted" => failedStep # s
    BY DEF VerdictInv
  <2> QED
    BY <2>1, <2>2, <2>3, StepAssumption DEF VerdictInv, TypeOK, StepAssumption
<1> QED
  BY <1>1, <1>3, <1>4, <1>5, <1>6

\* The inductive invariant holds when execute() is entered, and every step keeps it.
LEMMA InvInitially == Init => IInv
<1> SUFFICES ASSUME Init PROVE IInv
  OBVIOUS
<1>1. TypeOK
  BY StepAssumption DEF Init, TypeOK, Phase, Status, Verdict, StepAssumption
<1>2. \A s \in Step : CoroutineInv(s)
  BY StepAssumption DEF Init, CoroutineInv, StepAssumption
<1>3. LayerInv /\ SessionInv /\ VerdictInv
  BY DEF Init, LayerInv, SessionInv, VerdictInv
<1> QED
  BY <1>1, <1>2, <1>3 DEF IInv

LEMMA InvInductive ==
  ASSUME IInv, [Next]_vars
  PROVE  IInv'
<1>1. CASE EngineAction
  BY <1>1, StartLayerKeepsIInv, EndKeepsIInv DEF EngineAction
<1>2. ASSUME NEW s \in Step, StepAction(s) PROVE IInv'
  BY <1>2, StepKeepsIInv
<1>3. CASE UNCHANGED vars
  BY <1>3 DEF vars, engineVars, stepVars, IInv, TypeOK, LayerInv, CoroutineInv,
              SessionInv, VerdictInv
<1> QED
  BY <1>1, <1>2, <1>3 DEF Next, Finished

\* The inductive invariant holds throughout every run of execute().
THEOREM Invariance == Spec => []IInv
  BY InvInitially, InvInductive, PTL DEF Spec

\* No step is attempted before every step it depends on has an accepted result.
THEOREM DependenciesComeFirst == Spec => []DependenciesFirst
<1>1. IInv => DependenciesFirst
  BY StepAssumption
  DEF IInv, TypeOK, LayerInv, CoroutineInv, DependenciesFirst, StepAssumption
<1> QED
  BY <1>1, Invariance, PTL

\* A shared AsyncSession is used by one coroutine at a time, and by none once
\* execute() has returned.
THEOREM SessionIsSafe == Spec => [](SerialSession /\ NothingLeftBehind)
<1>1. ASSUME IInv PROVE InFlight \subseteq layer
  BY <1>1 DEF IInv, LayerInv, InFlight
<1>2. IInv => SerialSession /\ NothingLeftBehind
  BY <1>1 DEF IInv, SessionInv, VerdictInv, Active, InFlight, SerialSession, NothingLeftBehind
<1> QED
  BY <1>2, Invariance, PTL

\* What execute() reports agrees with the results of the steps.
THEOREM VerdictIsSound == Spec => []VerdictSound
<1>1. IInv => VerdictSound
  BY DEF IInv, VerdictInv, VerdictSound
<1> QED
  BY <1>1, Invariance, PTL

\* Retries never list a step twice in ctx.executed_steps, nor exceed
\* max_retries + 1 attempts.
THEOREM StepsExecuteOnce == Spec => []ExecutedOnce
<1>1. IInv => ExecutedOnce
  BY DEF IInv, CoroutineInv, ExecutedOnce
<1> QED
  BY <1>1, Invariance, PTL

\* After execute() returned no attempt begins, unless gather() left coroutines
\* of the layer running.
THEOREM NoLateStarts == Spec => NoLateStart
<1> DEFINE late == verdict # "running" =>
                     \A s \in Step : attempt'[s] # attempt[s] => ~dbSession /\ s \in layer
<1>1. ASSUME IInv, [Next]_vars PROVE late \/ UNCHANGED vars
  <2>1. CASE EngineAction
    BY <2>1 DEF EngineAction, StartLayer, Complete, AbortLayer, PropagateException
  <2>2. ASSUME NEW s \in Step, StepAction(s) PROVE late
    <3>1. s \in layer
      BY <1>1, <2>2, StepFrame DEF IInv, LayerInv
    <3>2. dbSession => verdict = "running"
      BY <1>1, <2>2, <3>1, StepFrame DEF IInv, VerdictInv, MayStart
    <3> QED
      BY <1>1, <2>2, <3>1, <3>2, StepFrame DEF IInv
  <2>3. CASE UNCHANGED vars
    BY <2>3
  <2> QED
    BY <1>1, <2>1, <2>2, <2>3 DEF Next, Finished
<1>2. IInv /\ [Next]_vars => [late]_vars
  BY <1>1
<1> QED
  BY <1>2, Invariance, PTL DEF Spec, NoLateStart

\* What began, failed or raised has counted an attempt: the three ways a coroutine
\* leaves its loop without an accepted result.
LEMMA BegunInductive ==
  ASSUME IInv, BegunInv, [Next]_vars
  PROVE  BegunInv'
<1> USE DEF BegunInv, Active, Accepted
<1>1. CASE StartLayer
  <2>1. \A s \in Step : s \in NextLayer => phase[s] = "waiting" /\ status[s] = "none"
    BY DEF IInv, LayerInv, CoroutineInv, NextLayer, ReadySteps
  <2> QED
    BY <1>1, <2>1 DEF StartLayer, IInv, TypeOK
<1>2. CASE Complete \/ AbortLayer \/ PropagateException
  BY <1>2 DEF Complete, AbortLayer, PropagateException, stepVars
<1>3. ASSUME NEW s \in Step, StepAction(s) PROVE BegunInv'
  <2>1. TypeOK /\ status \in [Step -> Status] /\ phase \in [Step -> Phase]
    BY DEF IInv, TypeOK
  <2>2. \A t \in Step \ {s} : /\ phase'[t] = phase[t]
                              /\ attempt'[t] = attempt[t]
                              /\ status'[t] = status[t]
    BY <1>3, <2>1, StepFrame
  <2>3. /\ phase'[s] \in Active \/ status'[s] = "failed" => attempt'[s] > 0
        /\ phase'[s] = "raised" => status'[s] \notin Accepted
    <3> USE DEF TypeOK
    <3>1. status[s] = "none" \/ phase[s] \notin {"running", "backoff"}
      BY DEF IInv, CoroutineInv
    <3>2. CASE StartStep(s) \/ ResumeStep(s)
      BY <2>1, <3>2 DEF StartStep, ResumeStep
    <3>3. CASE StepReturns(s)
      BY <2>1, <3>3 DEF StepReturns, Settle
    <3>4. CASE StepRetries(s) \/ StepSkips(s)
      BY <2>1, <3>4 DEF StepRetries, StepSkips, Fails
    <3>5. CASE StepDegrades(s)
      BY <2>1, <3>1, <3>5 DEF StepDegrades, Settle, Fails
    <3>6. CASE StepAborts(s)
      BY <2>1, <3>6 DEF StepAborts, Fails
    <3> QED
      BY <1>3, <3>2, <3>3, <3>4, <3>5, <3>6 DEF StepAction
  <2> QED
    BY <2>2, <2>3
<1>4. CASE UNCHANGED vars
  BY <1>4 DEF vars, stepVars
<1> QED
  BY <1>1, <1>2, <1>3, <1>4 DEF Next, EngineAction, Finished

\* A step of a coroutine begins the step, accepts it, or changes nothing that the
\* contract tells apart (a retry, a back-off, a failure).
LEMMA StepKeepsContract ==
  ASSUME IInv, BegunInv, NEW s \in Step, StepAction(s)
  PROVE  [Contract!Next]_(Contract!contractVars)
<1> DEFINE begun == {t \in Step : attempt[t] > 0}
           done  == {t \in Step : status[t] \in Accepted}
<1>1. TypeOK
  BY DEF IInv
<1>2. /\ UNCHANGED <<dbSession, verdict>>
      /\ \A t \in Step \ {s} : attempt'[t] = attempt[t] /\ status'[t] = status[t]
  BY <1>1, StepFrame
<1>3. s \in layer
  BY <1>1, StepFrame DEF IInv, LayerInv
<1>4. dbSession => verdict = "running"
  BY <1>1, <1>3, StepFrame DEF IInv, VerdictInv, MayStart
<1>5. Contract!Open
  BY <1>4 DEF Contract!Open
<1>6. CASE StartStep(s)
  <2>1. attempt[s] = 0 /\ status[s] = "none"
    BY <1>6 DEF StartStep, IInv, CoroutineInv
  <2>2. DependsOn[s] \subseteq done
    BY <1>3, StepAssumption DEF IInv, LayerInv, StepAssumption
  <2>3. begun' = begun \cup {s} /\ done' = done
    BY <1>1, <1>6, <2>1 DEF StartStep, TypeOK
  <2>4. s \notin begun \cup done
    BY <2>1 DEF Accepted
  <2>5. Contract!Begin(s)
    BY <1>2, <1>5, <2>2, <2>3, <2>4 DEF Contract!Begin
  <2> QED
    BY <2>5 DEF Contract!Next
<1>7. CASE ResumeStep(s) \/ StepRetries(s) \/ StepAborts(s)
  <2>1. attempt[s] > 0 /\ status[s] = "none"
    BY <1>7 DEF ResumeStep, StepRetries, StepAborts, Fails, IInv, CoroutineInv, BegunInv, Active
  <2>2. attempt'[s] > 0 /\ status'[s] \notin Accepted
    BY <1>1, <1>7, <2>1 DEF ResumeStep, StepRetries, StepAborts, TypeOK, Accepted
  <2>3. begun' = begun /\ done' = done
    BY <1>2, <2>1, <2>2 DEF Accepted
  <2> QED
    BY <1>2, <2>3 DEF Contract!contractVars
<1>8. CASE StepReturns(s) \/ StepSkips(s) \/ StepDegrades(s)
  <2>1. attempt[s] > 0 /\ status[s] = "none"
    BY <1>8 DEF StepReturns, StepSkips, StepDegrades, Fails, IInv, CoroutineInv, BegunInv, Active
  <2>2. attempt' = attempt
    BY <1>8 DEF StepReturns, StepSkips, StepDegrades, Settle
  <2>3. CASE status'[s] \in Accepted
    <3>1. begun' = begun /\ done' = done \cup {s}
      BY <1>2, <2>2, <2>3
    <3>2. s \in begun \ done
      BY <2>1 DEF Accepted
    <3>3. Contract!Accept(s)
      BY <1>2, <1>5, <3>1, <3>2 DEF Contract!Accept
    <3> QED
      BY <3>3 DEF Contract!Next
  <2>4. CASE status'[s] \notin Accepted
    <3>1. begun' = begun /\ done' = done
      BY <1>2, <2>1, <2>2, <2>4 DEF Accepted
    <3> QED
      BY <1>2, <3>1 DEF Contract!contractVars
  <2> QED
    BY <2>3, <2>4
<1> QED
  BY <1>6, <1>7, <1>8 DEF StepAction

\* Taking up a layer passes over the steps that should_skip leaves out; the ways
\* execute() returns are the contract's two.
LEMMA EngineKeepsContract ==
  ASSUME IInv, BegunInv, EngineAction
  PROVE  [Contract!Next]_(Contract!contractVars)
<1> DEFINE begun == {t \in Step : attempt[t] > 0}
           done  == {t \in Step : status[t] \in Accepted}
<1>1. TypeOK
  BY DEF IInv
<1>2. CASE StartLayer
  <2> DEFINE over == NextLayer \cap skips
  <2>1. \A s \in over : s \in Step /\ attempt[s] = 0 /\ status[s] = "none"
    BY DEF IInv, LayerInv, CoroutineInv, NextLayer, ReadySteps
  <2>2. \A s \in layer \cup released : status[s] \in Accepted
    BY <1>1, <1>2 DEF StartLayer, LayerPassed, IInv, LayerInv, TypeOK, Status, Accepted, CoroutineInv
  <2>3. \A s \in over : DependsOn[s] \subseteq done
    BY <1>1, <2>2, StepAssumption DEF NextLayer, ReadySteps, TypeOK, StepAssumption
  <2>4. begun' = begun /\ done' = done \cup over
    BY <1>1, <1>2, <2>1 DEF StartLayer, TypeOK, Accepted
  <2>5. over \cap (begun \cup done) = {}
    BY <2>1 DEF Accepted
  <2>6. verdict = "running" /\ UNCHANGED <<dbSession, verdict>>
    BY <1>2 DEF StartLayer
  <2>7. over \in SUBSET Step
    BY <2>1
  <2>8. Contract!PassOver(over)
    BY <2>3, <2>4, <2>5, <2>6 DEF Contract!PassOver
  <2>9. \E S \in SUBSET Step : Contract!PassOver(S)
    BY <2>7, <2>8 DEF Contract!PassOver
  <2> QED
    BY <2>9 DEF Contract!Next
<1>3. CASE Complete
  <2>1. done = Step /\ UNCHANGED <<dbSession, attempt, status>>
    <3>1. IInv'
      BY <1>3, EndKeepsIInv
    <3>2. UNCHANGED <<dbSession, attempt, status>> /\ verdict' = "completed"
      BY <1>3 DEF Complete, stepVars
    <3> QED
      BY <3>1, <3>2 DEF IInv, VerdictInv
  <2>2. verdict = "running" /\ verdict' = "completed"
    BY <1>3 DEF Complete
  <2>3. begun' = begun /\ done' = done
    BY <2>1
  <2>4. Contract!Complete
    BY <2>1, <2>2, <2>3 DEF Contract!Complete
  <2> QED
    BY <2>4 DEF Contract!Next
<1>4. CASE AbortLayer \/ PropagateException
  <2>1. \E s \in Step : attempt[s] > 0 /\ status[s] \notin Accepted
    BY <1>1, <1>4 DEF AbortLayer, PropagateException, BegunInv, Active, Accepted, TypeOK
  <2>2. /\ UNCHANGED <<dbSession, attempt, status>>
        /\ verdict = "running"
        /\ verdict' \in {"aborted", "raised"}
    BY <1>4 DEF AbortLayer, PropagateException
  <2>3. begun' = begun /\ done' = done
    BY <2>2
  <2>4. \E s \in begun : s \notin done
    BY <2>1
  <2>5. Contract!Fail
    BY <2>2, <2>3, <2>4 DEF Contract!Fail
  <2> QED
    BY <2>5 DEF Contract!Next
<1> QED
  BY <1>2, <1>3, <1>4 DEF EngineAction

\* Whatever the workflow, execute() keeps the contract of a run: steps begin after
\* what they depend on, accepted results stay, and the outcome is the truth.
THEOREM ImplementsWorkflowContract == Spec => ImplementsContract
<1>1. Init => BegunInv
  BY DEF Init, BegunInv, Active, Accepted
<1>2. Init => Contract!Init
  <2> SUFFICES ASSUME Init PROVE Contract!Init
    OBVIOUS
  <2>1. dbSession \in BOOLEAN
    BY StepAssumption DEF Init, StepAssumption
  <2>2. /\ {s \in Step : attempt[s] > 0} = {}
        /\ {s \in Step : status[s] \in Accepted} = {}
        /\ verdict = "running"
    BY DEF Init, Accepted
  <2> QED
    BY <2>1, <2>2 DEF Contract!Init
<1>3. IInv /\ BegunInv /\ [Next]_vars => BegunInv' /\ [Contract!Next]_(Contract!contractVars)
  <2> SUFFICES ASSUME IInv, BegunInv, [Next]_vars
               PROVE  [Contract!Next]_(Contract!contractVars)
    BY BegunInductive
  <2>1. CASE EngineAction
    BY <2>1, EngineKeepsContract
  <2>2. ASSUME NEW s \in Step, StepAction(s)
        PROVE  [Contract!Next]_(Contract!contractVars)
    BY <2>2, StepKeepsContract
  <2>3. CASE UNCHANGED vars
    BY <2>3 DEF vars, engineVars, stepVars, Contract!contractVars
  <2> QED
    BY <2>1, <2>2, <2>3 DEF Next, Finished
<1> QED
  BY <1>1, <1>2, <1>3, Invariance, PTL DEF Spec, ImplementsContract, Contract!Spec
\* Where a step stands in its layer's list is a strict order: who is released by an
\* earlier dependency, then who stands first in the workflow.
LEMMA ReleasedInOrder ==
  ASSUME TypeOK, NEW t \in Step, NEW s \in Step, NEW u \in Step
  PROVE  /\ ~ReleasedBefore(t, t)
         /\ ReleasedBefore(t, s) /\ ReleasedBefore(s, u) => ReleasedBefore(t, u)
<1> DEFINE in(x) == DependsOn[x] \cap layer
           later(x, y) == \E d \in in(y) : \A e \in in(x) : pos[e] < pos[d]
<1>1. \A x, y : ReleasedBefore(x, y) <=>
                  later(x, y) \/ (~later(y, x) /\ OrderIdx[x] < OrderIdx[y])
  BY DEF ReleasedBefore, ReleasedEarlier
<1>2. \A x \in Step : OrderIdx[x] \in Nat /\ \A d \in in(x) : pos[d] \in Nat
  BY StepAssumption DEF TypeOK, StepAssumption
<1>3. ~later(t, t)
  BY <1>2
<1>4. \A x, y, z \in Step : later(x, y) /\ ~later(z, y) => later(x, z)
  <2> SUFFICES ASSUME NEW x \in Step, NEW y \in Step, NEW z \in Step, later(x, y), ~later(z, y)
               PROVE  later(x, z)
    OBVIOUS
  <2>1. PICK d \in in(y) : \A e \in in(x) : pos[e] < pos[d]
    OBVIOUS
  <2>2. PICK e \in in(z) : ~(pos[e] < pos[d])
    OBVIOUS
  <2> QED
    BY <1>2, <2>1, <2>2
<1>5. \A x, y, z \in Step : later(x, y) /\ ~later(x, z) => later(z, y)
  <2> SUFFICES ASSUME NEW x \in Step, NEW y \in Step, NEW z \in Step, later(x, y), ~later(x, z)
               PROVE  later(z, y)
    OBVIOUS
  <2>1. PICK d \in in(y) : \A e \in in(x) : pos[e] < pos[d]
    OBVIOUS
  <2>2. \A f \in in(z) : \E e \in in(x) : ~(pos[e] < pos[f])
    OBVIOUS
  <2> QED
    BY <1>2, <2>1, <2>2
<1> HIDE DEF later
<1>6. ~ReleasedBefore(t, t)
  BY <1>1, <1>2, <1>3
<1>7. ASSUME ReleasedBefore(t, s), ReleasedBefore(s, u) PROVE ReleasedBefore(t, u)
  <2>1. later(t, s) \/ (~later(s, t) /\ OrderIdx[t] < OrderIdx[s])
    BY <1>1, <1>7
  <2>2. later(s, u) \/ (~later(u, s) /\ OrderIdx[s] < OrderIdx[u])
    BY <1>1, <1>7
  <2>3. later(t, u) \/ (~later(u, t) /\ OrderIdx[t] < OrderIdx[u])
    <3>1. \A x, y \in Step : later(x, y) => ~later(y, x)
      <4> SUFFICES ASSUME NEW x \in Step, NEW y \in Step, later(x, y), later(y, x)
                   PROVE  FALSE
        OBVIOUS
      <4>1. PICK d \in in(y) : \A e \in in(x) : pos[e] < pos[d]
        BY DEF later
      <4>2. PICK e \in in(x) : \A f \in in(y) : pos[f] < pos[e]
        BY DEF later
      <4> QED
        BY <1>2, <4>1, <4>2
    <3>2. OrderIdx[t] < OrderIdx[s] /\ OrderIdx[s] < OrderIdx[u] => OrderIdx[t] < OrderIdx[u]
      BY <1>2
    <3> QED
      BY <1>4, <1>5, <2>1, <2>2, <3>1, <3>2
  <2> QED
    BY <1>1, <2>3
<1> QED
  BY <1>6, <1>7

\* So a step's index in the list is smaller than that of any step it stands before.
LEMMA IndexFollowsOrder ==
  ASSUME TypeOK, NEW t \in NextLayer, NEW s \in NextLayer, ReleasedBefore(t, s)
  PROVE  Cardinality({x \in NextLayer : ReleasedBefore(x, t)})
           < Cardinality({x \in NextLayer : ReleasedBefore(x, s)})
<1> DEFINE A == {x \in NextLayer : ReleasedBefore(x, t)}
           B == {x \in NextLayer : ReleasedBefore(x, s)}
<1>1. NextLayer \subseteq Step
  BY DEF NextLayer, ReadySteps
<1>2. IsFiniteSet(NextLayer)
  BY <1>1, StepAssumption, FS_Subset DEF StepAssumption
<1>3. IsFiniteSet(A) /\ IsFiniteSet(B)
  BY <1>2, FS_Subset
<1>4. t \in B /\ t \notin A
  BY <1>1, ReleasedInOrder
<1>5. A \cup {t} \subseteq B
  BY <1>1, <1>4, ReleasedInOrder
<1>6. Cardinality(A \cup {t}) = Cardinality(A) + 1
  BY <1>3, <1>4, FS_AddElement
<1>7. Cardinality(A \cup {t}) <= Cardinality(B)
  BY <1>3, <1>5, FS_Subset
<1> QED
  BY <1>3, <1>6, <1>7, FS_CardinalityType

\* The layers that Kahn's algorithm releases keep NotLater: a layer takes up every step
\* that is ready, in the order of the last layer's list and the workflow's.
LEMMA StartLayerKeepsOrder ==
  ASSUME IInv, OrderInv, StartLayer
  PROVE  OrderInv'
<1> USE DEF IInv, OrderInv
<1> DEFINE old == released \cup layer
<1>1. TypeOK /\ TypeOK'
  BY TypeInductive DEF Next, EngineAction
<1>2. /\ released' = old /\ layer' = NextLayer
      /\ UNCHANGED <<dbSession, attempt>>
  BY DEF StartLayer
<1>3. \A s \in Step : s \in old \cup NextLayer <=> DependsOn[s] \subseteq old
  BY DEF NextLayer, ReadySteps, LayerInv, TypeOK
<1>4. \A s, t \in Step : NotLater(t, s) =>
        /\ s \in old => t \in old
        /\ s \in released => t \in released
  BY DEF LayersInOrder
<1>5. \A e, d \in Step : DependsOn[e] \subseteq DependsOn[d] =>
        NotLater(e, d)
  BY DEF NotLater
<1>6. \A s \in Step : DependsOn[s] \subseteq Step
  BY StepAssumption DEF StepAssumption
<1>7. LayersInOrder'
  <2> SUFFICES ASSUME NEW s \in Step, NEW t \in Step, NotLater(t, s)
               PROVE  /\ s \in old \cup NextLayer => t \in old \cup NextLayer
                      /\ s \in old => t \in old
    BY <1>2 DEF LayersInOrder, NotLater
  <2>1. ASSUME s \in old \cup NextLayer PROVE DependsOn[t] \subseteq old
    <3> SUFFICES ASSUME NEW e \in DependsOn[t] PROVE e \in old
      OBVIOUS
    <3>1. PICK d \in DependsOn[s] : e = d \/ DependsOn[e] \subseteq DependsOn[d]
      BY DEF NotLater
    <3>2. d \in old
      BY <1>3, <2>1
    <3> QED
      BY <1>4, <1>5, <1>6, <3>1, <3>2
  <2> QED
    BY <1>3, <1>4, <2>1
<1>8. ListsInOrder'
  <2> SUFFICES ASSUME NEW s \in NextLayer, NEW t \in NextLayer, StandsBefore(t, s)
               PROVE  pos'[t] < pos'[s]
    BY <1>2 DEF ListsInOrder, StandsBefore
  <2>1. s \in Step /\ t \in Step
    BY DEF NextLayer, ReadySteps
  <2>2. ASSUME NEW e \in DependsOn[t] \cap layer PROVE \E d \in DependsOn[s] \cap layer : ~(pos[d] < pos[e])
    <3>1. PICK d \in DependsOn[s] :
            e = d \/ (DependsOn[e] \subseteq DependsOn[d] /\ OrderIdx[e] < OrderIdx[d])
      BY DEF StandsBefore
    <3>2. d \in old /\ d \in Step /\ e \in Step
      BY <1>3, <1>6, <2>1
    <3>3. d \in layer
      BY <1>4, <1>5, <3>1, <3>2 DEF LayerInv
    <3>4. e = d \/ pos[e] < pos[d]
      <4>1. e # d => StandsBefore(e, d)
        BY <3>1 DEF StandsBefore
      <4> QED
        BY <3>3, <4>1 DEF ListsInOrder
    <3>5. pos[e] \in Nat /\ pos[d] \in Nat
      BY <1>1, <3>2 DEF TypeOK
    <3> QED
      BY <3>3, <3>4, <3>5
  <2>3. ReleasedBefore(t, s)
    <3>1. ~ \E e \in DependsOn[t] \cap layer : \A d \in DependsOn[s] \cap layer : pos[d] < pos[e]
      BY <2>2
    <3> QED
      BY <3>1 DEF ReleasedBefore, ReleasedEarlier, StandsBefore
  <2>4. /\ pos'[t] = Cardinality({x \in NextLayer : ReleasedBefore(x, t)})
        /\ pos'[s] = Cardinality({x \in NextLayer : ReleasedBefore(x, s)})
    BY <2>1 DEF StartLayer
  <2> QED
    BY <1>1, <2>3, <2>4, IndexFollowsOrder
<1>9. OneByOne'
  <2>1. \A s \in NextLayer : s \in Step /\ attempt[s] = 0
    BY DEF NextLayer, ReadySteps, LayerInv, CoroutineInv
  <2> QED
    BY <1>2, <2>1 DEF OneByOne
<1> QED
  BY <1>7, <1>8, <1>9

\* A coroutine that starts is the first of its list that is not settled, and what is
\* settled stays so.
LEMMA StepKeepsOrder ==
  ASSUME IInv, BegunInv, OrderInv, NEW x \in Step, StepAction(x)
  PROVE  OrderInv'
<1> USE DEF IInv, OrderInv
<1>1. TypeOK
  OBVIOUS
<1>2. /\ UNCHANGED <<dbSession, released, layer, pos>>
      /\ \A t \in Step \ {x} : phase'[t] = phase[t] /\ attempt'[t] = attempt[t]
      /\ phase[x] \in {"ready", "running", "backoff"}
      /\ phase[x] = "ready" => x \in layer /\ MayStart(x)
  BY <1>1, StepFrame
<1>3. LayersInOrder' /\ ListsInOrder'
  BY <1>2 DEF LayersInOrder, ListsInOrder, NotLater, StandsBefore
<1>4. layer \subseteq Step /\ \A s \in layer : pos[s] \in Nat
  BY <1>1 DEF TypeOK
<1>5. phase[x] # "ready" => attempt[x] > 0
  BY <1>2 DEF BegunInv, Active
<1>6. OneByOne'
  <2> SUFFICES ASSUME dbSession, NEW s \in layer, NEW t \in layer, attempt'[s] > 0, pos[t] < pos[s]
               PROVE  phase'[t] = "settled"
    BY <1>2 DEF OneByOne
  <2>1. CASE s = x /\ phase[x] = "ready"
    <3>1. phase[t] = "settled" \/ (phase[t] = "ready" /\ pos[s] <= pos[t])
      BY <1>2, <2>1 DEF MayStart
    <3>2. phase[t] = "settled" /\ t # x
      BY <1>4, <2>1, <3>1
    <3> QED
      BY <1>2, <1>4, <3>2
  <2>2. CASE s # x \/ phase[x] # "ready"
    <3>1. attempt[s] > 0
      BY <1>2, <1>4, <1>5, <2>2
    <3>2. phase[t] = "settled" /\ t # x
      BY <1>2, <3>1 DEF OneByOne
    <3> QED
      BY <1>2, <1>4, <3>2
  <2> QED
    BY <2>1, <2>2
<1> QED
  BY <1>3, <1>6

\* The order of layers and lists, the inductive invariant of a run with it.
LEMMA OrderInductive ==
  ASSUME IInv, BegunInv, OrderInv, [Next]_vars
  PROVE  OrderInv'
<1>1. CASE StartLayer
  BY <1>1, StartLayerKeepsOrder
<1>2. CASE Complete \/ AbortLayer \/ PropagateException \/ UNCHANGED vars
  <2>1. UNCHANGED <<dbSession, released, layer, pos, phase, attempt>>
    BY <1>2 DEF Complete, AbortLayer, PropagateException, vars, engineVars, stepVars
  <2> QED
    BY <2>1 DEF OrderInv, LayersInOrder, ListsInOrder, OneByOne, NotLater, StandsBefore
<1>3. ASSUME NEW s \in Step, StepAction(s) PROVE OrderInv'
  BY <1>3, StepKeepsOrder
<1> QED
  BY <1>1, <1>2, <1>3 DEF Next, EngineAction, Finished

\* Nothing has begun when execute() is entered.
LEMMA OrderInitially == Init => BegunInv /\ OrderInv
  BY DEF Init, BegunInv, Active, Accepted, OrderInv, LayersInOrder, ListsInOrder, OneByOne

\* A step that begins, in the invariant's terms: what stands before it is in a layer
\* already over, or in its own and settled.
LEMMA TurnsFromOrder ==
  ASSUME IInv, OrderInv
  PROVE  StepsTakeTurns
<1> SUFFICES ASSUME dbSession, NEW s \in Step, NEW t \in Step, attempt[s] > 0, StandsBefore(t, s)
             PROVE  phase[t] = "settled"
  BY DEF StepsTakeTurns
<1>1. s \in released \cup layer
  BY DEF IInv, LayerInv, CoroutineInv
<1>2. NotLater(t, s)
  BY DEF StandsBefore, NotLater
<1>3. t \in released \/ (s \in layer /\ t \in layer)
  BY <1>1, <1>2 DEF OrderInv, LayersInOrder
<1> QED
  BY <1>3 DEF IInv, LayerInv, OrderInv, ListsInOrder, OneByOne

\* With a shared session, no step is attempted before the steps that stand before it in
\* the workflow and wait for no more than it does (the serial loop of execute).
THEOREM StepsTakeTheirTurns == Spec => []StepsTakeTurns
<1>1. IInv /\ BegunInv /\ OrderInv /\ [Next]_vars => BegunInv' /\ OrderInv'
  BY BegunInductive, OrderInductive
<1>2. IInv /\ OrderInv => StepsTakeTurns
  BY TurnsFromOrder
<1> QED
  BY <1>1, <1>2, OrderInitially, Invariance, PTL DEF Spec

=============================================================================
