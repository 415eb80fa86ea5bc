-------------------------- MODULE WorkflowContract --------------------------
(***************************************************************************)
(* What OrchestrationEngine.execute(ctx) promises to whoever runs a        *)
(* workflow, without layers, attempts or fall-backs: a step begins once,   *)
(* after everything it depends on was accepted; what was accepted stays;   *)
(* and the run ends in success only when every step was accepted, in       *)
(* failure only because of a step that began and was not.                  *)
(***************************************************************************)
CONSTANTS
  Step,       \* the steps of the workflow
  DependsOn   \* DependsOn[s]: the steps s depends on

VARIABLES
  shared,    \* the steps share the caller's database session
  begun,     \* steps that were attempted
  accepted,  \* steps with a result that is not FAILED
  outcome    \* "running", "completed" or "failed"

contractVars == <<shared, begun, accepted, outcome>>

Init ==
  /\ shared \in BOOLEAN
  /\ begun = {}
  /\ accepted = {}
  /\ outcome = "running"

\* With a shared session nothing happens after the end; without one, coroutines that
\* asyncio.gather started go on.
Open == shared => outcome = "running"

Begin(s) ==
  /\ Open
  /\ s \notin begun \cup accepted
  /\ DependsOn[s] \subseteq accepted
  /\ begun' = begun \cup {s}
  /\ UNCHANGED <<shared, accepted, outcome>>

Accept(s) ==
  /\ Open
  /\ s \in begun \ accepted
  /\ accepted' = accepted \cup {s}
  /\ UNCHANGED <<shared, begun, outcome>>

\* Steps may be left out, in their turn.
PassOver(S) ==
  /\ outcome = "running"
  /\ S \cap (begun \cup accepted) = {}
  /\ \A s \in S : DependsOn[s] \subseteq accepted
  /\ accepted' = accepted \cup S
  /\ UNCHANGED <<shared, begun, outcome>>

Complete ==
  /\ outcome = "running"
  /\ accepted = Step
  /\ outcome' = "completed"
  /\ UNCHANGED <<shared, begun, accepted>>

Fail ==
  /\ outcome = "running"
  /\ \E s \in begun : s \notin accepted
  /\ outcome' = "failed"
  /\ UNCHANGED <<shared, begun, accepted>>

Next ==
  \/ \E s \in Step : Begin(s) \/ Accept(s)
  \/ \E S \in SUBSET Step : PassOver(S)
  \/ Complete \/ Fail

Spec == Init /\ [][Next]_contractVars

=============================================================================
