------------------------------ MODULE SpecAgent -----------------------------
(***************************************************************************)
(* The spec agent: a plan is a graph of nodes (actions worked by a         *)
(* sub-agent, logic gates, replan triggers) and a log of executions in the *)
(* database, from which every executor takes up the plan again.            *)
(*                                                                         *)
(* The state of a node is its latest log entry, and there are two notions  *)
(* of latest: run_step takes the entry completed (or else created) last,   *)
(* interact_with_plan the one created last.  They differ once a node that  *)
(* is being executed is queued again.                                      *)
(***************************************************************************)
EXTENDS Integers, FiniteSets

CONSTANTS
  Nodes,        \* nodes of the plan
  Needs,        \* Needs[n]: nodes that n depends on
  Kind,         \* Kind[n]: "action", "check_in", "gate" or "replan"
  Executors,    \* requests that start the plan
  MaxSteps,     \* max_steps of start_plan
  MaxTurns,     \* max_turns of the sub-agent
  MaxReruns,    \* bound: reruns
  MaxCrashes,   \* bound: executors that die
  RerunLive     \* whether a node may be rerun while an executor is at work

VARIABLES
  plan,      \* status of the plan
  last,      \* last[n]: status of the entry completed or else created last
  made,      \* made[n]: status of the entry created last
  chosen,    \* chosen[g]: the branch the gate took when it last succeeded, unless
             \* the user has queued a branch of it himself since
  worked,    \* nodes whose sub-agent answered since they were queued
  executor,  \* executor[x]
  reruns,    \* reruns so far
  crashes    \* executors that died

specVars == <<plan, last, made, chosen, worked, executor, reruns, crashes>>

NoNode == "none"
Overridden == "overridden"
NodeStatus == {"none", "PENDING", "RUNNING", "WAITING_APPROVAL", "SUCCESS", "FAILED", "SKIPPED"}

\* todo: the nodes this step found executable; mine: no newer entry of its node
\* exists; cache: _skipped_cache.
Asleep == [at |-> "idle", steps |-> 0, todo |-> {}, node |-> NoNode, mine |-> FALSE,
           turns |-> 0, cache |-> {}]

Children(n) == {m \in Nodes : n \in Needs[m]}

\* n and everything that depends on it, directly or not.
Subtree(n) ==
  LET up[k \in 0..Cardinality(Nodes)] ==
        IF k = 0 THEN {n} ELSE up[k - 1] \cup UNION {Children(m) : m \in up[k - 1]}
  IN up[Cardinality(Nodes)]

Init ==
  /\ plan = "none"
  /\ last = [n \in Nodes |-> "none"]
  /\ made = [n \in Nodes |-> "none"]
  /\ chosen = [n \in Nodes |-> NoNode]
  /\ worked = {}
  /\ executor = [x \in Executors |-> Asleep]
  /\ reruns = 0
  /\ crashes = 0

In(S) == {n \in Nodes : last[n] \in S}
At(x, s) == executor[x].at = s
Sleep(x) == executor' = [executor EXCEPT ![x] = Asleep]
Mark(f, S, status) == [n \in Nodes |-> IF n \in S THEN status ELSE f[n]]

-----------------------------------------------------------------------------
(* One step of an executor *)

\* generate_plan: the model's answer parses as a manifest, and the plan is saved.
GeneratePlan ==
  /\ plan = "none"
  /\ plan' = "DRAFT"
  /\ UNCHANGED <<last, made, chosen, worked, executor, reruns, crashes>>

\* start_plan and execute_plan: the skipped nodes are taken from the log.
StartPlan(x) ==
  /\ At(x, "idle")
  /\ plan # "none"
  /\ \A y \in Executors : At(y, "idle") \/ RerunLive
  /\ plan' = IF plan \in {"DRAFT", "PAUSED"} THEN "RUNNING" ELSE plan
  /\ executor' = [executor EXCEPT ![x] = [Asleep EXCEPT !.at = "step", !.cache = In({"SKIPPED"})]]
  /\ UNCHANGED <<last, made, chosen, worked, reruns, crashes>>

\* Nodes not under way and not done whose dependencies have all succeeded.
Executable ==
  {n \in Nodes : /\ last[n] \notin {"RUNNING", "WAITING_APPROVAL", "SUCCESS", "SKIPPED"}
                 /\ Needs[n] \subseteq In({"SUCCESS"})}

\* skip_subtree_db, from the nodes S down, without what the executor skipped before.
Skipping(x, S) == (UNION {Subtree(n) : n \in S \ executor[x].cache}) \ executor[x].cache

Skip(x, S) ==
  /\ last' = Mark(last, Skipping(x, S), "SKIPPED")
  /\ made' = Mark(made, Skipping(x, S), "SKIPPED")

\* run_step reads the log.  It stops on a failure, skips what depends on a skipped
\* node, and stops when there is nothing to execute.
RunStep(x) ==
  LET orphans == {n \in Nodes : /\ last[n] \notin {"RUNNING", "WAITING_APPROVAL", "SUCCESS", "SKIPPED"}
                                /\ Needs[n] \cap In({"SKIPPED"}) # {}}
  IN
  /\ At(x, "step")
  /\ In({"FAILED"}) = {}
  /\ Skip(x, orphans)
  /\ IF Executable # {}
     THEN /\ executor' = [executor EXCEPT ![x].at = "node", ![x].todo = Executable,
                                          ![x].cache = @ \cup Skipping(x, orphans)]
          /\ UNCHANGED plan
     ELSE /\ plan' = IF In({"SUCCESS", "SKIPPED"}) = Nodes THEN "COMPLETED"
                     ELSE IF In({"WAITING_APPROVAL"}) # {} THEN "PAUSED" ELSE plan
          /\ Sleep(x)
  /\ UNCHANGED <<chosen, worked, reruns, crashes>>

StopOnFailure(x) ==
  /\ At(x, "step")
  /\ In({"FAILED"}) # {}
  /\ plan' = "FAILED"
  /\ Sleep(x)
  /\ UNCHANGED <<last, made, chosen, worked, reruns, crashes>>

\* execute_node writes a new entry.
ExecuteNode(x, n) ==
  /\ At(x, "node")
  /\ n \in executor[x].todo
  /\ last' = [last EXCEPT ![n] = "RUNNING"]
  /\ made' = [made EXCEPT ![n] = "RUNNING"]
  /\ executor' = [y \in Executors |->
       IF y = x THEN [executor[x] EXCEPT !.at = "run", !.todo = @ \ {n}, !.node = n, !.mine = TRUE, !.turns = 0]
       ELSE IF executor[y].node = n THEN [executor[y] EXCEPT !.mine = FALSE] ELSE executor[y]]
  /\ UNCHANGED <<plan, chosen, worked, reruns, crashes>>

\* finish_node_execution updates the executor's own entry; its completion is latest.
Finished(x, status) ==
  /\ last' = [last EXCEPT ![executor[x].node] = status]
  /\ made' = IF executor[x].mine THEN [made EXCEPT ![executor[x].node] = status] ELSE made

\* On to the next node; after the last, the context is saved and another step made.
Onward(x) ==
  LET e == [executor[x] EXCEPT !.node = NoNode, !.mine = FALSE, !.turns = 0] IN
  executor' = [executor EXCEPT ![x] =
    IF e.todo # {} THEN [e EXCEPT !.at = "node"]
    ELSE IF e.steps + 1 < MaxSteps THEN [e EXCEPT !.at = "step", !.steps = @ + 1]
    ELSE Asleep]

Runs(x, kinds) == At(x, "run") /\ Kind[executor[x].node] \in kinds

\* A node with check_in waits for the user, and so does the plan.
CheckIn(x) ==
  /\ Runs(x, {"check_in"})
  /\ Finished(x, "WAITING_APPROVAL")
  /\ plan' = "PAUSED"
  /\ Sleep(x)
  /\ UNCHANGED <<chosen, worked, reruns, crashes>>

\* _run_generic_sub_agent: a turn of tool calls.
CallTools(x) ==
  /\ Runs(x, {"action"})
  /\ executor[x].turns < MaxTurns - 1
  /\ executor' = [executor EXCEPT ![x].turns = @ + 1]
  /\ UNCHANGED <<plan, last, made, chosen, worked, reruns, crashes>>

SubAgentAnswers(x) ==
  /\ Runs(x, {"action"})
  /\ Finished(x, "SUCCESS")
  /\ worked' = worked \cup {executor[x].node}
  /\ Onward(x)
  /\ UNCHANGED <<plan, chosen, reruns, crashes>>

\* Mutant of PassGate: the gate picks a branch and the others stay.
PassGateOpen(x, next) ==
  LET g == executor[x].node IN
  /\ Runs(x, {"gate"})
  /\ next \in Children(g) \cup {NoNode}
  /\ Finished(x, "SUCCESS")
  /\ chosen' = [chosen EXCEPT ![g] = next]
  /\ Onward(x)
  /\ UNCHANGED <<plan, worked, reruns, crashes>>

\* _evaluate_logic_gate: the first rule that holds, or the default, names the next
\* node, a child or not; the other children and what hangs on them are skipped.
PassGate(x, next) ==
  LET g == executor[x].node
      off == Skipping(x, Children(g) \ {next})
      y == [executor EXCEPT ![x].cache = @ \cup off]
  IN
  /\ Runs(x, {"gate"})
  /\ next \in Children(g) \cup {NoNode}
  /\ last' = Mark([last EXCEPT ![g] = "SUCCESS"], off, "SKIPPED")
  /\ made' = Mark(IF executor[x].mine THEN [made EXCEPT ![g] = "SUCCESS"] ELSE made, off, "SKIPPED")
  /\ chosen' = [chosen EXCEPT ![g] = next]
  /\ executor' = [y EXCEPT ![x] =
       LET e == [@ EXCEPT !.node = NoNode, !.mine = FALSE] IN
       IF e.todo # {} THEN [e EXCEPT !.at = "node"]
       ELSE IF e.steps + 1 < MaxSteps THEN [e EXCEPT !.at = "step", !.steps = @ + 1]
       ELSE Asleep]
  /\ UNCHANGED <<plan, worked, reruns, crashes>>

\* The sub-agent raises or has no turns left, a condition cannot be evaluated, or
\* the node is a replan trigger, which is not implemented.
NodeFails(x) ==
  /\ Runs(x, {"action", "gate", "replan"})
  /\ Finished(x, "FAILED")
  /\ plan' = "FAILED"
  /\ Sleep(x)
  /\ UNCHANGED <<chosen, worked, reruns, crashes>>

\* The process dies: the entry of its node stays RUNNING.
ExecutorDies(x) ==
  /\ ~At(x, "idle")
  /\ crashes < MaxCrashes
  /\ crashes' = crashes + 1
  /\ Sleep(x)
  /\ UNCHANGED <<plan, last, made, chosen, worked, reruns>>

-----------------------------------------------------------------------------
(* The user *)

\* interact_with_plan: approve and modify close the node as it is, reject fails it.
Interact(n, decision) ==
  /\ made[n] = "WAITING_APPROVAL"
  /\ last' = [last EXCEPT ![n] = IF decision = "reject" THEN "FAILED" ELSE "SUCCESS"]
  /\ made' = [made EXCEPT ![n] = IF decision = "reject" THEN "FAILED" ELSE "SUCCESS"]
  /\ plan' = IF decision = "reject" THEN "FAILED" ELSE "RUNNING"
  /\ UNCHANGED <<chosen, worked, executor, reruns, crashes>>

Override(S) == [g \in Nodes |-> IF g \notin S /\ Children(g) \cap S # {} THEN Overridden ELSE chosen[g]]

\* rerun_plan_node: the node and all that depends on it are queued again.
RerunPlanNode(n) ==
  /\ reruns < MaxReruns
  /\ RerunLive \/ \A x \in Executors : At(x, "idle")
  /\ plan \notin {"none", "DRAFT"}
  /\ reruns' = reruns + 1
  /\ last' = Mark(last, Subtree(n), "PENDING")
  /\ made' = Mark(made, Subtree(n), "PENDING")
  /\ executor' = [x \in Executors |->
       IF executor[x].node \in Subtree(n) THEN [executor[x] EXCEPT !.mine = FALSE] ELSE executor[x]]
  /\ worked' = worked \ Subtree(n)
  /\ chosen' = Override(Subtree(n))
  /\ plan' = "RUNNING"
  /\ UNCHANGED crashes

-----------------------------------------------------------------------------
Step(x) ==
  \/ RunStep(x) \/ StopOnFailure(x) \/ CheckIn(x) \/ CallTools(x) \/ SubAgentAnswers(x) \/ NodeFails(x)
  \/ \E n \in Nodes : ExecuteNode(x, n)
  \/ \E next \in Nodes \cup {NoNode} : PassGate(x, next)

Next ==
  \/ GeneratePlan
  \/ \E x \in Executors : StartPlan(x) \/ Step(x) \/ ExecutorDies(x)
  \/ \E n \in Nodes : RerunPlanNode(n) \/ \E d \in {"approve", "reject", "modify"} : Interact(n, d)

Fairness == \A x \in Executors : WF_specVars(Step(x))

Spec == Init /\ [][Next]_specVars /\ Fairness

-----------------------------------------------------------------------------
\* The plan, its nodes and its executors stay in range.
TypeOK ==
  /\ plan \in {"none", "DRAFT", "RUNNING", "PAUSED", "COMPLETED", "FAILED"}
  /\ \A n \in Nodes : last[n] \in NodeStatus /\ made[n] \in NodeStatus /\ chosen[n] \in Nodes \cup {NoNode, Overridden}
  /\ worked \subseteq Nodes
  /\ \A x \in Executors : /\ executor[x].todo \cup executor[x].cache \subseteq Nodes
                          /\ executor[x].turns \in 0..MaxTurns
                          /\ At(x, "run") => executor[x].node \in Nodes

\* A plan is called complete when every node has succeeded or was skipped; a rerun
\* takes that back before anything runs again (run_step, rerun_plan_node).
CompleteIsComplete ==
  plan = "COMPLETED" => In({"SUCCESS", "SKIPPED"}) = Nodes

\* A gate opens one branch: while its decision stands, its other children, and what
\* depends on them, neither run nor have run, through crashes in the middle of the
\* skipping and reruns of any node (execute_node, skip_subtree_db).
OneBranch ==
  \A g \in In({"SUCCESS"}) : (Kind[g] = "gate" /\ chosen[g] # Overridden) =>
    \A c \in Children(g) \ {chosen[g]} : Subtree(c) \cap In({"RUNNING", "SUCCESS", "WAITING_APPROVAL"}) = {}

\* What has run rests on what has succeeded: no node is under way or done while a
\* node it needs is queued again or skipped.
RestsOnResults ==
  \A n \in In({"RUNNING", "WAITING_APPROVAL", "SUCCESS"}) : Needs[n] \subseteq In({"SUCCESS"})

\* An executor does not run for ever, whatever the sub-agents and gates answer.
ExecutorsEnd == \A x \in Executors : []<>At(x, "idle")

\* A node that succeeded has done its work: its sub-agent has answered. Not so: a
\* check-in that its user approves succeeds without having run.
SuccessIsWork == \A n \in In({"SUCCESS"}) : Kind[n] \in {"action", "check_in"} => n \in worked
=============================================================================
