-------------------------- MODULE ExecutionLayers --------------------------
(***************************************************************************)
(* The constructor of OrchestrationEngine, _validate_dag, and the layering *)
(* of _get_execution_layers, for every list of steps and dependencies: the *)
(* three-colour depth-first search for a cycle, then Kahn's algorithm, one *)
(* action per layer.                                                       *)
(***************************************************************************)
EXTENDS Integers, Sequences, SequencesExt, FiniteSetsExt

CONSTANTS
  Steps,    \* the workflow's step names, in the order of the engine's dict
  Unknown   \* a name that is no step of the workflow

Names == ToSet(Steps)
Order == [s \in Names |-> CHOOSE i \in DOMAIN Steps : Steps[i] = s]

\* A list of steps may name itself, an unknown step, or any others.
Graphs == [Names -> (SUBSET Names) \cup {{Unknown}}]

VARIABLES
  deps,      \* depends_on of every step
  outcome,   \* "new", refused as "unknown" or "cycle", "valid", "layering"
  cycle,     \* the path CyclicDependencyError reports
  inDegree,  \* dependencies of each step not yet in a layer
  queue,     \* the layer being collected
  layers     \* the layers so far

vars == <<deps, outcome, cycle, inDegree, queue, layers>>

\* Types: the graph, the outcome of _validate_dag, its path, the in-degrees, the queue
\* and the layers.
TypeOK ==
  /\ deps \in Graphs
  /\ outcome \in {"new", "unknown", "cycle", "valid", "layering"}
  /\ cycle \in Seq(Names)
  /\ inDegree \in [Names -> Int]
  /\ queue \in Seq(Names)
  /\ layers \in Seq(Seq(Names))

Init ==
  /\ deps \in {g \in Graphs : \A s \in Names : s \in g[s] => g[s] = {s}}
  /\ outcome = "new"
  /\ cycle = <<>>
  /\ inDegree = [s \in Names |-> 0]
  /\ queue = <<>>
  /\ layers = <<>>

InOrder(S) == SelectSeq(Steps, LAMBDA s : s \in S)

\* A dependency that names no step is refused before the search.
RejectUnknown ==
  /\ outcome = "new"
  /\ \E s \in Names : ~ deps[s] \subseteq Names
  /\ outcome' = "unknown"
  /\ UNCHANGED <<deps, cycle, inDegree, queue, layers>>

\* The depth-first search through a list of nodes: a grey one closes the cycle
\* from its place in the path, which ends the search; a white one is entered,
\* its dependencies are searched, and it is left.
Entered(st, node) == [st EXCEPT !.color[node] = "gray", !.path = Append(@, node)]

\* Mutant: path.pop() is missing.
LeftInPath(st, node) ==
  IF st.cycle # <<>> THEN st ELSE [st EXCEPT !.color[node] = "black"]

Left(st, node) ==
  IF st.cycle # <<>> THEN st ELSE [st EXCEPT !.color[node] = "black", !.path = Front(@)]

ClosedAt(st, node) ==
  LET start == CHOOSE i \in DOMAIN st.path : st.path[i] = node
  IN [st EXCEPT !.cycle = SubSeq(st.path, start, Len(st.path)) \o <<node>>]

RECURSIVE Dfs(_, _)
Dfs(st, todo) ==
  IF todo = <<>> \/ st.cycle # <<>> THEN st
  ELSE LET node == Head(todo)
           seen == CASE st.color[node] = "gray"  -> ClosedAt(st, node)
                     [] st.color[node] = "black" -> st
                     [] st.color[node] = "white" ->
                          Left(Dfs(Entered(st, node), InOrder(deps[node])), node)
       IN Dfs(seen, Tail(todo))

Search == Dfs([color |-> [s \in Names |-> "white"], path |-> <<>>, cycle |-> <<>>], Steps)

Validate ==
  /\ outcome = "new"
  /\ \A s \in Names : deps[s] \subseteq Names
  /\ \E st \in {Search} :
       /\ cycle' = st.cycle
       /\ outcome' = IF st.cycle = <<>> THEN "valid" ELSE "cycle"
  /\ UNCHANGED <<deps, inDegree, queue, layers>>

\* The first call of _get_execution_layers: Kahn's algorithm starts with the
\* steps that depend on nothing, in the order of the dict.
StartLayering ==
  /\ outcome = "valid"
  /\ outcome' = "layering"
  /\ inDegree' = [s \in Names |-> Cardinality(deps[s])]
  /\ queue' = InOrder({s \in Names : deps[s] = {}})
  /\ UNCHANGED <<deps, cycle, layers>>

\* Mutant: dependencies and dependents are mixed up.
DependentsReversed(s) == InOrder(deps[s])

\* One turn of the while loop: every dependent of every queued step loses one
\* in-degree, and joins the next queue when none is left.
Dependents(s) == InOrder({t \in Names : s \in deps[t]})

\* Mutant: next_queue is filled from the front.
RECURSIVE ReleaseInFront(_, _)
ReleaseInFront(acc, todo) ==
  IF todo = <<>> THEN acc
  ELSE LET t == Head(todo)
       IN ReleaseInFront([degree |-> [acc.degree EXCEPT ![t] = @ - 1],
                          next |-> IF acc.degree[t] = 1 THEN <<t>> \o acc.next ELSE acc.next],
                         Tail(todo))

RECURSIVE Release(_, _)
Release(acc, todo) ==
  IF todo = <<>> THEN acc
  ELSE LET t == Head(todo)
       IN Release([degree |-> [acc.degree EXCEPT ![t] = @ - 1],
                   next |-> IF acc.degree[t] = 1 THEN Append(acc.next, t) ELSE acc.next],
                  Tail(todo))

PeelLayer ==
  LET neighbors == FlattenSeq([i \in DOMAIN queue |-> Dependents(queue[i])])
      acc == Release([degree |-> inDegree, next |-> <<>>], neighbors)
  IN /\ outcome = "layering"
     /\ queue # <<>>
     /\ layers' = Append(layers, queue)
     /\ inDegree' = acc.degree
     /\ queue' = acc.next
     /\ UNCHANGED <<deps, outcome, cycle>>

\* The constructor raised, or the layers are complete and cached.
Stop ==
  /\ outcome \in {"unknown", "cycle"} \/ (outcome = "layering" /\ queue = <<>>)
  /\ UNCHANGED vars

Next == RejectUnknown \/ Validate \/ StartLayering \/ PeelLayer \/ Stop

Spec == Init /\ [][Next]_vars

(***************************************************************************)
(* Properties.                                                             *)
(***************************************************************************)

\* Some set of steps depends on itself all the way round.
Cyclic == \E T \in (SUBSET Names) \ {{}} : \A s \in T : deps[s] \cap T # {}

\* CyclicDependencyError is raised for the cyclic graphs and no others, and the
\* path it reports is a cycle of the graph.
CycleCheckExact ==
  /\ outcome = "cycle" => Cyclic
  /\ outcome = "valid" => ~Cyclic
  /\ outcome = "cycle" =>
       /\ Len(cycle) > 1 /\ cycle[1] = Last(cycle)
       /\ \A i \in 1 .. Len(cycle) - 1 : cycle[i + 1] \in deps[cycle[i]]

LayersDone == outcome = "layering" /\ queue = <<>>

\* Every step is in exactly one layer, later than everything it depends on and
\* as early as that allows (it directly follows the layer of a dependency).
LayersCorrect ==
  LayersDone =>
    /\ \A s \in Names : \E i \in DOMAIN layers :
         /\ s \in ToSet(layers[i])
         /\ \A j \in DOMAIN layers : s \in ToSet(layers[j]) => i = j
         /\ deps[s] \subseteq UNION {ToSet(layers[j]) : j \in 1 .. i - 1}
         /\ i > 1 => deps[s] \cap ToSet(layers[i - 1]) # {}
    /\ \A i \in DOMAIN layers : IsInjective(layers[i])

\* The layers are the ones that OrchestrationEngine releases lazily, and each is
\* listed in the order its serial loop follows: Ready and Earlier are its ReadySteps
\* and ReleasedEarlier.
LazyLayersAgree(Ready(_, _, _), Earlier(_, _, _, _, _, _)) ==
  LayersDone =>
    \A i \in DOMAIN layers :
      LET before == UNION {ToSet(layers[j]) : j \in 1 .. i - 1}
          prev == IF i = 1 THEN <<>> ELSE layers[i - 1]
          pos == [s \in ToSet(prev) |-> CHOOSE k \in DOMAIN prev : prev[k] = s]
      IN /\ ToSet(layers[i]) = Ready(Names, deps, before)
         /\ \A k, l \in DOMAIN layers[i] :
              k < l <=> Earlier(deps, Order, ToSet(prev), pos, layers[i][k], layers[i][l])

=============================================================================
