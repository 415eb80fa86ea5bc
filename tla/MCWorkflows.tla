---------------------------- MODULE MCWorkflows ----------------------------
(***************************************************************************)
(* What GatewayOrchestrator.execute runs. First the layers: every          *)
(* dependency graph of four steps, self-dependencies and unknown names     *)
(* included (four is the least number with two layers of two). Then the    *)
(* workflows it builds, each run by the engine with the steps, retries and *)
(* failures of its channel and capability. A behaviour is about one        *)
(* subject; the variables of the others rest.                              *)
(***************************************************************************)
EXTENDS Naturals, Sequences

CONSTANT NoStep

VARIABLES
  subject,
  deps, outcome, cycle, inDegree, queue, layers,
  dbSession, skips, released, layer, pos, phase, attempt, status, executed, error,
  verdict, failedStep

layerVars == <<deps, outcome, cycle, inDegree, queue, layers>>
runVars == <<dbSession, skips, released, layer, pos, phase, attempt, status, executed,
             error, verdict, failedStep>>

Graph == INSTANCE ExecutionLayers WITH Steps <- <<"a", "b", "c", "d">>, Unknown <- "?"

External == INSTANCE WorkflowTemplates WITH Channel <- "external", Capability <- "chat"
Image == INSTANCE WorkflowTemplates WITH Channel <- "external", Capability <- "image_generation"
Internal == INSTANCE WorkflowTemplates WITH Channel <- "internal", Capability <- "chat"
Preview == INSTANCE WorkflowTemplates WITH Channel <- "internal", Capability <- "preview"
Embeddings == INSTANCE WorkflowTemplates WITH Channel <- "internal", Capability <- "embedding"

\* No graph: a run needs none.
NoGraph ==
  /\ deps = <<>> /\ outcome = "new" /\ cycle = <<>> /\ inDegree = <<>>
  /\ queue = <<>> /\ layers = <<>>

Init ==
  \/ subject = "layers" /\ Graph!Init /\ External!Engine!Init /\ skips = {}
  \/ subject = "external chat" /\ External!Engine!Init /\ NoGraph
  \/ subject = "external image" /\ Image!Engine!Init /\ NoGraph
  \/ subject = "internal chat" /\ Internal!Engine!Init /\ NoGraph
  \/ subject = "internal preview" /\ Preview!Engine!Init /\ NoGraph
  \/ subject = "internal embeddings" /\ Embeddings!Engine!Init /\ NoGraph

LayerStep == subject = "layers" /\ Graph!Next /\ UNCHANGED <<subject, runVars>>

ExternalRuns == subject = "external chat" /\ External!Engine!Next /\ UNCHANGED <<subject, layerVars>>
ImageRuns == subject = "external image" /\ Image!Engine!Next /\ UNCHANGED <<subject, layerVars>>
InternalRuns == subject = "internal chat" /\ Internal!Engine!Next /\ UNCHANGED <<subject, layerVars>>
PreviewRuns == subject = "internal preview" /\ Preview!Engine!Next /\ UNCHANGED <<subject, layerVars>>
EmbeddingsRun ==
  subject = "internal embeddings" /\ Embeddings!Engine!Next /\ UNCHANGED <<subject, layerVars>>

Next == LayerStep \/ ExternalRuns \/ ImageRuns \/ InternalRuns \/ PreviewRuns \/ EmbeddingsRun

Spec == Init /\ [][Next]_<<subject, layerVars, runVars>>

-----------------------------------------------------------------------------
\* _validate_dag refuses exactly the cyclic graphs, with a cycle of theirs.
CycleCheckExact == subject = "layers" => Graph!CycleCheckExact

\* _get_execution_layers lists every step once, after what it depends on and as early
\* as that allows.
LayersCorrect == subject = "layers" => Graph!LayersCorrect

\* The layers, and the order in each, are those that the engine's model releases.
LazyLayersAgree ==
  subject = "layers" => Graph!LazyLayersAgree(External!Engine!ReadySteps, External!Engine!ReleasedEarlier)

\* No workflow calls an upstream before the signature, the quota and the rate limit
\* it checks have all been checked.
UpstreamGuarded ==
  CASE subject = "external chat" -> External!UpstreamGuarded
    [] subject = "external image" -> Image!UpstreamGuarded
    [] subject = "internal chat" -> Internal!UpstreamGuarded
    [] subject = "internal preview" -> Preview!UpstreamGuarded
    [] subject = "internal embeddings" -> Embeddings!UpstreamGuarded
    [] OTHER -> TRUE

\* Whatever a step reads from the context was written before it began, but for the
\* four late reads that WorkflowTemplates lists.
ContextFresh ==
  CASE subject = "external chat" -> External!ContextFresh
    [] subject = "external image" -> Image!ContextFresh
    [] subject = "internal chat" -> Internal!ContextFresh
    [] subject = "internal preview" -> Preview!ContextFresh
    [] subject = "internal embeddings" -> Embeddings!ContextFresh
    [] OTHER -> TRUE

=============================================================================
