------------------------- MODULE WorkflowTemplates -------------------------
(***************************************************************************)
(* The workflow that GatewayOrchestrator builds for a channel and a        *)
(* capability: its list of steps, the dependencies after the three         *)
(* _align_* adjustments, the retry limits, what on_failure answers, and    *)
(* which step reads from the context what another one writes. Then         *)
(* GatewayOrchestrator.execute: the engine run on that workflow. Every     *)
(* endpoint and task that runs one puts a database session in the context. *)
(***************************************************************************)
EXTENDS Integers, Sequences, SequencesExt

CONSTANTS
  Channel,     \* ctx.channel
  Capability,  \* ctx.capability
  NoStep       \* "no step" (None)

VARIABLES
  dbSession, skips, released, layer, pos, phase, attempt, status, executed, error, verdict,
  failedStep   \* of the engine

MediaCapability ==
  {"image_generation", "text_to_speech", "speech_to_text", "video_generation"}

\* Mutant: the signature is verified after the steps that use its result.
ExternalChatUnordered ==
  <<"request_adapter", "validation", "resolve_assets", "mcp_discovery", "quota_check",
    "rate_limit", "signature_verify", "routing", "template_render", "agent_executor",
    "response_transform", "memory_write", "sanitize", "billing", "audit_log">>

ExternalChat ==
  <<"request_adapter", "validation", "signature_verify", "resolve_assets",
    "mcp_discovery", "quota_check", "rate_limit", "routing", "template_render",
    "agent_executor", "response_transform", "memory_write", "sanitize", "billing",
    "audit_log">>

ExternalImage ==
  <<"request_adapter", "validation", "signature_verify", "resolve_assets", "quota_check",
    "rate_limit", "routing", "provider_execution", "response_transform", "sanitize",
    "billing", "audit_log">>

ExternalEmbeddings ==
  <<"request_adapter", "validation", "signature_verify", "quota_check", "rate_limit",
    "routing", "provider_execution", "response_transform", "sanitize", "billing",
    "audit_log">>

InternalChat ==
  <<"request_adapter", "validation", "conversation_load", "assistant_prompt_injection",
    "resolve_assets", "mcp_discovery", "jit_persona_tool_injection", "semantic_kernel",
    "knowledge_selection_injection", "quota_check", "rate_limit", "routing",
    "template_render", "agent_executor", "response_transform", "spec_agent_detector",
    "conversation_append", "memory_write", "sanitize", "billing", "audit_log">>

InternalEmbeddings ==
  <<"validation", "quota_check", "rate_limit", "routing", "provider_execution",
    "response_transform", "billing", "audit_log">>

InternalImage ==
  <<"validation", "resolve_assets", "quota_check", "rate_limit", "routing",
    "provider_execution", "response_transform", "billing", "audit_log">>

InternalPreview ==
  <<"validation", "resolve_assets", "mcp_discovery", "jit_persona_tool_injection",
    "semantic_kernel", "quota_check", "rate_limit", "routing", "template_render",
    "agent_executor", "response_transform", "sanitize", "billing", "audit_log">>

\* get_workflow_for_channel
StepList ==
  IF Channel = "external"
  THEN CASE Capability = "embedding"          -> ExternalEmbeddings
         [] Capability \in MediaCapability    -> ExternalImage
         [] OTHER                             -> ExternalChat
  ELSE CASE Capability = "embedding"          -> InternalEmbeddings
         [] Capability \in MediaCapability    -> InternalImage
         [] Capability = "chat"               -> InternalChat
         [] OTHER                             -> InternalPreview

Names == ToSet(StepList)

ListIndex == [s \in Names |-> CHOOSE i \in DOMAIN StepList : StepList[i] = s]

(***************************************************************************)
(* The classes of the steps: depends_on, and the steps that write what     *)
(* execute reads from the context.                                         *)
(***************************************************************************)
RequestAdapterStep == [depends_on |-> {}, reads |-> {}]
ValidationStep == [depends_on |-> {}, reads |-> {"request_adapter"}]
SignatureVerifyStep == [depends_on |-> {"validation"}, reads |-> {}]
ConversationLoadStep == [depends_on |-> {"validation"}, reads |-> {"validation"}]
AssistantPromptInjectionStep ==
  [depends_on |-> {"validation", "conversation_load"},
   reads |-> {"validation", "conversation_load"}]
ResolveAssetsStep == [depends_on |-> {"validation"}, reads |-> {"validation", "conversation_load"}]
McpDiscoveryStep == [depends_on |-> {"validation"}, reads |-> {"validation", "conversation_load"}]
JitPersonaToolInjectionStep ==
  [depends_on |-> {"validation", "mcp_discovery"},
   reads |-> {"validation", "conversation_load", "mcp_discovery"}]
SemanticKernelStep ==
  [depends_on |-> {"validation", "mcp_discovery"},
   reads |-> {"validation", "conversation_load", "assistant_prompt_injection",
             "mcp_discovery", "jit_persona_tool_injection"}]
KnowledgeSelectionInjectionStep ==
  [depends_on |-> {"semantic_kernel"},
   reads |-> {"validation", "conversation_load"}]
QuotaCheckStep ==
  [depends_on |-> {"validation"},
   reads |-> {"validation", "signature_verify", "routing"}]
RateLimitStep == [depends_on |-> {"validation"}, reads |-> {"signature_verify", "routing"}]
RoutingStep == [depends_on |-> {"validation"}, reads |-> {"validation", "conversation_load"}]
TemplateRenderStep ==
  [depends_on |-> {"routing", "assistant_prompt_injection"},
   reads |-> {"validation", "conversation_load", "resolve_assets", "mcp_discovery",
             "jit_persona_tool_injection", "semantic_kernel", "assistant_prompt_injection",
             "knowledge_selection_injection", "routing"}]
\* _ensure_template_render_state and _build_request_body_from_context fill in what the
\* rendering left out.
RequestReads == {"request_adapter", "validation", "routing", "template_render"}
AgentExecutorStep ==
  [depends_on |-> {"template_render"},
   reads |-> RequestReads \cup {"assistant_prompt_injection", "semantic_kernel"}]
\* _update_provider_health looks the instance up in the route.
HealthReads == {"routing"}
ProviderExecutionStep ==
  [depends_on |-> {"routing"},
   reads |-> {"validation", "resolve_assets", "routing"} \cup HealthReads]
ResponseTransformStep ==
  [depends_on |-> {"upstream_call"},
   reads |-> {"agent_executor", "provider_execution", "routing"}]
SpecAgentDetectorStep == [depends_on |-> {"response_transform"}, reads |-> {"response_transform"}]
\* What is appended: the request's messages, the answer with its tool results and the
\* suggestion, under the persona that answered.
PersonaReads == {"assistant_prompt_injection", "semantic_kernel"}
AppendedReads ==
  PersonaReads \cup {"validation", "conversation_load", "agent_executor", "provider_execution",
                    "response_transform", "spec_agent_detector"}
\* After the append: the regenerated turn is hidden, the session's id is answered.
RegenerateReads == {"conversation_load", "response_transform"}
ConversationAppendStep ==
  [depends_on |-> {"response_transform", "spec_agent_detector"},
   reads |-> AppendedReads \cup RegenerateReads]
MemoryWriteStep ==
  [depends_on |-> {"response_transform"},
   reads |-> {"validation", "agent_executor", "provider_execution"}]
SanitizeStep ==
  [depends_on |-> {"response_transform"},
   reads |-> {"routing", "agent_executor", "provider_execution", "response_transform",
             "billing"}]
\* The pending charge of a stream, the charge of an answer, and the latter's two ways:
\* an external caller's balance is deducted, an internal call is only recorded.
PendingReads == {"validation", "routing", "agent_executor", "provider_execution"}
DeductionReads == {"quota_check", "routing", "agent_executor", "provider_execution"}
UsageReads == {"validation", "routing", "agent_executor", "provider_execution"}
SavingsReads == {"routing", "response_transform"}
ChargeReads == {"routing", "response_transform"} \cup DeductionReads \cup UsageReads \cup SavingsReads
BillingStep ==
  [depends_on |-> {"response_transform"}, reads |-> PendingReads \cup ChargeReads]
AuditLogStep ==
  [depends_on |-> {"billing"},
   reads |-> {"validation", "conversation_load", "assistant_prompt_injection",
             "semantic_kernel", "routing", "agent_executor", "provider_execution", "billing"}]

\* StepRegistry: the class of a name.
StepClass ==
  [request_adapter |-> RequestAdapterStep,
   validation |-> ValidationStep,
   signature_verify |-> SignatureVerifyStep,
   conversation_load |-> ConversationLoadStep,
   assistant_prompt_injection |-> AssistantPromptInjectionStep,
   resolve_assets |-> ResolveAssetsStep,
   mcp_discovery |-> McpDiscoveryStep,
   jit_persona_tool_injection |-> JitPersonaToolInjectionStep,
   semantic_kernel |-> SemanticKernelStep,
   knowledge_selection_injection |-> KnowledgeSelectionInjectionStep,
   quota_check |-> QuotaCheckStep,
   rate_limit |-> RateLimitStep,
   routing |-> RoutingStep,
   template_render |-> TemplateRenderStep,
   agent_executor |-> AgentExecutorStep,
   provider_execution |-> ProviderExecutionStep,
   response_transform |-> ResponseTransformStep,
   spec_agent_detector |-> SpecAgentDetectorStep,
   conversation_append |-> ConversationAppendStep,
   memory_write |-> MemoryWriteStep,
   sanitize |-> SanitizeStep,
   billing |-> BillingStep,
   audit_log |-> AuditLogStep]

DeclaredDeps(s) == StepClass[s].depends_on

\* _align_template_render_dependencies, _align_response_transform_dependencies
\* (no template lists upstream_call, the third one).
AlignedDeps(s) ==
  CASE s = "template_render" -> DeclaredDeps(s) \cap Names
    [] s = "response_transform" /\ "agent_executor" \in Names -> {"agent_executor"}
    [] s = "response_transform" /\ "agent_executor" \notin Names -> {"provider_execution"}
    [] OTHER -> DeclaredDeps(s)

WorkflowDeps == [s \in Names |-> AlignedDeps(s)]

(***************************************************************************)
(* Failure handling.                                                       *)
(***************************************************************************)

\* step_configs of the template; the default is 0.
ConfiguredRetries ==
  [s \in Names |->
     CASE s = "billing"                                -> 3
       [] s = "agent_executor"                         -> 2
       [] s = "provider_execution"                     -> 1
       [] s = "routing" /\ Channel = "external"        -> 1
       [] OTHER                                        -> 0]

\* on_failure. The base class retries the exceptions of retry_on only, which is
\* empty except for provider_execution's time-outs and network errors.
WorkflowOnFailure(s, n) ==
  CASE s = "routing"            -> IF n <= 1 THEN {"retry"} ELSE {"abort"}
    [] s = "agent_executor"     -> {"degrade", "abort"}
    [] s = "provider_execution" -> IF n <= ConfiguredRetries[s] THEN {"retry", "abort"}
                                   ELSE {"abort"}
    [] OTHER                    -> {"abort"}

\* The steps that call an upstream mark the error before they raise it.
UpstreamSteps == {"agent_executor", "provider_execution"} \cap Names

\* audit_log.should_skip: the API key may switch logging off.
WorkflowSkips == IF Channel = "external" THEN {"audit_log"} ELSE {}

\* The steps of this workflow that write what s reads from the context.
ContextReads(s) == Names \cap StepClass[s].reads

Engine == INSTANCE OrchestrationEngine
  WITH Step <- Names, OrderIdx <- ListIndex, DependsOn <- WorkflowDeps,
       MaxRetries <- ConfiguredRetries, OnFailure <- WorkflowOnFailure,
       MarksError <- UpstreamSteps, Failover <- {}, Skippable <- WorkflowSkips,
       Sessions <- {TRUE}

Spec == Engine!Spec

-----------------------------------------------------------------------------
\* A run of the workflow that succeeds leaves no error in its context.
SuccessLeavesNoError == Engine!SuccessLeavesNoError

\* No upstream is called before the request's signature, quota and rate limit
\* were all checked and passed. quota_check and rate_limit are not dependencies
\* of the steps that call upstreams: the layers alone keep this order.
UpstreamGuarded ==
  \A u \in UpstreamSteps : attempt[u] > 0 =>
    \A g \in {"signature_verify", "quota_check", "rate_limit"} \cap Names : status[g] = "success"

\* Four reads come before their writes, whatever happens: the one
\* KnowledgeBeforeRendering is about, quota_check's of routing.pricing_config (its
\* estimate is always 0), rate_limit's of routing.limit_config, and sanitize's of
\* the affinity savings, which billing fills in.
LateReads ==
  {<<"template_render", "knowledge_selection_injection">>, <<"quota_check", "routing">>,
   <<"rate_limit", "routing">>, <<"sanitize", "billing">>}

\* Whatever else a step reads from the context was written before it began, by
\* steps it often does not depend on: the serial order within a layer is enough.
ContextFresh ==
  \A s \in Names : attempt[s] > 0 =>
    \A w \in ContextReads(s) : phase[w] = "settled" \/ <<s, w>> \in LateReads

\* The template lists the selected knowledge as step 3.8 and the rendering that
\* puts it in the prompt as step 7. Not so: the layers run the rendering first.
KnowledgeBeforeRendering ==
  attempt["template_render"] > 0 => phase["knowledge_selection_injection"] = "settled"

=============================================================================
