---------------------- MODULE WorkflowTemplatesProofs ----------------------
(***************************************************************************)
(* What holds of every workflow that the templates describe, whatever the  *)
(* channel and the capability: the guards come before the upstream, and a  *)
(* step's reads after their writes. The engine's invariants are those of   *)
(* OrchestrationEngineProofs, for the steps of the template.               *)
(***************************************************************************)
EXTENDS WorkflowTemplates, FiniteSetTheorems, TLAPS

Run == INSTANCE OrchestrationEngineProofs
  WITH Step <- Names, OrderIdx <- ListIndex, DependsOn <- WorkflowDeps,
       MaxRetries <- ConfiguredRetries, OnFailure <- WorkflowOnFailure,
       MarksError <- UpstreamSteps, Failover <- {}, Skippable <- WorkflowSkips,
       Sessions <- {TRUE}

\* No list names a step twice: a step's place is its index.
LEMMA Places ==
  /\ Names = {StepList[i] : i \in DOMAIN StepList}
  /\ \A i \in DOMAIN StepList : ListIndex[StepList[i]] = i
<1>1. Names = {StepList[i] : i \in DOMAIN StepList}
  BY DEF Names, ToSet
<1>2. \A i, j \in DOMAIN StepList : StepList[i] = StepList[j] => i = j
  <2>1. CASE StepList = ExternalChat
    BY <2>1 DEF ExternalChat
  <2>2. CASE StepList = ExternalImage
    BY <2>2 DEF ExternalImage
  <2>3. CASE StepList = ExternalEmbeddings
    BY <2>3 DEF ExternalEmbeddings
  <2>4. CASE StepList = InternalChat
    BY <2>4 DEF InternalChat
  <2>5. CASE StepList = InternalEmbeddings
    BY <2>5 DEF InternalEmbeddings
  <2>6. CASE StepList = InternalImage
    BY <2>6 DEF InternalImage
  <2>7. CASE StepList = InternalPreview
    BY <2>7 DEF InternalPreview
  <2> QED
    BY <2>1, <2>2, <2>3, <2>4, <2>5, <2>6, <2>7
    DEF StepList
<1> QED
  BY <1>1, <1>2 DEF ListIndex

\* The names that occur in the lists.
LEMMA AllSteps ==
  ASSUME NEW s \in Names
  PROVE  s \in {"request_adapter", "validation", "signature_verify", "conversation_load",
             "assistant_prompt_injection", "resolve_assets", "mcp_discovery",
             "jit_persona_tool_injection", "semantic_kernel", "knowledge_selection_injection",
             "quota_check", "rate_limit", "routing", "template_render", "agent_executor",
             "provider_execution", "response_transform", "spec_agent_detector",
             "conversation_append", "memory_write", "sanitize", "billing", "audit_log"}
<1>1. CASE StepList = ExternalChat
  BY <1>1, Places DEF ExternalChat
<1>2. CASE StepList = ExternalImage
  BY <1>2, Places DEF ExternalImage
<1>3. CASE StepList = ExternalEmbeddings
  BY <1>3, Places DEF ExternalEmbeddings
<1>4. CASE StepList = InternalChat
  BY <1>4, Places DEF InternalChat
<1>5. CASE StepList = InternalEmbeddings
  BY <1>5, Places DEF InternalEmbeddings
<1>6. CASE StepList = InternalImage
  BY <1>6, Places DEF InternalImage
<1>7. CASE StepList = InternalPreview
  BY <1>7, Places DEF InternalPreview
<1> QED
  BY <1>1, <1>2, <1>3, <1>4, <1>5, <1>6, <1>7
  DEF StepList

\* What each step depends on and reads, once aligned.
LEMMA StepTable ==
  ASSUME NEW s \in Names
  PROVE  /\ s = "request_adapter" =>
              /\ WorkflowDeps[s] = {}
              /\ ContextReads(s) = Names \cap {}
         /\ s = "validation" =>
              /\ WorkflowDeps[s] = {}
              /\ ContextReads(s) = Names \cap {"request_adapter"}
         /\ s = "signature_verify" =>
              /\ WorkflowDeps[s] = {"validation"}
              /\ ContextReads(s) = Names \cap {}
         /\ s = "conversation_load" =>
              /\ WorkflowDeps[s] = {"validation"}
              /\ ContextReads(s) = Names \cap {"validation"}
         /\ s = "assistant_prompt_injection" =>
              /\ WorkflowDeps[s] = {"validation", "conversation_load"}
              /\ ContextReads(s) = Names \cap {"validation", "conversation_load"}
         /\ s = "resolve_assets" =>
              /\ WorkflowDeps[s] = {"validation"}
              /\ ContextReads(s) = Names \cap {"validation", "conversation_load"}
         /\ s = "mcp_discovery" =>
              /\ WorkflowDeps[s] = {"validation"}
              /\ ContextReads(s) = Names \cap {"validation", "conversation_load"}
         /\ s = "jit_persona_tool_injection" =>
              /\ WorkflowDeps[s] = {"validation", "mcp_discovery"}
              /\ ContextReads(s) = Names \cap {"validation", "conversation_load",
                                                 "mcp_discovery"}
         /\ s = "semantic_kernel" =>
              /\ WorkflowDeps[s] = {"validation", "mcp_discovery"}
              /\ ContextReads(s) = Names \cap {"validation", "conversation_load",
                                                 "assistant_prompt_injection",
                                                 "mcp_discovery",
                                                 "jit_persona_tool_injection"}
         /\ s = "knowledge_selection_injection" =>
              /\ WorkflowDeps[s] = {"semantic_kernel"}
              /\ ContextReads(s) = Names \cap {"validation", "conversation_load"}
         /\ s = "quota_check" =>
              /\ WorkflowDeps[s] = {"validation"}
              /\ ContextReads(s) = Names \cap {"validation", "signature_verify",
                                                 "routing"}
         /\ s = "rate_limit" =>
              /\ WorkflowDeps[s] = {"validation"}
              /\ ContextReads(s) = Names \cap {"signature_verify", "routing"}
         /\ s = "routing" =>
              /\ WorkflowDeps[s] = {"validation"}
              /\ ContextReads(s) = Names \cap {"validation", "conversation_load"}
         /\ s = "template_render" =>
              /\ WorkflowDeps[s] = {"assistant_prompt_injection", "routing"} \cap Names
              /\ ContextReads(s) = Names \cap {"validation", "conversation_load",
                                                 "assistant_prompt_injection",
                                                 "resolve_assets", "mcp_discovery",
                                                 "jit_persona_tool_injection",
                                                 "semantic_kernel",
                                                 "knowledge_selection_injection", "routing"}
         /\ s = "agent_executor" =>
              /\ WorkflowDeps[s] = {"template_render"}
              /\ ContextReads(s) = Names \cap {"request_adapter", "validation",
                                                 "assistant_prompt_injection",
                                                 "semantic_kernel", "routing",
                                                 "template_render"}
         /\ s = "provider_execution" =>
              /\ WorkflowDeps[s] = {"routing"}
              /\ ContextReads(s) = Names \cap {"validation", "resolve_assets", "routing"}
         /\ s = "response_transform" =>
              /\ WorkflowDeps[s] = IF "agent_executor" \in Names THEN {"agent_executor"}
                                   ELSE {"provider_execution"}
              /\ ContextReads(s) = Names \cap {"routing", "agent_executor",
                                                 "provider_execution"}
         /\ s = "spec_agent_detector" =>
              /\ WorkflowDeps[s] = {"response_transform"}
              /\ ContextReads(s) = Names \cap {"response_transform"}
         /\ s = "conversation_append" =>
              /\ WorkflowDeps[s] = {"response_transform", "spec_agent_detector"}
              /\ ContextReads(s) = Names \cap {"validation", "conversation_load",
                                                 "assistant_prompt_injection",
                                                 "semantic_kernel", "agent_executor",
                                                 "provider_execution", "response_transform",
                                                 "spec_agent_detector"}
         /\ s = "memory_write" =>
              /\ WorkflowDeps[s] = {"response_transform"}
              /\ ContextReads(s) = Names \cap {"validation", "agent_executor",
                                                 "provider_execution"}
         /\ s = "sanitize" =>
              /\ WorkflowDeps[s] = {"response_transform"}
              /\ ContextReads(s) = Names \cap {"routing", "agent_executor",
                                                 "provider_execution", "response_transform",
                                                 "billing"}
         /\ s = "billing" =>
              /\ WorkflowDeps[s] = {"response_transform"}
              /\ ContextReads(s) = Names \cap {"validation", "quota_check", "routing",
                                                 "agent_executor", "provider_execution",
                                                 "response_transform"}
         /\ s = "audit_log" =>
              /\ WorkflowDeps[s] = {"billing"}
              /\ ContextReads(s) = Names \cap {"validation", "conversation_load",
                                                 "assistant_prompt_injection",
                                                 "semantic_kernel", "routing",
                                                 "agent_executor", "provider_execution",
                                                 "billing"}
<1> USE DEF WorkflowDeps, AlignedDeps, DeclaredDeps, ContextReads, StepClass
<1>1. CASE s = "request_adapter"
  BY <1>1 DEF RequestAdapterStep
<1>2. CASE s = "validation"
  BY <1>2 DEF ValidationStep
<1>3. CASE s = "signature_verify"
  BY <1>3 DEF SignatureVerifyStep
<1>4. CASE s = "conversation_load"
  BY <1>4 DEF ConversationLoadStep
<1>5. CASE s = "assistant_prompt_injection"
  BY <1>5 DEF AssistantPromptInjectionStep
<1>6. CASE s = "resolve_assets"
  BY <1>6 DEF ResolveAssetsStep
<1>7. CASE s = "mcp_discovery"
  BY <1>7 DEF McpDiscoveryStep
<1>8. CASE s = "jit_persona_tool_injection"
  BY <1>8 DEF JitPersonaToolInjectionStep
<1>9. CASE s = "semantic_kernel"
  BY <1>9 DEF SemanticKernelStep
<1>10. CASE s = "knowledge_selection_injection"
  BY <1>10 DEF KnowledgeSelectionInjectionStep
<1>11. CASE s = "quota_check"
  BY <1>11 DEF QuotaCheckStep
<1>12. CASE s = "rate_limit"
  BY <1>12 DEF RateLimitStep
<1>13. CASE s = "routing"
  BY <1>13 DEF RoutingStep
<1>14. CASE s = "template_render"
  BY <1>14 DEF TemplateRenderStep
<1>15. CASE s = "agent_executor"
  BY <1>15 DEF AgentExecutorStep, RequestReads
<1>16. CASE s = "provider_execution"
  BY <1>16 DEF ProviderExecutionStep, HealthReads
<1>17. CASE s = "response_transform"
  BY <1>17 DEF ResponseTransformStep
<1>18. CASE s = "spec_agent_detector"
  BY <1>18 DEF SpecAgentDetectorStep
<1>19. CASE s = "conversation_append"
  BY <1>19 DEF ConversationAppendStep, AppendedReads, PersonaReads, RegenerateReads
<1>20. CASE s = "memory_write"
  BY <1>20 DEF MemoryWriteStep
<1>21. CASE s = "sanitize"
  BY <1>21 DEF SanitizeStep
<1>22. CASE s = "billing"
  BY <1>22 DEF BillingStep, PendingReads, ChargeReads, DeductionReads, UsageReads, SavingsReads
<1>23. CASE s = "audit_log"
  BY <1>23 DEF AuditLogStep
<1> HIDE DEF WorkflowDeps, AlignedDeps, DeclaredDeps, ContextReads, StepClass
<1> QED
  BY <1>1, <1>2, <1>3, <1>4, <1>5, <1>6, <1>7, <1>8, <1>9, <1>10, <1>11, <1>12, <1>13,
     <1>14, <1>15, <1>16, <1>17, <1>18, <1>19, <1>20, <1>21, <1>22, <1>23, AllSteps

\* Every list puts a step after what it depends on, and after what it reads, but for the
\* late reads.
LEMMA WrittenBefore ==
  ASSUME NEW s \in Names
  PROVE  /\ WorkflowDeps[s] \subseteq Names
         /\ \A w \in WorkflowDeps[s] : ListIndex[w] < ListIndex[s]
         /\ \A w \in ContextReads(s) : <<s, w>> \in LateReads \/ ListIndex[w] < ListIndex[s]
<1> USE DEF LateReads
<1>1. CASE StepList = ExternalChat
  BY <1>1, Places, StepTable DEF ExternalChat
<1>2. CASE StepList = ExternalImage
  BY <1>2, Places, StepTable DEF ExternalImage
<1>3. CASE StepList = ExternalEmbeddings
  BY <1>3, Places, StepTable DEF ExternalEmbeddings
<1>4. CASE StepList = InternalChat
  BY <1>4, Places, StepTable DEF InternalChat
<1>5. CASE StepList = InternalEmbeddings
  BY <1>5, Places, StepTable DEF InternalEmbeddings
<1>6. CASE StepList = InternalImage
  BY <1>6, Places, StepTable DEF InternalImage
<1>7. CASE StepList = InternalPreview
  BY <1>7, Places, StepTable DEF InternalPreview
<1> QED
  BY <1>1, <1>2, <1>3, <1>4, <1>5, <1>6, <1>7
  DEF StepList

\* A list has at most 21 places.
LEMMA ListsEnd ==
  /\ DOMAIN StepList \subseteq 1..21
  /\ IsFiniteSet(Names)
  /\ \A s \in Names : ListIndex[s] \in 1..21 /\ StepList[ListIndex[s]] = s
<1>1. DOMAIN StepList \subseteq 1..21
  BY DEF StepList, ExternalChat, ExternalImage, ExternalEmbeddings, InternalChat, InternalEmbeddings,
         InternalImage, InternalPreview
<1>2. \A s \in Names : ListIndex[s] \in 1..21 /\ StepList[ListIndex[s]] = s
  BY <1>1, Places
<1>3. IsFiniteSet(Names)
  <2>1. IsFiniteSet(1..21)
    <3>1. 1 \in Int /\ 21 \in Int
      OBVIOUS
    <3> QED
      BY <3>1, FS_Interval, Zenon
  <2>2. ListIndex \in Injection(Names, 1..21)
    BY <1>2 DEF ListIndex, Injection, IsInjective
  <2> QED
    BY <2>1, <2>2, FS_Injection
<1> QED
  BY <1>1, <1>2, <1>3

\* The least place of a set of steps, found from the front of the list.
LEMMA FirstOfThem ==
  ASSUME NEW T \in SUBSET Names, T # {}
  PROVE  \E s \in T : \A t \in T : ListIndex[s] <= ListIndex[t]
<1> SUFFICES ASSUME \A s \in T : \E t \in T : ListIndex[t] < ListIndex[s]
             PROVE  FALSE
  BY ListsEnd
<1> DEFINE Far(n) == \A s \in T : ListIndex[s] > n
<1>1. \A s \in T : ListIndex[s] \in 1..21
  BY ListsEnd
<1>2. Far(0)
  BY <1>1
<1>3. \A n \in 0..20 : Far(n) => Far(n + 1)
  BY <1>1
<1> HIDE DEF Far
<1>4. Far(5)
  BY <1>2, <1>3
<1>5. Far(10)
  BY <1>3, <1>4
<1>6. Far(15)
  BY <1>3, <1>5
<1>7. Far(21)
  BY <1>3, <1>6
<1> QED
  BY <1>1, <1>7 DEF Far

\* The templates are workflows as the engine's constructor accepts them.
LEMMA TemplateIsValid ==
  ASSUME NoStep \notin Names
  PROVE  Run!StepAssumption /\ Run!AcyclicAssumption
<1>1. IsFiniteSet(Names)
  BY ListsEnd
<1>2. ListIndex \in [Names -> Nat] /\ \A s, t \in Names : ListIndex[s] = ListIndex[t] => s = t
  <2>1. \A s \in Names : ListIndex[s] \in Nat
    BY ListsEnd
  <2>2. ListIndex \in [Names -> Nat]
    BY <2>1 DEF ListIndex
  <2>3. \A s \in Names : StepList[ListIndex[s]] = s
    BY ListsEnd
  <2> QED
    BY <2>2, <2>3
<1>3. WorkflowDeps \in [Names -> SUBSET Names]
  BY WrittenBefore DEF WorkflowDeps
<1>4. ConfiguredRetries \in [Names -> Nat]
  BY DEF ConfiguredRetries
<1>5. WorkflowSkips \subseteq Names
  <2>1. CASE Channel = "external"
    <3>1. "audit_log" \in Names
      BY <2>1, Places DEF StepList, ExternalChat, ExternalImage, ExternalEmbeddings
    <3> QED
      BY <3>1 DEF WorkflowSkips
  <2> QED
    BY <2>1 DEF WorkflowSkips
<1>6. \A s \in Names : \A n \in 1 .. ConfiguredRetries[s] + 1 :
        WorkflowOnFailure(s, n) \subseteq {"retry", "skip", "degrade", "abort"}
  BY DEF WorkflowOnFailure
<1>7. ASSUME NEW T \in SUBSET Names, T # {} PROVE \E s \in T : WorkflowDeps[s] \cap T = {}
  <2>1. PICK s \in T : \A t \in T : ListIndex[s] <= ListIndex[t]
    BY <1>7, FirstOfThem
  <2>2. \A w \in WorkflowDeps[s] : w \notin T
    BY <1>2, <2>1, WrittenBefore
  <2> QED
    BY <2>2
<1>8. Run!StepAssumption
  BY <1>1, <1>2, <1>3, <1>4, <1>5, <1>6
  DEF Run!StepAssumption, Run!FailureAction, Run!IsFiniteSet, IsFiniteSet
<1>9. Run!AcyclicAssumption
  <2>1. \A T \in (SUBSET Names) \ {{}} : \E s \in T : WorkflowDeps[s] \cap T = {}
    BY <1>7
  <2> QED
    BY <2>1, Zenon DEF Run!AcyclicAssumption
<1> QED
  BY <1>8, <1>9

\* Which steps keep company in the lists: an upstream is called in one way, after routing,
\* and what personas and tools need comes with the chat's steps.
LEMMA Company ==
  /\ "template_render" \in Names => "routing" \in Names
  /\ "provider_execution" \in Names => "agent_executor" \notin Names
  /\ "template_render" \in Names => "agent_executor" \in Names
  /\ "semantic_kernel" \in Names \/ "jit_persona_tool_injection" \in Names =>
       /\ "agent_executor" \in Names
       /\ ListIndex["mcp_discovery"] < ListIndex["routing"]
  /\ "conversation_load" \in Names => "agent_executor" \in Names
<1>1. CASE StepList = ExternalChat
  BY <1>1, Places DEF ExternalChat
<1>2. CASE StepList = ExternalImage
  BY <1>2, Places DEF ExternalImage
<1>3. CASE StepList = ExternalEmbeddings
  BY <1>3, Places DEF ExternalEmbeddings
<1>4. CASE StepList = InternalChat
  BY <1>4, Places DEF InternalChat
<1>5. CASE StepList = InternalEmbeddings
  BY <1>5, Places DEF InternalEmbeddings
<1>6. CASE StepList = InternalImage
  BY <1>6, Places DEF InternalImage
<1>7. CASE StepList = InternalPreview
  BY <1>7, Places DEF InternalPreview
<1> QED
  BY <1>1, <1>2, <1>3, <1>4, <1>5, <1>6, <1>7 DEF StepList

-----------------------------------------------------------------------------
\* The checks that guard an upstream call; no template skips or degrades them.
Guards == {"signature_verify", "quota_check", "rate_limit"} \cap Names

GuardsAnswer == \A g \in Guards : g \notin skips /\ status[g] \notin {"skipped", "degraded"}

RunInv ==
  /\ Run!IInv
  /\ Run!BegunInv
  /\ Run!OrderInv
  /\ dbSession
  /\ GuardsAnswer

\* A layer that is over stays so, with all that its steps depend on.
LEMMA Past ==
  ASSUME NoStep \notin Names, RunInv
  PROVE  /\ \A s \in Names : attempt[s] > 0 => s \in released \cup layer
         /\ \A s \in released \cup layer : WorkflowDeps[s] \subseteq released
         /\ \A s \in released : phase[s] = "settled" /\ status[s] \in {"success", "skipped", "degraded"}
         /\ \A s \in released, t \in Names : Run!NotLater(t, s) => t \in released
         /\ \A s \in released, t \in Names : WorkflowDeps[t] \subseteq WorkflowDeps[s] => t \in released
         /\ \A s, t \in Names : attempt[s] > 0 /\ Run!StandsBefore(t, s) => phase[t] = "settled"
         /\ \A s, t \in Names :
              attempt[s] > 0 /\ WorkflowDeps[t] \subseteq WorkflowDeps[s] /\ ListIndex[t] < ListIndex[s]
              => phase[t] = "settled"
<1> USE DEF RunInv
<1>1. \A s \in Names : attempt[s] > 0 => s \in released \cup layer
  BY DEF Run!IInv, Run!LayerInv, Run!CoroutineInv
<1>2. /\ \A s \in released \cup layer : WorkflowDeps[s] \subseteq released
      /\ \A s \in released : phase[s] = "settled" /\ status[s] \in {"success", "skipped", "degraded"}
      /\ released \subseteq Names
  BY DEF Run!IInv, Run!LayerInv, Run!Accepted, Run!TypeOK
<1>3. \A s \in released, t \in Names : Run!NotLater(t, s) => t \in released
  BY <1>2 DEF Run!OrderInv, Run!LayersInOrder
<1>4. \A s, t : WorkflowDeps[t] \subseteq WorkflowDeps[s] => Run!NotLater(t, s)
  BY DEF Run!NotLater
<1>5. \A s, t \in Names : attempt[s] > 0 /\ Run!StandsBefore(t, s) => phase[t] = "settled"
  BY TemplateIsValid, Run!TurnsFromOrder DEF Run!StepsTakeTurns
<1>6. \A s, t : WorkflowDeps[t] \subseteq WorkflowDeps[s] /\ ListIndex[t] < ListIndex[s]
        => Run!StandsBefore(t, s)
  BY DEF Run!StandsBefore
<1> QED
  BY <1>1, <1>2, <1>3, <1>4, <1>5, <1>6

\* What is over once routing, the rendering and the transformation are: all that stands
\* as near to the front, whether they depend on it or not.
LEMMA Over ==
  ASSUME NoStep \notin Names, RunInv
  PROVE  /\ "routing" \in released =>
              Names \cap {"request_adapter", "validation", "conversation_load", "resolve_assets",
                          "mcp_discovery", "signature_verify", "quota_check", "rate_limit"} \subseteq released
         /\ "template_render" \in released =>
              /\ "routing" \in released
              /\ Names \cap {"assistant_prompt_injection", "jit_persona_tool_injection",
                             "semantic_kernel"} \subseteq released
         /\ "response_transform" \in released =>
              /\ "routing" \in released
              /\ Names \cap {"agent_executor", "provider_execution", "assistant_prompt_injection",
                             "semantic_kernel", "template_render"} \subseteq released
<1>1. released \subseteq Names
  BY DEF RunInv, Run!IInv, Run!TypeOK
<1>2. ASSUME "routing" \in released
      PROVE  Names \cap {"request_adapter", "validation", "conversation_load", "resolve_assets",
                         "mcp_discovery", "signature_verify", "quota_check", "rate_limit"} \subseteq released
  <2>1. "validation" \in released
    BY <1>1, <1>2, Past, StepTable
  <2> QED
    BY <1>1, <1>2, <2>1, Past, StepTable
<1>3. ASSUME "template_render" \in released
      PROVE  /\ "routing" \in released
             /\ Names \cap {"assistant_prompt_injection", "jit_persona_tool_injection",
                            "semantic_kernel"} \subseteq released
  <2>1. "template_render" \in Names /\ "routing" \in Names
        /\ WorkflowDeps["template_render"] = {"assistant_prompt_injection", "routing"} \cap Names
        /\ WorkflowDeps["routing"] = {"validation"}
    BY <1>1, <1>3, Company, StepTable
  <2>2. "routing" \in released /\ Names \cap {"assistant_prompt_injection"} \subseteq released
    BY <1>3, <2>1, Past
  <2>3. ASSUME NEW t \in Names \cap {"jit_persona_tool_injection", "semantic_kernel"}
        PROVE  t \in released
    <3>1. WorkflowDeps[t] = {"validation", "mcp_discovery"}
      BY StepTable
    <3>2. "validation" \in Names /\ "mcp_discovery" \in Names
      BY <3>1, WrittenBefore
    <3>3. WorkflowDeps["validation"] = {} /\ WorkflowDeps["mcp_discovery"] = {"validation"}
      BY <3>2, StepTable
    <3>4. Run!NotLater(t, "template_render")
      BY <2>1, <3>1, <3>3 DEF Run!NotLater
    <3> QED
      BY <1>3, <3>4, Past
  <2> QED
    BY <2>2, <2>3
<1>4. ASSUME "response_transform" \in released
      PROVE  /\ "routing" \in released
             /\ Names \cap {"agent_executor", "provider_execution", "assistant_prompt_injection",
                            "semantic_kernel", "template_render"} \subseteq released
  <2>1. "response_transform" \in Names
    BY <1>1, <1>4
  <2>2. CASE "agent_executor" \in Names
    <3>1. "agent_executor" \in released /\ "provider_execution" \notin Names
      BY <1>4, <2>1, <2>2, Company, Past, StepTable
    <3>2. "template_render" \in released
      BY <2>2, <3>1, Past, StepTable
    <3> QED
      BY <1>3, <3>1, <3>2
  <2>3. CASE "agent_executor" \notin Names
    <3>1. "provider_execution" \in released
      BY <1>4, <2>1, <2>3, Past, StepTable
    <3>2. "routing" \in released
      BY <1>1, <3>1, Past, StepTable
    <3>3. "semantic_kernel" \notin Names /\ "assistant_prompt_injection" \notin Names
          /\ "template_render" \notin Names
      <4>1. "assistant_prompt_injection" \in Names => "conversation_load" \in Names
        BY StepTable, WrittenBefore
      <4> QED
        BY <2>3, <4>1, Company
    <3> QED
      BY <2>3, <3>1, <3>2, <3>3
  <2> QED
    BY <2>2, <2>3
<1> QED
  BY <1>2, <1>3, <1>4

\* So when an upstream is called, the guards are over and have let the request pass.
LEMMA GuardsCome ==
  ASSUME NoStep \notin Names, RunInv
  PROVE  UpstreamGuarded
<1> SUFFICES ASSUME NEW u \in UpstreamSteps, attempt[u] > 0, NEW g \in Guards
             PROVE  status[g] = "success"
  BY DEF UpstreamGuarded, Guards
<1>1. u \in Names /\ g \in Names
  BY DEF UpstreamSteps, Guards
<1>2. "routing" \in released
  <2>1. CASE u = "agent_executor"
    BY <1>1, <2>1, Past, Over, StepTable
  <2>2. CASE u = "provider_execution"
    BY <1>1, <2>2, Past, StepTable
  <2> QED
    BY <2>1, <2>2 DEF UpstreamSteps
<1>3. g \in released
  BY <1>1, <1>2, Over DEF Guards
<1>4. status[g] \in {"success", "skipped", "degraded"}
  BY <1>3, Past
<1> QED
  BY <1>4 DEF RunInv, GuardsAnswer

\* What a step reads was written before it began: by a layer that is over, or by a step
\* that stands before it in its own.
LEMMA ReadsAreOver ==
  ASSUME NoStep \notin Names, RunInv, NEW s \in Names, attempt[s] > 0,
         NEW w \in ContextReads(s), <<s, w>> \notin LateReads
  PROVE  phase[w] = "settled"
<1>1. /\ w \in Names /\ ListIndex[w] < ListIndex[s]
      /\ s \in released \cup layer
      /\ WorkflowDeps[s] \subseteq released
      /\ released \subseteq Names
      /\ w \in released => phase[w] = "settled"
  BY Past, WrittenBefore DEF ContextReads, RunInv, Run!IInv, Run!TypeOK
<1>2. WorkflowDeps[w] \subseteq WorkflowDeps[s] => phase[w] = "settled"
  BY <1>1, Past
<1>3. "validation" \in Names => WorkflowDeps["validation"] = {}
  BY StepTable
<1>4. CASE s \in {"request_adapter", "validation", "signature_verify", "conversation_load", "resolve_assets",
                 "mcp_discovery", "rate_limit", "routing", "quota_check"}
  BY <1>1, <1>2, <1>4, StepTable DEF LateReads
<1>5. CASE s \in {"assistant_prompt_injection"}
  BY <1>1, <1>2, <1>5, StepTable DEF LateReads
<1>6. CASE s \in {"jit_persona_tool_injection", "semantic_kernel"}
  <2>1. WorkflowDeps[s] = {"validation", "mcp_discovery"}
    BY <1>6, StepTable
  <2>2. "mcp_discovery" \in released /\ "validation" \in released
    BY <1>1, <2>1
  <2>3. WorkflowDeps["mcp_discovery"] = {"validation"}
    BY <1>1, <2>2, StepTable
  <2>4. CASE w \in {"validation", "mcp_discovery"}
    BY <1>1, <2>2, <2>4
  <2>5. CASE w = "conversation_load"
    BY <1>1, <2>2, <2>3, <2>5, Past, StepTable
  <2>6. CASE w = "jit_persona_tool_injection"
    BY <1>1, <1>2, <2>1, <2>6, StepTable
  <2>7. CASE w = "assistant_prompt_injection"
    <3>1. /\ WorkflowDeps[w] = {"validation", "conversation_load"}
          /\ "conversation_load" \in Names
      BY <1>1, <2>7, StepTable, WrittenBefore
    <3>2. WorkflowDeps["conversation_load"] = {"validation"}
      BY <3>1, StepTable
    <3>3. ListIndex["conversation_load"] < ListIndex["mcp_discovery"]
      <4>1. "conversation_load" \in ContextReads("mcp_discovery")
        BY <1>1, <2>2, <3>1, StepTable
      <4> QED
        BY <1>1, <2>2, <4>1, WrittenBefore DEF LateReads
    <3>4. Run!StandsBefore(w, s)
      BY <1>1, <2>1, <2>3, <3>1, <3>2, <3>3 DEF Run!StandsBefore
    <3> QED
      BY <1>1, <3>4, Past
  <2> QED
    BY <1>1, <1>6, <2>4, <2>5, <2>6, <2>7, StepTable
<1>7. CASE s = "knowledge_selection_injection"
  <2>1. "semantic_kernel" \in released
    BY <1>1, <1>7, StepTable
  <2>2. "validation" \in released /\ "mcp_discovery" \in released
    BY <1>1, <2>1, Past, StepTable
  <2> QED
    BY <1>1, <1>7, <2>2, Past, StepTable
<1>8. CASE s = "template_render"
  <2>1. /\ "routing" \in Names
        /\ WorkflowDeps[s] = {"assistant_prompt_injection", "routing"} \cap Names
        /\ WorkflowDeps["routing"] = {"validation"}
    BY <1>8, Company, StepTable
  <2>2. "routing" \in released
    BY <1>1, <2>1
  <2>3. CASE w \in {"validation", "conversation_load", "resolve_assets", "mcp_discovery", "routing"}
    BY <1>1, <2>2, <2>3, Over
  <2>4. CASE w = "assistant_prompt_injection"
    BY <1>1, <2>1, <2>4
  <2>5. CASE w \in {"jit_persona_tool_injection", "semantic_kernel"}
    <3>1. WorkflowDeps[w] = {"validation", "mcp_discovery"}
      BY <1>1, <2>5, StepTable
    <3>2. "validation" \in Names /\ "mcp_discovery" \in Names
      BY <1>1, <3>1, WrittenBefore
    <3>3. WorkflowDeps["mcp_discovery"] = {"validation"}
      BY <3>2, StepTable
    <3>4. ListIndex["mcp_discovery"] < ListIndex["routing"]
      BY <1>1, <2>5, Company
    <3>5. ListIndex["validation"] < ListIndex["routing"]
      BY <2>1, WrittenBefore
    <3>6. Run!StandsBefore(w, s)
      BY <1>1, <1>3, <2>1, <3>1, <3>2, <3>3, <3>4, <3>5 DEF Run!StandsBefore
    <3> QED
      BY <1>1, <3>6, Past
  <2> QED
    BY <1>1, <1>8, <2>3, <2>4, <2>5, StepTable DEF LateReads
<1>9. CASE s = "agent_executor"
  <2>1. "template_render" \in released
    BY <1>1, <1>9, StepTable
  <2> QED
    BY <1>1, <1>9, <2>1, Over, StepTable
<1>10. CASE s = "provider_execution"
  <2>1. "routing" \in released
    BY <1>1, <1>10, StepTable
  <2> QED
    BY <1>1, <1>10, <2>1, Over, StepTable
<1>11. CASE s = "response_transform"
  <2>1. WorkflowDeps[s] = IF "agent_executor" \in Names THEN {"agent_executor"} ELSE {"provider_execution"}
    BY <1>11, StepTable
  <2>2. CASE "agent_executor" \in Names
    <3>1. "agent_executor" \in released /\ "provider_execution" \notin Names
      BY <1>1, <2>1, <2>2, Company
    <3>2. "template_render" \in released
      BY <2>2, <3>1, Past, StepTable
    <3> QED
      BY <1>1, <1>11, <3>1, <3>2, Over, StepTable
  <2>3. CASE "agent_executor" \notin Names
    <3>1. "provider_execution" \in released
      BY <1>1, <2>1, <2>3
    <3>2. "routing" \in released
      BY <1>1, <3>1, Past, StepTable
    <3> QED
      BY <1>1, <1>11, <2>3, <3>1, <3>2, StepTable
  <2> QED
    BY <2>2, <2>3
<1>12. ASSUME "response_transform" \in released
       PROVE  w \in {"validation", "conversation_load", "quota_check", "routing", "agent_executor",
                    "provider_execution", "assistant_prompt_injection", "semantic_kernel",
                    "response_transform"} => phase[w] = "settled"
  <2>1. /\ "routing" \in released
        /\ Names \cap {"agent_executor", "provider_execution", "assistant_prompt_injection",
                       "semantic_kernel", "template_render"} \subseteq released
    BY <1>12, Over
  <2>2. Names \cap {"validation", "conversation_load", "quota_check"} \subseteq released
    BY <2>1, Over
  <2> QED
    BY <1>1, <1>12, <2>1, <2>2
<1>13. CASE s \in {"spec_agent_detector", "conversation_append", "memory_write", "sanitize", "billing"}
  BY <1>1, <1>12, <1>13, StepTable DEF LateReads
<1>14. CASE s = "audit_log"
  <2>1. "billing" \in released
    BY <1>1, <1>14, StepTable
  <2>2. "response_transform" \in released
    BY <1>1, <2>1, Past, StepTable
  <2> QED
    BY <1>1, <1>12, <1>14, <2>1, <2>2, StepTable
<1> QED
  BY <1>4, <1>5, <1>6, <1>7, <1>8, <1>9, <1>10, <1>11, <1>13, <1>14, AllSteps

\* Whatever else a step reads was written before it began, in every workflow.
LEMMA ReadsAreFresh ==
  ASSUME NoStep \notin Names, RunInv
  PROVE  ContextFresh
  BY ReadsAreOver DEF ContextFresh

-----------------------------------------------------------------------------
\* on_failure of a guard aborts, and should_skip leaves none out.
LEMMA GuardsKeepAnswering ==
  ASSUME NoStep \notin Names, RunInv, [Run!Next]_(Run!vars)
  PROVE  GuardsAnswer'
<1> USE DEF RunInv
<1>1. skips' = skips
  BY DEF Run!Next, Run!EngineAction, Run!StartLayer, Run!Complete, Run!AbortLayer,
         Run!PropagateException, Run!Finished, Run!StepAction, Run!StartStep, Run!ResumeStep,
         Run!StepReturns, Run!StepRetries, Run!StepSkips, Run!StepDegrades, Run!StepAborts,
         Run!Settle, Run!vars
<1>2. /\ status \in [Names -> Run!Status] /\ Guards \subseteq Names
      /\ \A g \in Guards : g \notin skips /\ status[g] \notin {"skipped", "degraded"}
  BY DEF Run!IInv, Run!TypeOK, Guards, GuardsAnswer
<1> SUFFICES ASSUME NEW g \in Guards
             PROVE  status'[g] \notin {"skipped", "degraded"}
  BY <1>1, <1>2 DEF GuardsAnswer
<1>3. \A n : "skip" \notin WorkflowOnFailure(g, n) /\ "degrade" \notin WorkflowOnFailure(g, n)
  BY DEF WorkflowOnFailure, Guards
<1>4. CASE Run!StartLayer
  BY <1>2, <1>4 DEF Run!StartLayer
<1>5. ASSUME NEW s \in Names, Run!StepAction(s)
      PROVE  status'[g] \notin {"skipped", "degraded"}
  <2>1. CASE Run!StartStep(s) \/ Run!ResumeStep(s) \/ Run!StepRetries(s)
    BY <1>2, <2>1 DEF Run!StartStep, Run!ResumeStep, Run!StepRetries
  <2>2. CASE Run!StepReturns(s)
    BY <1>2, <2>2 DEF Run!StepReturns, Run!Settle
  <2>3. CASE Run!StepAborts(s)
    BY <1>2, <2>3 DEF Run!StepAborts
  <2>4. CASE Run!StepSkips(s) \/ Run!StepDegrades(s)
    <3>1. s # g
      BY <1>3, <2>4 DEF Run!StepSkips, Run!StepDegrades, Run!Fails
    <3> QED
      BY <1>2, <2>4, <3>1 DEF Run!StepSkips, Run!StepDegrades, Run!Settle
  <2> QED
    BY <1>5, <2>1, <2>2, <2>3, <2>4 DEF Run!StepAction
<1>6. CASE Run!Complete \/ Run!AbortLayer \/ Run!PropagateException \/ UNCHANGED Run!vars
  BY <1>2, <1>6 DEF Run!Complete, Run!AbortLayer, Run!PropagateException, Run!vars, Run!stepVars
<1> QED
  BY <1>4, <1>5, <1>6 DEF Run!Next, Run!EngineAction, Run!Finished

\* The inductive invariant of a workflow's run: the engine's, with the order of its steps,
\* and what the guards answer.
LEMMA RunInitially ==
  ASSUME NoStep \notin Names, Run!Init
  PROVE  RunInv
<1>1. Run!IInv /\ Run!BegunInv /\ Run!OrderInv
  BY TemplateIsValid, Run!InvInitially, Run!OrderInitially
<1>2. dbSession
  BY DEF Run!Init
<1>3. GuardsAnswer
  BY DEF Run!Init, GuardsAnswer, Guards, WorkflowSkips
<1> QED
  BY <1>1, <1>2, <1>3 DEF RunInv

LEMMA RunInductive ==
  ASSUME NoStep \notin Names, RunInv, [Run!Next]_(Run!vars)
  PROVE  RunInv'
<1> USE DEF RunInv
<1>1. Run!IInv'
  BY TemplateIsValid, Run!InvInductive
<1>2. Run!BegunInv'
  BY TemplateIsValid, Run!BegunInductive
<1>3. Run!OrderInv'
  BY TemplateIsValid, Run!OrderInductive
<1>4. dbSession'
  BY DEF Run!Next, Run!EngineAction, Run!StartLayer, Run!Complete, Run!AbortLayer,
         Run!PropagateException, Run!Finished, Run!StepAction, Run!StartStep, Run!ResumeStep,
         Run!StepReturns, Run!StepRetries, Run!StepSkips, Run!StepDegrades, Run!StepAborts,
         Run!Settle, Run!vars
<1>5. GuardsAnswer'
  BY GuardsKeepAnswering
<1> QED
  BY <1>1, <1>2, <1>3, <1>4, <1>5

\* The run that the proofs reason about is the one that the template's engine makes.
LEMMA SameInit == Engine!Init => Run!Init
  BY DEF Engine!Init, Run!Init

LEMMA SameSteps == [Engine!Next]_(Engine!vars) => [Run!Next]_(Run!vars)
<1>1. UNCHANGED Engine!vars => UNCHANGED Run!vars
  BY DEF Engine!vars, Run!vars, Engine!engineVars, Run!engineVars, Engine!stepVars, Run!stepVars
<1>2. Engine!EngineAction => Run!EngineAction
  BY DEF Engine!EngineAction, Run!EngineAction, Engine!StartLayer, Run!StartLayer, Engine!Complete,
         Run!Complete, Engine!AbortLayer, Run!AbortLayer, Engine!PropagateException,
         Run!PropagateException, Engine!NextLayer, Run!NextLayer, Engine!ReadySteps, Run!ReadySteps,
         Engine!ReleasedBefore, Run!ReleasedBefore, Engine!ReleasedEarlier, Run!ReleasedEarlier,
         Engine!LayerPassed, Run!LayerPassed, Engine!Cardinality, Run!Cardinality, Engine!stepVars,
         Run!stepVars
<1>3. \A s \in Names : Engine!StepAction(s) => Run!StepAction(s)
  BY DEF Engine!StepAction, Run!StepAction, Engine!StartStep, Run!StartStep, Engine!ResumeStep,
         Run!ResumeStep, Engine!StepReturns, Run!StepReturns, Engine!StepRetries, Run!StepRetries,
         Engine!StepSkips, Run!StepSkips, Engine!StepDegrades, Run!StepDegrades, Engine!StepAborts,
         Run!StepAborts, Engine!MayStart, Run!MayStart, Engine!engineVars, Run!engineVars,
         Engine!Settle, Run!Settle, Engine!Fails, Run!Fails, Engine!ErrorAfterRaise,
         Run!ErrorAfterRaise, Engine!CanRetry, Run!CanRetry
<1>4. Engine!Next => Run!Next \/ UNCHANGED Engine!vars
  BY <1>2, <1>3 DEF Engine!Next, Run!Next, Engine!Finished
<1> QED
  BY <1>1, <1>4

\* Whatever the channel and the capability: no upstream is called before the signature,
\* the quota and the rate limit it checks have been checked and passed
\* (GatewayOrchestrator.execute on the templates of workflow_config).
THEOREM UpstreamIsGuarded ==
  ASSUME NoStep \notin Names
  PROVE  Spec => []UpstreamGuarded
<1>1. Engine!Init => RunInv
  BY SameInit, RunInitially
<1>2. RunInv /\ [Engine!Next]_(Engine!vars) => RunInv'
  BY SameSteps, RunInductive
<1>3. RunInv => UpstreamGuarded
  BY GuardsCome
<1> QED
  BY <1>1, <1>2, <1>3, PTL DEF Spec, Engine!Spec

\* Whatever the channel and the capability: but for the four late reads, what a step reads
\* from the context was written before it began, by steps it need not depend on.
THEOREM ContextIsFresh ==
  ASSUME NoStep \notin Names
  PROVE  Spec => []ContextFresh
<1>1. Engine!Init => RunInv
  BY SameInit, RunInitially
<1>2. RunInv /\ [Engine!Next]_(Engine!vars) => RunInv'
  BY SameSteps, RunInductive
<1>3. RunInv => ContextFresh
  BY ReadsAreFresh
<1> QED
  BY <1>1, <1>2, <1>3, PTL DEF Spec, Engine!Spec

=============================================================================
