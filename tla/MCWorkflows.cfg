CONSTANT NoStep = NoStep
SPECIFICATION Spec
INVARIANTS
  CycleCheckExact
  LayersCorrect
  LazyLayersAgree
  UpstreamGuarded
  ContextFresh
