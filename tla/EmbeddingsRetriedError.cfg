CONSTANTS
  Channel = "internal"
  Capability = "embedding"
  NoStep = NoStep
SPECIFICATION Spec
INVARIANT SuccessLeavesNoError
