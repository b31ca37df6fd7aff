SPECIFICATION Spec
CONSTANTS
  Byte <- MCByte
  Continuation = {"cont"}
  Marker <- MCMarker
  Inputs <- MCInputs
  DocLimit = 5
  PromptLimits <- MCLimits
INVARIANTS
  PromptIsCapped
  PromptIsWhole
CHECK_DEADLOCK FALSE
