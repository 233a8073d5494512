SPECIFICATION Spec
CONSTANTS
  CaptureTypes = {"Texture", "Memory"}
  HookFaults = TRUE
  Phases = 1
  Polls = 1
  WindowOwners = {"target"}
  Responsive = FALSE
INVARIANTS
  ReadyMeansReinit
