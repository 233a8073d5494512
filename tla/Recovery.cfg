SPECIFICATION Spec
CONSTANTS
  CaptureTypes = {"Texture", "Memory"}
  HookFaults = FALSE
  Phases = 1
  Polls = 1
  WindowOwners = {"target"}
  Responsive = TRUE
INVARIANTS
  NeverTimesOut
