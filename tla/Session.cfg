SPECIFICATION FairSpec
CONSTANTS
  CaptureTypes = {"Texture", "Memory"}
  HookFaults = TRUE
  Phases = 2
  Polls = 1
  WindowOwners = {"target", "other"}
  Responsive = FALSE
INVARIANTS
  TypeOK
  KeepaliveGuardsSession
  NothingOverwritten
  AttachedSessionIsWhole
  NoOwnRestartLeft
  OverlayInEffect
PROPERTIES
  CallReturns
  ShutdownIdlesHook
  ImplementsSession
