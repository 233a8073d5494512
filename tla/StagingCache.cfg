SPECIFICATION Spec
CONSTANTS
  MaxLength = 3
  Formats = {"bgra", "array"}
  Unqueryable = {"array"}
  UintSize = 8
INVARIANTS
  CopyTargetUnmapped
  SurfaceToMap
  DeliversWhatWasAsked
