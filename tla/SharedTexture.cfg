SPECIFICATION Spec
CONSTANTS
  MaxMapId = 3
  Windows = {1, 2}
  Handles = {"h1", "h2"}
  Types = {"Texture", "Memory"}
  NoHandle = "null"
  Noise = "noise"
INVARIANTS
  FreshWhenTrue
  NoFalseAlarm
PROPERTIES
  ImplementsContract
