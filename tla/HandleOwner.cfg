SPECIFICATION Spec
CONSTANTS
  Objects = {o1, o2}
  Handles = {h1, h2, h3, h4}
  Null = Null
SYMMETRY Symmetry
INVARIANTS
  ClosesOwnHandles
  LossesKnown
