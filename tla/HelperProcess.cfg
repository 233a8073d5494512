SPECIFICATION FairSpec
CONSTANTS
  Callers = {"c1", "c2"}
  Injectors = {"c1"}
  Parents = {"c1"}
  Chunks = 2
  Capacity = 1
INVARIANTS
  WholeOutput
  NothingLeaked
PROPERTIES
  CallReturns
  HelperEnds
CHECK_DEADLOCK FALSE
