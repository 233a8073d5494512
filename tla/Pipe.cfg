SPECIFICATION FairSpec
CONSTANTS
  Messages = {"text", "long", "empty"}
  Capacity = 2
  EarlyConnect = TRUE
  Reuse = TRUE
INVARIANTS
  NeverWaitsInVain
  AtMostOneStray
PROPERTIES
  DestructorReturns
  WriterNotBlocked
