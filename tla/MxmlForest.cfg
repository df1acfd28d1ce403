SPECIFICATION Spec
CONSTANTS
  Node = {n1, n2, n3, n4}
  NULL = NULL
  MaxRefs = 2
INVARIANTS
  TreeSound
  WalkedAndWritten
PROPERTIES
  ImplementsForest
  DeleteEnds
CHECK_DEADLOCK FALSE
