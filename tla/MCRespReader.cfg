SPECIFICATION Spec
CONSTANTS
  Sources <- MCSources
  Harms <- MCHarms
INVARIANTS
  WholeTextRead
  HarmContained
  LinesInOrder
PROPERTIES
  Termination
CHECK_DEADLOCK FALSE
