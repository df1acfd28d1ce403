SPECIFICATION Spec
CONSTANTS
  A = A
  B = B
  Sncls <- MCSncls
  Worlds <- MCWorlds
INVARIANTS
  WrittenInStep
  FilesChosen
CHECK_DEADLOCK FALSE
