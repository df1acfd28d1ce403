SPECIFICATION Spec
CONSTANTS
  A = A
  B = B
  Sncls <- MCSncls
  Open = Open
  NoTime = NoTime
  IntMax = 7
  Files <- AllFiles
  Filters <- MCFilters
INVARIANTS
  Ownership
  NoLeak
  BestSelected
PROPERTIES
  ImplementsSelection
CHECK_DEADLOCK FALSE
