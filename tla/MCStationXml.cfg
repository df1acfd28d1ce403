SPECIFICATION SpecInput
CONSTANTS
  Sources = {}
  Harms = {}
  Inputs <- MCInputs
INVARIANTS
  FilesClosedOnce
  ConvertedIsRead
PROPERTY
  DefectRefused
CHECK_DEADLOCK FALSE
