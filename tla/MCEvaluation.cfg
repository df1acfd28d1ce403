SPECIFICATION Spec
CONSTANTS
  MaxCalls = 2
  Cases <- MCCases
INVARIANTS
  ListSurvives
  FreedOnce
  ResultsInPlace
CHECK_DEADLOCK FALSE
