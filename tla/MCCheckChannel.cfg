SPECIFICATION Spec
CONSTANTS
  V = V
  C = C
  Units <- MCUnits
  UNDEF_UNITS = UNDEF_UNITS
  Channels <- MCChannels
INVARIANTS
  StagesStayApart
  StagesComplete
  UnitsContinuous
  DelaysCountedOnce
CHECK_DEADLOCK FALSE
