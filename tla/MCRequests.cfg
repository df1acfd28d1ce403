SPECIFICATION Spec
CONSTANTS
  NULL = NULL
  NSUBEXP = 10
  Alphabet <- MCAlphabet
  CommandLines <- MCCommandLines
  LegacyCalls <- MCLegacyCalls
  Channels <- MCChannels
  Integer = {"1", "3", "1999"}
  Real = {"1", "3", "1999", "1.0", "1.5"}
  Time = {"00", "12:30"}
INVARIANTS
  MatchedAsAsked
  OptionsAsGiven
CHECK_DEADLOCK FALSE
