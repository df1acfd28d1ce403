SPECIFICATION Spec
CONSTANTS
  NSUBEXP = 3
  Alphabet <- MCAlphabet
  Expressions <- MCExpressions
  Patterns <- MCPatterns
  Strings <- MCStrings
  Numbers <- MCNumbers
  UnitFields <- MCUnitFields
  CharTexts <- MCCharTexts
  ByteTexts <- MCByteTexts
  ReadSizes = {1, 2, 3}
  FirstSize = 8
  GrowsBy = 16
  Changes <- MCChanges
  TagTexts <- MCTagTexts
  Entities <- MCEntities
  Wraps = {0, 8}
  NameCounts = {1, 2, 3, 4, 5, 6, 7, 8, 9}
  Elements <- MCElements
  Criteria <- MCCriteria
  Searches <- MCSearches
  NoKey = 0
  NoValue = 9
  Prime = 10007
  KnotLists <- MCKnotLists
  ValueLists <- MCValueLists
  EndKinds <- MCEnds
  EndValues <- MCEndValues
  TwoPi = 6283
  Frequencies <- MCFrequencies
  SymFilters <- MCSymFilters
  RootSets <- MCRootSets
  Channels <- MCChannels
  Options <- MCOptions
  Structures <- MCStructures
  MaxCount = 3
  PhaseLists <- MCPhaseLists
  ListPhases <- MCListPhases
  ListEnds <- MCListEnds
  Requested <- MCRequested
  Described <- MCDescribed
  DescribeOptions <- MCDescribeOptions
  Flags <- MCFlags
  MaxArgs = 3
  MaxResponses = 3
  FreqLists <- MCFreqLists
  Decades <- MCDecades
INVARIANT
  SplineSmooth
CHECK_DEADLOCK FALSE
