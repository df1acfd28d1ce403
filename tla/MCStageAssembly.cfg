SPECIFICATION Spec
CONSTANTS
  SeqNos <- MCSeqNos
  Texts <- MCTexts
INVARIANTS
  ListKept
  UnitsOwned
CHECK_DEADLOCK FALSE
