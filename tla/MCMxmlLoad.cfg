SPECIFICATION LoadSpec
CONSTANTS
  Node = {n1, n2, n3, n4, n5, n6, n7, n8, n9, n10, n11, n12, n13, n14, n15, n16, n17, n18, n19, n20, n21}
  NULL = NULL
  MaxRefs = 1
  Trees <- MCTrees
  Documents <- MCDocuments
  Harms <- MCHarms
INVARIANTS
  LoadedAsWritten
  HarmRefused
  DocumentFreed
CHECK_DEADLOCK FALSE
