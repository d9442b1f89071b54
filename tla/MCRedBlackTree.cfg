CONSTANTS
  N = 8
  Nil = 0
  Node <- MCNode
  Key <- MCKey
  Wanted <- MCWanted
SPECIFICATION Spec
INVARIANTS RedBlack SearchesExact
PROPERTIES ScanComplete RebalancingEnds ImplementsSet
CHECK_DEADLOCK FALSE
