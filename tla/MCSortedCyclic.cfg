SPECIFICATION Spec
CONSTANTS
  Nodes <- MCNodes
  Infinity <- MCInfinity
  Problems <- MCCyclic
  MaxTrees = 8
  MaxCount = 7
  StringProblems = {}
  Yields <- MCYields
  MaxLength = 3
  Sentences <- MCSentences
INVARIANT
  DescendingOrder
\* A query ends, or MaxTrees trees have been drawn.
CHECK_DEADLOCK FALSE
