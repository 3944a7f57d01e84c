SPECIFICATION Spec
CONSTANTS
  Nodes <- MCNodes
  Infinity <- MCInfinity
  Problems <- MCCyclic
  MaxTrees = 8
  MaxCount = 7
  StringProblems <- MCStringProblems
  Yields <- MCYields
  MaxLength = 3
  Sentences <- MCSentences
INVARIANT
  AdmissibleForAllLengths
\* A query ends, or MaxTrees trees have been drawn.
CHECK_DEADLOCK FALSE
