SPECIFICATION Spec
CONSTANTS
  Nodes <- MCNodes
  Infinity <- MCInfinity
  Problems <- MCProblems
  MaxTrees = 8
  MaxCount = 7
  StringProblems <- MCStringProblems
  Yields <- MCYields
  MaxLength = 3
  Sentences <- MCSentences
INVARIANTS
  TypeOK
  ScoresAreFinal
  AnswerIsWorthItsScore
  NoDerivationTwice
  AcyclicDescendingOrder
  NothingMissed
  KeepsUsefulRules
  CardinalityIsExact
  EachDerivationOnce
  EstimatesAreSafe
  ScoresAreOptimal
  StringEstimatesAreSafe
PROPERTIES
  FinalScoresStay
  QueriesEnd
\* A query ends, or MaxTrees trees have been drawn.
CHECK_DEADLOCK FALSE
