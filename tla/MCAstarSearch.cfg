SPECIFICATION Spec
CONSTANTS
  Nodes <- MCNodes
  Infinity <- MCInfinity
  Problems <- MCProblems
  Options <- MCOptions
INVARIANTS
  TypeOK
  AgendaIsCurrent
  NothingForgotten
  OptimalAnswer
  AnswerIsWorthItsScore
PROPERTIES
  NothingWorseIsExpanded
  ImplementsRelaxation
\* The search ends: its thread stops at "done" or "cancelled".
CHECK_DEADLOCK FALSE
