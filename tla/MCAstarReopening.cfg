SPECIFICATION Spec
CONSTANTS
  Nodes <- MCNodes
  Infinity <- MCInfinity
  Problems <- MCProblems
  Options <- MCOptions
INVARIANT
  NoDuplicateRule
\* The search ends: its thread stops at "done" or "cancelled".
CHECK_DEADLOCK FALSE
