SPECIFICATION Spec
CONSTANTS
  Symbols <- MCSymbols
  LeftStates <- MCLeftStates
  RightStates <- MCRightStates
  Lefts <- MCLefts
  Rights <- MCRights
INVARIANTS
  TypeOK
  NoDuplicateRule
  WellFounded
  ChartComplete
PROPERTY
  ImplementsProductClosure
\* The algorithm ends: its thread stops at "done" or "cancelled".
CHECK_DEADLOCK FALSE
