SPECIFICATION Spec
CONSTANTS
  Jobs = 3
  Count = 4
INVARIANTS
  TypeOK
  InOnePlace
  FaithfulOutcome
PROPERTY
  Terminates
\* The pool ends: every thread stops.
CHECK_DEADLOCK FALSE
