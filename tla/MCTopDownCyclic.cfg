SPECIFICATION Spec
CONSTANTS
    Symbols     <- MCSymbols
    LeftStates  <- MCLeftStates
    RightStates <- MCRightStates
    Terms       <- MCTerms
    Inputs      <- MCInputs
    Objects     <- MCObjects
    Jobs        <- MCAlternatingParses
    Lefts       <- MCLefts
    Rights      <- MCRights
INVARIANT SameDerivations
\* The thread stops when it has returned.
CHECK_DEADLOCK FALSE
