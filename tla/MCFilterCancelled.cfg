SPECIFICATION Spec
CONSTANTS
    Symbols     <- MCSymbols
    LeftStates  <- MCLeftStates
    RightStates <- MCRightStates
    Terms       <- MCTerms
    Inputs      <- MCInputs
    Objects     <- MCObjects
    Jobs        <- MCSingleWordFilters
    Lefts       <- MCLefts
    Rights      <- MCRights
INVARIANT NoPartialFilteredChart
\* The thread stops when it has returned.
CHECK_DEADLOCK FALSE
