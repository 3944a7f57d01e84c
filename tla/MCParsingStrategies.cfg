SPECIFICATION Spec
CONSTANTS
    Symbols     <- MCSymbols
    LeftStates  <- MCLeftStates
    RightStates <- MCRightStates
    Terms       <- MCTerms
    Inputs      <- MCInputs
    Objects     <- MCObjects
    Jobs        <- MCJobs
    Lefts       <- MCLefts
    Rights      <- MCRights
INVARIANTS TypeOK NoDuplicateRule PartnersAreProducts ItemsAreExact DecompositionIsExact
PROPERTIES UsedPartnersAreFinal ImplementsProductClosure
\* The thread stops when it has returned.
CHECK_DEADLOCK FALSE
