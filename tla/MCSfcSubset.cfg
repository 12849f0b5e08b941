CONSTANTS
    AssimVars <- MCAssimVars
    OperatorVarChoices <- MCOperatorVarChoices
    RequiredVars <- MCRequiredVars
    NamedValues <- MCNamedValues
    CorrectionTypes <- MCCorrectionTypes
    SimObsWrites <- MCSimObsWrites
    NLocs <- MCNLocs
    Missing = Missing
    Crash = Crash
SPECIFICATION Spec
INVARIANT EachColumnFromItsOperator
