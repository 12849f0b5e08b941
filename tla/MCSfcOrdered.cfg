CONSTANTS
    AssimVars <- MCAssimVars4
    OperatorVarChoices <- MCOperatorVarChoices4
    RequiredVars <- MCRequiredVars
    NamedValues <- MCNamedValues
    CorrectionTypes <- MCCorrectionTypes
    SimObsWrites <- MCSimObsWrites
    NLocs <- MCNLocs
    Missing = Missing
    Crash = Crash
SPECIFICATION Spec
INVARIANT PrefixColumnsFromTheirOperators
