CONSTANTS
    Candidates <- MCCandidates
    MaxConfigured = 3
    InFile <- MCInFile
    Supplied <- MCSupplied
SPECIFICATION Spec
INVARIANT ProvidableVariablesShown
CHECK_DEADLOCK FALSE
