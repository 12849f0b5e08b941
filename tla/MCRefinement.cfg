CONSTANTS
    NRanks <- MCRanks
    KeptRowSets <- MCRefKeptRowSets
    VarParams <- MCVarParams
    StoreChoices <- MCRefStores
    LocMins <- MCRefLocMins
    LocMaxs <- MCRefLocMaxs
    MaxTextWidth <- MCRefMaxTextWidth
    ColumnWidth <- MCColumnWidth
    NameLen <- MCNameLenFn
    NoCall = NoCall
    Throw = Throw
    Crash = Crash

SPECIFICATION Spec


PROPERTY Refinement
