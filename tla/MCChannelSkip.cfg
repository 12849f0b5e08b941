CONSTANTS
    NRanks <- MCRanks
    KeptRowSets <- MCKeptRowSets
    VarParams <- MCVarParams
    StoreChoices <- MCSkewedStores
    LocMins <- MCLocMins
    LocMaxs <- MCLocMaxs
    MaxTextWidth <- MCMaxTextWidth
    ColumnWidth <- MCColumnWidth
    NameLen <- MCNameLenFn
    NoCall = NoCall
    Throw = Throw
    Crash = Crash

SPECIFICATION Spec


INVARIANT CollectivesMatch
