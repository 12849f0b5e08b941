CONSTANTS
    NRanks <- MCRanks
    KeptRowSets <- MCKeptRowSets
    VarParams <- MCVarParams
    StoreChoices <- MCUniformStores
    LocMins <- MCBadLocMins
    LocMaxs <- MCBadLocMaxs
    MaxTextWidth <- MCMaxTextWidth
    ColumnWidth <- MCColumnWidth
    NameLen <- MCNameLenFn
    NoCall = NoCall
    Throw = Throw
    Crash = Crash

SPECIFICATION Spec


INVARIANT RangeErrorBeforeAnyGather
