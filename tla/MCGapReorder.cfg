CONSTANTS
    NRanks <- MCRanks
    KeptRowSets <- MCGapKeptRowSets
    VarParams <- MCVarParams
    StoreChoices <- MCUniformStores
    LocMins <- MCGapLocMins
    LocMaxs <- MCGapLocMaxs
    MaxTextWidth <- MCMaxTextWidth
    ColumnWidth <- MCColumnWidth
    NameLen <- MCNameLenFn
    NoCall = NoCall
    Throw = Throw
    Crash = Crash

SPECIFICATION Spec


INVARIANT CellsShowTheirLocation
