CONSTANTS
    NRanks <- MCRanks
    KeptRowSets <- MCDefaultKeptRowSets
    VarParams <- MCVarParams
    StoreChoices <- MCUniformStores
    LocMins <- MCDefaultLocMins
    LocMaxs <- MCDefaultLocMaxs
    MaxTextWidth <- MCMaxTextWidth
    ColumnWidth <- MCColumnWidth
    NameLen <- MCNameLenFn
    NoCall = NoCall
    Throw = Throw
    Crash = Crash

SPECIFICATION Spec


CONSTRAINT AllApplied
INVARIANT DefaultWindowShowsAllRows
