CONSTANTS
    NRanks <- MCRanks3
    KeptRowSets <- MCKeptRowSets
    VarParams <- MCVarParams
    StoreChoices <- MCStores3
    LocMins <- MCGapLocMins
    LocMaxs <- MCLocMaxs3
    MaxTextWidth <- MCMaxTextWidth
    ColumnWidth <- MCColumnWidth
    NameLen <- MCNameLenFn
    NoCall = NoCall
    Throw = Throw
    Crash = Crash

SPECIFICATION Spec

INVARIANT HeadingsAreSelectedRows
INVARIANT CellsShowTheirLocation
