CONSTANTS
    NRanks <- MCRanks
    KeptRowSets <- MCKeptRowSets
    VarParams <- MCVarParams
    StoreChoices <- MCUniformStores
    LocMins <- MCLocMins
    LocMaxs <- MCLocMaxs
    MaxTextWidth <- MCMaxTextWidth
    ColumnWidth <- MCColumnWidth
    NameLen <- MCNameLenFn
    NoCall = NoCall
    Throw = Throw
    Crash = Crash

SPECIFICATION Spec

INVARIANT TypeOK
INVARIANT CollectivesMatch
INVARIANT HeadingsAreSelectedRows
INVARIANT CellsShowTheirLocation
INVARIANT PagesFillWidth

