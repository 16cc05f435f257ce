SPECIFICATION NamesSpec
CONSTANTS
    MaxApps = 3
    FatalHalts = FALSE
    Limit = 3
    Names <- MCNames
INVARIANTS
    LayersOwned
    NothingOutlivesApplication
    InitEachApplication
    FindsItsFile
