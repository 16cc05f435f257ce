SPECIFICATION FairSpec
CONSTANTS
    WordMod = 32
    Reach = 8
    NoSymbol = NoSymbol
    NoPin = NoPin
    NoDir = NoDir
    NoFile = NoFile
    Game = Game
    Files <- MCFiles
    Image <- MCImage
    CoreDirs <- MCCoreDirs
    ModsDirs <- MCModsDirs
    GameTitle <- ThisTitle
    Telkin <- MCTelkin
    Lower <- MCLower
    Verdict <- MCVerdict
    FatalHalts = TRUE
    MaxCalls = 2
INVARIANTS
    TypeOK
    ModsDistinct
    HookListsAgree
    OnlyAcceptable
    NothingRefusedWrongly
    PatchedBeforeStart
    StartsInOrder
PROPERTIES
    WriteOnce
    Injects
    Terminates
