SPECIFICATION HookedSpec
CONSTANTS
    WordMod = 256
    Reach = 32
    NoSymbol = NoSymbol
    NoPin = NoPin
    NoHook = NoHook
    Hooks <- MCHooks
    SmallHooks <- MCSmallHooks
    MaxHooks = 3
    MaxAddr = 4
    MaxCount = 3
INVARIANTS
    ScanComplete
    HooksStay
    ReachesTarget
    RefusedForGood
