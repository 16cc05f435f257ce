SPECIFICATION Spec
CONSTANTS
    l1 = l1
    l2 = l2
    branch = branch
    patch = patch
    pointer = pointer
    NoCopy = NoCopy
    Lines <- MCLines
    Hooks <- MCHooks
    CodeHooks <- MCCodeHooks
    LinesOf <- MCLinesOf
INVARIANTS
    FetchCoherent
    DataCoherent
