SPECIFICATION Spec
CONSTANTS
    Stacks <- MCStacks
    Sites = {"entry", "again", "plugin"}
    MaxCalls = 2
INVARIANT LaterCallsReturn
