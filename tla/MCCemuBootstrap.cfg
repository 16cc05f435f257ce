SPECIFICATION Spec
CONSTANTS
    Stacks <- MCStacks
    Sites = {"entry", "again", "plugin"}
    MaxCalls = 2
INVARIANTS TypeOK InitOnce ReturnsBalanced
