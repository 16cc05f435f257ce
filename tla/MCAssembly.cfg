SPECIFICATION MCSpec
CONSTANTS
    Jobs <- MCJobs
    MaxDepth = 3
INVARIANTS
    DecodesToItself
    ConditionalsAsNamed
    ShorthandsAsNamed
    RegistersSurvive
    ReturnsToCaller
