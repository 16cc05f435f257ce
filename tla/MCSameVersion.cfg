SPECIFICATION Spec
CONSTANTS
    Parse <- MCParse
    Satisfies <- MCSatisfies
    NoVersion = NoVersion
    NoText = NoText
    PrefixSize = 256
    Chars <- MCChars
    Versions <- MCVersions
    Requests <- MCRequests
    Founds <- MCFounds
INVARIANT SameVersionSatisfies
CHECK_DEADLOCK FALSE
