SPECIFICATION Spec
CONSTANTS
    Parse <- MCParse
    Satisfies <- MCSatisfies
    NoVersion = NoVersion
    NoText = NoText
    PrefixSize = 5
    Chars <- MCChars
    Versions <- MCVersions
    Requests <- MCRequests
    Founds <- MCFounds
INVARIANTS WildcardComparesNumbers ComparesAsAsked NonsenseIsReported
CHECK_DEADLOCK FALSE
