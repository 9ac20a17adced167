SPECIFICATION Spec
CONSTANTS
    Values <- MCValues
    Kind <- MCKind
    Number <- MCNumber
    NaN = NaN
    Printed <- MCPrinted
    Literals <- MCLiterals
    Formats = {"json", "yaml"}
    Decoded <- MCDecoded
    Groups <- MCGroups
    NoGroup = NoGroup
    Written <- MCWritten
    Inside <- MCInside
    Functions = {"${uuid4()}", "${uuid7()}"}
    Variables = {"${x}", "${x.y}"}
    Path <- MCPath
    Letters = {"a", "b", "o"}
    Directories <- MCDirectories
    Parser <- MCParser
    NoAction = NoAction
    Topics <- MCTopics
    Messages <- MCMessages
INVARIANT YAMLRulesFireAsWritten
CHECK_DEADLOCK FALSE
