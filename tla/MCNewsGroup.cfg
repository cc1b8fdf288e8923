SPECIFICATION Spec
CONSTANTS
    Articles <- MCArticles
    TotalParts = 2
    MaxParts = 3
    MaxCommands = 3
CHECK_DEADLOCK FALSE
INVARIANTS
    IndexMatches
    SelectionMatches
PROPERTIES
    SelectionKept
