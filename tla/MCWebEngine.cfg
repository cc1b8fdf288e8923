SPECIFICATION FairSpec
CONSTANTS
    Queries = {"q1", "q2", "q3", "q4"}
    Client <- MCClient
    Checking = {"rss"}
    Timeouts = {1, 2}
    MaxDepth = 3
\* The engine may be destroyed.
CHECK_DEADLOCK FALSE
INVARIANTS
    ListsSound
    RepliedOnce
PROPERTIES
    QueryEnds
