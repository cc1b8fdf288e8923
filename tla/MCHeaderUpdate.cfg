SPECIFICATION FairSpec
CONSTANTS
    RangeSize = 2
    RangesPerCmdlist = 2
    Slots = {1, 2}
    Existing = {1, 2, 4, 5, 6}
    Replies <- MCReplies
    MaxNumber = 99
    MaxFaults = 1
    MaxCrashes = 1
    MaxOpens = 2
\* The last update has ended.
CHECK_DEADLOCK FALSE
INVARIANTS
    TypeOK
    HeadersKept
PROPERTIES
    AskedOnce
    UpdateEnds
