SPECIFICATION FairSpec
CONSTANTS
    Folders = {"film", "music"}
    Files = {"p1", "p2", "v1", "v2", "v3"}
    Pars <- MCPars
    Volumes <- MCVolumes
    Nested <- MCNested
    Waits = {{"repairs"}, {"downloads", "unpacks"}, {"downloads", "repairs", "unpacks"}}
    MaxByHand = 1
    MaxCommands = 1
    MaxCrashes = 1
\* Everything may be done.
CHECK_DEADLOCK FALSE
INVARIANTS
    FolderOrder
    PowerOffSafe
    AssertsHold
PROPERTIES
    FolderUnpacked
