SPECIFICATION Spec
CONSTANTS
    Folders = {"music"}
    Files = {"p1", "p2", "v1", "v2", "v3"}
    Pars <- MCPars
    Volumes <- MCVolumes
    Nested <- MCNested
    Waits = {{"downloads", "unpacks"}}
    MaxByHand = 0
    MaxCommands = 0
    MaxCrashes = 0
\* Everything may be done.
CHECK_DEADLOCK FALSE
INVARIANT
    PendingIsListed
