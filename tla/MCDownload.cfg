SPECIFICATION Spec
CONSTANTS
    Postings <- Several
    ArticlesPerCmdlist = 3
    Connections = 2
    MaxCommands = 3
    MaxFaults = 2
CHECK_DEADLOCK FALSE
INVARIANTS
    StashFits
    
    PartsInOrder
    KilledLeavesNothing
