SPECIFICATION Spec
CONSTANTS
    Accounts = {1, 2}
    Connections <- MainAndFill
    Pipelining <- FillPipelined
    FillAccount = 2
    Batches = {1}
    Tasks = {1, 2}
    BatchOf <- TwoTasksBatch
    AccountOf <- TwoTaskAccount
    NumArticles <- TwoAndOne
    ArticlesPerCmdlist = 2
    Contents <- BinaryOnly
    ConnIds = {1, 2}
    CmdIds = {1, 2, 3, 4}
    Commands = {}
    MaxCommands = 0
    Faults = {"network", "rejected", "unavailable", "error", "decode", "write", "ping"}
    MaxFaults = 2
CHECK_DEADLOCK FALSE
INVARIANTS
    TypeOK
    ArticlesKept
    Scheduling
PROPERTIES
    NothingUndone
