SPECIFICATION FairSpec
CONSTANTS
    Accounts = {1}
    Connections <- OneConnection
    Pipelining <- Pipelined
    FillAccount = 0
    Batches = {1}
    Tasks = {1, 2}
    BatchOf <- TwoTasksBatch
    AccountOf <- TwoTaskAccount
    NumArticles <- OneAndOne
    ArticlesPerCmdlist = 1
    Contents <- BinaryOnly
    ConnIds = {1, 2, 3}
    CmdIds = {1, 2, 3, 4, 5}
    Commands = {"kill", "stop", "clone_connection", "kill_connection", "move_up", "kill_batch"}
    MaxCommands = 1
    Faults = {"network", "unavailable", "decode", "error"}
    MaxFaults = 2
CHECK_DEADLOCK FALSE
INVARIANTS
    EndsCounted
    WorkGoesOn
PROPERTIES
    ServiceSpec
    EngineRests
