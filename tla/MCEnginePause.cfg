SPECIFICATION Spec
CONSTANTS
    Accounts = {1}
    Connections <- OneConnection
    Pipelining <- Pipelined
    FillAccount = 0
    Batches = {1}
    Tasks = {1, 2}
    BatchOf <- TwoTasksBatch
    AccountOf <- TwoTaskAccount
    NumArticles <- OneAndOne
    ArticlesPerCmdlist = 1
    Contents <- BinaryAndText
    ConnIds = {1}
    CmdIds = {1, 2, 3, 4, 5, 6}
    Commands = {"pause", "resume", "pause_batch", "resume_batch", "kill", "stop", "start"}
    MaxCommands = 3
    Faults = {"nogroup", "network"}
    MaxFaults = 1
CHECK_DEADLOCK FALSE
INVARIANTS
    ActionCounters
    ConnectionsSound
    WaitingIsWanted
