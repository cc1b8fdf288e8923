SPECIFICATION Spec
CONSTANTS
    NoGroup = ""
    PingGroup = "keeping.session.alive"
    Cmdlists = {"articles", "lost", "headers", "info", "groups"}
    Workloads <- MCWorkloads
    cmdtype <- MCcmdtype
    groups <- MCgroups
    commands <- MCcommands
    Carried = {"alt.one", "alt.two"}
    Pipelining = {TRUE, FALSE}
    Compression = {TRUE}
    Credentials = {TRUE, FALSE}
    MaxConnects = 2
\* A connection may stay closed, or wait for a user.
CHECK_DEADLOCK FALSE
INVARIANTS
    TypeOK
    ResponsesMatch
    ResultsAreRight
    AnswerIsComingInTurn
