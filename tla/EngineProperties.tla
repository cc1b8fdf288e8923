-------------------------- MODULE EngineProperties --------------------------
(***************************************************************************)
(* What the engine must do, whatever the order of its user's commands, of  *)
(* its threads' results and of the network's faults.                       *)
(***************************************************************************)
EXTENDS Engine

Terminal == {"complete", "error"}

\* The actions on their way: submitted, and not yet taken by pump.
QueuedOf(c, P(_)) == Cardinality({i \in DOMAIN queue[c] : P(queue[c][i])})
DoneWith(P(_))    == Cardinality({i \in DOMAIN done : P(done[i])})

OnTheWay(P(_)) ==
    SumFunctionOnSet([c \in ConnIds |-> QueuedOf(c, P)], ConnIds) + DoneWith(P)

\* A cmdlist somebody works on: waiting for a connection, or executed with its
\* result still to be handled.
InFlight(k) ==
    \/ \E c \in ConnIds : \E i \in DOMAIN queue[c] :
         queue[c][i].kind = "execute" /\ queue[c][i].cl = k
    \/ \E i \in DOMAIN done : done[i].kind = "execute" /\ done[i].cl = k
WaitsForConn(k) == Contains(cmds, k) /\ cl[k].conn = 0
Outstanding(t) ==
    {k \in CmdIds : cl[k].task = t /\ (InFlight(k) \/ WaitsForConn(k))}

-----------------------------------------------------------------------------
ActionKinds == {"resolve", "connect", "initialize", "execute", "disconnect",
                "ping", "decode", "binary", "text"}
Action == [kind : ActionKinds, conn : ConnIds \cup {0}, task : Tasks \cup {0},
           cl : CmdIds \cup {0}, article : Nat, pc : {"start", "data", "done"},
           exc : {"none", "network", "rejected", "reset", "failed"}]

\* Every field has the values its C++ type and its use allow.  Two of the counters,
\* size_t there, are Int: they go below zero, which wraps (PendingTasks).
TypeOK ==
    /\ started \in BOOLEAN
    /\ tasks \in Seq(Tasks)
    /\ \A t \in Tasks :
         /\ task[t].st \in TaskStates
         /\ task[t].ncl \in Int /\ task[t].nact \in Nat
         /\ ToSet(task[t].articles) \subseteq Article(t)
         /\ task[t].ran \in BOOLEAN /\ task[t].incomplete \in BOOLEAN
         /\ task[t].decoded \subseteq Article(t)
         /\ task[t].missing \subseteq Article(t)
    /\ \A b \in Batches :
         /\ batch[b].live \in BOOLEAN /\ batch[b].st \in TaskStates
         /\ batch[b].num_tasks \in Nat
         /\ batch[b].statesets \in [TaskStates -> Nat]
    /\ cmds \in Seq(CmdIds)
    /\ \A k \in CmdIds :
         /\ cl[k].task \in Tasks \cup {0} /\ cl[k].account \in Accounts \cup {0}
         /\ cl[k].conn \in ConnIds \cup {0}
         /\ cl[k].cancelbit \in BOOLEAN /\ cl[k].failbit \in BOOLEAN
         /\ cl[k].commands \in Seq(Nat) /\ cl[k].buffers \in Seq(Statuses)
         /\ Len(cl[k].buffers) <= Len(cl[k].commands)
    /\ conns \in Seq(ConnIds)
    /\ conn \in [ConnIds -> [st : ConnStates, account : Accounts \cup {0},
                             fatal : BOOLEAN, pinged : BOOLEAN, cancel : BOOLEAN]]
    /\ queue \in [ConnIds -> Seq(Action)]
    /\ jobs \subseteq Action
    /\ done \in Seq(Action)
    /\ num_pending_actions \in Nat /\ num_pending_tasks \in Int

-----------------------------------------------------------------------------
(* Counters that must agree with what they count. *)

\* num_pending_actions counts the actions between submit and the end of their
\* turn in pump: pump's caller and the engine's destructor rely on it to know
\* that no thread will call back any more (engine.cpp:1869).
PendingActions ==
    num_pending_actions =
      SumFunctionOnSet([c \in ConnIds |-> Len(queue[c])], ConnIds)
        + Cardinality(jobs) + Len(done)

\* A task's num_active_actions_ counts the decodes and writes it has submitted
\* and not yet been told about; its completion waits for it to be 0.
ActiveActions ==
    \A t \in ToSet(tasks) :
      task[t].nact = Cardinality({a \in jobs : a.task = t})
                     + DoneWith(LAMBDA a : a.task = t /\ a.conn = 0)

\* A task's num_active_cmdlists_ counts the cmdlists that will still come back
\* to task::complete and count it down; its completion waits for it to be 0.
ActiveCmdlists ==
    \A t \in ToSet(tasks) : task[t].st # "error" =>
      task[t].ncl = Cardinality({k \in Outstanding(t) : ~cl[k].cancelbit})

\* num_pending_tasks counts the tasks that have not come to an end; at 0 the
\* engine calls on_finish_callback, "when all tasks are done" (engine.h:78).
PendingTasks ==
    num_pending_tasks =
      Cardinality({t \in ToSet(tasks) : task[t].st \notin Terminal})

\* A batch's count per state is the number of its tasks in that state, although
\* it is kept by transitions that four different callers report.
BatchCounts ==
    \A b \in Batches : batch[b].live =>
      LET mine(s) == {t \in ToSet(tasks) : BatchOf[t] = b /\ task[t].st = s}
      IN  /\ \A s \in TaskStates : batch[b].statesets[s] = Cardinality(mine(s))
          /\ batch[b].num_tasks = Cardinality({t \in ToSet(tasks) : BatchOf[t] = b})

-----------------------------------------------------------------------------
(* Where the articles are. *)

\* The articles some cmdlist of the task is still to bring.
Asked(t) == UNION {ToSet(cl[k].commands) : k \in Outstanding(t)}

\* Every article of a task that has not failed is in one place: to be asked
\* for, in a cmdlist that will come back, decoded, or known to be missing.
ArticlesPartition ==
    \A t \in ToSet(tasks) : task[t].st # "error" =>
      LET T == task[t]
      IN  /\ ToSet(T.articles) \cup Asked(t) \cup T.decoded \cup T.missing = Article(t)
          /\ Len(T.articles) + MapThenSumSet(LAMBDA k : Len(cl[k].commands), Outstanding(t))
               + Cardinality(T.decoded) + Cardinality(T.missing) = NumArticles[t]

\* A complete task is quiet: no cmdlist of it is still executed and none of
\* its articles is still to be decoded or written.  (resume, engine.cpp:1069,
\* expects that all commands were processed when it completes a task.)
CompleteIsQuiet ==
    \A t \in ToSet(tasks) : task[t].st = "complete" =>
      Outstanding(t) = {} /\ task[t].nact = 0

\* A complete task has accounted for every article: it was decoded, or an
\* error flag of the task says that something is missing.
CompleteHasEverything ==
    \A t \in ToSet(tasks) : task[t].st = "complete" =>
      /\ task[t].decoded \cup task[t].missing \cup Asked(t) = Article(t)
      /\ task[t].missing # {} => task[t].incomplete

\* A task that could go on has something to go on with: articles to ask for, a
\* cmdlist that will come back to it, or a decode or write under way.  Without
\* them nothing in the engine would ever look at it again.
TasksHaveWork ==
    \A t \in ToSet(tasks) : task[t].st \in {"queued", "waiting", "active"} =>
      \/ task[t].articles # <<>>
      \/ \E k \in Outstanding(t) : ~cl[k].cancelbit
      \/ task[t].nact > 0

\* With a fill account one fault is not enough to lose an article: what the
\* main account cannot deliver the fill account does (accounts.h:126).
OneFaultIsFilled ==
    FillAccount \notin {0} \cup {AccountOf[t] : t \in Tasks} /\ nfaults <= 1 =>
      \A t \in Tasks : task[t].missing = {}

\* An article that has been received is not asked for again and not forgotten:
\* it stays in its cmdlist until the task decodes it, unless the task ends.
ReceivedIsKept ==
    [][\A k \in CmdIds : \A i \in DOMAIN cl[k].buffers :
         LET t == cl[k].task
         IN  cl[k].buffers[i] = "success" =>
               \/ /\ cl'[k].commands = cl[k].commands
                  /\ i \in DOMAIN cl'[k].buffers
                  /\ cl'[k].buffers[i] = "success"
               \/ cl[k].commands[i] \in task'[t].decoded
               \/ ~Contains(tasks', t) \/ task'[t].st = "error"]_vars

-----------------------------------------------------------------------------
(* Connections and the work they take. *)

\* A connection works on one action at a time: while it is resolving,
\* connecting, initializing or active exactly one action of its own is on the
\* way, an execute while it is active; while it is connected or in error none is.
OneActionPerConnection ==
    \A c \in ToSet(conns) :
      LET own(a)     == a.conn = c
          execute(a) == a.kind = "execute" /\ a.conn = c
      IN  /\ OnTheWay(own) = IF conn[c].st \in {"connected", "error"} THEN 0 ELSE 1
          /\ OnTheWay(execute) = IF conn[c].st = "active" THEN 1 ELSE 0

\* A cmdlist is executed by one connection at a time.
OneConnectionPerCmdlist ==
    \A k \in CmdIds :
      LET execute(a) == a.kind = "execute" /\ a.cl = k
      IN  OnTheWay(execute) <= 1

\* An article is in one place: still to be asked for, in one cmdlist that will
\* come back, or decoded.  So it is asked for by one cmdlist at a time, and not
\* again once it has been decoded.
OneCmdlistPerArticle ==
    \A t \in ToSet(tasks) :
      LET T == task[t]
          asks(k) == ToSet(cl[k].commands)
      IN  /\ IsInjective(T.articles) /\ ToSet(T.articles) \cap T.decoded = {}
          /\ \A k \in Outstanding(t) :
               /\ IsInjective(cl[k].commands)
               /\ asks(k) \cap (ToSet(T.articles) \cup T.decoded) = {}
               /\ \A l \in Outstanding(t) \ {k} : asks(k) \cap asks(l) = {}

\* No connection idles while there is something for it to do: a cmdlist
\* waiting for its account or a task of the account with articles to ask for.
WorkConserving ==
    \A c \in ToSet(conns) : conn[c].st = "connected" =>
      /\ \A k \in ToSet(cmds) :
           ~(cl[k].conn = 0 /\ cl[k].account = conn[c].account /\ ~cl[k].cancelbit)
      /\ \A t \in ToSet(tasks) :
           ~(/\ AccountOf[t] = conn[c].account
             /\ task[t].st \in {"queued", "waiting", "active"}
             /\ task[t].articles # <<>>)

\* The cmdlist pump picks for a ready connection belongs to a task that exists
\* (the ASSERT at engine.cpp:2207) and that wants it: the task is not paused
\* and has not ended.
WaitingIsWanted ==
    \A i \in DOMAIN cmds :
      LET C == cl[cmds[i]]
      IN  C.conn = 0 /\ ~C.cancelbit =>
            /\ Contains(tasks, C.task)
            /\ task[C.task].st \notin {"paused", "complete", "error"}

-----------------------------------------------------------------------------
(* What the user is told. *)

\* on_batch_callback is called once for each batch, when it is complete.
BatchToldOnce ==
    \A b \in Batches : batch[b].live =>
      batch[b].told = IF batch[b].st = "complete" THEN 1 ELSE 0

\* A batch is complete exactly when all of its tasks have ended, one of them
\* without an error; it is in error when all have ended with one.
BatchEnds ==
    \A b \in Batches : batch[b].live =>
      LET mine == {t \in ToSet(tasks) : BatchOf[t] = b}
          ended == \A t \in mine : task[t].st \in Terminal
          failed == \A t \in mine : task[t].st = "error"
      IN  /\ batch[b].st = "complete" <=> ended /\ ~failed
          /\ batch[b].st = "error" <=> failed

\* A task's end is final: it is never complete or in error and then anything
\* else, though late results and commands still reach it.
EndIsFinal ==
    [][\A t \in ToSet(tasks) :
         task[t].st \in Terminal /\ Contains(tasks', t) => task'[t].st = task[t].st]_vars

-----------------------------------------------------------------------------
(* The engine keeps the promises of DownloadService to its user. *)

Open(t) == Contains(tasks, t) /\ task[t].st # "error"

ServiceStatus ==
    [t \in Tasks |-> CASE ~Contains(tasks, t) -> "absent"
                       [] Contains(tasks, t) /\ task[t].st \in Terminal -> task[t].st
                       [] OTHER -> "open"]
ServiceLeft ==
    [t \in Tasks |-> IF Open(t) THEN ToSet(task[t].articles) \cup Asked(t) ELSE {}]
ServiceHeld ==
    [t \in Tasks |->
       IF Open(t) THEN {a.article : a \in {b \in jobs \cup ToSet(done) :
                                             b.task = t /\ b.conn = 0}}
       ELSE {}]
ServiceMissing == [t \in Tasks |-> IF Open(t) THEN task[t].missing ELSE {}]

Service == INSTANCE DownloadService
             WITH status <- ServiceStatus, left <- ServiceLeft,
                  held <- ServiceHeld, missing <- ServiceMissing
ServiceSpec == Service!Spec

-----------------------------------------------------------------------------
(* Liveness. *)

\* The threads run (ThreadPool), the GUI calls pump after every on_async_notify
\* and tick every second, which reconnects; no user's command is ever owed.
\* The conjuncts of the GUI thread are weak fairness with ENABLED spelled out,
\* for TLC evaluates ENABLED of a call on it too slowly: pump can be taken, and
\* has an effect, while done is not empty, the reconnect while MayReconnect.
Fairness ==
    /\ []<>(done = <<>>) \/ []<><<Pump>>_vars
    /\ \A c \in ConnIds : []<>~MayReconnect(c) \/ []<><<TickReconnect(c)>>_vars
    /\ \A c \in ConnIds : WF_vars(ConnStep(c))
    /\ WF_vars(\E a \in jobs : PerformJob(a))

FairSpec == Spec /\ Fairness

\* A task comes to an end while the engine runs: unless the user stops the
\* engine, kills the task or takes the last connection away, it completes or
\* fails, whatever fails on the way.
TasksEnd ==
    \A t \in Tasks :
      Contains(tasks, t) /\ started /\ conns # <<>>
        ~> \/ ~started \/ conns = <<>>
           \/ ~Contains(tasks, t) \/ task[t].st \in Terminal

\* After stop the threads hand in what they have and nothing new is submitted
\* for ever: the engine comes to rest and can be destroyed.
StopQuiesces == ~started ~> (started \/ num_pending_actions = 0)

-----------------------------------------------------------------------------
(* The questions the runs ask. *)

\* No article is lost between the tasks, their cmdlists and the accounts: a
\* complete task has everything it does not say is missing.
ArticlesKept == ArticlesPartition /\ OneFaultIsFilled /\ CompleteHasEverything

\* The tasks wait for what will come, the cmdlists they count, and the user is
\* told once when the last of a batch is through.
Scheduling == ActiveCmdlists /\ TasksHaveWork /\ BatchToldOnce

\* A step undoes nothing: no result received and no end of a task.
NothingUndone == ReceivedIsKept /\ EndIsFinal

\* The ends of the tasks and batches are counted.
EndsCounted == PendingTasks /\ BatchEnds

\* No connection idles while there is work, and none works for a complete task.
WorkGoesOn == WorkConserving /\ CompleteIsQuiet

\* The counts of actions are those of the actions, over pause and resume too.
ActionCounters == PendingActions /\ ActiveActions /\ BatchCounts

\* The work is divided: a connection has one action at a time, a cmdlist one
\* connection and an article one cmdlist.
ConnectionsSound ==
    OneActionPerConnection /\ OneConnectionPerCmdlist /\ OneCmdlistPerArticle

\* Tasks end while the engine runs, and a stopped engine comes to rest.
EngineRests == TasksEnd /\ StopQuiesces
=============================================================================
