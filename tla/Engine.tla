------------------------------- MODULE Engine -------------------------------
(***************************************************************************)
(* The download engine (engine.cpp): the calls its user makes, pump and    *)
(* tick on the GUI thread, and the actions running on the connections'     *)
(* private threads and on the thread pool.                                 *)
(*                                                                         *)
(* Threads are represented by what module ThreadPool promises: a           *)
(* connection's actions run one at a time in submission order, a task's    *)
(* actions run in any order, and each ends exactly once in done, the queue *)
(* of completed actions.  An action takes several steps when the GUI       *)
(* thread can interfere in between: a cmdlist's cancel bit and a           *)
(* connection's cancel event are read between two articles.                *)
(***************************************************************************)
EXTENDS EngineBatch

CONSTANTS
    Commands,    \* the commands the user gives in this instance
    MaxCommands, \* bound on how many
    Faults,      \* what the network and the disk may do in this instance
    MaxFaults    \* bound on how many times

CommandNames == {"pause", "resume", "kill", "kill_batch", "pause_batch",
                 "resume_batch", "stop", "start", "kill_connection",
                 "clone_connection", "move_up"}
FaultNames   == {"network", "rejected", "nogroup", "unavailable", "error",
                 "decode", "write", "ping"}

ASSUME EnvironmentAssumption ==
    /\ Commands \subseteq CommandNames /\ MaxCommands \in Nat
    /\ Faults \subseteq FaultNames /\ MaxFaults \in Nat

VARIABLES
    started,             \* state::started
    tasks,               \* state::tasks, in list order
    task,                \* the task objects
    batch,               \* the batch objects
    cmds,                \* state::cmds
    cl,                  \* the cmdlist objects
    conns,               \* state::conns
    conn,                \* the connection objects
    queue,               \* the actions submitted to each private thread
    jobs,                \* the actions submitted to the pool
    done,                \* state::actions
    num_pending_actions,
    num_pending_tasks,
    added,               \* the batches the user has submitted
    ncommands, nfaults   \* how many commands and faults there were

vars == <<started, tasks, task, batch, cmds, cl, conns, conn, queue, jobs, done,
          num_pending_actions, num_pending_tasks, added, ncommands, nfaults>>

Current ==
    [started |-> started, tasks |-> tasks, task |-> task, batch |-> batch,
     cmds |-> cmds, cl |-> cl, conns |-> conns, conn |-> conn, queue |-> queue,
     jobs |-> jobs, done |-> done, num_pending_actions |-> num_pending_actions,
     num_pending_tasks |-> num_pending_tasks]

\* A call on the GUI thread takes the engine to state S.
Becomes(S) ==
    LET R == Reap(S) IN
    /\ started' = R.started  /\ tasks' = R.tasks  /\ task' = R.task
    /\ batch' = R.batch      /\ cmds' = R.cmds    /\ cl' = R.cl
    /\ conns' = R.conns      /\ conn' = R.conn    /\ queue' = R.queue
    /\ jobs' = R.jobs        /\ done' = R.done
    /\ num_pending_actions' = R.num_pending_actions
    /\ num_pending_tasks' = R.num_pending_tasks

Init ==
    /\ started = FALSE
    /\ tasks = <<>>
    /\ task = [t \in Tasks |-> NoTask]
    /\ batch = [b \in Batches |-> NoBatch]
    /\ cmds = <<>>
    /\ cl = [k \in CmdIds |-> NoCmdlist]
    /\ conns = <<>>
    /\ conn = [c \in ConnIds |-> NoConn]
    /\ queue = [c \in ConnIds |-> <<>>]
    /\ jobs = {}
    /\ done = <<>>
    /\ num_pending_actions = 0
    /\ num_pending_tasks = 0
    /\ added = {}
    /\ ncommands = 0
    /\ nfaults = 0

-----------------------------------------------------------------------------
(* The user's commands. *)

\* download_files, with priority or without.
DownloadFiles(b, priority) ==
    LET T == SetToSeq({t \in Tasks : BatchOf[t] = b})
        S == [Current EXCEPT
                !.tasks = IF priority THEN Reverse(T) \o @ ELSE @ \o T,
                !.task = [t \in Tasks |-> IF BatchOf[t] = b THEN NewTask(t) ELSE @[t]],
                !.batch[b] = NewBatch(ToSet(T)),
                !.num_pending_tasks = @ + Len(T)]
    IN  /\ b \notin added
        /\ added' = added \cup {b}
        /\ Becomes(Execute(S))
        /\ UNCHANGED <<ncommands, nfaults>>

\* The connections a command leaves behind keep their ids until their actions
\* have ended; a bound: the rest must do for every account.
Room(S) ==
    LET R == Reap(S)
    IN  Cardinality(FreeConns(R)) + Len(R.conns)
          >= MapThenSumSet(LAMBDA a : Connections[a], Accounts)

Command(name, S) ==
    /\ name \in Commands
    /\ ncommands < MaxCommands
    /\ ncommands' = ncommands + 1
    /\ Room(S)
    /\ Becomes(S)
    /\ UNCHANGED <<added, nfaults>>

\* start and stop; the engine's user starts it once at no cost.
StartEngine == Execute([Current EXCEPT !.started = TRUE])
FirstStart ==
    /\ ~started /\ ncommands = 0
    /\ Becomes(StartEngine)
    /\ UNCHANGED <<added, ncommands, nfaults>>
Start == ~started /\ ncommands > 0 /\ Command("start", StartEngine)

StopEngine ==
    LET Stopped == ForEach(ConnStop, Current, conns)
    IN  [Stopped EXCEPT !.conns = <<>>, !.started = FALSE]
Stop == started /\ Command("stop", StopEngine)

\* kill_connection
KillConnection(i) ==
    Command("kill_connection",
            [ConnStop(Current, conns[i]) EXCEPT !.conns = RemoveAt(@, i)])

\* clone_connection
CloneConnection(i) ==
    /\ FreeConns(Current) # {}
    /\ Command("clone_connection", ConnCreate(Current, conn[conns[i]].account))

\* pause_task and resume_task, of one task or of a batch (group_items).
PauseTask(t) == Command("pause", Settle(Current, TaskPause(Current, t), t))
ResumeTask(t) ==
    Command("resume", Execute(Settle(Current, TaskResume(Current, t), t)))
PauseBatch(b) == Command("pause_batch", BatchPause(Current, b))
ResumeBatch(b) ==
    Command("resume_batch", Execute(BatchResume(Current, b)))

\* kill_task of one task, and of a batch, which is also kill_action.
KillTask(t) ==
    Command("kill", EraseTask(TaskKill(BatchRemove(Current, t), t), t))
KillBatch(b) ==
    LET mine == Only(tasks, {t \in Tasks : BatchOf[t] = b})
        Killed == ForEach(LAMBDA S, t : EraseTask(TaskKill(S, t), t), Current, mine)
    IN  Command("kill_batch", [Killed EXCEPT !.batch[b] = NoBatch])

\* move_task_up
MoveTaskUp(i) ==
    Command("move_up", [Current EXCEPT !.tasks[i] = tasks[i - 1],
                                       !.tasks[i - 1] = tasks[i]])

-----------------------------------------------------------------------------
(* pump: one turn of its loop, for the completed action a. *)

\* The first part: the result of an execute goes to its task.
PumpExecute(S, a) ==
    IF a.kind # "execute" \/ ~TaskAlive(S, a.task) THEN S ELSE
    IF a.exc # "none" THEN Enqueue(S, a.cl) ELSE
    LET Erased == [S EXCEPT !.cmds = RemoveFirst(@, a.cl)]
    IN  Settle(Erased, TaskComplete(Erased, a.task, a.cl), a.task)

\* Mutant: a cmdlist another connection executes is picked too.
WaitingOrNot(S, c) ==
    {i \in DOMAIN S.cmds :
       LET C == S.cl[S.cmds[i]]
       IN  C.account = S.conn[c].account /\ ~C.cancelbit}

\* A ready connection takes the first cmdlist waiting for its account, else
\* runs the first task of its account that has articles left.
Waiting(S, c) ==
    {i \in DOMAIN S.cmds :
       LET C == S.cl[S.cmds[i]]
       IN  C.conn = 0 /\ C.account = S.conn[c].account /\ ~C.cancelbit}
Runnable(S, c) ==
    {i \in DOMAIN S.tasks :
       /\ AccountOf[S.tasks[i]] = S.conn[c].account
       /\ EligibleForRun(S, S.tasks[i])}
PickWaiting(S, c) ==  \* mutant: only the cmdlists are looked at
    IF IsReady(S, c) /\ Waiting(S, c) # {}
    THEN LET k == S.cmds[Min(Waiting(S, c))]
         IN  [ConnExecute(S, c, k) EXCEPT !.cl[k].conn = c]
    ELSE S
PickWork(S, c) ==
    CASE IsReady(S, c) /\ Waiting(S, c) # {} ->
           LET k == S.cmds[Min(Waiting(S, c))]
           IN  [ConnExecute(S, c, k) EXCEPT !.cl[k].conn = c]
      [] IsReady(S, c) /\ Waiting(S, c) = {} /\ Runnable(S, c) # {} ->
           RunAndSettle(S, S.tasks[Min(Runnable(S, c))])
      [] OTHER -> S

\* The second part: the action goes back to the connection or the task that
\* owns it.
PumpOwner(S, a, contents) ==
    CASE Contains(S.conns, a.conn) -> PickWork(ConnOnAction(S, a.conn, a), a.conn)
      [] a.conn = 0 /\ TaskAlive(S, a.task) ->
           Execute(Settle(S, TaskOnAction(S, a.task, a, contents), a.task))
      [] OTHER -> Execute(S)

PumpOne(a, contents) ==
    LET Taken == [Current EXCEPT !.done = Tail(@)]
        S == PumpOwner(PumpExecute(Taken, a), a, contents)
    IN  [S EXCEPT !.num_pending_actions = @ - 1]

Pump ==
    /\ done # <<>>
    /\ \E contents \in Contents : Becomes(PumpOne(Head(done), contents))
    /\ UNCHANGED <<added, ncommands, nfaults>>

\* tick: a connection's countdown to its next ping or reconnect runs out, or
\* just time passes; every tick counts towards the running tasks' runtime.
Ticked(S) ==
    [S EXCEPT !.task = [t \in Tasks |->
        [S.task[t] EXCEPT !.ran = @ \/ (TaskAlive(S, t) /\ S.task[t].st = "active")]]]

TickPing(c) ==
    /\ "ping" \in Faults
    /\ Contains(conns, c)
    /\ conn[c].st = "connected" /\ ~conn[c].pinged
    /\ Becomes(Ticked(ConnPing(Current, c)))
    /\ UNCHANGED <<added, ncommands, nfaults>>

ReconnectFatal(c) == Contains(conns, c) /\ conn[c].st = "error" /\ conn[c].fatal  \* mutant
MayReconnect(c) == Contains(conns, c) /\ conn[c].st = "error" /\ ~conn[c].fatal
TickReconnect(c) ==
    /\ MayReconnect(c)
    /\ Becomes(Ticked(ConnReconnect(Current, c)))
    /\ UNCHANGED <<added, ncommands, nfaults>>

Tick ==
    /\ Becomes(Ticked(Current))
    /\ UNCHANGED <<added, ncommands, nfaults>>

-----------------------------------------------------------------------------
(* The threads. *)

threadUnchanged == <<started, tasks, task, batch, cmds, conns, conn,
                     num_pending_actions, num_pending_tasks, added, ncommands>>

Fault(f) == f \in Faults /\ nfaults < MaxFaults /\ nfaults' = nfaults + 1
NoFault  == UNCHANGED nfaults

\* The action at the head of c's queue ends.
End(c, exc) ==
    /\ done' = Append(done, Ended(Head(queue[c]), exc))
    /\ queue' = [queue EXCEPT ![c] = Tail(@)]
    /\ UNCHANGED jobs
    /\ UNCHANGED threadUnchanged

\* resolve, connect, initialize, ping and disconnect.
Perform(c) ==
    /\ queue[c] # <<>> /\ Head(queue[c]).kind # "execute"
    /\ End(c, "none")
    /\ NoFault /\ UNCHANGED cl

\* An exception leaves an action other than disconnect: the network fails, or
\* the server rejects the user.
PerformFails(c) ==
    /\ queue[c] # <<>> /\ Head(queue[c]).kind # "disconnect"
    /\ \/ End(c, "network") /\ Fault("network")
       \/ /\ Head(queue[c]).kind \in {"initialize", "execute"}
          /\ End(c, "rejected") /\ Fault("rejected")
    /\ UNCHANGED cl

Executing(c) == queue[c] # <<>> /\ Head(queue[c]).kind = "execute"
TheCmdlist(c) == Head(queue[c]).cl

\* execute::xperform of a cmdlist canceled before it began, or on a connection
\* told to stop, which it notices before every article.
ExecuteCut(c) ==
    /\ Executing(c)
    /\ \/ conn[c].cancel
       \/ Head(queue[c]).pc = "start" /\ cl[TheCmdlist(c)].cancelbit
    /\ End(c, "none")
    /\ NoFault /\ UNCHANGED cl

\* No group of the cmdlist can be selected (receive_configure_buffer).
ExecuteNoGroup(c) ==
    /\ Executing(c)
    /\ Head(queue[c]).pc = "start" /\ ~cl[TheCmdlist(c)].cancelbit
    /\ Fault("nogroup")
    /\ cl' = [cl EXCEPT ![TheCmdlist(c)].failbit = TRUE]
    /\ End(c, "none")

\* The buffers submit_data_commands clears: all that did not succeed.
ClearedAll(buffers) == [i \in DOMAIN buffers |-> "none"]  \* mutant
Cleared(buffers) ==
    [i \in DOMAIN buffers |-> IF buffers[i] = "success" THEN "success" ELSE "none"]

\* submit_data_commands: what did not succeed before is asked for again.
ExecuteConfigure(c) ==
    /\ Executing(c)
    /\ Head(queue[c]).pc = "start" /\ ~cl[TheCmdlist(c)].cancelbit
    /\ cl' = [cl EXCEPT ![TheCmdlist(c)].buffers = Cleared(@)]
    /\ queue' = [queue EXCEPT ![c][1].pc = "data"]
    /\ NoFault /\ UNCHANGED <<jobs, done>>
    /\ UNCHANGED threadUnchanged

\* receive_data_buffer: the first empty buffer is filled, or one is added.
ReceivedLast(buffers, status) == Append(buffers, status)  \* mutant
Received(buffers, status) ==
    LET empty == {i \in DOMAIN buffers : buffers[i] = "none"}
    IN  IF empty = {} THEN Append(buffers, status)
        ELSE [buffers EXCEPT ![Min(empty)] = status]

AllReceived(C) ==
    /\ Len(C.buffers) = Len(C.commands)
    /\ \A i \in DOMAIN C.buffers : C.buffers[i] # "none"

\* One article arrives; then the execute ends if it was the last one or the
\* cmdlist was canceled, with an exception if the session is pipelined.
Receive(c, status) ==
    LET k == TheCmdlist(c)
        C == [cl[k] EXCEPT !.buffers = Received(@, status)]
    IN  /\ cl' = [cl EXCEPT ![k] = C]
        /\ CASE C.cancelbit ->
                  End(c, IF Pipelining[conn[c].account] THEN "reset" ELSE "none")
             [] ~C.cancelbit /\ AllReceived(C) -> End(c, "none")
             [] OTHER -> /\ UNCHANGED <<queue, jobs, done>>
                         /\ UNCHANGED threadUnchanged

\* An execute never begins with everything received: one that received the
\* last article has ended, and its cmdlist runs again only if some was missing.
ExecuteReceive(c) ==
    /\ Executing(c)
    /\ Head(queue[c]).pc = "data"
    /\ ~conn[c].cancel
    /\ ~AllReceived(cl[TheCmdlist(c)])
    /\ \/ Receive(c, "success") /\ NoFault
       \/ Receive(c, "unavailable") /\ Fault("unavailable")
       \/ Receive(c, "error") /\ Fault("error")

\* A pool thread performs a decode or a write, which may throw.
PerformJob(a) ==
    /\ jobs' = jobs \ {a}
    /\ \/ done' = Append(done, Ended(a, "none")) /\ NoFault
       \/ /\ done' = Append(done, Ended(a, "failed"))
          /\ Fault(IF a.kind = "decode" THEN "decode" ELSE "write")
    /\ UNCHANGED <<cl, queue>>
    /\ UNCHANGED threadUnchanged

-----------------------------------------------------------------------------
ConnStep(c) ==
    \/ Perform(c)
    \/ PerformFails(c)
    \/ ExecuteCut(c)
    \/ ExecuteNoGroup(c)
    \/ ExecuteConfigure(c)
    \/ ExecuteReceive(c)

User ==
    \/ \E b \in Batches, priority \in BOOLEAN : DownloadFiles(b, priority)
    \/ FirstStart
    \/ Start
    \/ Stop
    \/ \E i \in DOMAIN conns : KillConnection(i)
    \/ \E i \in DOMAIN conns : CloneConnection(i)
    \/ \E t \in ToSet(tasks) : PauseTask(t)
    \/ \E t \in ToSet(tasks) : ResumeTask(t)
    \/ \E b \in Batches : batch[b].live /\ PauseBatch(b)
    \/ \E b \in Batches : batch[b].live /\ ResumeBatch(b)
    \/ \E t \in ToSet(tasks) : KillTask(t)
    \/ \E b \in Batches : batch[b].live /\ KillBatch(b)
    \/ \E i \in 2 .. Len(tasks) : MoveTaskUp(i)

Timer ==
    \/ \E c \in ConnIds : TickPing(c)
    \/ \E c \in ConnIds : TickReconnect(c)
    \/ Tick

Threads ==
    \/ \E c \in ConnIds : ConnStep(c)
    \/ \E a \in jobs : PerformJob(a)

Next == User \/ Pump \/ Timer \/ Threads

Spec == Init /\ [][Next]_vars
=============================================================================
