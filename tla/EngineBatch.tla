---------------------------- MODULE EngineBatch ----------------------------
(***************************************************************************)
(* class engine::batch (engine.cpp): a batch counts its tasks per state    *)
(* and derives its own state from the counts, plus the calls that move a   *)
(* task and tell its batch: task::run inside state::execute, and the       *)
(* transitions pump and the user's commands pass to batch::update.         *)
(***************************************************************************)
EXTENDS EngineTask

\* The constructor of a batch of downloads with tasks T.
NewBatch(T) ==
    [NoBatch EXCEPT !.live = TRUE, !.num_tasks = Cardinality(T),
                    !.statesets["queued"] = Cardinality(T)]

\* update(state): the batch's own state from its counts.
BatchState(B) ==
    LET n(s) == B.statesets[s]
        base == CASE n("active") # 0 -> "active"
                  [] n("active") = 0 /\ n("waiting") # 0 -> "waiting"
                  [] n("active") = 0 /\ n("waiting") = 0
                       /\ n("crunching") = B.num_tasks -> "crunching"
                  [] OTHER -> B.st
    IN  CASE n("paused") # 0 -> "paused"
          [] n("paused") = 0 /\ n("complete") + n("error") = B.num_tasks ->
               IF n("error") = B.num_tasks THEN "error" ELSE "complete"
          [] n("paused") = 0 /\ n("complete") + n("error") # B.num_tasks
               /\ n("queued") = B.num_tasks -> "queued"
          [] OTHER -> base

Recount(B) == [B EXCEPT !.st = BatchState(B)]

\* leave_state and enter_state
EnteredOnly(B, from, to) ==  \* mutant
    [B EXCEPT !.statesets[to] = @ + 1]
Moved(B, from, to) ==
    [B EXCEPT !.statesets[from] = @ - 1, !.statesets[to] = @ + 1]

\* on_batch_callback is called when the last task of a batch comes to its end.
AnnouncesComplete(B, to) == to = "complete" /\ B.st = "complete"  \* mutant
Announces(B, to) == to \in {"complete", "error"} /\ B.st = "complete"

\* batch::update(task, transition) after a handler took task t from engine
\* state S to state T; told counts the on_batch_callback calls.
Settle(S, T, t) ==
    LET from == S.task[t].st
        to   == T.task[t].st
        b    == BatchOf[t]
        B    == Recount(Moved(T.batch[b], from, to))
    IN  IF from = to THEN T ELSE
        [T EXCEPT !.batch[b] =
           [B EXCEPT !.told = IF Announces(B, to) THEN @ + 1 ELSE @]]

RunAndSettle(S, t) == Settle(S, TaskRun(S, t), t)

\* state::execute, for one task: open the connections its account still lacks,
\* then run it while it has articles and its account a ready connection.
\* Each run takes one ready connection, so there are at most Len(conns).
ExecuteTask(S, t) ==
    LET acc == AccountOf[t]
        lacking == Connections[acc] - Cardinality(ConnsOf(S, acc))
        Opened == ForEach(ConnCreate, S, [i \in 1 .. lacking |-> acc])
        Offer(X, c) ==
            IF EligibleForRun(X, t) /\ \E i \in ConnsOf(X, acc) : IsReady(X, X.conns[i])
            THEN RunAndSettle(X, t) ELSE X
    IN  IF EligibleForRun(S, t) THEN ForEach(Offer, Opened, Opened.conns) ELSE S

Execute(S) == IF S.started THEN ForEach(ExecuteTask, S, S.tasks) ELSE S

\* batch::pause, batch::resume: every task of the batch, without the callback.
TransferAll(S, b, Op(_, _)) ==
    LET Step(X, t) ==
            IF BatchOf[t] # b THEN X ELSE
            LET Y == Op(X, t)
            IN  IF X.task[t].st = Y.task[t].st THEN Y ELSE
                [Y EXCEPT !.batch[b] = Moved(@, X.task[t].st, Y.task[t].st)]
        All == ForEach(Step, S, S.tasks)
    IN  [All EXCEPT !.batch[b] = Recount(@)]

BatchPause(S, b)  == TransferAll(S, b, TaskPause)
BatchResume(S, b) == TransferAll(S, b, TaskResume)

\* batch::kill(task): the task leaves its batch, the last one takes it along.
BatchRemove(S, t) ==
    LET b == BatchOf[t]
        B == Recount([S.batch[b] EXCEPT
                        !.statesets[S.task[t].st] = @ - 1, !.num_tasks = @ - 1])
    IN  [S EXCEPT !.batch[b] = IF B.num_tasks = 0 THEN NoBatch ELSE B]

\* A killed task is erased from the task list.
EraseTask(S, t) ==
    [S EXCEPT !.tasks = Without(@, {t}), !.task[t] = NoTask]
=============================================================================
