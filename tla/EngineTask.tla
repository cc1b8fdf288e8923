----------------------------- MODULE EngineTask -----------------------------
(***************************************************************************)
(* class engine::task (engine.cpp) with the download it drives             *)
(* (download.cpp).  An operator whose C++ original returns a transition    *)
(* returns the state after it; the caller sees the transition by comparing *)
(* the task's state before and after.                                      *)
(***************************************************************************)
EXTENDS EngineConn

\* A task has reached complete or error.
TaskDone(S, t) == [S EXCEPT !.num_pending_tasks = @ - 1]

\* goto_state; only complete and error do more than set the state.
\* (crunching is unreachable, see NoTask.)
GotoState(S, t, new) ==
    CASE new = "complete" ->
           TaskDone([S EXCEPT !.task[t].st = new, !.task[t].told = @ + 1], t)
      [] new = "error" ->
           TaskDone([S EXCEPT
                       !.task[t].st = new, !.task[t].told = @ + 1,
                       !.cl = [k \in CmdIds |->
                                 IF Contains(S.cmds, k) /\ @[k].task = t
                                 THEN [@[k] EXCEPT !.cancelbit = TRUE] ELSE @[k]]],
                    t)
      [] OTHER -> [S EXCEPT !.task[t].st = new]

\* Mutant: only the cmdlists in flight are taken back.
EraseInFlight(S, t) ==
    [S EXCEPT !.cl = [k \in CmdIds |->
                        IF Contains(S.cmds, k) /\ @[k].task = t /\ @[k].conn # 0
                        THEN [@[k] EXCEPT !.cancelbit = TRUE] ELSE @[k]],
              !.cmds = Without(@, {k \in CmdIds : S.cl[k].task = t /\ S.cl[k].conn # 0})]

\* Cancel and erase every entry of task t in cmds, as kill and pause do.
EraseCmds(S, t) ==
    [S EXCEPT !.cl = [k \in CmdIds |->
                        IF Contains(S.cmds, k) /\ @[k].task = t
                        THEN [@[k] EXCEPT !.cancelbit = TRUE] ELSE @[k]],
              !.cmds = Without(@, {k \in CmdIds : S.cl[k].task = t})]

\* update_completion
UpdateCompletion(S, t) ==
    LET T == S.task[t]
    IN  CASE T.nact # 0 \/ T.ncl # 0 -> S
          [] T.nact = 0 /\ T.ncl = 0 /\ T.articles = <<>> ->
               GotoState(S, t, "complete")
          [] T.nact = 0 /\ T.ncl = 0 /\ T.articles # <<>>
               /\ T.st \in {"active", "crunching"} ->
               GotoState(S, t, "waiting")
          [] OTHER -> S

\* task::do_action for a set of new actions of task t, with the state::submit
\* it ends in.
TaskSubmit(S, t, actions) ==
    [S EXCEPT !.jobs = @ \cup actions,
              !.task[t].nact = @ + Cardinality(actions),
              !.num_pending_actions = @ + Cardinality(actions)]

\* run with download::create_commands: a cmdlist of the next few articles.
TaskRun(S, t) ==
    IF FreeCmds(S) = {} THEN S ELSE
    LET k == Min(FreeCmds(S))
        T == S.task[t]
        n == Min({Len(T.articles), ArticlesPerCmdlist})
        Created == [S EXCEPT
            !.cl[k] = [NoCmdlist EXCEPT !.task = t, !.account = AccountOf[t],
                                        !.commands = SubSeq(T.articles, 1, n)],
            !.task[t].articles = SubSeq(@, n + 1, Len(@))]
    IN  GotoState([Enqueue(Created, k) EXCEPT !.task[t].ncl = @ + 1], t, "active")

\* The refill branches of complete: ask the fill account for what is missing.
CanRefill(S, k) == FillAccount # 0 /\ FillAccount # S.cl[k].account
Refill(S, t, k) ==
    [Enqueue([S EXCEPT !.cl[k].account = FillAccount], k) EXCEPT !.task[t].ncl = @ + 1]

\* Mutant: the last buffer is not looked at.
ArticlesButLast(C, statuses) ==
    {C.commands[i] : i \in {j \in 1 .. Len(C.buffers) - 1 : C.buffers[j] \in statuses}}

ArticlesWith(C, statuses) ==
    {C.commands[i] : i \in {j \in DOMAIN C.buffers : C.buffers[j] \in statuses}}

\* The messages without a buffer, which go back into the pending list.
NotProcessedLate(C) == SubSeq(C.commands, Len(C.buffers) + 2, Len(C.commands))  \* mutant
NotProcessedAll(C) == C.commands  \* mutant
NotProcessed(C) == SubSeq(C.commands, Len(C.buffers) + 1, Len(C.commands))

\* download::complete(cmdlist): decode what came, take back what was not asked.
DownloadComplete(S, t, k) ==
    LET C == S.cl[k]
        got == ArticlesWith(C, {"success"})
    IN  TaskSubmit([S EXCEPT !.task[t].articles = @ \o NotProcessed(C),
                             !.task[t].decoded = @ \cup got],
                   t, {TaskAction("decode", t, i) : i \in got})

\* A cmdlist that was canceled has been counted down by who canceled it.
CountDown(S, t, k) ==
    IF S.cl[k].cancelbit THEN S ELSE [S EXCEPT !.task[t].ncl = @ - 1]

\* complete(cmdlist)
TaskComplete(S0, t, k) ==
    LET C == S0.cl[k]
        S == CountDown(S0, t, k)
        bad == {i \in DOMAIN C.buffers : C.buffers[i] # "success"}
        Flag(arts) == [S EXCEPT !.task[t].incomplete = @ \/ arts # {},
                                !.task[t].missing = @ \cup arts]
    IN  CASE S.task[t].st = "error" -> S
          [] S.task[t].st # "error" /\ C.failbit ->
               IF CanRefill(S, k) THEN Refill(S, t, k) ELSE Flag(ToSet(C.commands))
          [] S.task[t].st # "error" /\ ~C.failbit ->
               \* the loop over the buffers stops at the first one it acts on
               CASE bad # {} /\ CanRefill(S, k) /\ C.buffers[Min(bad)] # "error" ->
                      Refill(S, t, k)
                 [] \E i \in bad : /\ C.buffers[i] = "error"
                                   /\ CanRefill(S, k) => i = Min(bad) ->
                      GotoState(S, t, "error")
                 [] OTHER ->
                      UpdateCompletion(
                        DownloadComplete(Flag(ArticlesWith(C, {"unavailable"})), t, k), t)

\* on_action with download::complete(action): a decode or a write has ended; a
\* decode is followed by a write for each of the contents it found.
TaskOnAction(S0, t, a, writes) ==
    LET S == [S0 EXCEPT !.task[t].nact = @ - 1]
    IN  CASE S.task[t].st = "error" -> S
          [] S.task[t].st # "error" /\ a.exc # "none" -> GotoState(S, t, "error")
          [] OTHER ->
               UpdateCompletion(
                 IF a.kind = "decode"
                 THEN TaskSubmit(S, t, {TaskAction(w, t, a.article) : w \in writes})
                 ELSE S, t)

\* pause
TaskPause(S, t) ==
    IF S.task[t].st \in {"paused", "error", "complete"} THEN S ELSE
    GotoState([EraseCmds(S, t) EXCEPT !.task[t].ncl = @ - Cardinality(CmdsOf(S, t))],
              t, "paused")

\* resume
TaskResume(S, t) ==
    IF S.task[t].st # "paused" THEN S ELSE
    LET Updated == UpdateCompletion(S, t)
    IN  IF Updated.task[t].st # "paused" THEN Updated
        ELSE GotoState(Updated, t, IF S.task[t].ran THEN "waiting" ELSE "queued")

\* Mutant: a task that has ended is counted again.
TaskKillAny(S, t) ==
    TaskDone(IF S.task[t].st # "complete" THEN EraseCmds(S, t) ELSE S, t)

\* kill; the caller erases the task.
TaskKill(S, t) ==
    LET Erased == IF S.task[t].st # "complete" THEN EraseCmds(S, t) ELSE S
    IN  IF S.task[t].st \in {"complete", "error"} THEN Erased ELSE TaskDone(Erased, t)
=============================================================================
