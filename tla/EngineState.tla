---------------------------- MODULE EngineState ----------------------------
(***************************************************************************)
(* The state of the download engine (engine.cpp, struct engine::state) and *)
(* of the objects it owns: tasks, cmdlists, connections and batches.       *)
(*                                                                         *)
(* A call into the engine runs on the GUI thread from start to end before  *)
(* the next one, and calls through several objects on its way: pump calls  *)
(* task::complete, which calls state::enqueue, which calls conn::execute.  *)
(* The handlers are therefore operators from one engine state to the next, *)
(* S, a record with the fields of EngineFields; module Engine keeps each   *)
(* field in a variable of its own and makes one action of every call.      *)
(*                                                                         *)
(* The names of tasks, batches and accounts are positive numbers, 0 is     *)
(* "none", as in the code.  An article is its index in the task's list.    *)
(***************************************************************************)
EXTENDS Integers, FiniteSets, SequencesExt, Subsequences

CONSTANTS
    Accounts,           \* configured accounts
    Connections,        \* ui::account::connections of each account
    Pipelining,         \* ui::account::enable_pipelining of each account
    FillAccount,        \* state::fill_account, 0 if there is none
    Batches, Tasks,     \* the batches a user may submit and their tasks
    BatchOf, AccountOf, \* of each task
    NumArticles,        \* of each task
    ArticlesPerCmdlist, \* num_articles_per_cmdlist in download.cpp (10)
    Contents,           \* what a decode may find: sets of "binary" and "text"
    ConnIds, CmdIds     \* object ids; each is used again once nobody holds it;
                        \* a bound: no object is made when there is none left

ASSUME EngineAssumption ==
    /\ Accounts \subseteq Nat \ {0}
    /\ Connections \in [Accounts -> Nat]
    /\ Pipelining \in [Accounts -> BOOLEAN]
    /\ FillAccount \in Accounts \cup {0}
    /\ Batches \subseteq Nat \ {0}
    /\ Tasks \subseteq Nat \ {0} /\ IsFiniteSet(Tasks)
    /\ BatchOf \in [Tasks -> Batches]
    /\ AccountOf \in [Tasks -> Accounts]
    /\ NumArticles \in [Tasks -> Nat \ {0}]
    /\ ArticlesPerCmdlist \in Nat \ {0}
    /\ Contents \subseteq SUBSET {"binary", "text"}
    /\ ConnIds \subseteq Nat \ {0} /\ IsFiniteSet(ConnIds)
    /\ CmdIds \subseteq Nat \ {0}

\* ui::task::states.
TaskStates == {"queued", "waiting", "active", "crunching", "paused",
               "complete", "error"}

\* ui::connection::states.
ConnStates == {"disconnected", "resolving", "connecting", "initializing",
               "connected", "active", "error"}

\* buffer::status; dmca is handled as unavailable and is left out.
Statuses == {"none", "success", "unavailable", "error"}

Article(t) == 1 .. NumArticles[t]

(* engine::task with its download, as far as it decides what happens next. *)
(* num_bytes_queued_ is left out: no action overrides action::size, so it  *)
(* stays 0 and update_completion never goes to crunching.                  *)
NoTask == [st |-> "queued",      \* ui_.state
           ncl |-> 0,            \* num_active_cmdlists_
           nact |-> 0,           \* num_active_actions_
           articles |-> <<>>,    \* download::articles_
           ran |-> FALSE,        \* ui_.runtime # 0
           incomplete |-> FALSE, \* ui_.error has incomplete set
           decoded |-> {},       \* history: articles that got a decode job
           missing |-> {},       \* history: articles that set an error flag
           told |-> 0]           \* history: on_task_callback calls

NewTask(t) == [NoTask EXCEPT !.articles = [i \in Article(t) |-> i]]

(* cmdlist *)
NoCmdlist == [task |-> 0, account |-> 0, conn |-> 0, cancelbit |-> FALSE,
              failbit |-> FALSE, commands |-> <<>>, buffers |-> <<>>]

(* engine::conn; conn_ is represented by its cancel event. *)
NoConn == [st |-> "disconnected", account |-> 0, fatal |-> FALSE,
           pinged |-> FALSE, cancel |-> FALSE]

(* engine::batch *)
NoBatch == [live |-> FALSE, st |-> "queued", num_tasks |-> 0,
            statesets |-> [s \in TaskStates |-> 0], told |-> 0]

(* An action, from its submission to its handling in pump: the connection  *)
(* or the task that owns it, and what it carries.                          *)
ConnAction(kind, c) ==
    [kind |-> kind, conn |-> c, task |-> 0, cl |-> 0, article |-> 0,
     pc |-> "start", exc |-> "none"]
ExecuteAction(c, k, t) ==
    [ConnAction("execute", c) EXCEPT !.cl = k, !.task = t]
TaskAction(kind, t, i) ==
    [ConnAction(kind, 0) EXCEPT !.task = t, !.article = i]

\* A finished action: what pump takes from the queue.
Ended(a, exc) == [a EXCEPT !.pc = "done", !.exc = exc]

\* A loop over the list s, from state S: every turn takes the engine one on.
ForEach(Turn(_, _), S, s) ==
    LET after[n \in 0 .. Len(s)] ==
          IF n = 0 THEN S ELSE Turn(after[n - 1], s[n])
    IN  after[Len(s)]

-----------------------------------------------------------------------------
(* Questions about an engine state S. *)

TaskAlive(S, t) == Contains(S.tasks, t)

CmdsOf(S, t) == {i \in DOMAIN S.cmds : S.cl[S.cmds[i]].task = t}

ConnsOf(S, acc) == {i \in DOMAIN S.conns : S.conn[S.conns[i]].account = acc}

\* conn::is_ready
IsReady(S, c) == S.conn[c].st = "connected"

\* task::eligible_for_run
EligibleForRun(S, t) ==
    /\ S.task[t].st \in {"waiting", "queued", "active"}
    /\ S.task[t].articles # <<>>

\* The free ids; the smallest one is taken.
FreeConns(S) == {c \in ConnIds : S.conn[c] = NoConn}
FreeCmds(S)  == {k \in CmdIds : S.cl[k] = NoCmdlist}

\* What the shared_ptrs keep alive.
HeldCmds(S) ==
    ToSet(S.cmds)
      \cup {S.done[i].cl : i \in DOMAIN S.done}
      \cup UNION {{S.queue[c][i].cl : i \in DOMAIN S.queue[c]} : c \in ConnIds}
HeldConns(S) ==
    ToSet(S.conns)
      \cup {S.done[i].conn : i \in DOMAIN S.done}
      \cup UNION {{S.queue[c][i].conn : i \in DOMAIN S.queue[c]} : c \in ConnIds}

\* Forget the objects nobody holds any more.
Reap(S) ==
    [S EXCEPT
       !.cl = [k \in CmdIds |-> IF k \in HeldCmds(S) THEN @[k] ELSE NoCmdlist],
       !.conn = [c \in ConnIds |-> IF c \in HeldConns(S) THEN @[c] ELSE NoConn]]
=============================================================================
