----------------------------- MODULE ThreadPool -----------------------------
(***************************************************************************)
(* engine/threadpool.{h,cpp}: the threads that run the engine's actions.   *)
(*                                                                         *)
(* PoolSize threads serve actions with any_thread affinity (round robin)   *)
(* and single_thread affinity (owner modulo PoolSize).  Every connection   *)
(* object allocates a private thread and submits its actions to it.  Each  *)
(* thread has its own queue, mutex and condition variable.  A finished     *)
(* action is handed to on_complete, which appends it to the engine's queue *)
(* of completed actions (engine.cpp, the engine constructor).              *)
(*                                                                         *)
(* The GUI thread submits, allocates, detaches and shuts down; its calls   *)
(* follow each other, and each holds a worker's mutex for one step.  An    *)
(* action is an identifier, handed out in submission order.                *)
(***************************************************************************)
EXTENDS Integers, Sequences

CONSTANTS PoolSize,      \* the constructor's num_threads
          MaxThreads,    \* bound on all threads, private ones included
          MaxActions,    \* bound on the actions ever submitted
          Owners,        \* object ids of the tasks that own pool actions
          Conns,         \* connection objects, each with a private thread
          NoThread       \* a connection without a thread

ASSUME PoolAssumption ==
    /\ PoolSize \in Nat \ {0}
    /\ MaxThreads \in Nat /\ PoolSize <= MaxThreads
    /\ MaxActions \in Nat
    /\ Owners \subseteq Nat
    /\ NoThread \notin Nat

Worker == 0 .. MaxThreads - 1
Id     == 1 .. MaxActions

VARIABLES
    nthreads,    \* threads_.size()
    pc,          \* where each thread is in thread_main
    queue,       \* worker::queue
    cur,         \* the action a thread has popped (0: none)
    run_loop,    \* worker::run_loop
    in_use,      \* worker::in_use of the private threads
    round_robin, \* round_robin_ modulo PoolSize
    queue_size,  \* queue_size_
    nsub,        \* how many actions were submitted: their ids are 1..nsub
    where,       \* the thread each action was submitted to
    owner,       \* action::get_owner() of the single_thread actions, else -1
    handle,      \* conn::thread_
    completed,   \* every on_complete call, in order
    joining      \* the thread shutdown is joining (-1: running)

gvars == <<nthreads, in_use, round_robin, nsub, where, owner, handle>>
vars  == <<nthreads, pc, queue, cur, run_loop, in_use, round_robin, queue_size,
           nsub, where, owner, handle, completed, joining>>

PCs == {"none", "loop", "wait", "perform", "retire", "exit"}

TypeOK ==
    /\ nthreads \in PoolSize .. MaxThreads
    /\ pc \in [Worker -> PCs]
    /\ queue \in [Worker -> Seq(Id)]
    /\ cur \in [Worker -> 0 .. MaxActions]
    /\ run_loop \in [Worker -> BOOLEAN]
    /\ in_use \in [Worker -> BOOLEAN]
    /\ round_robin \in 0 .. PoolSize - 1
    /\ queue_size \in Int
    /\ nsub \in 0 .. MaxActions
    /\ where \in [Id -> Worker]
    /\ owner \in [Id -> Owners \cup {-1}]
    /\ handle \in [Conns -> Worker \cup {NoThread}]
    /\ completed \in Seq(Id)
    /\ joining \in -1 .. MaxThreads

Init ==
    /\ nthreads = PoolSize
    /\ pc = [w \in Worker |-> IF w < PoolSize THEN "loop" ELSE "none"]
    /\ queue = [w \in Worker |-> <<>>]
    /\ cur = [w \in Worker |-> 0]
    /\ run_loop = [w \in Worker |-> w < PoolSize]
    /\ in_use = [w \in Worker |-> FALSE]
    /\ round_robin = 0
    /\ queue_size = 0
    /\ nsub = 0
    /\ where = [a \in Id |-> 0]
    /\ owner = [a \in Id |-> -1]
    /\ handle = [c \in Conns |-> NoThread]
    /\ completed = <<>>
    /\ joining = -1

-----------------------------------------------------------------------------
(* The GUI thread. *)

Open == joining = -1

\* notify_one: the thread, if it waits, goes back to the top of its loop.
Unnotified(w) == pc[w]  \* mutant: no notification
Notified(w) == IF pc[w] = "wait" THEN "loop" ELSE pc[w]

\* Push the next action on w's queue, under w's mutex.
Push(w) ==
    /\ Open
    /\ nsub < MaxActions
    /\ nsub' = nsub + 1
    /\ where' = [where EXCEPT ![nsub + 1] = w]
    /\ queue' = [queue EXCEPT ![w] = Append(@, nsub + 1)]
    /\ pc' = [pc EXCEPT ![w] = Notified(w)]
    /\ queue_size' = queue_size + 1
    /\ UNCHANGED <<nthreads, cur, run_loop, in_use, handle, completed, joining>>

\* submit of an any_thread action.
SubmitAny ==
    /\ Push(round_robin)
    /\ round_robin' = (round_robin + 1) % PoolSize
    /\ UNCHANGED owner

\* submit of a single_thread action of object o.
SubmitSpread(o) ==  \* mutant: to any thread
    /\ Push(round_robin)
    /\ round_robin' = (round_robin + 1) % PoolSize
    /\ owner' = [owner EXCEPT ![nsub + 1] = o]
SubmitSingle(o) ==
    /\ Push(o % PoolSize)
    /\ owner' = [owner EXCEPT ![nsub + 1] = o]
    /\ UNCHANGED round_robin

\* submit(action, worker): connection c queues an action on its own thread.
SubmitPrivate(c) ==
    /\ handle[c] # NoThread
    /\ Push(handle[c])
    /\ UNCHANGED <<owner, round_robin>>

\* The private threads that allocate may hand out again.
FreeWhenIdle == {w \in PoolSize .. nthreads - 1 : pc[w] = "wait"}  \* mutant
Free == {w \in PoolSize .. nthreads - 1 : ~in_use[w]}

\* allocate, when a detached thread can be reused: the first one.
AllocateReuse(c) ==
    /\ Open
    /\ handle[c] = NoThread
    /\ \E w \in Free :
         /\ \A v \in Free : w <= v
         /\ in_use' = [in_use EXCEPT ![w] = TRUE]
         /\ handle' = [handle EXCEPT ![c] = w]
    /\ UNCHANGED <<nthreads, pc, queue, cur, run_loop, round_robin, queue_size,
                   nsub, where, owner, completed, joining>>

\* allocate, when every private thread is in use: a new thread is started.
AllocateNew(c) ==
    /\ Open
    /\ handle[c] = NoThread
    /\ Free = {}
    /\ nthreads < MaxThreads
    /\ nthreads' = nthreads + 1
    /\ pc' = [pc EXCEPT ![nthreads] = "loop"]
    /\ run_loop' = [run_loop EXCEPT ![nthreads] = TRUE]
    /\ in_use' = [in_use EXCEPT ![nthreads] = TRUE]
    /\ handle' = [handle EXCEPT ![c] = nthreads]
    /\ UNCHANGED <<queue, cur, round_robin, queue_size, nsub, where, owner,
                   completed, joining>>

\* detach, from conn::stop: the connection object goes away with it.
Detach(c) ==
    /\ Open
    /\ handle[c] # NoThread
    /\ in_use' = [in_use EXCEPT ![handle[c]] = FALSE]
    /\ handle' = [handle EXCEPT ![c] = NoThread]
    /\ UNCHANGED <<nthreads, pc, queue, cur, run_loop, round_robin, queue_size,
                   nsub, where, owner, completed, joining>>

\* set_account and del_account erase a connection without calling stop.
Drop(c) ==
    /\ Open
    /\ handle[c] # NoThread
    /\ handle' = [handle EXCEPT ![c] = NoThread]
    /\ UNCHANGED <<nthreads, pc, queue, cur, run_loop, in_use, round_robin,
                   queue_size, nsub, where, owner, completed, joining>>

\* One turn of shutdown's loop: stop thread w, which is joined next.
Stop(w) ==
    /\ joining' = w
    /\ run_loop' = IF w < nthreads THEN [run_loop EXCEPT ![w] = FALSE] ELSE run_loop
    /\ pc' = IF w < nthreads THEN [pc EXCEPT ![w] = Notified(w)] ELSE pc
    /\ UNCHANGED <<queue, cur, queue_size, completed>>
    /\ UNCHANGED gvars

Shutdown == Open /\ Stop(0)

\* join returns when the thread has left its loop; the next one is stopped.
Join ==
    /\ joining \in Worker
    /\ joining < nthreads
    /\ pc[joining] = "exit"
    /\ Stop(joining + 1)

Closed == joining = nthreads

-----------------------------------------------------------------------------
(* thread_main of worker w. *)

\* Under the mutex: leave, wait, or pop the next action.
Exit(w) ==
    /\ pc[w] = "loop"
    /\ ~run_loop[w]
    /\ pc' = [pc EXCEPT ![w] = "exit"]
    /\ UNCHANGED <<queue, cur, run_loop, queue_size, completed, joining>>
    /\ UNCHANGED gvars

Wait(w) ==
    /\ pc[w] = "loop"
    /\ run_loop[w]
    /\ queue[w] = <<>>
    /\ pc' = [pc EXCEPT ![w] = "wait"]
    /\ UNCHANGED <<queue, cur, run_loop, queue_size, completed, joining>>
    /\ UNCHANGED gvars

\* Mutants: the action counts as done when it is taken; the last one is taken.
PopCounts(w) ==
    /\ pc[w] = "loop" /\ run_loop[w] /\ queue[w] # <<>>
    /\ cur' = [cur EXCEPT ![w] = Head(queue[w])]
    /\ queue' = [queue EXCEPT ![w] = Tail(@)]
    /\ queue_size' = queue_size - 1
    /\ pc' = [pc EXCEPT ![w] = "perform"]
    /\ UNCHANGED <<run_loop, completed, joining>>
    /\ UNCHANGED gvars
PopLast(w) ==
    /\ pc[w] = "loop" /\ run_loop[w] /\ queue[w] # <<>>
    /\ cur' = [cur EXCEPT ![w] = queue[w][Len(queue[w])]]
    /\ queue' = [queue EXCEPT ![w] = SubSeq(@, 1, Len(@) - 1)]
    /\ pc' = [pc EXCEPT ![w] = "perform"]
    /\ UNCHANGED <<run_loop, queue_size, completed, joining>>
    /\ UNCHANGED gvars

Pop(w) ==
    /\ pc[w] = "loop"
    /\ run_loop[w]
    /\ queue[w] # <<>>
    /\ cur' = [cur EXCEPT ![w] = Head(queue[w])]
    /\ queue' = [queue EXCEPT ![w] = Tail(@)]
    /\ pc' = [pc EXCEPT ![w] = "perform"]
    /\ UNCHANGED <<run_loop, queue_size, completed, joining>>
    /\ UNCHANGED gvars

\* perform() has ended; on_complete appends under the engine's mutex.
Perform(w) ==
    /\ pc[w] = "perform"
    /\ completed' = Append(completed, cur[w])
    /\ pc' = [pc EXCEPT ![w] = "retire"]
    /\ UNCHANGED <<queue, cur, run_loop, queue_size, joining>>
    /\ UNCHANGED gvars

Retire(w) ==
    /\ pc[w] = "retire"
    /\ queue_size' = queue_size - 1
    /\ cur' = [cur EXCEPT ![w] = 0]
    /\ pc' = [pc EXCEPT ![w] = "loop"]
    /\ UNCHANGED <<queue, run_loop, completed, joining>>
    /\ UNCHANGED gvars

\* A condition variable may wake without a notification.
SpuriousWakeup(w) ==
    /\ pc[w] = "wait"
    /\ pc' = [pc EXCEPT ![w] = "loop"]
    /\ UNCHANGED <<queue, cur, run_loop, queue_size, completed, joining>>
    /\ UNCHANGED gvars

-----------------------------------------------------------------------------
ThreadStep(w) == Exit(w) \/ Wait(w) \/ Pop(w) \/ Perform(w) \/ Retire(w)

Gui ==
    \/ SubmitAny
    \/ \E o \in Owners : SubmitSingle(o)
    \/ \E c \in Conns : SubmitPrivate(c)
    \/ \E c \in Conns : AllocateReuse(c)
    \/ \E c \in Conns : AllocateNew(c)
    \/ \E c \in Conns : Detach(c)
    \/ \E c \in Conns : Drop(c)
    \/ Shutdown
    \/ Join

Next == Gui \/ \E w \in Worker : ThreadStep(w) \/ SpuriousWakeup(w)

Spec == Init /\ [][Next]_vars

\* The operating system runs every thread that can run, and a thread's join
\* returns; nothing obliges the GUI to submit or shut down.
FairSpec ==
    /\ Spec
    /\ \A w \in Worker : WF_vars(ThreadStep(w))
    /\ WF_vars(Join)

-----------------------------------------------------------------------------
(* Where an action is. *)

Elems(s) == {s[i] : i \in DOMAIN s}

InQueue(w, a)    == a \in Elems(queue[w])
Performing(w, a) == pc[w] = "perform" /\ cur[w] = a
Done(a)          == a \in Elems(completed)

\* Every submitted action is in exactly one place: one thread's queue, one
\* thread's hands, or the completed queue, and it got there once.  An action
\* lost or run twice by the hand-over between submit, thread_main and
\* on_complete breaks it.
ExactlyOnce ==
    /\ \A a \in 1 .. nsub :
         \/ \E w \in Worker : InQueue(w, a) \/ Performing(w, a)
         \/ Done(a)
    /\ \A w \in Worker, a \in Id :
         /\ InQueue(w, a) => a <= nsub /\ where[a] = w /\ ~Done(a) /\ ~Performing(w, a)
         /\ Performing(w, a) => a <= nsub /\ where[a] = w /\ ~Done(a)
    /\ \A w \in Worker : \A i, j \in DOMAIN queue[w] :
         i # j => queue[w][i] # queue[w][j]
    /\ \A i, j \in DOMAIN completed : i # j => completed[i] # completed[j]

\* The single_thread promise of action.h, which the uuencode stash of
\* download::complete relies on for the order of the parts: the actions of one
\* owner complete in the order they were submitted.
OwnerOrder ==
    \A i, j \in DOMAIN completed :
        /\ i < j
        /\ owner[completed[i]] = owner[completed[j]]
        /\ owner[completed[i]] # -1
        => completed[i] < completed[j]

\* Two actions of one single_thread owner never run at the same time, so a
\* datafile is written by one thread only.
OwnerExclusive ==
    \A v, w \in Worker :
        /\ v # w
        /\ pc[v] = "perform" /\ pc[w] = "perform"
        /\ owner[cur[v]] # -1
        => owner[cur[v]] # owner[cur[w]]

\* No thread sleeps on its condition variable while it has work or was told
\* to stop.
NoLostWakeup ==
    \A w \in Worker : pc[w] = "wait" => queue[w] = <<>> /\ run_loop[w]

\* What wait_all_actions relies on: when queue_size_ is zero, every submitted
\* action has been handed to on_complete.
WaitAllComplete ==
    queue_size = 0 => \A a \in 1 .. nsub : Done(a)

\* No two connections are given the same private thread, and no connection is
\* given a thread of the pool.
PrivateThreads ==
    \A c \in Conns : handle[c] # NoThread =>
        /\ handle[c] >= PoolSize
        /\ \A d \in Conns : d # c => handle[d] # handle[c]

\* What the engine hands over comes back: each action once, those of an owner
\* in the order they were submitted and never two at the same time.
Delivery == ExactlyOnce /\ OwnerOrder /\ OwnerExclusive

\* No wait is in vain: neither a thread's for work nor wait_all_actions'.
Waiting == NoLostWakeup /\ WaitAllComplete

\* The threads are those the pool has, and a connection's is its own.
ThreadsHeld == TypeOK /\ PrivateThreads

\* Every submitted action is eventually completed, unless shutdown begins.
EveryActionCompletes ==
    \A a \in Id : (a <= nsub) ~> (Done(a) \/ ~Open)

\* shutdown returns: every thread can be joined.
ShutdownTerminates == ~Open ~> Closed

\* Nothing submitted waits for ever, and shutdown returns.
PoolLive == EveryActionCompletes /\ ShutdownTerminates

\* The pool keeps the promises of ActionService.
Service == INSTANCE ActionService WITH closed <- ~Open
ServiceSpec == Service!Spec

=============================================================================
