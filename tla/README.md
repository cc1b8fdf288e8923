# Newsflash Plus: specifications, model checking and proofs

Newsflash Plus is a Usenet downloader. Its core is the *engine*
(`src/engine`): it keeps a list of tasks grouped into batches, opens
connections to news servers, asks them for articles, decodes the articles on a
pool of threads and writes files. Around it (`src/app`) are the parts that
repair and unpack what was downloaded, query web services and show everything in
a Qt user interface (`src/gui`).

This directory holds TLA+ models of the parts of that program in which order,
concurrency and failure matter, the TLC configurations that check them on small
instances, and proofs checked by TLAPS. `PROJECT.json` maps every definition that
models code to its lines.

1. [The system](#1-the-system)
2. [Modules](#2-modules)
3. [How the models correspond to the code](#3-how-the-models-correspond-to-the-code)
4. [Runs: what is checked](#4-runs-what-is-checked)
5. [Where the code and its documentation disagree](#5-where-the-code-and-its-documentation-disagree)
6. [Proofs](#6-proofs)
7. [Not modelled](#7-not-modelled)

## 1. The system

### Components

| Component | Source | State | Operations | Hard behaviour | Correct when | Modelled in |
|---|---|---|---|---|---|---|
| engine core | `engine/engine.cpp` | tasks, batches, connections, `cmds` (cmdlists waiting or executed), queue of completed actions, counters | `download_files`, `start`, `stop`, `pause/resume/kill_task`, `kill/clone_connection`, `move_task_*`, `pump`, `tick` | results arrive after a pause, a kill, a failure, a stop; one cmdlist may be executed again elsewhere | counters equal what they count; no article and no task is lost; ends are announced once; everything ends | `Engine*` |
| thread pool | `engine/threadpool.cpp` | per thread a queue, a mutex, a condition variable; the private threads in use | `submit`, `allocate`, `detach`, `shutdown`, `thread_main` | submit races the worker's wait; detach of a busy thread | each action exactly once, in its owner's order; no lost wakeup; shutdown ends | `ThreadPool` |
| connection actions, cmdlist | `engine/connection.cpp`, `cmdlist.h` | cancel bits, commands, buffers, receive buffer | resolve, connect, initialize, execute, ping, disconnect | cancel or timeout between two responses; a second execution after a failure | each buffer has the answer to its own command; what was received is kept | `NntpConnection`, `Engine` |
| NNTP session | `engine/session.cpp`, `nntp.cpp` | commands to send, responses expected, the group | `send_next`, `recv_next`, one `parse` per command | pipelining, authentication in the middle, refusals | the i-th response answers the i-th command | `NntpSession` |
| throttle | `engine/throttle.h` | quota used in this second | `give_quota`, `accumulate`, `set_quota`, `enable` | several connections, unsigned arithmetic, no lock on the settings | never more than the quota in a second; quota comes again | `Throttle` |
| download | `engine/download.cpp`, `decode.cpp`, `datafile.h` | articles not asked for yet, the stash of a uuencoded binary, files | `create_commands`, `complete`, `commit`, `cancel` | decodes and writes end in any order, and after a kill or pause | a complete file has each article once, in its place | `Download`, `EngineTask` |
| session persistence | `engine/engine.cpp` | what is left of each task | `save_session`, `load_session` | a shutdown in the middle | a restart continues the task | `Download` |
| header update | `engine/update.cpp`, `catalog.h` | the group's interval on the server, asked for, and stored | `create_commands`, `complete`, `commit`, `cancel` | replies and parses in any order, pause, crash, a growing group | what is recorded is stored, nothing is forgotten or asked twice | `HeaderUpdate` |
| article index, newsgroup window | `engine/index.h`, `app/newsgroup.cpp`, `gui/newsgroup.cpp` | a sorted permutation in two parts, blocks, selection | `insert`, `sort`, `filter`, `select`, `load`, delete, bookmark | catalogs change under it | each header once, filtered, in order; the selection follows | `NewsGroup` |
| post-processing | `app/arcman.cpp`, `repairer.cpp`, `unpacker.cpp`, `par2.cpp`, `unrar.cpp` | repairs pending per folder, archives pending, two lists | queue, stop, kill, the processes' ends | several repairs in a folder, crashes reported twice, archives in archives | repairs before unpacking, each volume once | `PostProcessing` |
| power off | `app/poweroff.cpp` | what it waits for, counts | the signals of the others | counts kept elsewhere | neither too early nor never | `PostProcessing` |
| web engine | `app/webengine.cpp`, `webquery.cpp` | live and dead queries, a timer | `submit`, `heartbeat`, `finished`, `abort` | callbacks that submit, abort and run event loops | each query is answered once | `WebEngine` |
| application engine, table models, parsers, sockets, files, the rest of the gui, vendored tools | `app/engine.cpp`, `engine/yenc.h`, `tcpsocket.cpp`, `bigfile.cpp`, `src/gui`, `src/tools`, ... | none that outlives a call, or the operating system's | | | | section 7 |

### How they interact

The *GUI thread* owns the engine: every call of the user interface, `pump` and
`tick` run on it, one after the other. Work that may block is an *action*: the
engine submits it to a thread, the thread performs it and hands it to
`on_complete`, which appends it to a queue under a mutex and notifies the GUI,
and the next `pump` gives it back to the task or connection that owns it, which
may submit the next one.

A task that has articles and an account with a ready connection makes a
*cmdlist* of the next articles (`task::run`). `state::enqueue` gives it to a
ready connection of the account or lets it wait in `cmds`. The connection's
thread executes it: it queues the cmdlist's commands in its *session*, sends
them, receives as much as the *throttle* allows, and gives each response to the
cmdlist's next buffer. The result goes to `task::complete`, which decodes what
came, sends the cmdlist to the *fill account* if something was missing, and takes
back what was not asked for. A decode leads to writes, and a task is complete
when it has no articles, no active cmdlists and no active actions. Batches count
their tasks per state.

A *header update* is a task too: its cmdlists ask for ranges of headers, its
actions parse and store them in catalogs, and each stored catalog is announced
to the window on that newsgroup, which reads it.

When a batch is complete the *archive manager* hears of its folder and hands the
recovery files to the repairer and, when all repairs are done, the archives to the
unpacker. Both run one external process at a time. The *power off* counts the
downloads and archives it waits for.

## 2. Modules

| Module | What it is |
|---|---|
| `ActionService` | abstract: what the engine needs of the threads that run its actions |
| `ThreadPool` | `threadpool.cpp` and its properties; implements `ActionService` |
| `ThreadPoolProofs` | the theorems about `ThreadPool` |
| `DownloadService` | abstract: what the engine promises of download tasks |
| `EngineState`, `EngineConn`, `EngineTask`, `EngineBatch` | the engine's data, and the classes `conn`, `task`, `batch` as operators on it |
| `Engine` | the variables, the user's commands, `pump`, `tick`, the threads, the specification |
| `EngineProperties` | the properties of the engine, its refinement of `DownloadService`, its fairness |
| `EngineProofs` | the theorems about the engine |
| `NntpSession` | `session.cpp`: the session as a value, its methods as operators |
| `NntpConnection` | the actions of `connection.cpp`, the cmdlist, the server and the wires |
| `NntpProperties`, `NntpProofs` | the properties of the conversation, and the theorems about it |
| `Throttle` | `throttle.h` with the connections that obey it |
| `Download`, `DownloadProofs` | one download task with its files, its stash and its restart; the theorems about it, and the one about `Throttle` |
| `HeaderUpdate`, `HeaderUpdateProofs` | one update of a group, and the theorems about it |
| `NewsGroup` | the window on a newsgroup with `index.h` |
| `PostProcessing`, `PostProcessingProperties`, `PostProcessingProofs` | repair, unpack, their manager and power off, and the theorems about them |
| `WebEngine`, `WebEngineProofs` | the HTTP queries and their clients, and the theorems about them |
| `Subsequences`, `CollectionFacts` | taking elements out of a sequence, and what is proved of that, of sums over finite sets and of sequences |
| `MC...` | instances for TLC |

The models meet at interfaces. `Engine` represents the threads by what
`ThreadPool` guarantees: theorem `ActionsExactlyOnce` is why an action ends once,
`ThreadsInOrder` why a connection's actions end in order, `OwnersExclusive` and
`ActionsInOwnerOrder` why `Download` keeps its decodes of uuencoded parts and its
writes in one queue, and property `PoolLive` why fairness of the threads may be
assumed. `Engine` knows of an execution what it ends with, which is what
`NntpConnection` shows of the session and the cmdlist: `ResultsAreRight` is why a
returned buffer may be taken for the article it stands for. `Download` is what
`Engine` counts as decodes and writes. `NewsGroup` has the stores of
`HeaderUpdate` as its environment.

Definitions called "mutant" are deliberately wrong forms of the definition after
them. No specification uses them; substituting one must make a named property
fail, which shows that the property watches that code.

## 3. How the models correspond to the code

### ThreadPool

One step is what happens under one worker's mutex, or between two such sections.
`pc` is where a thread is in `thread_main`: `loop` (about to take the mutex),
`wait`, `perform` (has popped an action), `retire` (`on_complete` has returned,
`queue_size_` not yet decremented), `exit`. `Push` is the common part of the two
`submit` overloads with its `notify_one`; `Stop` is one turn of `shutdown`'s loop,
`Join` the return of its `join` together with the next turn. Condition variables
may wake up spuriously.

Actions are numbered in submission order, so "in submission order" is `<`.
`where`, `owner` and `completed` record history. `Drop` is what `set_account` and
`del_account` do to a connection's thread: nothing gives it back.

Bounds: `MaxThreads` (all threads) and `MaxActions`. `round_robin_` is kept modulo
`PoolSize`, as it is used; its own wrap at 2^64 submissions is left out.
`shutdown` is also what stops the engine: what is queued then is dropped, as the
code does when `run_loop` is false.

### Engine

A call into the engine runs from start to end on the GUI thread and passes
through several objects, so handlers are operators from engine state to engine
state (`S`), composed as the code composes its calls, and an action of module
`Engine` is one whole call: `Pump` is one turn of `pump`'s loop with everything
it leads to. The threads' actions are `ConnStep` and `PerformJob`.

* **Execution of a cmdlist** takes several steps, because the GUI may cancel the
  cmdlist or the connection in between: `ExecuteConfigure` (groups selected,
  `submit_data_commands`), one `ExecuteReceive` per article, and the ends
  `ExecuteCut`, `ExecuteNoGroup`, `PerformFails`. A pipelined
  session that is cut short is reset and reports an exception; one without
  pipelining simply ends.
* **Counters** are integers standing for `size_t`; the code only adds, subtracts
  and compares with 0, so below 0 is where it wraps.
* **Object ids**: `oid++` in the code; here the smallest id nobody refers to
  (`Reap` plays `shared_ptr`). Ids are never compared but for equality.
* **Time**: `tick`'s countdowns to a ping or a reconnect may run out at any
  tick. A ping is only interesting once between two results; `pinged` bounds it.
* **History** fields (`decoded`, `missing`, `told`) are read by properties only.

Left out of the data: bytes, percentages, ETA, logging, host names, article
names. `num_bytes_queued_` stays 0 because no action of a download overrides
`action::size` (`engine.cpp:1232-1240`), so such a task never enters the state
`crunching`; an update does (`HeaderUpdate`).
`buffer::status::dmca` is handled as `unavailable`. `is_fillable_` is taken to
be true. A thread taken over from another connection only delays
(section 5), so each connection has a queue of its own.

Bounds: `MaxCommands`, `MaxFaults`, `ConnIds`, `CmdIds`, and `Room` (a command
is given only when enough connection ids remain for all accounts, those being
taken by connections that were told to stop but have actions left). The user's
first `start` is not counted.

### NntpSession and NntpConnection

The session is a record: the queues `send_` and `recv_`, the group it believes
selected, and the error. `send_next` moves commands from one to the other, as many
as may be pipelined; `recv_next` lets the command at the head of `recv_` parse
the buffer. A response is a status code, whether its data inflates, and (for the
properties only) the command the server sent it for. Each command's `parse` is
one case of what it does with each code: take it out of the buffer, leave it
there (`group` at a 411), clear the buffer, ask for authentication.

A connection's thread is a program counter. One step is one turn of the loops of
`execute`, `initialize` or `ping`: send, receive one response, parse it. The
server takes commands in order and answers each, may demand authentication, may
refuse it, may not carry a group or have an article, and may go away; the user
cancels cmdlists and stops the connection. An action that ends with an exception
closes the connection, and the cmdlist, with the buffers it has, may be executed
on the next.

Bounds: `MaxConnects` connections one after the other, pairs of cmdlists of two
commands each.

### Download

One posting of one file. An article is the set of what `decode` finds in it:
a yEnc part with its offset, the first, a middle, the last part or the whole of a
uuencoded binary, or text. A file is a sequence of articles, with the file's
position, and with its fate: listed in `files_`, open, to be discarded. A
`datafile` lives as long as the download or a write holds it, so `Erased` plays
its destructor. Decodes that any thread may take are a set, those for the single
thread a queue with the writes; their results are taken by `Pump` in the order
they end.

`Shutdown` saves the session and ends the program, `Restart` loads it. The
cmdlists in flight are gone with it: `lost` keeps them for the properties, as
well as the articles a pause throws away. State `crashed` is an assertion or a
null pointer that ends the program.

Bounds: `MaxCommands`, `MaxFaults`; a session of two connections; the size of the
stash is `decode_jobs_`, the number of articles left when the task was made or
loaded.

### HeaderUpdate

A range is a set of article numbers. `Run` is `task::run` with
`create_commands`: first a `groupinfo`, then ranges above `xover_last_`, then below
`xover_first_`, `RangeSize` numbers to a range and `RangesPerCmdlist` to a
cmdlist. `Returned` covers what may become of a cmdlist: all of its ranges, some,
none, a refusal, data that cannot be inflated, or a cancel; one whose connection
was lost is executed again by the engine and so is still out. Parses end in any
order, and so do stores, one of which may fail half done. A task for whose
actions 8 MB wait is `crunching`, which cancels its cmdlists. `commit` writes the
`.nfo` file when the task is complete or killed, and `Crash` may come before it or
in the middle of it (`CutFile`). Numbers of articles that have expired stay in a
range and bring nothing.

`lost` keeps the numbers asked for in vain: those of ranges that were refused,
cut off by the server or canceled. The update never asks for them again. This is
what the code does, and what `HeadersKept` excepts.

### Throttle

`accum_` and the quotas are counted modulo `SizeMax + 1`; the chunk of 1024 bytes
and the quota are a few. A second ends at any time, and the part of the new quota
that has already gone, `(gone % 1000) / 1000.0 * quota_`, is any number below it.
`GiveRacing` is a `give_quota` while the GUI sets the quota: each of its reads of
`quota_` sees the old value or the new one.

### NewsGroup

An article of the model is a posting; its record is in a catalog and changes as
parts arrive. `Store` is a store of an update, `HeaderData` a call of `on_write` for
one of the catalogs it wrote, all on the GUI thread. Loading a catalog is
`LoadNext` for each header and `LoadDone`. `insert` goes to any place at which
`lower_bound`'s binary search over the records, as they are now, can end. The
selection in the view is a set of rows, that of the index a flag per header.

Bounds: `MaxParts`, one more than a posting should have, and `MaxCommands`.

### PostProcessing

The repairer and the unpacker are the same machine (a list, a process), written
once. All signals are direct calls on the GUI thread, so an event is one action
with all that follows; the order of the calls is the order in which
`gui/main.cpp` connects them. A process ends by itself with either result, or by a
crash: QProcess then reports `error` and `finished`, both of which call `onReady`,
and the model does both. `aborted` is an `ASSERT` or `ENDCHECK` that fails, which
ends the program in every build.

Bounds: archives added by hand, commands and crashes, one each.

### WebEngine

A callback of a client may take time: it may run an event loop, so `frames` is a
stack of callbacks that have not returned, each with the place in `heartbeat` it
goes back to. `Return` continues there. When a nested heartbeat has cleared the
list the outer one walks, the behaviour is undefined, and `status` says so.

`submit` is an interval as well: it may run a heartbeat before it returns the
pointer, so the client keeps it (`held`) only when that heartbeat has ended. A
frame remembers the query whose `submit` waits below it (`submits`), and `early`
those called back before their client knew of them. The clients in `Checking`
look the query of a reply up with `ENDCHECK` (`search.cpp:280`,
`rssreader.cpp:195`): then `status` is `"aborted"`. The others, such as the
dialog of a Newznab account (`dlgnewznab.cpp:125`), keep a pointer to nothing,
and `abort` on it (`Stop`) is undefined. `HeldIsValid` excepts these, and
`KnownInTime` says when it cannot happen: `steady` holds while `m_timeout` is
more than one heartbeat and was never lowered, which is the application's case,
since it never calls `setTimeout`.

Bounds: the queries and the depth of the stack. The timeouts of one and two
heartbeats reach both sides of `KnownInTime`; with 1, 2 and 3 the result is the same.

## 4. Runs: what is checked

Eleven runs pass, in less than two minutes each. Each covers one component with
all its operations and faults, as small as the interesting cases allow.

| Run | Instance | States | Shows |
|---|---|---|---|
| `pool` | 2 pool threads, 1 private, 2 connections, 3 actions, detach, drop and shutdown at any time | 65 thousand | `Delivery`, `Waiting`, `ThreadsHeld`, refinement of `ActionService`, and `PoolLive`: every action completes and shutdown ends |
| `faults` | main and fill account, tasks of 2 and 1 articles, cmdlists of 2, two faults of seven kinds | 419 thousand | `ArticlesKept`: no article is lost and one fault is filled; `Scheduling`: no task is forgotten and the end of a batch is told once; `NothingUndone` |
| `commands` | 1 account, 2 tasks, one command of six, two faults, fairness | 235 thousand | `EndsCounted`; `WorkGoesOn`: no idle connection while there is work; refinement of `DownloadService`; `EngineRests` |
| `pause` | 1 account, 2 tasks, three of pause, resume, kill, stop, start, with one fault | 460 thousand | `ActionCounters`; `ConnectionsSound`: one action to a connection, one connection to a cmdlist, one cmdlist to an article; `WaitingIsWanted` |
| `session` | four pairs of cmdlists, with and without pipelining and credentials, two connections | 4.5 million | `ResponsesMatch`, `ResultsAreRight`, `AnswerIsComingInTurn` |
| `postproc` | two folders, one with two repairs, one with an archive in an archive, one archive by hand, one command, one crash, three choices of what the power off waits for | 1.1 million | `FolderOrder`, `PowerOffSafe`, `AssertsHold`, `FolderUnpacked` |
| `nested` | one folder with an archive in an archive | 5, then the violation | section 5 |
| `web` | four queries of two clients, callbacks three deep | 188 thousand | `ListsSound`, `RepliedOnce`, `QueryEnds` |
| `headers` | six numbers, one without an article, a group that grows and expires, two updates, a fault and a crash | 595 thousand | `HeadersKept`, `AskedOnce`, `UpdateEnds` |
| `throttle` | two connections, four bits, two quotas, two changes | 108 thousand | `Bounded`, `QuotaComes` |
| `newsgroup` | three postings of two parts in two catalogs, three commands | 1.6 million | `IndexMatches`, `SelectionMatches`, `SelectionKept` |
| `download` | seven postings, two connections, three commands, two faults | 2.7 million | `StashFits`, `Whole`, `PartsInOrder`, `KilledLeavesNothing` |

**Why these bounds are enough.** A batch of two tasks is enough for tasks to
compete for a connection and to disagree on their end; two articles and one
cmdlist of two for a cmdlist to be partly done; two connection ids for one
connection and the one that replaces it. Two commands to a cmdlist are enough
for a pipeline whose middle is disturbed, and a second cmdlist for one that finds
what the first left behind. Three parts of a picture have a first, a middle and a
last; two middle ones compete for a slot. Two recovery sets of a folder are
enough for one to end before the other. Of four bits `accum_` can wrap around.
Two postings in a block and one in another are inserted before, between and
behind what is there. Two updates are enough for the second to rely on what the
first recorded.

`DownloadService` deserves a word: it knows of a task only which articles are to
be fetched, held in memory, missing or stored, and says that the task is complete
in the very step in which none is left to fetch or held, never before and never
later. Every interleaving of connections, refills, retries, decodes and writes
must come down to that.

Deadlock checking is off: a program with nothing to do rests, and the bounds on
actions, commands and faults end every behaviour.

**What a property excepts** is said in its comment and at the hazard. The code
does not keep some promises in some situations (section 5), so the engine's
properties are spread: those that a pause breaks (`WorkGoesOn`, `EndsCounted`,
`NothingUndone`, `Scheduling`) are checked with the other commands or the
faults, and run `pause` checks those that hold regardless. `BatchToldOnce`, in
`Scheduling`, is checked without kill. The fault `nogroup` is left out of run `faults`, where it
breaks `TasksHaveWork` (`engine.cpp:953-957` flags the task and returns without
`update_completion`).

**Fairness**, all of it weak:

* `pool`: every thread that can run runs, and `join` returns; nothing is assumed of the GUI.
* `commands`: every thread finishes what it performs, the GUI pumps whenever there
  are results (`on_async_notify`) and ticks, which reconnects a failed connection
  whose failure is not fatal. No command of the user is ever owed.
  Server rejections are not among its faults: the code never reconnects after one,
  so no task ends then.
* `postproc`: an external process makes progress and ends; Qt then delivers its signals.
* `web`: the timer fires while it is active, and a callback returns. The network owes nothing.
* `headers`: a task that can run is run, cmdlists come back in one way or
  another (connections time out), and actions are performed.
* `throttle`: every connection's loop goes on, the server sends or closes, and seconds pass.

Where TLC would evaluate `ENABLED` of a whole call slowly, weak fairness is
written out: `[]<>~enabled \/ []<><<A>>_vars` with the action's condition.

## 5. Where the code and its documentation disagree

Run `nested` shows one disagreement: the archive manager finds the archives that
an archive contained, as its comment says it should (`arcman.cpp:190-194`), counts
them as pending and hands them to nobody. They are not extracted, and a power off
that waits for unpacks never comes. `PROJECT.json` quotes the lines.

Others were met while modelling. They are the exceptions of properties that are
checked, and are listed with the hazards:

* `detach` makes a busy thread available at once, not after it has performed its
  queue (`threadpool.cpp:143`, `threadpool.h:68-70`).
* A task paused and resumed while its last cmdlist is executed completes at once,
  and again later (`engine.cpp:1075`); a pause throws away the articles of a
  cmdlist that waits (`engine.cpp:1048`).
* A cmdlist refused for its group on the main account is dropped after the fill
  account has delivered it: its fail bit is never cleared (`engine.cpp:948`).
* With a fill account, articles may be lost without a trace. A cmdlist that the main
  account could not fill goes to the fill account with the buffers that were
  unavailable set to none (`cmdlist.h:144-145`). If its execution is cut short by
  `stop` or `kill_connection` it comes back with these buffers neither filled nor
  refused, and `task::complete` neither decodes nor flags nor requeues them
  (`engine.cpp:985-1015`): `download::complete` puts back what has no buffer
  only, where its comment says that "all not yet processed messages go back into
  pending list" (`download.cpp:258`). `ArticlesPartition` fails with a fill account,
  the fault `unavailable` and these commands together; the attempt to prove it found
  this, and no run has all three.
* After stop and start a cmdlist that waits is not taken up (`engine.cpp:1767`).
* A ping that ends makes a connection "idle and ready" which executes
  (`engine.cpp:507`).
* Killing the last unfinished task of a batch completes it without a callback
  (`engine.cpp:1606`).
* With pipelining, responses that arrive together are not parsed until more
  bytes come: the loops receive before they parse (`connection.cpp`,
  `AnswerIsComing`).
* A crash of one of two repairs of a folder is counted twice and aborts the
  program when the other ends (`arcman.cpp:135`); killing the active repair does so
  when it reports its next file (`repairer.cpp:392`).
* A callback that runs an event loop lets a nested heartbeat clear the list the
  outer one walks (`webengine.cpp:213`).
* The heartbeat in `submit` (`webengine.cpp:91`) may call the client back before it
  has the pointer, although "the pointer will be valid untill the query completes"
  (`webengine.h`): with a timeout of one heartbeat, or one that was lowered while two
  queries waited. `ENDCHECK` then ends the program, or a dialog keeps a pointer to
  nothing. The application never sets the timeout, and with its own it cannot happen.
* An update never asks again for a range that was refused or canceled, although
  the interval it records spans it (`update.cpp:470`).
* Inserting does not "maintain current sorting" once a sort key has changed
  (`index.h:130`).
* The parts of a uuencoded binary that takes more than one cmdlist may be stored
  out of order, although "the same ordering is maintained throughout"
  (`download.cpp:170-177`): the slots are given in the order of the decodes, and
  two cmdlists on two connections come back in any order. With a posting first,
  middle, middle, last and two articles to a cmdlist TLC finds a complete file
  `<<1, 3, 2, 4>>`. `PartsInOrder` therefore speaks of binaries that fit into one
  cmdlist.
* When two of the groups a cmdlist tries are the same, the session may read
  a refusal that is still in the buffer for the answer to its second try, and
  take a group for selected that is not. The attempt to prove `ResultsAreRight`
  came across it; the property excepts it as `MayHaveMisread`.
* The articles of cmdlists under way are not saved with the session
  (`engine.cpp:808`); a single middle part of a uuencoded binary is stored beyond
  the stash (`download.cpp:188-195`).

## 6. Proofs

### The engine

`EngineProofs` proves `TypeOK`, `ActionCounters`, `OneConnectionPerCmdlist`,
`OneCmdlistPerArticle` and, while no ping is sent, `ConnectionsSound`, for any
accounts with any number of connections and with or without pipelining, any fill
account, any batches of any tasks, any number of articles and size of cmdlist, every
command of the user and every fault, in any number and together, as no run has
them. `EngineAssumption` says of which types the
constants are, that ids and accounts are not 0, that a task has an article, and
that tasks and connection ids are finitely many at a time; the commands and faults
are any of those the model has.

**The invariant.** A call on the GUI thread is one step, but goes through many
handlers, each of which may find the counters in the middle of a change. So the
invariant is a predicate of an engine state `S` between two handlers,
`Settled(S, h, g, Ad)`: `h` is the action whose result pump is handing to its task,
`g` the one whose result its connection has still to see. `Total(S, h, P)` is
the number of actions of the set `P` that are under way: on the threads' queues,
among the jobs, done, or in hand. What the objects know is stated with it:

* `Counted`: `num_pending_actions` is the total of all actions, a task's
  `num_active_actions_` that of its decodes and writes, and 0 once it is gone;
* `DecodedOnce`: a decode of an article or what it led to is under way once, and of
  an article the task has put down as decoded;
* `ExecutedOnce`: an execute of a cmdlist is under way once at most, and for the
  task and a connection the cmdlist names;
* `Claimed`: the articles a task still has are distinct and not decoded, and each
  cmdlist that is waiting or executed asks for articles of its own, which neither the
  task nor another cmdlist has and which were not decoded;
* `Unknown`: of a batch that was never submitted there is no task, action or cmdlist;
* `Linked`: a connection has exactly the action its state tells, and a free id none;
* `Known`: the counts of each batch are those of its tasks' states, but for the
  batches (`X`) that have still to be told of a transition;
* `Typed` with `Owned`: the types, and that tasks and cmdlists name articles of the task.

None of the properties is inductive alone: that an article is asked for once needs
`ExecutedOnce`, for the cmdlist that pump hands to the task must not come back a
second time; that needs `Counted`, for a cmdlist id is used again when nobody
holds the old cmdlist (`Reap`); and no action of a task that was killed may be taken for
one of a new task, which is `Unknown`.

**The argument.** The `Total...` lemmas say what a submission, the hire of jobs,
the take of a result and the steps of the threads do to the total of every set of
actions. The handlers of `EngineConn`, `EngineTask` and `EngineBatch` have one lemma
each, of what they keep and what they change (`Steps` for handlers of a task,
`ConnWith` and `Sent` for those of a connection, `Known` with the set of batches to be
told for `update`), and are composed as the code composes them. Loops over a list of
objects are `ForEach`, a recursive function: `LoopRuns` and `LoopEnds` in
`CollectionFacts` show that it is defined, and carry through it what every turn keeps. Last come one lemma per command, fault and step of a thread,
and `InitInvariant`. The actions that `OnTheWay` counts are those of `Total`
with nothing in hand.

**The ping.** `ConnectionsSound` is assumed of runs without `ping` because it is false
with it: at the end of a ping `conn::on_action` sets the state to connected although
an execute was submitted meanwhile (`engine.cpp:507`). A cmdlist is executed by one
connection, and an article asked for by one cmdlist, with pings too; only
the connection may get a second cmdlist behind the first.

### The thread pool

`ThreadPoolProofs` proves, for every `PoolSize`, `MaxThreads`, `MaxActions`, set
of owners and set of connections that satisfy `PoolAssumption`, all safety
properties that run `pool` checks, and that `ThreadPool` implements
`ActionService`. The assumption says that there is at least one pool thread, that
object ids are natural numbers and that "no thread" is not a thread.

**The invariant.** None of `ExactlyOnce`, `OwnerOrder` or `OwnerExclusive` (the parts of `Delivery`) is
inductive. What makes them true is an order: along the line *completed by a
thread, in its hands, in its queue* the action numbers increase. `Inv` says so:

* `Queued`, `Increasing`: a queue holds actions submitted to that thread, in order;
* `InHand`, `Past`: the action performed precedes the queue, the completed ones precede both;
* `InOrder`: the completed actions of one thread are in order;
* `Somewhere`: each submitted action is in its thread's queue, in its hands, or completed;
* `Owned`: all actions of one owner went to the same thread;
* `Started`: threads not started yet do nothing (so `allocate` overwrites nothing);
* `Private`: a handle names a private thread in use, held by no other connection;
* `Counted`: `queue_size_` is the number of actions not completed plus the number of threads that have yet to count one off;
* `TypeOK`, `NoLostWakeup`.

`TypeOK` is not inductive by itself either: that `completed` holds action ids
needs `InHand`.

**The argument.** `StepCases` sorts all fourteen actions into five kinds by what
they do to the actions of the pool: submit one, pop one, complete one, count one
off, or leave them and their count alone. `SubmitOrder`, `PopOrder`,
`PerformOrder` and `QuietOrder` show that each kind preserves the order;
`CountedStep` does the same for the count, with the cardinality lemmas of
`FiniteSetTheorems`; `StartedStep`, `PrivateStep`, `WakeupStep` and `TypeStep` go
by action. From `Inv` the properties follow without further induction:
`OwnerOrder` from `Owned` and `InOrder`; `OwnerExclusive` from `Owned` and
`InHand`; `ExactlyOnce` from `Somewhere` and the strictness of the order;
`WaitAllComplete` from `Counted`. The refinement (`ServiceNext`) uses the same five
cases: a completion is allowed by `ActionService` because an earlier action of
the same owner is somewhere in the same thread, and can only be completed.

`Delivery`, `Waiting` and `ThreadsHeld`, which the run checks, are conjunctions of
these.

`Inv` was also checked by TLC on the instance of run `pool`.

### The header update

`HeaderUpdateProofs` proves, for ranges and cmdlists of any size, any number of
cmdlists at a time, any group, whatever the server says of it in each reply, and
any number of pauses, faults, crashes and updates, that no header is forgotten
(`HeadersAreKept`) and none asked for twice (`HeadersAskedOnce`). `UpdateAssumption`
says that sizes are positive numbers, that article numbers lie below
`MaxNumber` (the largest 64-bit number), and that replies are pairs of numbers.

**The invariant.** `NothingForgotten` is not inductive: that a header lies between
the oldest and newest number asked for says nothing unless these numbers are one
interval that grows at its ends only. `IInv` adds:

* `Bounds`: what was asked for or recorded lies in the interval
  `xover_first_ .. xover_last_`, what is on its way was asked for, and nothing
  was asked for before the group's numbers are known;
* `Recorded`: the intervals in memory and in the file are not empty once begun,
  and the file of an update that never stored is absent or cut;
* `Idle`: without a task the variables have their initial values;
* `TypeOK`, `RecordedEnds`.

**The argument.** `NewerRangesSound` and `OlderRangesSound` are about the
arithmetic of `create_commands`: the ranges it makes cover exactly the numbers by
which the interval grows, overlap nowhere and have at most `RangeSize` numbers;
they rest on the facts about multiples and quotients at the head of the module.
From them `RunAsksOnce` shows the action property, with `Bounds`. Then one
lemma per kind of step: `OverviewKeeps` and `FailuresKeep` (a cmdlist comes back),
`ParsedKeeps`, `StoresKeep` (an action ends, and with it perhaps the task),
`GroupInfoKeeps`, `RunKeeps`, `OpenKeeps`, `EndsKeep` (pause, kill, crash). What a
step does to the headers is always that a range goes from one place to the next;
`KeptIsEnough` says why that suffices. `IInv` implies `CompleteHasAll` because
`has_commands` is false only when the interval reaches both ends of the group.

`IInv` was also checked by TLC on the instance of run `headers`.

### The web engine

`WebEngineProofs` proves `ListsSound` and `RepliedOnce` for any number of
queries, any depth of callbacks that run event loops, any clients and any
timeouts. The invariant (`Sound`, on the record of the variables that the
operators of the module pass on) adds to them:

* `Placed`: a query is in one of the lists, once, only if it was submitted, and not
  in `m_live` when its reply has finished;
* `Called`: the client is called back when the reply has finished, and never
  of a query it aborted;
* `Holds`: what a client holds a pointer to is on a list, neither aborted nor
  finished, unless it was called back before `submit` had returned;
* `Awaited`: the query of a `submit` that has not returned is held by nobody and
  either on a list or called back already, and no two such queries are the same;
* `Walked`: a `heartbeat` that waits for a callback has nobody left to call at or
  before the place where it goes on, unless the list was cleared meanwhile.

`KnownInTime` needs `Steady`: as long as the timeout was not lowered, no two live
queries have been ticked equally often, because a heartbeat submits one of them
and ticks them all. So one at most is late at a heartbeat, its client holds it
already, and the heartbeat in `submit`, which runs only when nothing else is live,
calls nobody back.

Without `Walked`, `RepliedOnce` is lost in the step in which an outer heartbeat
goes on. Once a heartbeat walks a list that was cleared nothing is claimed but
types and what the clients have seen.

### The throttle

`DownloadProofs` proves, behind the theorems on the download, `Bounded` for any number of connections, any width of
`size_t` and any quotas. `ThrottleAssumption` asks for room between the largest quota
and the width: all connections' chunks together must fit, so that an `accum_` that has
wrapped around does not come down to the quota. The code does not check it, but
with 64 bits and chunks of some kilobytes it holds. `Counted` is the invariant:
while the throttle is on, what was received in this second and what is out is at
most what was out when the second began plus `accum_`, read as a signed number.
The sum over the connections is a fold; `CollectionFacts` shows how it changes
when one connection's share does.

### The NNTP session

`NntpProofs` proves all four invariants of run `session`, for cmdlists and
groups of any length and number, any settings, and any number of connections,
cancellations and losses. `ConnectionAssumption` says of which types the constants
are, of which of the four kinds each cmdlist is, and that one for a group's numbers
names a group. The invariant:

* `Conversation`: responses come in the order of the commands: what is in the
  buffer, on the wire and on its way to the server answers `recv_`, from its head
  on, but for responses that were left; and one at a time without pipelining;
* `Executes`: where the thread is tells which commands are unanswered: the last
  tried group, or the articles from the next buffer on;
* `Stored`: what is in the buffers of every cmdlist, executed or not;
* `Groups`: the session's group is the server's, but for an answer that is on its
  way, and the places where a 411 that was left may be read again.

`ResponsesMatch` alone is not inductive because it says nothing of what is still on
the wire, and `ResultsAreRight` is not without `Groups`. `Refusals` and
`Misreads` were found by failing proofs: each is a way in which a stale refusal
outlives the try it answers.

### The download

`DownloadProofs` proves `StashFits` and `KilledLeavesNothing` for postings of any
length and contents, any size of cmdlist, any number of connections, and any
commands, faults and restarts. `PostingAssumption` says that a posting is a
sequence of contents and not empty, `BoundAssumption` that the limits are numbers
and a cmdlist has at least one article.

* `Types`: the types, with `Solid`: a text file has no holes, so that its
  articles can be lost as a whole;
* `Room`: the stash has as many slots as `decode_jobs_`, only a stash of one slot
  is overrun, and a task without slots has nothing to do; it must be shown of
  every step that no decode comes to such a task;
* `Fates`: an open file is listed by the task until it is killed; afterwards an open
  file is to be discarded and a write under way holds it. `KilledLeavesNothing` is
  what remains of that when no write is left, and it says nothing of the steps
  before.

`CommitEnds` and `UpdateEnds` are about the composition `update_completion` makes
of `commit` and the state it goes to; `TypesAfter`, `RoomAfter` and `FatesAfter`
say of the next state what each action has to establish, and there is one lemma
per action.

`YencIsWhole` and `YencInOrder` are `Whole` and `PartsInOrder` for every posting
that is not uuencoded, of any length, with its texts. They follow from `WInv`, which
adds to the invariant above where each article is:

* `Plain`: there is no stash, a write to the binary has the offset of its part, so
  that position i of the file holds part i or nothing, and a file that was created
  has its final size at once;
* `Division`: no article is twice among those to be asked for, the cmdlists, the
  decodes, the texts to be written and the text that has been written, nor in two
  of these: otherwise an article would be written twice;
* `Covered`: an article that is neither missing nor thrown away is still to be decoded
  or `Done`, that is, each of its contents is written or in a write under way. An
  action that failed has taken its article with it, until `pump` puts the task into
  an error state: hence `SomeFailed`;
* `Rest`: what is in the text file behind its position is from before a restart
  and was thrown away by it;
* `Over`: what a complete task still has to ask for was thrown away by a pause. An
  empty list of articles and a count of cmdlists at 0 do not mean that all
  have come back, for a canceled cmdlist is not counted;
* `Fresh`, `Enqueued`: a file that is not listed is empty, and a cmdlist that no
  connection has is on the waiting list, so that a pause knows which articles it
  throws away.

All but `Plain` hold while the task goes on (`Going`). A uuencoded posting needs
more: it is whole only if it has one first part, one last and not more parts than
the subject line says, which a sender may get wrong.

### Post-processing

`PostProcessingProofs` proves all three invariants of run `postproc` (`FolderOrder`,
`PowerOffSafe`, `AssertsHold`) for any number of folders, any recovery sets, volumes
and archives in archives, and any number of crashes, commands and archives the user
adds. `PostAssumption` says that there are finitely many folders and that what is
found in a folder or unpacked from an archive is listed once, as
`QDir::entryList` does. The invariant is about the record of objects that one event
passes through, so that it can be stated of the objects in the middle of an event:

* `Lined`, for each of the two lists: every archive once, and only the one the
  process works on active. It is stated with a parameter `busy` because a process
  that has ended does not run any more while its archive is still the active row,
  until `onReady` has come to its end;
* `Known`: what the manager counts are archives it made, none of them in a folder
  that is still being downloaded;
* `Expected`: an archive made for the unpacker is in `m_unpacks`, and a folder with
  an entry there has no repairs left;
* `RepairsLeft`: `m_repairs` of a folder is at least the number of its repairs that
  are not finished, unless one of them died. This, with `Expected`, is what
  `RepairsFirst` needs, and what keeps `ENDCHECK` from failing;
* `Tallied`, `Switched`: as long as no process died, the counts of the power off
  are not less than what is left to do, every archive of the manager's that is left
  is pending, and the power off knows how many are.

`LedgerGrows`, `LedgerDone`, `LedgerForgets` and `LedgerLess` say how the last four change
when archives are made, finished or forgotten and when rows leave a list;
`RepOnReadyFacts` and `UnpOnReadyFacts` go through `onReady` in the order of its
calls, and the crash of a process applies one of them twice.

All these invariants (`IInv` of each module) were also checked by TLC on the
instances of the runs. Where an argument is by induction over data (a sum, what
is left of a sequence, its n-th occurrence), `CollectionFacts` uses the least
number or a minimal finite set with the property in question: these are facts of
the library that take a set, not a predicate.

### Only model-checked

* All liveness (`PoolLive`, `EngineRests`, `FolderUnpacked`, `QueryEnds`,
  `UpdateEnds`, `QuotaComes`), which is beyond the prover.
* Of the engine `ArticlesKept`, `Scheduling`, `NothingUndone`, `EndsCounted`,
  `WorkGoesOn`, `WaitingIsWanted` and the refinement of `DownloadService`. The first
  two do not hold for all constants: `ArticlesPartition` not with a fill account and
  cut executions (section 5), and a task's count of cmdlists, `ActiveCmdlists`, not with a
  pause and a connection that fails, when a cmdlist is on the waiting list twice.
  The others speak of the ends of tasks, which come when that count is 0, so that they
  would have to be proved for each choice of commands and faults of its own.
* `Whole` and `PartsInOrder` for uuencoded postings: they hold for those of the run,
  whose parts are as a sender should make them.
* `NewsGroup`, which merges by recursion.

## 7. Not modelled

By size most of the repository is code without the behaviour these models are about, or
code of others, so the mapped lines are a small share of it:

* **Vendored programs** (`src/tools`: unrar, par2cmdline): third-party, run as
  separate processes. `PostProcessing` has how such a process may end.
* **User interface** (`src/gui`) and the **table models** of `src/app`: presentation,
  besides the selection of the newsgroup window.
* **Encoders and parsers** (yEnc, uuencode, bodies, NZB, RSS, Newznab, listings):
  functions of bytes, covered by unit tests over data. `Download` has what they find as
  the kinds of an article's contents.
* **Sockets, TLS, files, logging**: the environment. Their failures are faults of
  `Engine`, `NntpConnection` and `Download`.
* **Application engine** (`app/engine.cpp`): turns Qt events into calls of the
  engine, which are the actions of the models.

Left out of components that are modelled:

* Engine: `set_account`, `del_account` and `set_fill_account` while connections are
  up, listing tasks, the connection test, the group mode's repartition of the
  task list. Bytes, speed and time estimates.
* Connection: resolving and connecting are one step; buffers have no limit, so
  the 4 MB and 64 byte limits are not seen.
* Download: how files are named, so neither `create_file`'s comparison of names
  nor overwriting; several files in one task.
* Header update: how catalogs and the hash of posting parts are laid out, the
  16-bit distances between parts.
* Newsgroup: purge, refresh, the other columns and filters, the volume list.
* Post-processing: a process that fails to start, two packs with one folder, the
  output of the processes.
