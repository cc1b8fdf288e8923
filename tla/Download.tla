------------------------------ MODULE Download ------------------------------
(***************************************************************************)
(* class download (download.cpp) in the hands of its engine::task: the     *)
(* articles it takes for its cmdlists, the decodes and writes that follow, *)
(* the stash for the parts of a uuencoded binary, the files, and the       *)
(* session that is saved and loaded again.  Engine.tla has several tasks   *)
(* and accounts, and only counts the actions; here there is one task, and  *)
(* what its actions do to its files.                                       *)
(***************************************************************************)
EXTENDS Integers, SequencesExt, Subsequences

CONSTANTS
    Postings,            \* what may be downloaded: sequences of articles
    ArticlesPerCmdlist,  \* num_articles_per_cmdlist
    Connections,         \* the connections of the task's account
    MaxCommands,         \* pause, resume, kill and shutdown
    MaxFaults            \* of the servers, the contents and the disk

\* An article is the set of what decode finds in it: at most one binary and
\* perhaps text.  yenc is a part of a yEnc binary, with its offset; first,
\* middle and last are parts of a uuencoded binary, whole is all of one.
Stashable == {"first", "middle", "last"}
Content == {{b} : b \in Stashable \cup {"yenc", "whole", "text"}}
             \cup {{b, "text"} : b \in Stashable \cup {"yenc", "whole"}}
ASSUME PostingAssumption ==
    \A p \in Postings : p \in Seq(Content) /\ p # <<>>
ASSUME BoundAssumption ==
    /\ ArticlesPerCmdlist \in Nat \ {0} /\ Connections \in Nat \ {0}
    /\ MaxCommands \in Nat /\ MaxFaults \in Nat

VARIABLES
    posting,   \* the articles of the task, in the order of the subject lines
    task,      \* engine::task and its download, see NewTask
    lists,     \* the cmdlists: queued in state.cmds or executed
    stale,     \* entries of state.cmds that point to cmdlists done with
    any,       \* decodes for any thread
    fifo,      \* actions for the one thread that takes single_thread ones
    ready,     \* performed actions, in the order pump takes them
    files,     \* files_ and the objects behind it, and what is on the disk
    running,   \* FALSE from shutdown to the next start
    ncommands, nfaults,
    lost, overrun  \* history: articles thrown away; sizes of a stash that was too small
vars == <<posting, task, lists, stale, any, fifo, ready, files, running,
          ncommands, nfaults, lost, overrun>>

Kinds == {"binary", "text"}
NoFile == [listed |-> FALSE, open |-> FALSE, discard |-> FALSE, exists |-> FALSE,
           pos |-> 1, data |-> <<>>]

\* A task and its download, for the articles s.
NewTask(s, yenc, missing) ==
    [st |-> "queued", articles |-> s, yenc |-> yenc, ncl |-> 0,
     slots |-> Len(s), stash |-> <<>>, named |-> FALSE,
     missing |-> missing]

Uuencoded(p) == \E i \in DOMAIN p : p[i] \cap (Stashable \cup {"whole"}) # {}

Init ==
    /\ posting \in Postings
    /\ \E yenc \in BOOLEAN :
         /\ yenc => ~Uuencoded(posting)
         /\ task = NewTask([i \in DOMAIN posting |-> i], yenc, {})
    /\ lists = {} /\ stale = 0
    /\ any = {} /\ fifo = <<>> /\ ready = <<>>
    /\ files = [k \in Kinds |-> NoFile]
    /\ running = TRUE
    /\ ncommands = 0 /\ nfaults = 0
    /\ lost = {} /\ overrun = {}

Fault == nfaults < MaxFaults /\ nfaults' = nfaults + 1
NoFault == UNCHANGED nfaults

-----------------------------------------------------------------------------
(* The files. *)

\* bigfile::write at the file's position, for the articles s in turn.
PutAll(F, s) ==
    LET end == F.pos + Len(s)
    IN  [F EXCEPT !.pos = end,
                  !.data = [i \in 1 .. Max({Len(@), end - 1}) |->
                              IF i \in F.pos .. end - 1 THEN s[i - F.pos + 1]
                              ELSE IF i <= Len(@) THEN @[i] ELSE 0]]

\* download::create_file and the datafile it makes, with room for size parts.
CreateFile(FS, kind, size) ==
    IF FS[kind].listed THEN FS
    ELSE [FS EXCEPT ![kind] = [listed |-> TRUE, open |-> TRUE, discard |-> FALSE, exists |-> TRUE,
                               pos |-> 1, data |-> [i \in 1 .. size |-> 0]]]

\* datafile::close for every file of the task.
ClosedFiles(FS) == [k \in Kinds |-> [FS[k] EXCEPT !.open = FALSE]]

\* download::cancel forgets the files; one that no write holds is gone at once.
KeptFiles(FS) == [k \in Kinds |-> [FS[k] EXCEPT !.listed = FALSE]]  \* mutant
DiscardedFiles(FS) ==
    [k \in Kinds |-> [FS[k] EXCEPT !.listed = FALSE, !.discard = FS[k].listed \/ @]]

\* The destructor of a datafile, once neither the task nor a write holds it.
Erased(FS, held) ==
    [k \in Kinds |->
       IF FS[k].listed \/ k \in held \/ ~FS[k].discard \/ ~FS[k].open THEN FS[k]
       ELSE [FS[k] EXCEPT !.open = FALSE, !.exists = FALSE]]

-----------------------------------------------------------------------------
(* The end of a task: update_completion, goto_state(complete) and commit.  *)
(* S is a record of the variables task and files and what decides: idle,   *)
(* no action is under way; full, the disk fails the next write.            *)

Parts(s) == Without(s, {0})

\* download::commit: the stash goes into its file, the files are closed.
CommitBackwards(S) ==  \* mutant
    [S EXCEPT !.files = ClosedFiles([CreateFile(@, "binary", 0) EXCEPT
                          !["binary"] = PutAll(@, Reverse(Parts(S.task.stash)))]),
              !.task.stash = <<>>, !.task.st = "complete"]
Commit(S) ==
    LET Made == CreateFile(S.files, "binary", 0)
    IN  CASE S.task.stash = <<>> ->
               [S EXCEPT !.files = ClosedFiles(@), !.task.st = "complete"]
          [] S.task.stash # <<>> /\ (~S.task.named \/ S.full) ->
               [S EXCEPT !.task.st = "error"]
          [] S.task.stash # <<>> /\ S.task.named /\ ~S.full /\ ~Made["binary"].open ->
               [S EXCEPT !.task.st = "crashed"]
          [] OTHER ->
               [S EXCEPT !.files = ClosedFiles([Made EXCEPT
                            !["binary"] = PutAll(@, Parts(S.task.stash))]),
                         !.task.stash = <<>>, !.task.st = "complete"]

\* update_completion
UpdateEarly(S) ==  \* mutant: actions under way are not waited for
    CASE S.task.ncl = 0 /\ S.task.articles = <<>> -> Commit(S)
      [] OTHER -> S
UpdateCompletion(S) ==
    CASE ~S.idle \/ S.task.ncl # 0 -> S
      [] S.idle /\ S.task.ncl = 0 /\ S.task.articles # <<>> ->
           IF S.task.st = "active" THEN [S EXCEPT !.task.st = "waiting"] ELSE S
      [] OTHER -> Commit(S)

\* goto_state(error) cancels the cmdlists; so does a commit that throws.
Canceled(ls) == {[l EXCEPT !.canceled = @ \/ l.entries > 0] : l \in ls}
WithLists(st, ls) == IF st = "error" THEN Canceled(ls) ELSE ls

-----------------------------------------------------------------------------
(* The cmdlists. *)

Executed == {l \in lists : l.run}
Queued == {l \in lists : ~l.run /\ ~l.canceled}
Up == task.st # "crashed"
Live == task.st \notin {"killed", "removed", "crashed"}

\* run and create_commands: a connection is free and no cmdlist waits for it.
Run ==
    LET n == Min({Len(task.articles), ArticlesPerCmdlist})
    IN  /\ running /\ task.st \in {"queued", "waiting", "active"} /\ n > 0
        /\ Cardinality(Executed) < Connections /\ Queued = {}
        /\ lists' = lists \cup {[arts |-> SubSeq(task.articles, 1, n),
                                 run |-> TRUE, canceled |-> FALSE, entries |-> 1]}
        /\ task' = [task EXCEPT !.articles = SubSeq(@, n + 1, Len(@)),
                                !.ncl = @ + 1, !.st = "active"]
        /\ UNCHANGED <<posting, stale, any, fifo, ready, files, running,
                       ncommands, nfaults, lost, overrun>>

\* A connection that is ready takes a cmdlist that waits.
Take(l) ==
    /\ running /\ Live /\ l \in Queued /\ Cardinality(Executed) < Connections
    /\ lists' = (lists \ {l}) \cup {[l EXCEPT !.run = TRUE]}
    /\ UNCHANGED <<posting, task, stale, any, fifo, ready, files, running,
                   ncommands, nfaults, lost, overrun>>

\* The connection fails: pump enqueues the cmdlist once more, and another
\* connection may take it at once.  A canceled one is never taken later.
Broken(l) ==
    /\ Up /\ l \in Executed /\ Fault
    /\ \E again \in BOOLEAN :
         LET back == [l EXCEPT !.run = again, !.entries = @ + 1]
             rest == lists \ {l}
         IN  /\ again => running /\ Live /\ Connections > 1
             /\ lists' = IF Live THEN rest \cup {back} ELSE rest
             /\ lost' = IF l.canceled /\ ~again THEN lost \cup ToSet(l.arts) ELSE lost
    /\ UNCHANGED <<posting, task, stale, any, fifo, ready, files, running,
                   ncommands, overrun>>

\* pump erases one entry of the cmdlist from cmds: the others are left there.
Left(l) == stale + Max({l.entries - 1, 0})

\* The decodes of download::complete(cmdlist), for the articles s.
Decode(a) == [kind |-> "decode", article |-> a, offset |-> 0, failed |-> FALSE]
Submitted(s) ==
    LET acts == [i \in DOMAIN s |-> Decode(s[i])]
    IN  /\ any' = any \cup IF task.yenc THEN ToSet(acts) ELSE {}
        /\ fifo' = fifo \o IF task.yenc THEN <<>> ELSE acts

\* The articles of a cmdlist that go back: those without a buffer.
PutBack(s, l, n) == s \o SubSeq(l.arts, n + 1, Len(l.arts))

Idle == any = {} /\ fifo = <<>> /\ ready = <<>>

\* The state S after update_completion.  A task that completes while cmdlists
\* a pause has canceled are still executed, ls, is without their articles; out
\* has the article whose part has found no slot.
Becomes(S, ls, out) ==
    /\ task' = S.task
    /\ files' = S.files
    /\ lost' = lost \cup out \cup IF S.task.st = "complete" THEN UNION {ToSet(l.arts) : l \in ls} ELSE {}

\* task::complete: n articles have a buffer, those in gone an unavailable one.
Complete(l, n, gone) ==
    LET T == [task EXCEPT !.ncl = IF l.canceled THEN @ ELSE @ - 1]
        got == Without(SubSeq(l.arts, 1, n), gone)
    IN  \E full \in BOOLEAN :
        LET S == UpdateCompletion(
              [task |-> [T EXCEPT !.missing = @ \cup gone,
                                  !.articles = PutBack(@, l, n)],
               files |-> files, idle |-> Idle /\ got = <<>>, full |-> full])
        IN  /\ Becomes(S, lists \ {l}, {}) /\ Submitted(got)
            /\ lists' = WithLists(S.task.st, lists \ {l})
            /\ nfaults' = nfaults + Cardinality(gone) + IF full THEN 1 ELSE 0
            /\ nfaults' <= MaxFaults

\* The cmdlist is executed: wholly, or as far as a cancel or a stop let it be.
Return(l) ==
    /\ Up /\ l \in Executed
    /\ stale' = IF Live THEN Left(l) ELSE stale
    /\ \/ /\ Live /\ task.st # "error"
          /\ \E n \in 0 .. Len(l.arts), gone \in SUBSET ToSet(l.arts) :
               /\ ~l.canceled /\ running => n = Len(l.arts)
               /\ gone \subseteq ToSet(SubSeq(l.arts, 1, n))
               /\ Complete(l, n, gone)
       \/ /\ ~Live \/ task.st = "error"
          /\ lists' = lists \ {l}
          /\ NoFault /\ UNCHANGED <<task, files, any, fifo, lost>>
    /\ UNCHANGED <<posting, ready, running, ncommands, overrun>>

\* No group has the articles: they are missing, and completion is not looked
\* at.  Or a buffer has an error: the task fails.
Refused(l) ==
    /\ l \in Executed /\ Fault /\ Live /\ task.st # "error"
    /\ stale' = Left(l)
    /\ LET T == [task EXCEPT !.ncl = IF l.canceled THEN @ ELSE @ - 1]
       IN  \/ /\ task' = [T EXCEPT !.missing = @ \cup ToSet(l.arts)]
              /\ lists' = lists \ {l}
           \/ /\ task' = [T EXCEPT !.st = "error"]
              /\ lists' = Canceled(lists \ {l})
    /\ UNCHANGED <<posting, any, fifo, ready, files, running, ncommands, lost, overrun>>

-----------------------------------------------------------------------------
(* The actions. *)

\* What the thread pool performs next: any decode, or the head of the fifo.
Perform(a) ==
    /\ Up
    /\ \/ a \in any /\ any' = any \ {a} /\ UNCHANGED fifo
       \/ fifo # <<>> /\ a = Head(fifo) /\ fifo' = Tail(fifo) /\ UNCHANGED any
    /\ UNCHANGED <<posting, lists, stale, running, ncommands, lost, overrun>>

\* decode::xperform; a broken header or footer throws.
PerformDecode(a) ==
    /\ a.kind = "decode" /\ Perform(a)
    /\ \E failed \in BOOLEAN :
         /\ ready' = Append(ready, [a EXCEPT !.failed = failed])
         /\ IF failed THEN Fault ELSE NoFault
    /\ UNCHANGED <<task, files>>

\* datafile::write::xperform
WriteAt(F, a) == PutAll(IF a.offset = 0 THEN F ELSE [F EXCEPT !.pos = a.offset], <<a.article>>)
PerformWrite(a) ==
    LET F == files[a.kind]
    IN  /\ a.kind \in Kinds /\ Perform(a)
        /\ \/ /\ ~F.discard /\ F.open
              /\ files' = [files EXCEPT ![a.kind] = WriteAt(F, a)]
              /\ ready' = Append(ready, a)
              /\ NoFault /\ UNCHANGED task
           \/ /\ ~F.discard /\ F.open /\ Fault
              /\ ready' = Append(ready, [a EXCEPT !.failed = TRUE])
              /\ UNCHANGED <<task, files>>
           \/ /\ F.discard
              /\ ready' = Append(ready, a)
              /\ NoFault /\ UNCHANGED <<task, files>>
           \/ /\ ~F.discard /\ ~F.open  \* no bigfile behind it any more
              /\ task' = [task EXCEPT !.st = "crashed"]
              /\ NoFault /\ UNCHANGED <<files, ready>>

\* The slot of the stash for a part: the middle ones take the first free one.
BeyondLast(stash) ==  \* mutant
    Min({i \in 2 .. Len(stash) : stash[i] = 0} \cup {Len(stash) + 1})
MiddleSlot(stash) ==
    Min({i \in 2 .. Len(stash) - 1 : stash[i] = 0} \cup {Max({2, Len(stash)})})
Slot(part, stash) ==
    CASE part = "first" -> 1 [] part = "last" -> Len(stash) [] OTHER -> MiddleSlot(stash)

Write(kind, a, offset) ==
    [kind |-> kind, article |-> a, offset |-> offset, failed |-> FALSE]

\* download::complete(action) for a decode of article a: where its binary goes.
Binary(S, a) ==
    LET parts == posting[a] \cap Stashable
        stash == IF S.task.stash = <<>> THEN [i \in 1 .. S.task.slots |-> 0]
                 ELSE S.task.stash
        slot == Slot(CHOOSE p \in parts : TRUE, stash)
        Into(size, offset) ==
          [S EXCEPT !.files = CreateFile(@, "binary", size),
                    !.next = Append(@, Write("binary", a, offset))]
    IN  CASE "yenc" \in posting[a] -> Into(Len(posting), a)
          [] "whole" \in posting[a] -> Into(0, 0)
          [] parts # {} /\ slot \in DOMAIN stash ->
               [S EXCEPT !.task.stash = [stash EXCEPT ![slot] = a],
                         !.task.named = @ \/ "first" \in parts]
          [] parts # {} /\ slot \notin DOMAIN stash ->
               [S EXCEPT !.task.stash = stash, !.overrun = {Len(stash)}]
          [] OTHER -> S

\* Its text goes to the text file.
Text(S, a) ==
    IF "text" \notin posting[a] THEN S
    ELSE [S EXCEPT !.files = CreateFile(@, "text", 0),
                   !.next = Append(@, Write("text", a, 0))]

\* A file is held by the writes under way.
HeldBy(f, r) == {a.kind : a \in ToSet(f) \cup ToSet(r)} \cap Kinds

\* pump hands the next performed action to its task, if there still is one.
Pump ==
    LET a == Head(ready)
        rest == Tail(ready)
        handled == Text(Binary([task |-> task, files |-> files, next |-> <<>>,
                                overrun |-> {}], a.article), a.article)
        H == IF a.kind = "decode" THEN handled
             ELSE [task |-> task, files |-> files, next |-> <<>>, overrun |-> {}]
    IN  /\ Up /\ ready # <<>>
        /\ ready' = rest
        /\ \/ /\ ~Live \/ task.st = "error"
              /\ files' = Erased(files, HeldBy(fifo, rest))
              /\ NoFault /\ UNCHANGED <<task, lists, fifo, lost, overrun>>
           \/ /\ Live /\ task.st # "error" /\ a.failed
              /\ task' = [task EXCEPT !.st = "error"]
              /\ lists' = Canceled(lists)
              /\ NoFault /\ UNCHANGED <<files, fifo, lost, overrun>>
           \/ /\ Live /\ task.st # "error" /\ ~a.failed
              /\ \E full \in BOOLEAN :
                   LET S == UpdateCompletion(
                         [task |-> H.task, files |-> H.files, full |-> full,
                          idle |-> any = {} /\ fifo \o H.next \o rest = <<>>])
                   IN  /\ Becomes(S, lists, IF H.overrun = {} THEN {} ELSE {a.article})
                       /\ fifo' = fifo \o H.next
                       /\ lists' = WithLists(S.task.st, lists)
                       /\ IF full THEN Fault ELSE NoFault
              /\ overrun' = overrun \cup H.overrun
           \/ /\ Live /\ task.st # "error" /\ ~a.failed /\ H.overrun # {}  \* written anyway
              /\ task' = [task EXCEPT !.st = "crashed"]
              /\ overrun' = overrun \cup H.overrun
              /\ NoFault /\ UNCHANGED <<lists, files, fifo, lost>>
        /\ UNCHANGED <<posting, stale, any, running, ncommands>>

-----------------------------------------------------------------------------
(* The user. *)

Command == Up /\ running /\ ncommands < MaxCommands /\ ncommands' = ncommands + 1

Entries == stale + SumFunctionOnSet([l \in lists |-> l.entries], lists)
Listed(ls) == {l \in ls : l.entries > 0}

\* The cmdlists after those of the task are canceled and erased from cmds: one
\* that a connection executes comes back, the others are gone.
ErasedLists ==
    {l \in lists : l.run /\ l.entries = 0}
      \cup {[l EXCEPT !.canceled = TRUE, !.entries = 0] : l \in {k \in Listed(lists) : k.run}}

\* pause
Pause ==
    /\ Command /\ task.st \in {"queued", "waiting", "active"}
    /\ task' = [task EXCEPT !.ncl = @ - Entries, !.st = "paused"]
    /\ lists' = ErasedLists /\ stale' = 0
    /\ lost' = lost \cup UNION {ToSet(l.arts) : l \in {k \in Listed(lists) : ~k.run}}
    /\ UNCHANGED <<posting, any, fifo, ready, files, running, nfaults, overrun>>

\* resume; what a commit throws here leaves the engine and ends the program.
\* (waiting and queued mean the same to the scheduler.)
Resume ==
    /\ Command /\ task.st = "paused"
    /\ \E full \in BOOLEAN :
         LET S == UpdateCompletion([task |-> task, files |-> files, idle |-> Idle, full |-> full])
             st == CASE S.task.st = "paused" -> "queued"
                     [] S.task.st = "error" -> "crashed"
                     [] OTHER -> S.task.st
         IN  /\ Becomes([S EXCEPT !.task.st = st], lists, {})
             /\ IF full THEN Fault ELSE NoFault
    /\ UNCHANGED <<posting, lists, stale, any, fifo, ready, running, overrun>>

\* kill_task; a complete task keeps its files.
Kill ==
    /\ Command /\ Live
    /\ IF task.st = "complete"
       THEN /\ task' = [task EXCEPT !.st = "removed"]
            /\ UNCHANGED <<lists, stale, files>>
       ELSE /\ task' = [task EXCEPT !.st = "killed"]
            /\ lists' = ErasedLists /\ stale' = 0
            /\ files' = Erased(DiscardedFiles(files), HeldBy(fifo, ready))
    /\ UNCHANGED <<posting, any, fifo, ready, running, nfaults, lost, overrun>>

\* Engine::shutdown stops the connections; pump goes on.
Shutdown ==
    /\ Command /\ Live
    /\ running' = FALSE
    /\ UNCHANGED <<posting, task, lists, stale, any, fifo, ready, files, nfaults,
                   lost, overrun>>

\* Nothing is pending: save_session writes the articles nobody has asked for
\* and the names of the files, and the next start loads them.  The stash, the
\* cmdlists that wait, and where the text file ended are not in the session.
Reopened(F) == IF F.listed THEN [F EXCEPT !.pos = 1, !.open = TRUE] ELSE F
Unsaved == {a \in DOMAIN posting : /\ posting[a] \cap Stashable # {}
                                   /\ ~Contains(task.articles, a)}
Restart ==
    /\ ~running /\ Executed = {} /\ Idle
    /\ task.st \in {"queued", "waiting", "active", "paused"}
    /\ running' = TRUE
    /\ task' = NewTask(task.articles, task.yenc, task.missing)
    /\ lists' = {} /\ stale' = 0
    /\ files' = [k \in Kinds |-> Reopened(files[k])]
    /\ lost' = lost \cup (UNION {ToSet(l.arts) : l \in lists})
                    \cup Unsaved \cup ToSet(files["text"].data)
    /\ UNCHANGED <<posting, any, fifo, ready, ncommands, nfaults, overrun>>

Next ==
    \/ Run
    \/ \E l \in lists : Take(l) \/ Broken(l) \/ Return(l) \/ Refused(l)
    \/ \E a \in any \cup ToSet(fifo) : PerformDecode(a) \/ PerformWrite(a)
    \/ Pump
    \/ Pause \/ Resume \/ Kill \/ Shutdown \/ Restart

Spec == Init /\ [][Next]_vars

-----------------------------------------------------------------------------
(* What the download must do. *)

States == {"queued", "waiting", "active", "paused", "complete", "error",
           "killed", "removed", "crashed"}
Articles == DOMAIN posting
Actions(kinds) == [kind : kinds, article : Articles, offset : 0 .. Len(posting),
                   failed : BOOLEAN]

\* Every variable has the values its C++ type and its use allow; num_active_-
\* cmdlists_ is Int, for a pause after a broken connection takes it below zero.
TypeOK ==
    /\ posting \in Postings
    /\ task \in [st : States, articles : Seq(Articles), yenc : BOOLEAN, ncl : Int,
                 slots : Nat, stash : Seq(Articles \cup {0}), named : BOOLEAN,
                 missing : SUBSET Articles]
    /\ Len(task.stash) \in {0, task.slots}
    /\ IsFiniteSet(lists)
    /\ lists \subseteq [arts : Seq(Articles), run : BOOLEAN, canceled : BOOLEAN,
                        entries : Nat]
    /\ \A l \in lists : l.arts # <<>>
    /\ stale \in Nat
    /\ any \subseteq Actions({"decode"})
    /\ fifo \in Seq(Actions({"decode"} \cup Kinds))
    /\ ready \in Seq(Actions({"decode"} \cup Kinds))
    /\ files \in [Kinds -> [listed : BOOLEAN, open : BOOLEAN, discard : BOOLEAN,
                            exists : BOOLEAN, pos : Nat \ {0},
                            data : Seq(Articles \cup {0})]]
    /\ \A k \in Kinds : files[k].open => files[k].exists
    /\ running \in BOOLEAN /\ lost \subseteq Articles /\ overrun \subseteq Nat
    /\ ncommands \in Nat /\ nfaults \in Nat

Quiet == lists = {} /\ Idle
Occurrences(a, s) == Cardinality({i \in DOMAIN s : s[i] = a})

\* A download that is complete has every article in its file exactly once, a
\* yEnc part where its offset says, whatever order the decodes and writes ran
\* in: only what was missing on the server, and what a pause or a restart threw
\* away, is not there.
Whole ==
    task.st = "complete" /\ Quiet =>
      \A a \in DOMAIN posting \ (task.missing \cup lost) :
        /\ "yenc" \in posting[a] => files["binary"].data[a] = a
        /\ posting[a] # {"text"} => Occurrences(a, files["binary"].data) = 1
        /\ "text" \in posting[a] => Occurrences(a, files["text"].data) = 1

\* The parts of a uuencoded binary are in its file in the order of the
\* articles, "so that the same ordering is maintained throughout"
\* (download.cpp:177), although only the first and the last say which they are.
\* That is so if one cmdlist has them all: of two cmdlists the second may be
\* the first to come back.
PartsInOrder ==
    (Uuencoded(posting) => Len(posting) <= ArticlesPerCmdlist) =>
      \A i, j \in DOMAIN files["binary"].data :
        i < j /\ files["binary"].data[i] # 0 /\ files["binary"].data[j] # 0 =>
          files["binary"].data[i] < files["binary"].data[j]

\* The stash has a slot for every part that comes, unless all there is to
\* download, or was left when the session was saved, is one middle part.
SlotsSuffice == overrun \subseteq {1}

\* The variables keep their types and the stash its bounds.
StashFits == TypeOK /\ SlotsSuffice

\* A task that is killed leaves no file behind, once the writes that were
\* under way have come to nothing, but one that it had closed: a task that was
\* complete may fail when a cmdlist it had canceled comes back.
KilledLeavesNothing ==
    task.st = "killed" /\ HeldBy(fifo, ready) = {} =>
      \A k \in Kinds : files[k].exists => ~files[k].open
=============================================================================
