--------------------------- MODULE PostProcessing ---------------------------
(***************************************************************************)
(* app/arcman.cpp, repairer.cpp, unpacker.cpp, par2.cpp, unrar.cpp and     *)
(* poweroff.cpp: what happens to a folder once its files are downloaded.   *)
(*                                                                         *)
(* Everything runs on the GUI thread, and every signal is a direct call,   *)
(* so the handling of one event (a completed pack, the end of a process, a *)
(* command of the user) is one action however many objects it runs         *)
(* through.  The order of the calls is the order gui/main.cpp connects the *)
(* signals in: the power-off counters hear of an archive before the        *)
(* archive manager does.                                                   *)
(*                                                                         *)
(* The repairer and the unpacker are the same machine around a list and an *)
(* external process (QProcess), and the model has it once.  Of a process   *)
(* it keeps how it may end: by itself, with either result, or by a crash,  *)
(* which QProcess reports twice, by error while it still counts as running *)
(* and then by finished.  An archive is known by its guid.                 *)
(***************************************************************************)
EXTENDS Integers, SequencesExt, Subsequences

CONSTANTS Folders,      \* FilePackInfo::path of the packs
          Files,        \* the names of the .par2 files and of the first volumes
          Pars,         \* the base .par2 files in each folder, in entryList order
          Volumes,      \* the first volumes of the archives in each folder
          Nested,       \* the volumes that unpacking a volume brings to light
          Waits,        \* the choices of what the power-off waits for
          MaxByHand,    \* bound on the archives the user adds
          MaxCommands,  \* bound on the user's other commands
          MaxCrashes    \* bound on the crashes of either process

\* QDir::entryList has every name once.
ASSUME PostAssumption ==
    /\ IsFiniteSet(Folders)
    /\ Pars \in [Folders -> Seq(Files)]
    /\ Volumes \in [Folders -> Seq(Files)] /\ \A f \in Folders : IsInjective(Volumes[f])
    /\ Nested \in [Files -> Seq(Files)] /\ \A v \in Files : IsInjective(Nested[v])

VARIABLES
    arcs,     \* every Archive made, by guid: its folder, its file, for which of the
              \* two it is and whether the archive manager made it
    rep,      \* the repairer and its process
    unp,      \* the unpacker and its process
    man,      \* ArchiveManager: m_repairs, m_unpacks, m_pendingArchives
    pow,      \* Poweroff
    disk,     \* the volumes findUnpackVolumes finds in each folder
    aborted,  \* an ASSERT of debug.h failed: the program is gone
    packs,    \* folders still being downloaded
    died,     \* the archives whose process did not end by itself
    nbyhand, ncommands, ncrashes

bounds == <<nbyhand, ncommands, ncrashes>>
vars   == <<arcs, rep, unp, man, pow, disk, aborted, packs, died, bounds>>

Statuses == {"Queued", "Active", "Success", "Failed", "Error", "Stopped"}

NewWorker(on) == [list |-> <<>>, running |-> FALSE, dying |-> FALSE, cur |-> 0,
                  state |-> "Queued", enabled |-> on]

Init ==
    /\ arcs = <<>>
    /\ \E on \in BOOLEAN : rep = NewWorker(on) /\ unp = NewWorker(on)
    /\ man = [repairs |-> [f \in Folders |-> 0], unpacks |-> {}, pending |-> {}]
    /\ \E w \in Waits :
           pow = [downloads |-> "downloads" \in w, repairs |-> "repairs" \in w,
                  unpacks |-> "unpacks" \in w, off |-> FALSE,
                  numRepairs |-> 0, numUnpacks |-> 0, numArchives |-> 0,
                  numTasks |-> Cardinality(Folders)]
    /\ disk = [f \in Folders |-> Volumes[f]]
    /\ aborted = FALSE
    /\ packs = Folders
    /\ died = {}
    /\ nbyhand = 0 /\ ncommands = 0 /\ ncrashes = 0

\* The objects together, as the handlers pass through them.
Now == [arcs |-> arcs, rep |-> rep, unp |-> unp, man |-> man, pow |-> pow,
        disk |-> disk, aborted |-> aborted]
Becomes(t) ==
    \E s \in {t} :
        /\ arcs' = s.arcs /\ rep' = s.rep /\ unp' = s.unp
        /\ man' = s.man /\ pow' = s.pow /\ disk' = s.disk /\ aborted' = s.aborted

-----------------------------------------------------------------------------
(* Poweroff *)

evaluate(p) ==
    IF \/ ~p.downloads /\ ~p.repairs /\ ~p.unpacks
       \/ p.downloads /\ p.numTasks # 0
       \/ (p.repairs \/ p.unpacks) /\ p.numArchives # 0
       \/ p.repairs /\ p.numRepairs # 0
       \/ p.unpacks /\ p.numUnpacks # 0
    THEN p
    ELSE [p EXCEPT !.off = TRUE]

\* numRepairs_ and numUnpacks_ are unsigned: below zero they are huge, which
\* is not zero either.
repairEnqueue(p, n) == [p EXCEPT !.numRepairs = @ + n]
unpackEnqueue(p, n) == [p EXCEPT !.numUnpacks = @ + n]
powRepairReady(p) == evaluate([p EXCEPT !.numRepairs = @ - 1])
powUnpackReady(p) == evaluate([p EXCEPT !.numUnpacks = @ - 1])
numPendingTasks(p, n) == evaluate([p EXCEPT !.numTasks = n])
numPendingArchives(p, n) == evaluate([p EXCEPT !.numArchives = n])

-----------------------------------------------------------------------------
(* Repairer and Unpacker: the list and its process. *)

Rows(w, status) == {i \in 1 .. Len(w.list) : w.list[i].state = status}
First(rows)     == CHOOSE i \in rows : \A j \in rows : i <= j

\* startNextRecovery, startNextUnpack
startNext(w) ==
    IF w.running \/ ~w.enabled \/ Rows(w, "Queued") = {} THEN w
    ELSE LET i == First(Rows(w, "Queued"))
         IN  [w EXCEPT !.list[i].state = "Active", !.running = TRUE,
                       !.cur = w.list[i].guid, !.state = "Active"]

\* The end of onReady: the active row gets the archive's new state.
retire(w) ==
    IF Rows(w, "Active") = {} THEN w
    ELSE [w EXCEPT !.list[First(Rows(w, "Active"))] = [guid |-> w.cur, state |-> w.state]]

\* Par2::stop asks the process to end, Unrar::stop kills it.
stop(w, kills) ==
    IF w.running THEN [w EXCEPT !.state = "Stopped", !.dying = @ \/ kills] ELSE w

\* New Archive objects, and their guids.
Make(s, kind, managed, f, files) ==
    [s EXCEPT !.arcs = @ \o [i \in 1 .. Len(files) |->
        [kind |-> kind, managed |-> managed, folder |-> f, file |-> files[i]]]]
NewGuids(s, t) == Len(s.arcs) + 1 .. Len(t.arcs)

\* addRecovery and addUnpack of each: no other call comes between them, so
\* that only the first finds the process free.
Enqueued(w, s, t) ==
    startNext([w EXCEPT !.list = @ \o [i \in 1 .. Len(t.arcs) - Len(s.arcs) |->
        [guid |-> Len(s.arcs) + i, state |-> "Queued"]]])
addRecovery(s, t) ==
    [t EXCEPT !.pow = repairEnqueue(@, Cardinality(NewGuids(s, t))), !.rep = Enqueued(@, s, t)]
addUnpack(s, t) ==
    [t EXCEPT !.pow = unpackEnqueue(@, Cardinality(NewGuids(s, t))), !.unp = Enqueued(@, s, t)]

-----------------------------------------------------------------------------
(* ArchiveManager *)

emitPending(s) ==
    [s EXCEPT !.pow = numPendingArchives(@, Cardinality(s.man.pending))]

Expect(s, t, f, vols) ==
    [t EXCEPT !.man.unpacks = @ \cup {<<f, vol>> : vol \in Range(vols)},
              !.man.pending = @ \cup NewGuids(s, t)]

RepairsUncounted(s, f, files) ==  \* mutant: the repairs are not counted
    LET t == addRecovery(s, Make(s, "repair", TRUE, f, files))
    IN  [t EXCEPT !.man.pending = @ \cup NewGuids(s, t)]
Repairs(s, f, files) ==
    LET t == addRecovery(s, Make(s, "repair", TRUE, f, files))
    IN  [t EXCEPT !.man.repairs[f] = @ + Len(files), !.man.pending = @ \cup NewGuids(s, t)]

Unpacks(s, f, vols) ==
    Expect(s, addUnpack(s, Make(s, "unpack", TRUE, f, vols)), f, vols)

\* What findUnpackVolumes finds and was not handed over before.
NewVolumes(s, f) ==
    Only(s.disk[f], {vol \in Files : <<f, vol>> \notin s.man.unpacks})

packCompleted(s, f) ==
    emitPending(IF Pars[f] # <<>> THEN Repairs(s, f, Pars[f]) ELSE Unpacks(s, f, s.disk[f]))

\* Mutants: every repair launches the extracts; the last one does not.
RepairReadyEach(s, guid) ==
    LET f == s.arcs[guid].folder
        t == [s EXCEPT !.man.repairs[f] = @ - 1]
        u == Unpacks(t, f, NewVolumes(t, f))
    IN  IF guid \notin s.man.pending THEN s
        ELSE emitPending([u EXCEPT !.man.pending = @ \ {guid}])
RepairReadyNever(s, guid) ==
    IF guid \notin s.man.pending THEN s
    ELSE [s EXCEPT !.man.repairs[s.arcs[guid].folder] = @ - 1]

\* A repair that is not the last of its folder leaves its guid behind.  When
\* the folder has no entry in m_repairs, ENDCHECK ends the program.
repairReady(s, guid) ==
    LET f == s.arcs[guid].folder
        t == [s EXCEPT !.man.repairs[f] = @ - 1]
        u == Unpacks(t, f, NewVolumes(t, f))
    IN  IF guid \notin s.man.pending THEN s
        ELSE IF s.man.repairs[f] = 0 THEN [s EXCEPT !.aborted = TRUE]
        ELSE IF s.man.repairs[f] > 1 THEN t
        ELSE emitPending([u EXCEPT !.man.pending = @ \ {guid}])

\* What is found in an unpacked archive is expected, but nobody unpacks it.
unpackReady(s, guid) ==
    LET f == s.arcs[guid].folder
        vols == NewVolumes(s, f)
        u == Expect(s, Make(s, "unpack", TRUE, f, vols), f, vols)
    IN  IF guid \notin s.man.pending THEN s
        ELSE emitPending([u EXCEPT !.man.pending = @ \ {guid}])

-----------------------------------------------------------------------------
(* The callbacks of the processes. *)

repOnReady(s) ==
    LET t == repairReady([s EXCEPT !.pow = powRepairReady(@)], s.rep.cur)
    IN  [t EXCEPT !.rep = startNext(retire(@))]

unpOnReady(s) ==
    LET t == unpackReady([s EXCEPT !.pow = powUnpackReady(@)], s.unp.cur)
    IN  [t EXCEPT !.unp = startNext(retire(@))]

\* The state an archive ends in; one that was stopped keeps that state.
Ended(w, state) ==
    [w EXCEPT !.state = IF @ = "Stopped" THEN @ ELSE state,
              !.running = FALSE, !.dying = FALSE]

Alive == ~pow.off /\ ~aborted

Extracts(w, state) ==
    IF state # "Success" THEN disk
    ELSE [disk EXCEPT ![arcs[w.cur].folder] =
             @ \o Without(Nested[arcs[w.cur].file], Range(@))]

RepairEnds(state) ==
    /\ Alive /\ rep.running
    /\ Becomes(repOnReady([Now EXCEPT !.rep = Ended(@, state)]))
    /\ UNCHANGED <<packs, died, bounds>>

UnpackEnds(state) ==
    /\ Alive /\ unp.running /\ ~unp.dying
    /\ Becomes(unpOnReady([Now EXCEPT !.unp = Ended(@, state),
                                      !.disk = Extracts(unp, state)]))
    /\ UNCHANGED <<packs, died, bounds>>

\* A process that was told to stop may well die of it.
Dies(w) ==
    /\ Alive /\ w.running
    /\ w.state # "Stopped" => ncrashes < MaxCrashes
    /\ died' = died \cup {w.cur}
    /\ ncrashes' = IF w.state = "Stopped" THEN ncrashes ELSE ncrashes + 1
    /\ UNCHANGED <<packs, nbyhand, ncommands>>

\* processError while the process counts as running, then processFinished.
RepairDies ==
    /\ Dies(rep)
    /\ LET s == repOnReady([Now EXCEPT !.rep.state = "Error"])
       IN  Becomes(repOnReady([s EXCEPT !.rep = Ended(@, "Error")]))

UnpackDies ==
    /\ Dies(unp)
    /\ LET s == unpOnReady([Now EXCEPT !.unp.state = "Error"])
       IN  Becomes(unpOnReady([s EXCEPT !.unp = Ended(@, "Error")]))

\* par2 reports on a file; ENDCHECK wants the archive in history_, which has
\* an entry for every row of the list.
UpdateFile ==
    /\ Alive /\ rep.running
    /\ \A i \in 1 .. Len(rep.list) : rep.list[i].guid # rep.cur
    /\ aborted' = TRUE
    /\ UNCHANGED <<arcs, rep, unp, man, pow, disk, packs, died, bounds>>

-----------------------------------------------------------------------------
(* The engine and the user. *)

\* Mutant: the other way round.
PackCompletedLate(f) ==
    /\ Alive /\ f \in packs
    /\ packs' = packs \ {f}
    /\ Becomes(packCompleted([Now EXCEPT !.pow = numPendingTasks(@, Cardinality(packs'))], f))
    /\ UNCHANGED <<died, bounds>>

\* packCompleted is emitted by the pump, numPendingTasks after it.
PackCompleted(f) ==
    /\ Alive /\ f \in packs
    /\ packs' = packs \ {f}
    /\ LET s == packCompleted(Now, f)
       IN  Becomes([s EXCEPT !.pow = numPendingTasks(@, Cardinality(packs'))])
    /\ UNCHANGED <<died, bounds>>

\* The user picks a file of a folder in the repair or the unpack view.
AddByHand(f) ==
    /\ Alive /\ nbyhand < MaxByHand
    /\ nbyhand' = nbyhand + 1
    /\ \/ \E file \in Range(Pars[f]) :
              Becomes(addRecovery(Now, Make(Now, "repair", FALSE, f, <<file>>)))
       \/ \E vol \in Range(disk[f]) :
              Becomes(addUnpack(Now, Make(Now, "unpack", FALSE, f, <<vol>>)))
    /\ UNCHANGED <<packs, died, ncommands, ncrashes>>

\* stopRecovery, kill, killComplete, moveItems and setEnabled of either; kill
\* stops the process when its row is killed.
Stopping(w, kills) == IF w.running THEN {stop(w, kills)} ELSE {}
Killing(w, kills) ==
    {[(IF w.list[i].state = "Active" THEN stop(w, kills) ELSE w)
        EXCEPT !.list = RemoveAt(@, i)] : i \in 1 .. Len(w.list)}
Clearing(w) ==
    {[w EXCEPT !.list = Without(@, [guid : Nat, state : {"Success", "Failed", "Error"}])]}
Moving(w) ==
    {[w EXCEPT !.list[i] = w.list[i + 1], !.list[i + 1] = w.list[i]] :
         i \in 1 .. Len(w.list) - 1}
Switching(w) == {startNext([w EXCEPT !.enabled = ~@])}

Commanded(w, kills) ==
    Stopping(w, kills) \cup Killing(w, kills) \cup Clearing(w) \cup Moving(w) \cup Switching(w)

Command ==
    /\ Alive /\ ncommands < MaxCommands
    /\ ncommands' = ncommands + 1
    /\ \/ rep' \in Commanded(rep, FALSE) /\ UNCHANGED unp
       \/ unp' \in Commanded(unp, TRUE) /\ UNCHANGED rep
    /\ UNCHANGED <<arcs, man, pow, disk, aborted, packs, died, nbyhand, ncrashes>>

-----------------------------------------------------------------------------

Results == {"Success", "Failed"}

RepairProgress == RepairDies \/ \E state \in Results : RepairEnds(state)
UnpackProgress == UnpackDies \/ \E state \in Results : UnpackEnds(state)

Next ==
    \/ \E f \in Folders : PackCompleted(f) \/ AddByHand(f)
    \/ RepairProgress \/ UnpackProgress \/ UpdateFile
    \/ Command

Spec == Init /\ [][Next]_vars

\* A process that runs ends some time.  This is weak fairness with ENABLED
\* spelled out, for TLC evaluates ENABLED of a chain of callbacks too slowly:
\* a process can end while it runs, and its end always has an effect.
Fairness ==
    /\ []<>~(Alive /\ rep.running) \/ []<><<RepairProgress>>_vars
    /\ []<>~(Alive /\ unp.running) \/ []<><<UnpackProgress>>_vars

FairSpec == Spec /\ Fairness
=============================================================================
