---------------------- MODULE PostProcessingProperties ----------------------
(* What must hold of the folders that are repaired and unpacked, whatever the *)
(* external processes do and the user commands.                               *)
EXTENDS PostProcessing

Workers == {rep, unp}
RowsOf(w) == Range(w.list)
Guids(w)  == {r.guid : r \in RowsOf(w)}

Managed(kind) == {g \in DOMAIN arcs : arcs[g].managed /\ arcs[g].kind = kind}

\* The archives a worker still has to do or is doing.
Unfinished(w) ==
    {r.guid : r \in {q \in RowsOf(w) : q.state = "Queued"}}
        \cup (IF w.running THEN {w.cur} ELSE {})

TypeOK ==
    /\ \A w \in Workers :
           /\ Guids(w) \subseteq DOMAIN arcs
           /\ \A r \in RowsOf(w) : r.state \in Statuses
           /\ w.running => w.cur \in DOMAIN arcs
    /\ man.pending \subseteq DOMAIN arcs
    /\ \A f \in Folders : man.repairs[f] \in Nat
    /\ packs \subseteq Folders /\ aborted \in BOOLEAN

\* At most one archive of a list is active, and it is the one the process
\* works on: Par2::recover and Unrar::extract assert that no other process
\* runs, and onReady gives the result to the first active row it finds.
OneAtATime ==
    \A w \in Workers : \A i, j \in Rows(w, "Active") :
        i = j /\ w.running /\ w.list[i].guid = w.cur

\* "we can launch extracts only after *all* the repairs have completed": the
\* manager hands a folder to the unpacker when none of its own repairs of the
\* folder is left, provided that none of their processes died.
RepairsFirst ==
    \A g \in Managed("unpack") : \A h \in Managed("repair") :
        (g \in Unfinished(unp) /\ h \in Unfinished(rep)
            /\ arcs[g].folder = arcs[h].folder)
        => \E d \in died : arcs[d].folder = arcs[g].folder

\* The manager expects every volume of a folder once: "we need to manually
\* keep track of the archives that we have already extracted".
UnpackedOnce ==
    \A g, h \in Managed("unpack") :
        arcs[g].folder = arcs[h].folder /\ arcs[g].file = arcs[h].file => g = h

\* The computer is switched off only when everything the user wants to wait
\* for is done; a process that died is counted twice, so that none may have.
PowerOffSafe ==
    (pow.off /\ died = {}) =>
        /\ pow.downloads => packs = {}
        /\ pow.repairs => Unfinished(rep) = {}
        /\ pow.unpacks => Unfinished(unp) = {}
        /\ pow.repairs \/ pow.unpacks =>
               \A g \in Unfinished(rep) \cup Unfinished(unp) : ~arcs[g].managed

\* The ASSERTs of ENDCHECK hold unless a repair's process died or the user
\* killed the active repair.
AssertsHold ==
    aborted => \/ \E g \in died : arcs[g].kind = "repair"
               \/ rep.running /\ rep.cur \notin Guids(rep)

\* Every archive the manager waits for is one that somebody works on or has
\* worked on, so that the wait ends.
PendingIsListed ==
    man.pending \subseteq Guids(rep) \cup Guids(unp)

\* A folder that is downloaded gets all its volumes handed to the unpacker,
\* unless a repair of it was killed, the repairs are switched off or the
\* program ends.
Killed(f) ==
    \E h \in Managed("repair") : arcs[h].folder = f /\ h \notin Guids(rep) /\ ~rep.running
FolderUnpacked ==
    \A f \in Folders :
        f \notin packs ~> \/ \A vol \in Range(Volumes[f]) : <<f, vol>> \in man.unpacks
                          \/ Killed(f) \/ ~rep.enabled \/ ~Alive

\* What is done to a folder is done one archive at a time, its repairs first
\* and each volume once.
FolderOrder == TypeOK /\ OneAtATime /\ RepairsFirst /\ UnpackedOnce
=============================================================================
