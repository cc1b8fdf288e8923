-------------------------- MODULE DownloadService --------------------------
(***************************************************************************)
(* What the engine promises the user of its download tasks, and nothing of *)
(* connections, cmdlists and actions: every article of a task is to be     *)
(* fetched (left), being decoded and written (held), known to be missing,  *)
(* or stored; the task is complete as soon as none is left or held, and    *)
(* never before, unless it fails or the user kills it.                     *)
(***************************************************************************)
EXTENDS Naturals

CONSTANTS Tasks, NumArticles

VARIABLES status, left, held, missing

vars == <<status, left, held, missing>>

Articles(t) == 1 .. NumArticles[t]
Stored(t)   == Articles(t) \ (left[t] \cup held[t] \cup missing[t])

Init ==
    /\ status = [t \in Tasks |-> "absent"]
    /\ left = [t \in Tasks |-> {}]
    /\ held = [t \in Tasks |-> {}]
    /\ missing = [t \in Tasks |-> {}]

\* The tasks T enter or leave, with all their articles.
Reset(T, st, articles(_)) ==
    /\ status' = [t \in Tasks |-> IF t \in T THEN st ELSE status[t]]
    /\ left' = [t \in Tasks |-> IF t \in T THEN articles(t) ELSE left[t]]
    /\ held' = [t \in Tasks |-> IF t \in T THEN {} ELSE held[t]]
    /\ missing' = [t \in Tasks |-> IF t \in T THEN {} ELSE missing[t]]
Nothing(t) == {}

Submit(T) == (\A t \in T : status[t] = "absent") /\ Reset(T, "open", Articles)
Kill(T)   == (\A t \in T : status[t] # "absent") /\ Reset(T, "absent", Nothing)
Fail(t)   == status[t] = "open" /\ Reset({t}, "error", Nothing)

\* The task is complete once nothing is left or held.
Progress(t) ==
    status' = [status EXCEPT ![t] =
                 IF left'[t] = {} /\ held'[t] = {} THEN "complete" ELSE "open"]

\* Articles got arrive, articles bad turn out to be missing.
Fetch(t, got, bad) ==
    /\ status[t] = "open"
    /\ got \cap bad = {} /\ got \cup bad # {}
    /\ left' = [left EXCEPT ![t] = @ \ (got \cup bad)]
    /\ held' = [held EXCEPT ![t] = @ \cup got]
    /\ missing' = [missing EXCEPT ![t] = @ \cup bad]
    /\ Progress(t)

\* What article i contained has been written.
Store(t, i) ==
    /\ status[t] = "open"
    /\ held' = [held EXCEPT ![t] = @ \ {i}]
    /\ UNCHANGED <<left, missing>>
    /\ Progress(t)

Next ==
    \/ \E T \in SUBSET Tasks : Submit(T) \/ Kill(T)
    \/ \E t \in Tasks :
         \/ Fail(t)
         \/ \E got, bad \in SUBSET left[t] : Fetch(t, got, bad)
         \/ \E i \in held[t] : Store(t, i)

Spec == Init /\ [][Next]_vars
=============================================================================
