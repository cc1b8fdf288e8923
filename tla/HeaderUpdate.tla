---------------------------- MODULE HeaderUpdate ----------------------------
(***************************************************************************)
(* engine/update.cpp: a task that brings the headers of a newsgroup to the *)
(* local disk, and the part of engine::task that drives it.                *)
(*                                                                         *)
(* The update asks the server for the first and the last number of the     *)
(* group and then for ranges of headers, first the newer ones and then the *)
(* older ones, until it has asked for everything.  The replies are parsed  *)
(* by any thread of the pool, in any order, and stored by the GUI thread.  *)
(* What the group's .nfo file records is an interval: the next update      *)
(* takes everything in it for granted.                                     *)
(*                                                                         *)
(* A range is the set of its numbers.  What the server says of the group   *)
(* is new with every reply, as the group grows and old articles expire     *)
(* while cmdlists are on their way.                                        *)
(***************************************************************************)
EXTENDS Integers, FiniteSets

CONSTANTS
    RangeSize,          \* 1000 headers to a range
    RangesPerCmdlist,   \* 10 ranges to a cmdlist
    Slots,              \* bound on the cmdlists that are out at a time
    Existing,           \* the numbers that articles have; the others expired
    Replies,            \* what the server may say of the group: [first, last]
    MaxNumber,          \* std::numeric_limits<uint64_t>::max()
    MaxFaults,          \* bound on the faults,
    MaxCrashes,         \* on the crashes
    MaxOpens            \* and on the updates of the group

ASSUME UpdateAssumption ==
    /\ RangeSize \in Nat \ {0} /\ RangesPerCmdlist \in Nat \ {0}
    /\ MaxNumber \in Nat /\ Existing \subseteq 1 .. MaxNumber - 1
    /\ Replies \subseteq [first : 0 .. MaxNumber - 1, last : 0 .. MaxNumber - 1]

VARIABLES
    status,     \* of the task; "active" is also queued and waiting; "none": no task
    remote,     \* remote_first_, remote_last_
    local,      \* local_first_, local_last_
    xover,      \* xover_first_, xover_last_
    lists,      \* the cmdlists that have not come back
    work,       \* the parse and store actions that have not
    nfo,        \* the .nfo file: [first, last], NoFile or CutFile
    stored,     \* the headers in the catalogs on disk
    start,      \* history: what the update found recorded,
    asked,      \* the numbers it has asked for
    lost,       \* and those it asked for in vain
    nfaults, ncrashes, nopens

task == <<status, remote, local, xover, lists, work>>
disk == <<nfo, stored>>
history == <<start, asked, lost>>
counters == <<nfaults, ncrashes, nopens>>
vars == <<task, disk, history, counters>>

Lesser(a, b) == IF a < b THEN a ELSE b
Greater(a, b) == IF a < b THEN b ELSE a

Interval(l) == l.first .. l.last

\* There is no file, or it was cut short.  Neither is ever written: a number
\* is never 0, and what has no header is not committed.
NoFile  == [first |-> 0, last |-> 0]
CutFile == [first |-> MaxNumber, last |-> 0]

Init ==
    /\ status = "none" /\ nfo = NoFile /\ stored = {}
    /\ remote = [first |-> 0, last |-> 0]
    /\ local = [first |-> MaxNumber, last |-> 0]
    /\ xover = [first |-> 0, last |-> 0]
    /\ lists = {} /\ work = {}
    /\ start = {} /\ asked = {} /\ lost = {}
    /\ nfaults = 0 /\ ncrashes = 0 /\ nopens = 0

-----------------------------------------------------------------------------
(* update::has_commands and create_commands.                               *)

HasCommands(r, x) ==
    \/ r.first = 0 /\ r.last = 0
    \/ x.last < r.last
    \/ x.first > r.first

\* The ranges of one cmdlist: from the newest number asked for up,
NewerRanges ==
    {(xover.last + 1 + i * RangeSize) .. Lesser(xover.last + (i + 1) * RangeSize, remote.last) :
        i \in {j \in 0 .. RangesPerCmdlist - 1 : xover.last + j * RangeSize < remote.last}}
NewestAhead == xover.last + RangesPerCmdlist * RangeSize  \* mutant: beyond the newest
Newest == Lesser(xover.last + RangesPerCmdlist * RangeSize, remote.last)

\* and from the oldest number asked for down.
OlderOverlap ==  \* mutant: the oldest number asked for is asked for again
    {Greater(xover.first - (i + 1) * RangeSize, remote.first) .. (xover.first - i * RangeSize) :
        i \in {j \in 0 .. RangesPerCmdlist - 1 : xover.first - j * RangeSize > remote.first}}
OlderRanges ==
    {Greater(xover.first - (i + 1) * RangeSize, remote.first) .. (xover.first - 1 - i * RangeSize) :
        i \in {j \in 0 .. RangesPerCmdlist - 1 : xover.first - j * RangeSize > remote.first}}
Oldest == Greater(xover.first - RangesPerCmdlist * RangeSize, remote.first)

-----------------------------------------------------------------------------
(* What engine::task does at the end of its handlers.                      *)

Out(l) == {c \in l : ~c.canceled}
NumbersOf(l) == UNION {UNION c.ranges : c \in l}

\* update::commit
Commit(l) == IF l.first = 0 \/ l.last = 0 THEN nfo ELSE l

\* The task's cmdlists are canceled.  Those that wait for a connection are
\* gone; the others come back.
CancelLists(l, missing) ==
    \E gone \in SUBSET Out(l) :
        /\ lists' = {[c EXCEPT !.canceled = TRUE] : c \in l \ gone}
        /\ lost' = missing \cup NumbersOf(gone)

\* goto_state(error)
GotoError(l) ==
    /\ status' = "error"
    /\ lists' = {[c EXCEPT !.canceled = TRUE] : c \in l}
    /\ UNCHANGED nfo

\* A crunching task waits again when its actions are done.
Crunches(st) == st  \* mutant: it does not
Waits(st) == IF st = "crunching" THEN "active" ELSE st

\* update_completion, given the cmdlists and the actions that are left.  When
\* 8 MB of data wait for the actions, the cmdlists are canceled.
Settle(l, w, missing) ==
    /\ work' = w
    /\ \/ /\ w # {} /\ status = "active"
          /\ status' = "crunching" /\ CancelLists(l, missing)
          /\ UNCHANGED nfo
       \/ /\ lists' = l /\ lost' = missing
          /\ IF w # {} \/ Out(l) # {}
             THEN UNCHANGED <<status, nfo>>
             ELSE IF HasCommands(remote', xover')
             THEN /\ status' = Waits(status)
                  /\ UNCHANGED nfo
             ELSE status' = "complete" /\ nfo' = Commit(local')

-----------------------------------------------------------------------------
(* The task is created, run, and its cmdlists come back.                   *)

\* download_headers, with the constructor of update.  The constructor throws
\* when the file is shorter than the two numbers.
Open ==
    /\ status = "none" /\ nfo # CutFile /\ nopens < MaxOpens
    /\ nopens' = nopens + 1
    /\ status' = "active"
    /\ IF nfo = NoFile
       THEN UNCHANGED <<local, xover, start>>
       ELSE local' = nfo /\ xover' = nfo /\ start' = Interval(nfo)
    /\ UNCHANGED <<remote, lists, work, disk, asked, lost, nfaults, ncrashes>>

Cmdlist(id, type, ranges) == [id |-> id, type |-> type, ranges |-> ranges, canceled |-> FALSE]

\* run with create_commands, for a task that is eligible_for_run.
Run(id) ==
    /\ status = "active" /\ HasCommands(remote, xover)
    /\ \A c \in lists : c.id # id
    /\ \/ /\ remote.last = 0
          /\ lists' = lists \cup {Cmdlist(id, "groupinfo", {})}
          /\ UNCHANGED <<xover, asked>>
       \/ /\ remote.last # 0 /\ xover.last < remote.last
          /\ lists' = lists \cup {Cmdlist(id, "overview", NewerRanges)}
          /\ asked' = asked \cup UNION NewerRanges
          /\ xover' = [xover EXCEPT !.last = Newest]
       \/ /\ remote.last # 0 /\ xover.last >= remote.last
          /\ lists' = lists \cup {Cmdlist(id, "overview", OlderRanges)}
          /\ asked' = asked \cup UNION OlderRanges
          /\ xover' = [xover EXCEPT !.first = Oldest]
    /\ UNCHANGED <<status, remote, local, work, disk, start, lost, counters>>

Fault == nfaults < MaxFaults /\ nfaults' = nfaults + 1

\* complete(cmdlist): the group information.
GroupInfo(c) ==
    /\ c.type = "groupinfo" /\ status # "error"
    /\ remote' \in Replies
    /\ xover' = IF xover.last = 0
                THEN [first |-> remote'.last + 1, last |-> remote'.last] ELSE xover
    /\ UNCHANGED <<local, stored, start, asked, counters>>
    /\ Settle(lists \ {c}, work, lost)

\* There is none: the group is unknown, or the cmdlist was canceled before it
\* was sent.  Both are errors of the task.
NoGroupInfo(c) ==
    /\ c.type = "groupinfo" /\ status # "error"
    /\ IF c.canceled THEN UNCHANGED nfaults ELSE Fault
    /\ GotoError(lists \ {c})
    /\ UNCHANGED <<remote, local, xover, work, stored, history, ncrashes, nopens>>

\* The headers, those of some of the ranges if the server does not have the
\* others or if the cmdlist was canceled meanwhile.
Overview(c) ==
    /\ c.type = "overview" /\ status # "error"
    /\ UNCHANGED <<remote, local, xover, stored, start, asked, ncrashes, nopens>>
    /\ \E got \in SUBSET c.ranges :
        /\ IF c.canceled \/ got = c.ranges THEN UNCHANGED nfaults ELSE Fault
        /\ Settle(lists \ {c},
                  work \cup {[type |-> "parse", range |-> r] : r \in got},
                  lost \cup UNION (c.ranges \ got))

\* The server refuses the group: the fail bit is on, and the task does not
\* look whether it is complete.
Refused(c) ==
    /\ c.type = "overview" /\ status # "error" /\ Fault
    /\ lists' = lists \ {c}
    /\ lost' = lost \cup UNION c.ranges
    /\ UNCHANGED <<status, remote, local, xover, work, disk, start, asked, ncrashes, nopens>>

\* A reply cannot be inflated.
DataError(c) ==
    /\ c.type = "overview" /\ status # "error" /\ Fault
    /\ GotoError(lists \ {c})
    /\ lost' = lost \cup UNION c.ranges
    /\ UNCHANGED <<remote, local, xover, work, stored, start, asked, ncrashes, nopens>>

\* A task in the error state drops what comes back.
Dropped(c) ==
    /\ status = "error"
    /\ lists' = lists \ {c}
    /\ lost' = lost \cup UNION c.ranges
    /\ UNCHANGED <<status, remote, local, xover, work, disk, start, asked, counters>>

-----------------------------------------------------------------------------
(* on_action with update::complete(action).                                *)

\* A parse has been performed: its headers are to be stored.
Parsed(a) ==
    /\ a.type = "parse"
    /\ UNCHANGED <<remote, local, xover, stored, start, asked, counters>>
    /\ IF status = "error"
       THEN /\ work' = work \ {a} /\ lost' = lost \cup a.range
            /\ UNCHANGED <<status, lists, nfo>>
       ELSE Settle(lists, (work \ {a}) \cup {[a EXCEPT !.type = "store"]}, lost)

\* The interval that is recorded after the headers n were stored: the one that
\* reaches from the lowest to the highest of them.
Lowest(n)  == {k \in n : \A m \in n : k <= m}
Highest(n) == {k \in n : \A m \in n : m <= k}
Extended(l, n) ==
    IF n = {} THEN {l}
    ELSE {[first |-> Lesser(l.first, k), last |-> Greater(l.last, m)] :
            k \in Lowest(n), m \in Highest(n)}

\* A store has been performed.
Stored(a) ==
    LET n == a.range \cap Existing
    IN  /\ a.type = "store"
        /\ stored' = stored \cup n
        /\ UNCHANGED <<remote, xover, start, asked, counters>>
        /\ IF status = "error"
           THEN work' = work \ {a} /\ UNCHANGED <<status, local, lists, nfo, lost>>
           ELSE local' \in Extended(local, n) /\ Settle(lists, work \ {a}, lost)

\* A store has failed, some of its headers stored.
StoreFailed(a) ==
    /\ a.type = "store" /\ status # "error" /\ Fault
    /\ \E n \in SUBSET (a.range \cap Existing) : stored' = stored \cup n
    /\ work' = work \ {a} /\ lost' = lost \cup a.range
    /\ GotoError(lists)
    /\ UNCHANGED <<remote, local, xover, start, asked, ncrashes, nopens>>

-----------------------------------------------------------------------------
(* The commands of the user and the end of the process.                    *)

Pause ==
    /\ status \in {"active", "crunching"}
    /\ CancelLists(lists, lost)
    /\ status' = "paused"
    /\ UNCHANGED <<remote, local, xover, work, disk, start, asked, counters>>

Resume ==
    /\ status = "paused"
    /\ IF work = {} /\ Out(lists) = {} /\ ~HasCommands(remote, xover)
       THEN status' = "complete" /\ nfo' = Commit(local)
       ELSE status' = "active" /\ UNCHANGED nfo
    /\ UNCHANGED <<remote, local, xover, lists, work, stored, history, counters>>

NoUpdateYet ==  \* mutant: the cmdlists are not canceled
    /\ remote' = [first |-> 0, last |-> 0]
    /\ local' = [first |-> MaxNumber, last |-> 0]
    /\ xover' = [first |-> 0, last |-> 0]
    /\ lists' = lists /\ work' = {}
    /\ start' = {} /\ asked' = {} /\ lost' = {}

\* There is no update object: its members are those of one without a file.
NoUpdate ==
    /\ remote' = [first |-> 0, last |-> 0]
    /\ local' = [first |-> MaxNumber, last |-> 0]
    /\ xover' = [first |-> 0, last |-> 0]
    /\ lists' = {} /\ work' = {}
    /\ start' = {} /\ asked' = {} /\ lost' = {}

\* The task ends; the stores that are already submitted may be performed.
Gone ==
    /\ status' = "none"
    /\ NoUpdate
    /\ \E done \in SUBSET {a \in work : a.type = "store"} :
        stored' = stored \cup ((UNION {a.range : a \in done}) \cap Existing)

\* kill: a task that is not complete is canceled, which for an update means
\* committed.
Kill ==
    /\ status # "none"
    /\ nfo' = IF status = "complete" THEN nfo ELSE Commit(local)
    /\ Gone
    /\ UNCHANGED counters

\* The process ends, maybe between the truncation of the file and its writing.
Crash ==
    /\ status # "none" /\ ncrashes < MaxCrashes /\ ncrashes' = ncrashes + 1
    /\ nfo' \in {nfo} \cup {IF Commit(local) = local THEN CutFile ELSE nfo}
    /\ Gone
    /\ UNCHANGED <<nfaults, nopens>>

Returned(c) == GroupInfo(c) \/ NoGroupInfo(c) \/ Overview(c) \/ Refused(c) \/ DataError(c) \/ Dropped(c)
Performed(a) == Parsed(a) \/ Stored(a) \/ StoreFailed(a)

Next ==
    \/ Open \/ \E id \in Slots : Run(id)
    \/ \E c \in lists : Returned(c)
    \/ \E a \in work : Performed(a)
    \/ Pause \/ Resume \/ Kill \/ Crash

Spec == Init /\ [][Next]_vars

\* The engine runs a task that is eligible, cmdlists come back and actions are
\* performed.
Fairness ==
    /\ WF_vars(\E id \in Slots : Run(id))
    /\ WF_vars(\E c \in lists : Returned(c))
    /\ WF_vars(\E a \in work : Performed(a))

FairSpec == Spec /\ Fairness
-----------------------------------------------------------------------------
(* Properties *)

InHand == NumbersOf(lists) \cup UNION {a.range : a \in work}

Cmdlists ==
    [id : Slots, type : {"groupinfo"}, ranges : {{}}, canceled : BOOLEAN]
    \cup [id : Slots, type : {"overview"}, ranges : SUBSET SUBSET Nat, canceled : BOOLEAN]
Actions == [type : {"parse", "store"}, range : SUBSET Nat]

\* The state has its types, and a task that has ended leaves nothing behind.
TypeOK ==
    /\ status \in {"none", "active", "crunching", "paused", "error", "complete"}
    /\ remote \in [first : Nat, last : Nat]
    /\ local \in [first : Nat, last : Nat]
    /\ xover \in [first : Nat, last : Nat]
    /\ lists \subseteq Cmdlists /\ work \subseteq Actions
    /\ nfo \in [first : Nat, last : Nat]
    /\ stored \subseteq Existing
    /\ start \subseteq Nat /\ asked \subseteq Nat /\ lost \subseteq Nat
    /\ status = "none" => lists = {} /\ work = {}

\* create_commands asks for nothing twice in the same update, whatever the
\* server says of the group meanwhile, and for nothing that the last update
\* recorded; it asks for no more than a thousand headers at a time, and the
\* ranges of a cmdlist do not overlap.
Overlapping(R) == {r \in R : \E q \in R : q # r /\ q \cap r # {}}
AskedOnce ==
    [][\A c \in lists' \ lists : ~c.canceled =>
          /\ (UNION c.ranges) \cap (asked \cup start) = {}
          /\ \A r \in c.ranges : \E f \in r : r \subseteq f .. f + RangeSize - 1
          /\ Overlapping(c.ranges) = {}]_vars

\* A header between the oldest and the newest one that was asked for was
\* recorded before, is on the disk, was asked for in vain, or a cmdlist or an
\* action still has it: between two ranges nothing is left out, and no
\* handler drops a range, in whatever order the replies and actions complete.
NothingForgotten ==
    status # "none" =>
        Existing \cap Interval(xover) \subseteq start \cup stored \cup lost \cup InHand

\* A task that is complete has all headers of the group but those.
CompleteHasAll ==
    status = "complete" /\ ~HasCommands(remote, xover) =>
        Existing \cap Interval(remote) \subseteq start \cup stored \cup lost \cup InHand

\* What is recorded, in memory and in the file, begins and ends with headers
\* that are on the disk, and lies within what was asked for: an update that
\* starts from it misses no header outside of it.
RecordedEnds ==
    /\ \A l \in {local, nfo} :
          l.last # 0 => l.first \in stored /\ l.last \in stored
    /\ status # "none" /\ local.last # 0 =>
          xover.first <= local.first /\ local.last <= xover.last

\* No header is forgotten: neither by an update that goes on, nor by one that
\* is complete, nor by what it leaves to the next one.
HeadersKept == NothingForgotten /\ CompleteHasAll /\ RecordedEnds

\* An update that is neither paused nor killed ends, if the group is not
\* empty.  One whose last cmdlist is refused does not, because the task does
\* not look whether it is complete then.
Running == status \in {"active", "crunching"}
Stuck == nfaults > 0 /\ lists = {} /\ work = {} /\ ~HasCommands(remote, xover)
UpdateEnds == Running ~> ~Running \/ Stuck
=============================================================================
