------------------------------ MODULE Throttle ------------------------------
(***************************************************************************)
(* engine/throttle.h and the loop of connection::execute that obeys it.    *)
(*                                                                         *)
(* The connections share a quota of bytes for each second.  A connection   *)
(* asks for a chunk of it, receives at most that much and gives back what  *)
(* it did not use.  The mutex makes each of the two calls atomic, but the  *)
(* window of a second may begin anew between them, and the engine may      *)
(* switch the throttle or set the quota, which no lock protects.           *)
(***************************************************************************)
EXTENDS Integers, FiniteSetsExt, Functions

CONSTANTS
    Conns,      \* the connections
    Chunk,      \* 1024 bytes at most at a time
    Quotas,     \* the values of the quota, in bytes per second
    SizeMax,    \* the largest size_t
    MaxChanges  \* bound on the commands of the engine

\* The quotas stay below the largest size_t by more than the connections have
\* been given at any time, some kilobytes of 2^64.
ASSUME ThrottleAssumption ==
    /\ Chunk \in Nat \ {0} /\ SizeMax \in Nat /\ MaxChanges \in Nat
    /\ IsFiniteSet(Conns)
    /\ Quotas \subseteq Nat
    /\ \A q \in Quotas : q < SizeMax /\ q + Chunk * Cardinality(Conns) <= SizeMax

VARIABLES
    enabled, quota, accum,  \* enabled_, quota_, accum_
    elapsed,    \* more than 1000 ms have gone since time_
    pc,         \* where the loop of each connection is
    given,      \* the quota it was given
    got,        \* the bytes it has received of it
    canceled,   \* its cancel event is set
    window,     \* history: bytes received since accum_ was set anew,
    carried,    \* bytes that were given before and might yet be received then,
    steady,     \* and whether the throttle was on, with one quota, since then
    nchanges

throttleVars == <<enabled, quota, accum, elapsed, pc, given, got, canceled,
          window, carried, steady, nchanges>>

ThrottleInit ==
    /\ enabled \in BOOLEAN /\ quota \in Quotas /\ accum = 0 /\ elapsed = FALSE
    /\ pc = [c \in Conns |-> "idle"]
    /\ given = [c \in Conns |-> 0] /\ got = [c \in Conns |-> 0]
    /\ canceled = [c \in Conns |-> FALSE]
    /\ window = 0 /\ carried = 0 /\ steady = enabled /\ nchanges = 0

Size(n) == n % (SizeMax + 1)

\* The bytes that others than c have been given and not yet received.
Outstanding(c) == SumFunctionOnSet([d \in Conns |-> given[d] - got[d]], Conns \ {c})

\* The history in a new window, and when the throttle or the quota changes.
Anew(c) ==
    /\ steady' = \A d \in Conns \ {c} : given[d] < SizeMax
    /\ window' = 0 /\ carried' = IF steady' THEN Outstanding(c) ELSE 0
Unsteady == steady' = FALSE /\ window' = 0 /\ carried' = 0

-----------------------------------------------------------------------------
(* The throttle.                                                           *)

\* Mutant: only whole chunks are given.
GivenWhole(a, q2, q3) == IF a + Chunk > q2 THEN 0 ELSE Chunk

\* What give_quota gives when accum_ is a; it reads quota_ twice.
Given(a, q2, q3) == IF a >= q2 THEN 0 ELSE Min({Size(q3 - a), Chunk})

\* give_quota, with the values of quota_ that it reads.  When the second has
\* gone the quota is cut by a fraction of it.
give_quota(c, q1, q2, q3) ==
    IF ~enabled
    THEN /\ given' = [given EXCEPT ![c] = SizeMax]
         /\ UNCHANGED <<accum, elapsed>>
    ELSE \E a \in IF elapsed THEN 0 .. Max({q1 - 1, 0}) ELSE {accum} :
         /\ given' = [given EXCEPT ![c] = Given(a, q2, q3)]
         /\ accum' = Size(a + Given(a, q2, q3))
         /\ elapsed' = FALSE

\* accumulate: what was not used is given back.
accumulateTwice(actual, q) ==  \* mutant: what was used is given back, too
    IF enabled THEN Size(accum - q) ELSE accum
accumulate(actual, q) == IF enabled THEN Size(accum - (q - actual)) ELSE accum

-----------------------------------------------------------------------------
(* The loop of execute.                                                    *)

Start(c) ==
    /\ pc[c] = "idle" /\ pc' = [pc EXCEPT ![c] = "loop"]
    /\ canceled' = [canceled EXCEPT ![c] = FALSE]
    /\ UNCHANGED <<enabled, quota, accum, elapsed, given, got, window, carried, steady, nchanges>>

\* The cancel event is looked at before the quota is asked for, and not while
\* there is none.
Loop(c) ==
    /\ pc[c] = "loop"
    /\ pc' = [pc EXCEPT ![c] = IF canceled[c] THEN "idle" ELSE "quota"]
    /\ UNCHANGED <<enabled, quota, accum, elapsed, given, got, canceled,
                   window, carried, steady, nchanges>>

Gives(c) == pc' = [pc EXCEPT ![c] = IF given'[c] = 0 THEN "quota" ELSE "receive"]

Give(c) ==
    /\ pc[c] = "quota"
    /\ give_quota(c, quota, quota, quota) /\ Gives(c)
    /\ IF enabled /\ elapsed THEN Anew(c) ELSE UNCHANGED <<window, carried, steady>>
    /\ UNCHANGED <<enabled, quota, got, canceled, nchanges>>

Change == nchanges < MaxChanges /\ nchanges' = nchanges + 1

\* set_throttle_value while give_quota reads the value.
GiveRacing(c) ==
    /\ pc[c] = "quota" /\ Change
    /\ quota' \in Quotas
    /\ \E q1, q2, q3 \in {quota, quota'} : give_quota(c, q1, q2, q3)
    /\ Gives(c) /\ Unsteady
    /\ UNCHANGED <<enabled, got, canceled>>

\* recvsome
Receive(c) ==
    /\ pc[c] = "receive"
    /\ \E n \in 1 .. Min({given[c], Chunk}) :
        got' = [got EXCEPT ![c] = n] /\ window' = IF steady THEN window + n ELSE 0
    /\ pc' = [pc EXCEPT ![c] = "give back"]
    /\ UNCHANGED <<enabled, quota, accum, elapsed, given, canceled, carried, steady, nchanges>>

Returned(c, next) ==
    /\ pc' = [pc EXCEPT ![c] = next]
    /\ given' = [given EXCEPT ![c] = 0] /\ got' = [got EXCEPT ![c] = 0]

\* The connection was closed: the chunk is never given back.
Closed(c) ==
    /\ pc[c] = "receive" /\ Returned(c, "idle")
    /\ UNCHANGED <<enabled, quota, accum, elapsed, canceled, window, carried, steady, nchanges>>

GiveBack(c) ==
    /\ pc[c] = "give back"
    /\ accum' = accumulate(got[c], given[c])
    /\ \E next \in {"loop", "idle"} : Returned(c, next)
    /\ UNCHANGED <<enabled, quota, elapsed, canceled, window, carried, steady, nchanges>>

Cancel(c) ==
    /\ pc[c] # "idle" /\ ~canceled[c]
    /\ canceled' = [canceled EXCEPT ![c] = TRUE]
    /\ UNCHANGED <<enabled, quota, accum, elapsed, pc, given, got, window, carried, steady, nchanges>>

-----------------------------------------------------------------------------
(* The clock and the engine.                                               *)

Second ==
    /\ ~elapsed /\ elapsed' = TRUE
    /\ UNCHANGED <<enabled, quota, accum, pc, given, got, canceled, window, carried, steady, nchanges>>

set_throttle ==
    /\ Change /\ enabled' = ~enabled /\ Unsteady
    /\ UNCHANGED <<quota, accum, elapsed, pc, given, got, canceled>>

set_throttle_value ==
    /\ Change /\ quota' \in Quotas \ {quota} /\ Unsteady
    /\ UNCHANGED <<enabled, accum, elapsed, pc, given, got, canceled>>

ThrottleNext ==
    \/ \E c \in Conns : \/ Start(c) \/ Loop(c) \/ Give(c) \/ GiveRacing(c) \/ Receive(c)
                        \/ Closed(c) \/ GiveBack(c) \/ Cancel(c)
    \/ Second \/ set_throttle \/ set_throttle_value

ThrottleSpec == ThrottleInit /\ [][ThrottleNext]_throttleVars

\* The threads run and the clock does.  Data comes or the connection closes.
Fairness ==
    /\ \A c \in Conns : /\ WF_throttleVars(Loop(c)) /\ WF_throttleVars(Give(c)) /\ WF_throttleVars(GiveBack(c))
                        /\ WF_throttleVars(Receive(c) \/ Closed(c))
    /\ WF_throttleVars(Second)

FairSpec == ThrottleSpec /\ Fairness

-----------------------------------------------------------------------------
(* Properties *)

\* accum_ stays a size_t, and a connection has a chunk while it receives.
ThrottleTypeOK ==
    /\ enabled \in BOOLEAN /\ elapsed \in BOOLEAN /\ steady \in BOOLEAN
    /\ quota \in Quotas /\ accum \in 0 .. SizeMax
    /\ \A c \in Conns : /\ pc[c] \in {"idle", "loop", "quota", "receive", "give back"}
                        /\ got[c] \in 0 .. given[c] /\ canceled[c] \in BOOLEAN
                        /\ given[c] # 0 <=> pc[c] \in {"receive", "give back"}

\* The bytes received in a second are no more than its quota and what the
\* connections still had from the second before, also when these give it back
\* in the new second and accum_ wraps around; the chunks that are out are
\* counted as received.
WindowBound == steady => window <= quota + carried

\* The counters stay in their ranges, and a second within its bound.
Bounded == ThrottleTypeOK /\ WindowBound

\* The connections never wait for a quota all of them for ever, also when
\* accum_ has wrapped around, and even if the quota is set all the time.
QuotaComes == (\E c \in Conns : pc[c] = "quota") ~> (\E c \in Conns : pc[c] = "receive")
=============================================================================
