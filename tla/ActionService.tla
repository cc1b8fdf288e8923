---------------------------- MODULE ActionService ----------------------------
(***************************************************************************)
(* What the engine needs of the threads that run its actions (action.h,    *)
(* threadpool.h), and nothing about how they do it: a submitted action     *)
(* completes at most once, in any order with respect to others, except     *)
(* that the actions of one single_thread owner complete in submission      *)
(* order.  Once the service is closed nothing more is accepted; what was   *)
(* accepted may still complete or be dropped.                              *)
(***************************************************************************)
EXTENDS Integers, Sequences

CONSTANTS MaxActions, Owners

VARIABLES nsub,       \* actions 1..nsub were submitted
          owner,      \* the single_thread owner of each, else -1
          completed,  \* the completed ones, in order
          closed

vars == <<nsub, owner, completed, closed>>

Id == 1 .. MaxActions
Finished(a) == \E i \in DOMAIN completed : completed[i] = a

Init ==
    /\ nsub = 0
    /\ owner = [a \in Id |-> -1]
    /\ completed = <<>>
    /\ closed = FALSE

Submit(o) ==
    /\ ~closed
    /\ nsub < MaxActions
    /\ nsub' = nsub + 1
    /\ owner' = [owner EXCEPT ![nsub + 1] = o]
    /\ UNCHANGED <<completed, closed>>

\* Action a completes once those it must follow have.
Complete(a) ==
    /\ a <= nsub
    /\ ~Finished(a)
    /\ \A b \in 1 .. a - 1 : owner[b] = owner[a] /\ owner[a] # -1 => Finished(b)
    /\ completed' = Append(completed, a)
    /\ UNCHANGED <<nsub, owner, closed>>

Close ==
    /\ ~closed
    /\ closed' = TRUE
    /\ UNCHANGED <<nsub, owner, completed>>

Next ==
    \/ \E o \in Owners \cup {-1} : Submit(o)
    \/ \E a \in Id : Complete(a)
    \/ Close

Spec == Init /\ [][Next]_vars
=============================================================================
