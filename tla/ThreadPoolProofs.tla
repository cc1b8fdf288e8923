-------------------------- MODULE ThreadPoolProofs --------------------------
(***************************************************************************)
(* Theorems about ThreadPool, for any number of threads, actions, owners   *)
(* and connections.                                                        *)
(***************************************************************************)
EXTENDS ThreadPool, FiniteSetTheorems, TLAPS

-----------------------------------------------------------------------------
(* What the theorems about one thread's queue rest on. *)

LEMMA AppendFacts ==
    ASSUME NEW S, NEW s \in Seq(S), NEW e \in S
    PROVE  /\ Append(s, e) \in Seq(S)
           /\ DOMAIN Append(s, e) = 1 .. Len(s) + 1
           /\ DOMAIN s = 1 .. Len(s)
           /\ Len(s) \in Nat
           /\ \A i \in 1 .. Len(s) : Append(s, e)[i] = s[i]
           /\ Append(s, e)[Len(s) + 1] = e
  OBVIOUS

LEMMA TailFacts ==
    ASSUME NEW S, NEW s \in Seq(S), s # <<>>
    PROVE  /\ Tail(s) \in Seq(S)
           /\ Head(s) \in S /\ Head(s) = s[1]
           /\ Len(s) \in Nat \ {0}
           /\ DOMAIN s = 1 .. Len(s)
           /\ DOMAIN Tail(s) = 1 .. Len(s) - 1
           /\ \A i \in 1 .. Len(s) - 1 : Tail(s)[i] = s[i + 1]
  OBVIOUS

LEMMA AppendElems ==
    ASSUME NEW S, NEW s \in Seq(S), NEW e \in S
    PROVE  Elems(Append(s, e)) = Elems(s) \cup {e}
  BY AppendFacts DEF Elems

LEMMA TailElems ==
    ASSUME NEW S, NEW s \in Seq(S), s # <<>>
    PROVE  Elems(s) = {Head(s)} \cup Elems(Tail(s))
<1>1. ASSUME NEW i \in DOMAIN s PROVE s[i] \in {Head(s)} \cup Elems(Tail(s))
  <2>1. CASE i = 1
    BY <2>1, TailFacts
  <2>2. CASE i # 1
    <3>1. i - 1 \in DOMAIN Tail(s) /\ Tail(s)[i - 1] = s[i]
      BY <2>2, TailFacts
    <3>2. QED BY <3>1 DEF Elems
  <2>3. QED BY <2>1, <2>2
<1>2. Head(s) \in Elems(s)
  BY TailFacts DEF Elems
<1>3. ASSUME NEW i \in DOMAIN Tail(s) PROVE Tail(s)[i] \in Elems(s)
  BY TailFacts DEF Elems
<1>4. QED BY <1>1, <1>2, <1>3 DEF Elems

-----------------------------------------------------------------------------
(* The inductive invariant.  ExactlyOnce and OwnerOrder are not inductive: *)
(* they say where an action is and how the completed ones are ordered, and *)
(* that follows only from the order within each thread's queue.            *)

\* A thread that was not started yet does nothing.
Started == \A w \in Worker : w >= nthreads => pc[w] = "none"

\* A queue holds submitted actions of its own thread, in submission order.
Queued ==
    \A w \in Worker : \A i \in DOMAIN queue[w] :
        queue[w][i] <= nsub /\ where[queue[w][i]] = w
Increasing ==
    \A w \in Worker : \A i, j \in DOMAIN queue[w] :
        i < j => queue[w][i] < queue[w][j]

\* The action a thread performs was submitted to it before all it has queued.
InHand ==
    \A w \in Worker : pc[w] = "perform" =>
        /\ cur[w] \in 1 .. nsub
        /\ where[cur[w]] = w
        /\ \A i \in DOMAIN queue[w] : cur[w] < queue[w][i]

\* A completed action was submitted before all its thread still has to do.
Past ==
    \A k \in DOMAIN completed :
        /\ completed[k] <= nsub
        /\ \A w \in Worker : where[completed[k]] = w =>
             /\ \A i \in DOMAIN queue[w] : completed[k] < queue[w][i]
             /\ pc[w] = "perform" => completed[k] < cur[w]

\* The actions of one thread complete in submission order.
InOrder ==
    \A k, l \in DOMAIN completed :
        k < l /\ where[completed[k]] = where[completed[l]]
          => completed[k] < completed[l]

\* No action is lost.
Located(a) == InQueue(where[a], a) \/ Performing(where[a], a) \/ Done(a)
Somewhere == \A a \in 1 .. nsub : Located(a)

\* The actions of an owner are all submitted to the same thread.
Owned ==
    \A a \in Id : owner[a] # -1 => a <= nsub /\ where[a] = owner[a] % PoolSize

Order == Queued /\ Increasing /\ InHand /\ Past /\ InOrder /\ Somewhere /\ Owned

\* A connection's thread is one of the private ones, and nobody else's.
Private ==
    \A c \in Conns : handle[c] # NoThread =>
        /\ handle[c] \in PoolSize .. nthreads - 1
        /\ in_use[handle[c]]
        /\ \A d \in Conns : d # c => handle[d] # handle[c]

\* queue_size_ counts the actions that are not completed, and those whose
\* thread has not counted them off yet.
Pending == {a \in 1 .. nsub : ~Done(a)}
Retiring == {w \in Worker : pc[w] = "retire"}
Counted == queue_size = Cardinality(Pending) + Cardinality(Retiring)

Inv == TypeOK /\ Started /\ Private /\ Order /\ Counted /\ NoLostWakeup

-----------------------------------------------------------------------------
(* Type correctness. *)

LEMMA NotifiedType ==
    ASSUME TypeOK, NEW w \in Worker
    PROVE  Notified(w) \in PCs
  BY DEF TypeOK, Notified, PCs

LEMMA PushType ==
    ASSUME TypeOK, NEW w \in Worker, Push(w)
    PROVE  /\ pc' \in [Worker -> PCs]
           /\ queue' \in [Worker -> Seq(Id)]
           /\ queue_size' \in Int
           /\ nsub' \in 0 .. MaxActions
           /\ nsub + 1 \in Id
           /\ where' \in [Id -> Worker]
           /\ UNCHANGED <<nthreads, cur, run_loop, in_use, handle, completed, joining>>
<1>1. nsub + 1 \in Id /\ nsub' \in 0 .. MaxActions
  BY PoolAssumption DEF TypeOK, Push, Id
<1>2. Append(queue[w], nsub + 1) \in Seq(Id)
  BY <1>1 DEF TypeOK
<1>3. QED
  BY <1>1, <1>2, NotifiedType DEF TypeOK, Push

LEMMA StopType ==
    ASSUME TypeOK, NEW w \in 0 .. nthreads, Stop(w)
    PROVE  TypeOK'
<1>1. w \in Int /\ 0 <= w /\ w <= MaxThreads /\ joining' = w
  BY PoolAssumption DEF TypeOK, Stop
<1>2. w < nthreads => w \in Worker
  BY <1>1, PoolAssumption DEF TypeOK, Worker
<1>3. pc' \in [Worker -> PCs] /\ run_loop' \in [Worker -> BOOLEAN]
  BY <1>2, NotifiedType DEF TypeOK, Stop
<1>4. QED
  BY <1>1, <1>3 DEF TypeOK, Stop, gvars

\* TypeOK is preserved by every step: queues hold submitted ids only, and every
\* index of a thread is one (round_robin_, the owner's modulo, the handles).
LEMMA TypeStep == TypeOK /\ InHand /\ [Next]_vars => TypeOK'
<1> SUFFICES ASSUME TypeOK, InHand, [Next]_vars PROVE TypeOK'
  OBVIOUS
<1> USE PoolAssumption
<1>1. round_robin \in Worker /\ (round_robin + 1) % PoolSize \in 0 .. PoolSize - 1
  BY DEF TypeOK, Worker
<1>2. \A o \in Owners : o % PoolSize \in Worker
  BY DEF Worker
<1>3. \A c \in Conns : handle[c] # NoThread => handle[c] \in Worker
  BY DEF TypeOK
<1>4. CASE SubmitAny
  <2>1. Push(round_robin) /\ UNCHANGED owner
        /\ round_robin' = (round_robin + 1) % PoolSize
    BY <1>4 DEF SubmitAny
  <2>2. QED BY <2>1, <1>1, PushType DEF TypeOK
<1>5. ASSUME NEW o \in Owners, SubmitSingle(o) PROVE TypeOK'
  <2>1. Push(o % PoolSize) /\ UNCHANGED round_robin
        /\ owner' = [owner EXCEPT ![nsub + 1] = o]
    BY <1>5 DEF SubmitSingle
  <2>2. QED BY <2>1, <1>2, PushType DEF TypeOK
<1>6. ASSUME NEW c \in Conns, SubmitPrivate(c) PROVE TypeOK'
  <2>1. Push(handle[c]) /\ UNCHANGED <<owner, round_robin>> /\ handle[c] \in Worker
    BY <1>3, <1>6 DEF SubmitPrivate
  <2>2. QED BY <2>1, PushType DEF TypeOK
<1>7. ASSUME NEW c \in Conns, AllocateReuse(c) PROVE TypeOK'
  <2>1. PICK w \in Free : /\ in_use' = [in_use EXCEPT ![w] = TRUE]
                          /\ handle' = [handle EXCEPT ![c] = w]
    BY <1>7 DEF AllocateReuse
  <2>2. w \in Worker
    BY DEF Free, TypeOK, Worker
  <2>3. QED BY <1>7, <2>1, <2>2 DEF AllocateReuse, TypeOK
<1>8. ASSUME NEW c \in Conns, AllocateNew(c) PROVE TypeOK'
  <2>1. nthreads \in Worker /\ nthreads + 1 \in PoolSize .. MaxThreads
    BY <1>8 DEF AllocateNew, TypeOK, Worker
  <2>2. QED BY <1>8, <2>1 DEF AllocateNew, TypeOK, PCs
<1>9. ASSUME NEW c \in Conns, Detach(c) PROVE TypeOK'
  BY <1>9 DEF Detach, TypeOK
<1>10. ASSUME NEW c \in Conns, Drop(c) PROVE TypeOK'
  BY <1>10 DEF Drop, TypeOK
<1>11. CASE Shutdown
  BY <1>11, StopType DEF Shutdown, TypeOK
<1>12. CASE Join
  <2>1. Stop(joining + 1) /\ joining + 1 \in 0 .. nthreads
    BY <1>12 DEF Join, TypeOK, Worker
  <2>2. QED BY <2>1, StopType
<1>13. ASSUME NEW w \in Worker, Exit(w) PROVE TypeOK'
  BY <1>13 DEF Exit, TypeOK, gvars, PCs
<1>14. ASSUME NEW w \in Worker, Wait(w) PROVE TypeOK'
  BY <1>14 DEF Wait, TypeOK, gvars, PCs
<1>15. ASSUME NEW w \in Worker, Pop(w) PROVE TypeOK'
  <2>1. Head(queue[w]) \in Id /\ Tail(queue[w]) \in Seq(Id)
    BY <1>15, TailFacts DEF Pop, TypeOK
  <2>2. Head(queue[w]) \in 0 .. MaxActions
    BY <2>1 DEF Id
  <2>3. QED BY <1>15, <2>1, <2>2 DEF Pop, TypeOK, gvars, PCs
<1>16. ASSUME NEW w \in Worker, Perform(w) PROVE TypeOK'
  <2>1. cur[w] \in Id
    BY <1>16 DEF Perform, InHand, TypeOK, Id
  <2>2. QED
    BY <1>16, <2>1, AppendFacts DEF Perform, TypeOK, gvars, PCs
<1>17. ASSUME NEW w \in Worker, Retire(w) PROVE TypeOK'
  BY <1>17 DEF Retire, TypeOK, gvars, PCs
<1>18. ASSUME NEW w \in Worker, SpuriousWakeup(w) PROVE TypeOK'
  BY <1>18 DEF SpuriousWakeup, TypeOK, gvars, PCs
<1>19. CASE UNCHANGED vars
  BY <1>19 DEF vars, TypeOK
<1>20. QED
  BY <1>4, <1>5, <1>6, <1>7, <1>8, <1>9, <1>10, <1>11, <1>12, <1>13, <1>14,
     <1>15, <1>16, <1>17, <1>18, <1>19 DEF Next, Gui, ThreadStep

-----------------------------------------------------------------------------
(* What a step can do to the actions. *)

Submitting(w, o) ==
    /\ Push(w)
    /\ owner' = [owner EXCEPT ![nsub + 1] = o]
    /\ o # -1 => w = o % PoolSize

Quiet ==
    /\ UNCHANGED <<queue, nsub, where, owner, completed>>
    /\ \A w \in Worker :
         /\ pc'[w] = "perform" <=> pc[w] = "perform"
         /\ pc[w] = "perform" => cur'[w] = cur[w]
    /\ ~Open => ~Open'

Uncounted ==
    /\ UNCHANGED queue_size
    /\ \A w \in Worker : pc'[w] = "retire" <=> pc[w] = "retire"

LEMMA StopQuiet ==
    ASSUME TypeOK, NEW w \in Nat, Stop(w)
    PROVE  Quiet /\ Uncounted
  BY DEF TypeOK, Stop, Quiet, Uncounted, Notified, gvars, Open

LEMMA RetireQuiet ==
    ASSUME TypeOK, NEW w \in Worker, Retire(w)
    PROVE  Quiet
  BY DEF TypeOK, Retire, Quiet, gvars, Open

\* Every step submits an action, pops one, completes one, counts one off, or
\* leaves the actions and their count alone.
LEMMA StepCases ==
    ASSUME Inv, [Next]_vars
    PROVE  \/ \E w \in Worker, o \in Owners \cup {-1} : Submitting(w, o)
           \/ \E w \in Worker : Pop(w)
           \/ \E w \in Worker : Perform(w)
           \/ \E w \in Worker : Retire(w)
           \/ Quiet /\ Uncounted
<1> USE PoolAssumption DEF Inv
<1>1. CASE SubmitAny
  <2>1. round_robin \in Worker /\ Push(round_robin)
    BY <1>1 DEF SubmitAny, TypeOK, Worker
  <2>2. owner' = [owner EXCEPT ![nsub + 1] = -1]
    BY <1>1, <2>1, PushType DEF SubmitAny, TypeOK, Order, Owned
  <2>3. QED BY <2>1, <2>2 DEF Submitting
<1>2. ASSUME NEW o \in Owners, SubmitSingle(o)
      PROVE  \E w \in Worker : Submitting(w, o)
  BY <1>2 DEF SubmitSingle, Submitting, Worker
<1>3. ASSUME NEW c \in Conns, SubmitPrivate(c)
      PROVE  \E w \in Worker : Submitting(w, -1)
  <2>1. handle[c] \in Worker /\ Push(handle[c])
    BY <1>3 DEF SubmitPrivate, TypeOK
  <2>2. owner' = [owner EXCEPT ![nsub + 1] = -1]
    BY <1>3, <2>1, PushType DEF SubmitPrivate, TypeOK, Order, Owned
  <2>3. QED BY <2>1, <2>2 DEF Submitting
<1>4. ASSUME NEW c \in Conns, AllocateReuse(c) \/ Detach(c) \/ Drop(c)
      PROVE  Quiet /\ Uncounted
  BY <1>4 DEF AllocateReuse, Detach, Drop, Quiet, Uncounted, Open
<1>5. ASSUME NEW c \in Conns, AllocateNew(c) PROVE Quiet /\ Uncounted
  <2>1. nthreads \in Worker /\ pc[nthreads] = "none"
    BY <1>5 DEF AllocateNew, TypeOK, Started, Worker
  <2>2. QED BY <1>5, <2>1 DEF AllocateNew, Quiet, Uncounted, TypeOK, Open
<1>6. CASE Shutdown
  BY <1>6, StopQuiet DEF Shutdown
<1>7. CASE Join
  BY <1>7, StopQuiet DEF Join, Worker
<1>8. ASSUME NEW w \in Worker, Exit(w) \/ Wait(w) \/ SpuriousWakeup(w)
      PROVE  Quiet /\ Uncounted
  BY <1>8 DEF Exit, Wait, SpuriousWakeup, Quiet, Uncounted, TypeOK, gvars, Open
<1>9. CASE UNCHANGED vars
  BY <1>9 DEF vars, Quiet, Uncounted, Open
<1>10. QED
  BY <1>1, <1>2, <1>3, <1>4, <1>5, <1>6, <1>7, <1>8, <1>9 DEF Next, Gui, ThreadStep
-----------------------------------------------------------------------------
(* Each of them preserves the invariant. *)

LEMMA StartedStep ==
    ASSUME Inv, [Next]_vars
    PROVE  Started'
<1> USE PoolAssumption DEF Inv
<1>1. ASSUME NEW w \in Worker, w < nthreads, Push(w) PROVE Started'
  BY <1>1 DEF Push, Started, TypeOK, Notified, Worker
<1>2. CASE SubmitAny
  BY <1>2, <1>1 DEF SubmitAny, TypeOK, Worker
<1>3. ASSUME NEW o \in Owners, SubmitSingle(o) PROVE Started'
  BY <1>3, <1>1 DEF SubmitSingle, TypeOK, Worker
<1>4. ASSUME NEW c \in Conns, SubmitPrivate(c) PROVE Started'
  BY <1>4, <1>1 DEF SubmitPrivate, TypeOK, Private
<1>5. ASSUME NEW c \in Conns, AllocateNew(c) PROVE Started'
  BY <1>5 DEF AllocateNew, Started, TypeOK, Worker
<1>6. ASSUME NEW c \in Conns, AllocateReuse(c) \/ Detach(c) \/ Drop(c) PROVE Started'
  BY <1>6 DEF AllocateReuse, Detach, Drop, Started
<1>7. ASSUME NEW w, Stop(w) PROVE Started'
  BY <1>7 DEF Stop, gvars, Started, TypeOK, Notified, Worker
<1>8. CASE Shutdown \/ Join
  BY <1>7, <1>8 DEF Shutdown, Join
<1>9. ASSUME NEW w \in Worker, ThreadStep(w) \/ SpuriousWakeup(w) PROVE Started'
  <2>1. pc[w] # "none" /\ (\A v \in Worker : v # w => pc'[v] = pc[v])
        /\ nthreads' = nthreads
    BY <1>9 DEF ThreadStep, SpuriousWakeup, Exit, Wait, Pop, Perform, Retire, gvars, TypeOK
  <2>2. QED BY <2>1 DEF Started
<1>10. CASE UNCHANGED vars
  BY <1>10 DEF vars, Started
<1>11. QED
  BY <1>2, <1>3, <1>4, <1>5, <1>6, <1>8, <1>9, <1>10 DEF Next, Gui

LEMMA QuietOrder ==
    ASSUME TypeOK, Order, Quiet
    PROVE  Order'
<1>1. UNCHANGED <<queue, nsub, where, owner, completed>>
  BY DEF Quiet
<1>2. \A w \in Worker : /\ pc'[w] = "perform" <=> pc[w] = "perform"
                        /\ pc[w] = "perform" => cur'[w] = cur[w]
  BY DEF Quiet
<1>3. Queued' /\ Increasing' /\ InOrder' /\ Owned'
  BY <1>1 DEF Order, Queued, Increasing, InOrder, Owned
<1>4. InHand' /\ Past'
  BY <1>1, <1>2 DEF Order, InHand, Past
<1>5. Somewhere'
  <2> SUFFICES ASSUME NEW a \in 1 .. nsub PROVE Located(a)'
    BY <1>1 DEF Somewhere
  <2>1. a \in Id /\ where[a] \in Worker
    BY PoolAssumption DEF TypeOK, Id
  <2>2. Located(a)
    BY DEF Order, Somewhere
  <2>3. QED
    BY <1>1, <1>2, <2>1, <2>2 DEF Located, InQueue, Performing, Done
<1>6. QED BY <1>3, <1>4, <1>5 DEF Order

LEMMA SubmitOrder ==
    ASSUME TypeOK, Order, NEW w \in Worker, NEW o \in Owners \cup {-1}, Submitting(w, o)
    PROVE  Order'
<1> DEFINE n == nsub + 1
           L == Len(queue[w]) + 1
<1>1. /\ n \in Id /\ nsub' = n /\ nsub \in Nat
      /\ where' = [where EXCEPT ![n] = w]
      /\ queue' = [queue EXCEPT ![w] = Append(@, n)]
      /\ owner' = [owner EXCEPT ![n] = o]
      /\ o # -1 => w = o % PoolSize
      /\ UNCHANGED <<cur, completed>>
  <2>1. Push(w) /\ owner' = [owner EXCEPT ![n] = o] /\ (o # -1 => w = o % PoolSize)
    BY DEF Submitting
  <2>2. nsub \in Nat
    BY PoolAssumption DEF TypeOK
  <2>3. QED
    BY <2>1, <2>2, PushType DEF Push
<1>2. \A v \in Worker : pc'[v] = "perform" <=> pc[v] = "perform"
  BY DEF Submitting, Push, Notified, TypeOK
<1>3. /\ where'[n] = w
      /\ \A a \in Id : a <= nsub => where'[a] = where[a] /\ owner'[a] = owner[a]
  BY <1>1 DEF TypeOK, Id
<1>4. \A v \in Worker : \A i \in DOMAIN queue[v] :
        queue[v][i] \in Id /\ queue[v][i] <= nsub /\ where[queue[v][i]] = v /\ i \in Nat
  BY DEF TypeOK, Order, Queued
<1>5. \A v \in Worker : \A i \in DOMAIN queue'[v] :
        \/ i \in DOMAIN queue[v] /\ queue'[v][i] = queue[v][i]
        \/ v = w /\ i = L /\ queue'[v][i] = n
  <2>1. queue[w] \in Seq(Id)
    BY DEF TypeOK
  <2>2. QED BY <1>1, <2>1, AppendFacts DEF TypeOK
<1>6. \A i \in DOMAIN queue[w] : i < L
  BY DEF TypeOK
<1>7. Queued'
  BY <1>1, <1>3, <1>4, <1>5 DEF Queued, Id
<1>8. Increasing'
  BY <1>1, <1>4, <1>5, <1>6 DEF Order, Increasing, Id
<1>9. InHand'
  BY <1>1, <1>2, <1>3, <1>4, <1>5 DEF Order, InHand, Id, TypeOK
<1>10. \A k \in DOMAIN completed :
         /\ completed[k] \in Id /\ completed[k] <= nsub
         /\ where'[completed[k]] = where[completed[k]]
  BY <1>3 DEF TypeOK, Order, Past
<1>11. Past'
  <2> SUFFICES ASSUME NEW k \in DOMAIN completed, NEW v \in Worker,
                      where[completed[k]] = v
               PROVE  /\ \A i \in DOMAIN queue'[v] : completed[k] < queue'[v][i]
                      /\ pc'[v] = "perform" => completed[k] < cur'[v]
    BY <1>1, <1>10 DEF Past, Id
  <2>1. \A i \in DOMAIN queue[v] : completed[k] < queue[v][i]
    BY DEF Order, Past
  <2>2. pc[v] = "perform" => completed[k] < cur[v]
    BY DEF Order, Past
  <2>3. completed[k] < n
    BY <1>1, <1>10 DEF Id
  <2>4. QED
    BY <1>1, <1>2, <1>5, <2>1, <2>2, <2>3
<1>12. InOrder'
  BY <1>1, <1>10 DEF Order, InOrder
<1>13. Somewhere'
  <2> SUFFICES ASSUME NEW a \in 1 .. n PROVE Located(a)'
    BY <1>1 DEF Somewhere
  <2>1. Elems(queue'[w]) = Elems(queue[w]) \cup {n}
    BY <1>1, AppendElems DEF TypeOK
  <2>2. CASE a = n
    BY <1>3, <2>1, <2>2 DEF Located, InQueue
  <2>3. CASE a # n
    <3>1. a \in Id /\ a \in 1 .. nsub
      BY <1>1, <2>3, PoolAssumption DEF Id
    <3>2. where[a] \in Worker /\ where'[a] = where[a]
      BY <1>3, <3>1 DEF TypeOK
    <3>3. Located(a)
      BY <3>1 DEF Order, Somewhere
    <3>4. Elems(queue[where[a]]) \subseteq Elems(queue'[where[a]])
      BY <1>1, <2>1, <3>2 DEF TypeOK
    <3>5. QED
      BY <1>1, <1>2, <3>2, <3>3, <3>4 DEF Located, InQueue, Performing, Done
  <2>4. QED BY <2>2, <2>3
<1>14. Owned'
  BY <1>1, <1>3 DEF Order, Owned, TypeOK, Id
<1>15. QED
  BY <1>7, <1>8, <1>9, <1>11, <1>12, <1>13, <1>14 DEF Order

LEMMA PopOrder ==
    ASSUME TypeOK, Order, NEW w \in Worker, Pop(w)
    PROVE  Order'
<1>1. /\ queue[w] \in Seq(Id) /\ queue[w] # <<>>
      /\ queue' = [queue EXCEPT ![w] = Tail(@)]
      /\ cur' = [cur EXCEPT ![w] = Head(queue[w])]
      /\ pc' = [pc EXCEPT ![w] = "perform"]
      /\ pc[w] # "perform"
      /\ UNCHANGED <<nsub, where, owner, completed>>
  BY DEF Pop, TypeOK, gvars
<1>2. /\ \A v \in Worker \ {w} : queue'[v] = queue[v] /\ pc'[v] = pc[v] /\ cur'[v] = cur[v]
      /\ queue'[w] = Tail(queue[w]) /\ pc'[w] = "perform" /\ cur'[w] = queue[w][1]
  BY <1>1, TailFacts DEF TypeOK
<1>3. /\ 1 \in DOMAIN queue[w]
      /\ \A i \in DOMAIN queue'[w] : /\ i \in Nat /\ 1 < i + 1
                                    /\ i + 1 \in DOMAIN queue[w]
                                    /\ queue'[w][i] = queue[w][i + 1]
  <2>1. /\ Len(queue[w]) \in Nat \ {0}
        /\ DOMAIN queue[w] = 1 .. Len(queue[w])
        /\ DOMAIN queue'[w] = 1 .. Len(queue[w]) - 1
        /\ \A i \in 1 .. Len(queue[w]) - 1 : queue'[w][i] = queue[w][i + 1]
    <3> DEFINE s == queue[w]
    <3>1. s \in Seq(Id) /\ s # <<>> /\ queue'[w] = Tail(s)
      BY <1>1, <1>2
    <3> HIDE DEF s
    <3>2. /\ Len(s) \in Nat \ {0} /\ DOMAIN s = 1 .. Len(s)
          /\ DOMAIN Tail(s) = 1 .. Len(s) - 1
          /\ \A i \in 1 .. Len(s) - 1 : Tail(s)[i] = s[i + 1]
      BY <3>1, TailFacts
    <3>3. QED BY <3>1, <3>2 DEF s
  <2>2. QED BY <2>1
<1>4. queue[w][1] \in 1 .. nsub /\ where[queue[w][1]] = w
  <2>1. queue[w][1] \in Id
    BY <1>1, <1>3
  <2>2. QED BY <1>3, <2>1 DEF Order, Queued, Id
<1>5. Queued'
  <2>1. \A i \in DOMAIN queue'[w] : queue'[w][i] <= nsub /\ where[queue'[w][i]] = w
    BY <1>3 DEF Order, Queued
  <2>2. QED BY <1>1, <1>2, <2>1 DEF Order, Queued
<1>6. Increasing'
  <2>1. \A i, j \in DOMAIN queue'[w] : i < j => queue'[w][i] < queue'[w][j]
    BY <1>3 DEF Order, Increasing
  <2>2. QED BY <1>2, <2>1 DEF Order, Increasing
<1>7. InHand'
  <2>1. \A i \in DOMAIN queue'[w] : cur'[w] < queue'[w][i]
    BY <1>2, <1>3 DEF Order, Increasing
  <2>2. QED BY <1>1, <1>2, <1>4, <2>1 DEF Order, InHand
<1>8. Past'
  <2> SUFFICES ASSUME NEW k \in DOMAIN completed, NEW v \in Worker,
                      where[completed[k]] = v
               PROVE  /\ \A i \in DOMAIN queue'[v] : completed[k] < queue'[v][i]
                      /\ pc'[v] = "perform" => completed[k] < cur'[v]
    BY <1>1 DEF Order, Past
  <2>1. /\ \A i \in DOMAIN queue[v] : completed[k] < queue[v][i]
        /\ pc[v] = "perform" => completed[k] < cur[v]
    BY DEF Order, Past
  <2>2. CASE v = w
    <3>1. \A i \in DOMAIN queue'[w] : completed[k] < queue'[w][i]
      BY <1>3, <2>1, <2>2
    <3>2. completed[k] < cur'[w]
      BY <1>2, <1>3, <2>1, <2>2
    <3>3. QED BY <2>2, <3>1, <3>2
  <2>3. CASE v # w
    BY <1>2, <2>1, <2>3
  <2>4. QED BY <2>2, <2>3
<1>9. InOrder' /\ Owned'
  BY <1>1 DEF Order, InOrder, Owned
<1>10. Somewhere'
  <2> SUFFICES ASSUME NEW a \in 1 .. nsub PROVE Located(a)'
    BY <1>1 DEF Somewhere
  <2>1. a \in Id /\ where[a] \in Worker /\ Located(a)
    BY PoolAssumption DEF TypeOK, Id, Order, Somewhere
  <2>2. CASE where[a] = w
    <3>1. Elems(queue[w]) = {queue[w][1]} \cup Elems(queue'[w])
      BY <1>1, <1>2, TailElems, TailFacts
    <3>2. QED
      BY <1>1, <1>2, <2>1, <2>2, <3>1 DEF Located, InQueue, Performing, Done
  <2>3. CASE where[a] # w
    BY <1>1, <1>2, <2>1, <2>3 DEF Located, InQueue, Performing, Done
  <2>4. QED BY <2>2, <2>3
<1>11. QED
  BY <1>5, <1>6, <1>7, <1>8, <1>9, <1>10 DEF Order

LEMMA PerformOrder ==
    ASSUME TypeOK, Order, NEW w \in Worker, Perform(w)
    PROVE  Order'
<1> DEFINE L == Len(completed) + 1
<1>1. /\ pc[w] = "perform"
      /\ completed' = Append(completed, cur[w])
      /\ pc' = [pc EXCEPT ![w] = "retire"]
      /\ UNCHANGED <<queue, cur, nsub, where, owner>>
  BY DEF Perform, gvars
<1>2. pc'[w] # "perform" /\ \A v \in Worker \ {w} : pc'[v] = pc[v]
  BY <1>1 DEF TypeOK
<1>3. /\ cur[w] \in Id /\ cur[w] <= nsub /\ where[cur[w]] = w
      /\ \A i \in DOMAIN queue[w] : cur[w] < queue[w][i]
  <2>1. /\ cur[w] \in 1 .. nsub /\ where[cur[w]] = w
        /\ \A i \in DOMAIN queue[w] : cur[w] < queue[w][i]
    BY <1>1 DEF Order, InHand
  <2>2. cur[w] \in Id /\ cur[w] <= nsub
    BY <2>1, PoolAssumption DEF TypeOK, Id
  <2>3. QED BY <2>1, <2>2
<1>4. /\ \A k \in DOMAIN completed : k \in DOMAIN completed' /\ k < L
      /\ \A k \in DOMAIN completed' :
           \/ k \in DOMAIN completed /\ completed'[k] = completed[k]
           \/ k = L /\ completed'[k] = cur[w]
  <2> DEFINE s == completed
             e == cur[w]
  <2>1. s \in Seq(Id) /\ e \in Id /\ completed' = Append(s, e) /\ L = Len(s) + 1
    BY <1>1, <1>3 DEF TypeOK
  <2> HIDE DEF s, e, L
  <2>2. /\ Len(s) \in Nat /\ DOMAIN s = 1 .. Len(s)
        /\ DOMAIN Append(s, e) = 1 .. Len(s) + 1
        /\ \A k \in 1 .. Len(s) : Append(s, e)[k] = s[k]
        /\ Append(s, e)[Len(s) + 1] = e
    BY <2>1, AppendFacts
  <2>3. QED BY <2>1, <2>2 DEF s, e
<1>5. Queued' /\ Increasing' /\ Owned'
  BY <1>1 DEF Order, Queued, Increasing, Owned
<1>6. InHand'
  BY <1>1, <1>2 DEF Order, InHand
<1>7. Past'
  BY <1>1, <1>2, <1>3, <1>4 DEF Order, Past
<1>8. InOrder'
  <2>1. \A k \in DOMAIN completed : where[completed[k]] = w => completed[k] < cur[w]
    BY <1>1 DEF Order, Past
  <2>2. \A k \in DOMAIN completed : k \in Nat
    BY DEF TypeOK
  <2>3. L \in Nat
    BY DEF TypeOK
  <2>4. QED BY <1>1, <1>3, <1>4, <2>1, <2>2, <2>3 DEF Order, InOrder
<1>9. Somewhere'
  <2> SUFFICES ASSUME NEW a \in 1 .. nsub PROVE Located(a)'
    BY <1>1 DEF Somewhere
  <2>1. a \in Id /\ where[a] \in Worker /\ Located(a)
    BY PoolAssumption DEF TypeOK, Id, Order, Somewhere
  <2>2. Elems(completed') = Elems(completed) \cup {cur[w]}
    BY <1>1, <1>3, AppendElems DEF TypeOK
  <2>3. QED
    BY <1>1, <1>2, <2>1, <2>2 DEF Located, InQueue, Performing, Done
<1>10. QED
  BY <1>5, <1>6, <1>7, <1>8, <1>9 DEF Order

LEMMA PrivateStep ==
    ASSUME Inv, [Next]_vars
    PROVE  Private'
<1> USE PoolAssumption DEF Inv
<1>1. ASSUME UNCHANGED <<nthreads, in_use, handle>> PROVE Private'
  BY <1>1 DEF Private
<1>2. ASSUME NEW c \in Conns, AllocateReuse(c) PROVE Private'
  <2>1. PICK w \in Free : /\ in_use' = [in_use EXCEPT ![w] = TRUE]
                          /\ handle' = [handle EXCEPT ![c] = w]
    BY <1>2 DEF AllocateReuse
  <2>2. w \in PoolSize .. nthreads - 1 /\ w \in Worker /\ ~in_use[w] /\ w # NoThread
    BY DEF Free, TypeOK, Worker
  <2>3. \A d \in Conns : handle[d] # w
    BY <2>2 DEF Private
  <2>4. UNCHANGED nthreads
    BY <1>2 DEF AllocateReuse
  <2>5. QED BY <2>1, <2>2, <2>3, <2>4 DEF Private, TypeOK
<1>3. ASSUME NEW c \in Conns, AllocateNew(c) PROVE Private'
  <2>1. /\ nthreads \in Worker /\ nthreads' = nthreads + 1
        /\ nthreads \in PoolSize .. nthreads' - 1
        /\ nthreads # NoThread
    BY <1>3 DEF AllocateNew, TypeOK, Worker
  <2>2. \A d \in Conns : handle[d] # NoThread =>
           handle[d] # nthreads /\ handle[d] \in PoolSize .. nthreads' - 1
    BY <2>1 DEF Private, TypeOK
  <2>3. QED BY <1>3, <2>1, <2>2 DEF AllocateNew, Private, TypeOK
<1>4. ASSUME NEW c \in Conns, Detach(c) PROVE Private'
  BY <1>4 DEF Detach, Private, TypeOK
<1>5. ASSUME NEW c \in Conns, Drop(c) PROVE Private'
  BY <1>5 DEF Drop, Private, TypeOK
<1>6. QED
  BY <1>1, <1>2, <1>3, <1>4, <1>5
     DEF Next, Gui, ThreadStep, SubmitAny, SubmitSingle, SubmitPrivate, Push,
         Shutdown, Join, Stop, gvars, Exit, Wait, Pop, Perform, Retire,
         SpuriousWakeup, vars

\* Whoever gives a thread work or stops it notifies it.
LEMMA WakeupStep ==
    ASSUME Inv, [Next]_vars
    PROVE  NoLostWakeup'
<1> USE PoolAssumption DEF Inv
<1>1. ASSUME NEW w, Push(w) PROVE NoLostWakeup'
  BY <1>1 DEF Push, Notified, NoLostWakeup, TypeOK
<1>2. ASSUME NEW w, Stop(w) PROVE NoLostWakeup'
  BY <1>2 DEF Stop, Notified, NoLostWakeup, TypeOK, gvars
<1>3. ASSUME NEW c \in Conns, AllocateNew(c) PROVE NoLostWakeup'
  BY <1>3 DEF AllocateNew, NoLostWakeup, TypeOK
<1>4. ASSUME NEW w \in Worker, ThreadStep(w) \/ SpuriousWakeup(w) PROVE NoLostWakeup'
  BY <1>4 DEF ThreadStep, Exit, Wait, Pop, Perform, Retire, SpuriousWakeup,
              NoLostWakeup, TypeOK, gvars
<1>5. ASSUME UNCHANGED <<pc, queue, run_loop>> PROVE NoLostWakeup'
  BY <1>5 DEF NoLostWakeup
<1>6. QED
  BY <1>1, <1>2, <1>3, <1>4, <1>5
     DEF Next, Gui, SubmitAny, SubmitSingle, SubmitPrivate, Shutdown, Join,
         AllocateReuse, Detach, Drop, vars

LEMMA FiniteCounts ==
    ASSUME TypeOK
    PROVE  IsFiniteSet(Pending) /\ IsFiniteSet(Retiring)
<1>1. IsFiniteSet(1 .. nsub) /\ Pending \subseteq 1 .. nsub
  BY FS_Interval, PoolAssumption DEF TypeOK, Pending
<1>2. IsFiniteSet(Worker) /\ Retiring \subseteq Worker
  BY FS_Interval, PoolAssumption DEF Worker, Retiring
<1>3. QED BY <1>1, <1>2, FS_Subset

LEMMA CountedStep ==
    ASSUME Inv, [Next]_vars
    PROVE  Counted'
<1> USE PoolAssumption DEF Inv
<1>0. /\ IsFiniteSet(Pending) /\ Cardinality(Pending) \in Nat
      /\ IsFiniteSet(Retiring) /\ Cardinality(Retiring) \in Nat
  BY FiniteCounts, FS_CardinalityType
<1>1. ASSUME NEW w \in Worker, NEW o \in Owners \cup {-1}, Submitting(w, o)
      PROVE  Counted'
  <2>1. /\ nsub' = nsub + 1 /\ nsub \in Nat /\ queue_size' = queue_size + 1
        /\ UNCHANGED completed /\ pc' = [pc EXCEPT ![w] = Notified(w)]
    BY <1>1 DEF Submitting, Push, TypeOK
  <2>2. ~Done(nsub + 1)
    BY <2>1 DEF Done, Elems, Order, Past
  <2>3. Pending' = Pending \cup {nsub + 1} /\ nsub + 1 \notin Pending
    BY <2>1, <2>2 DEF Pending, Done
  <2>4. Retiring' = Retiring
    BY <2>1 DEF Retiring, Notified, TypeOK
  <2>5. Cardinality(Pending') = Cardinality(Pending) + 1
    BY <1>0, <2>3, FS_AddElement
  <2>6. QED BY <1>0, <2>1, <2>4, <2>5 DEF Counted
<1>2. ASSUME NEW w \in Worker, Pop(w) PROVE Counted'
  <2>1. Pending' = Pending /\ Retiring' = Retiring
    BY <1>2 DEF Pop, Pending, Retiring, Done, TypeOK, gvars
  <2>2. QED BY <1>2, <2>1 DEF Pop, Counted
<1>3. ASSUME NEW w \in Worker, Perform(w) PROVE Counted'
  <2>1. /\ pc[w] = "perform" /\ UNCHANGED <<nsub, queue_size>>
        /\ completed' = Append(completed, cur[w])
        /\ pc' = [pc EXCEPT ![w] = "retire"]
    BY <1>3 DEF Perform, gvars
  <2>2. /\ cur[w] \in 1 .. nsub /\ where[cur[w]] = w
        /\ cur[w] \in Id
    BY <2>1 DEF Order, InHand, TypeOK, Id
  <2>3. ~Done(cur[w])
    <3>1. \A k \in DOMAIN completed : completed[k] # cur[w]
      BY <2>1, <2>2 DEF Order, Past, Id
    <3>2. QED BY <3>1 DEF Done, Elems
  <2>4. Elems(completed') = Elems(completed) \cup {cur[w]}
    BY <2>1, <2>2, AppendElems DEF TypeOK
  <2>5. Pending' = Pending \ {cur[w]} /\ cur[w] \in Pending
    BY <2>1, <2>2, <2>3, <2>4 DEF Pending, Done
  <2>6. Retiring' = Retiring \cup {w} /\ w \notin Retiring
    BY <2>1 DEF Retiring, TypeOK
  <2>7. Cardinality(Pending') = Cardinality(Pending) - 1
    BY <1>0, <2>5, FS_RemoveElement
  <2>8. Cardinality(Retiring') = Cardinality(Retiring) + 1
    BY <1>0, <2>6, FS_AddElement
  <2>9. QED BY <1>0, <2>1, <2>7, <2>8 DEF Counted
<1>4. ASSUME NEW w \in Worker, Retire(w) PROVE Counted'
  <2>1. /\ pc[w] = "retire" /\ queue_size' = queue_size - 1
        /\ UNCHANGED <<nsub, completed>> /\ pc' = [pc EXCEPT ![w] = "loop"]
    BY <1>4 DEF Retire, gvars
  <2>2. Pending' = Pending
    BY <2>1 DEF Pending, Done
  <2>3. Retiring' = Retiring \ {w} /\ w \in Retiring
    BY <2>1 DEF Retiring, TypeOK
  <2>4. Cardinality(Retiring') = Cardinality(Retiring) - 1
    BY <1>0, <2>3, FS_RemoveElement
  <2>5. QED BY <1>0, <2>1, <2>2, <2>4 DEF Counted
<1>5. CASE Quiet /\ Uncounted
  <2>1. Pending' = Pending /\ Retiring' = Retiring
    BY <1>5 DEF Quiet, Uncounted, Pending, Retiring, Done
  <2>2. QED BY <1>5, <2>1 DEF Uncounted, Counted
<1>6. QED
  BY <1>1, <1>2, <1>3, <1>4, <1>5, StepCases

LEMMA InitInv == Init => Inv
<1> SUFFICES ASSUME Init PROVE Inv
  OBVIOUS
<1> USE PoolAssumption DEF Init
<1>1. TypeOK
  BY DEF TypeOK, Worker, Id, PCs
<1>2. Started /\ Private /\ NoLostWakeup
  BY DEF Started, Private, NoLostWakeup
<1>3. Order
  BY DEF Order, Queued, Increasing, InHand, Past, InOrder, Somewhere, Owned
<1>4. Counted
  <2>1. Pending = {}
    BY DEF Pending
  <2>2. Retiring = {}
    BY DEF Retiring
  <2>3. Cardinality(Pending) = 0 /\ Cardinality(Retiring) = 0
    BY <2>1, <2>2, FS_EmptySet
  <2>4. QED BY <2>3 DEF Counted
<1>5. QED BY <1>1, <1>2, <1>3, <1>4 DEF Inv

LEMMA NextInv == Inv /\ [Next]_vars => Inv'
<1> SUFFICES ASSUME Inv, [Next]_vars PROVE Inv'
  OBVIOUS
<1>1. TypeOK'
  BY TypeStep DEF Inv, Order
<1>2. Order'
  BY StepCases, SubmitOrder, PopOrder, PerformOrder, RetireQuiet, QuietOrder DEF Inv
<1>3. QED
  BY <1>1, <1>2, StartedStep, PrivateStep, CountedStep, WakeupStep DEF Inv

THEOREM Invariance == Spec => []Inv
<1>1. QED BY InitInv, NextInv, PTL DEF Spec

-----------------------------------------------------------------------------
(* What the invariant implies. *)

\* Type correctness, for pools of any size.
THEOREM TypeCorrect == Spec => []TypeOK
<1>1. Inv => TypeOK
  BY DEF Inv
<1>2. QED BY <1>1, Invariance, PTL

LEMMA InvExactlyOnce == Inv => ExactlyOnce
<1> SUFFICES ASSUME Inv PROVE ExactlyOnce
  OBVIOUS
<1> USE PoolAssumption DEF Inv
<1>1. ASSUME NEW a \in 1 .. nsub
      PROVE  (\E w \in Worker : InQueue(w, a) \/ Performing(w, a)) \/ Done(a)
  <2>1. Located(a)
    BY DEF Order, Somewhere
  <2>2. where[a] \in Worker
    BY DEF TypeOK, Id
  <2>3. QED BY <2>1, <2>2 DEF Located
<1>2. ASSUME NEW w \in Worker, NEW a \in Id, InQueue(w, a)
      PROVE  a <= nsub /\ where[a] = w /\ ~Done(a) /\ ~Performing(w, a)
  <2>1. PICK i \in DOMAIN queue[w] : queue[w][i] = a
    BY <1>2 DEF InQueue, Elems
  <2>2. a <= nsub /\ where[a] = w
    BY <2>1 DEF Order, Queued
  <2>3. ~Done(a)
    BY <2>1, <2>2 DEF Done, Elems, Order, Past, Id
  <2>4. ~Performing(w, a)
    BY <2>1 DEF Performing, Order, InHand, Id
  <2>5. QED BY <2>2, <2>3, <2>4
<1>3. ASSUME NEW w \in Worker, NEW a \in Id, Performing(w, a)
      PROVE  a <= nsub /\ where[a] = w /\ ~Done(a)
  <2>1. a <= nsub /\ where[a] = w
    BY <1>3 DEF Performing, Order, InHand, TypeOK
  <2>2. ~Done(a)
    BY <1>3, <2>1 DEF Performing, Done, Elems, Order, Past, Id
  <2>3. QED BY <2>1, <2>2
<1>4. ASSUME NEW w \in Worker, NEW i \in DOMAIN queue[w], NEW j \in DOMAIN queue[w], i # j
      PROVE  queue[w][i] # queue[w][j]
  <2>1. /\ i \in Nat /\ j \in Nat
        /\ queue[w][i] \in Id /\ queue[w][j] \in Id
    BY DEF TypeOK
  <2>2. i < j \/ j < i
    BY <1>4, <2>1
  <2>3. QED BY <2>1, <2>2 DEF Order, Increasing, Id
<1>5. ASSUME NEW i \in DOMAIN completed, NEW j \in DOMAIN completed, i # j
      PROVE  completed[i] # completed[j]
  <2>1. /\ i \in Nat /\ j \in Nat
        /\ completed[i] \in Id /\ completed[j] \in Id
    BY DEF TypeOK
  <2>2. i < j \/ j < i
    BY <1>5, <2>1
  <2>3. QED BY <2>1, <2>2 DEF Order, InOrder, Id
<1>6. QED
  BY <1>1, <1>2, <1>3, <1>4, <1>5 DEF ExactlyOnce

\* Every submitted action is in exactly one place, and got there once: no
\* interleaving of the GUI thread and any number of threads loses an action
\* or performs it twice.
THEOREM ActionsExactlyOnce == Spec => []ExactlyOnce
<1>1. QED BY InvExactlyOnce, Invariance, PTL

\* The actions of one owner complete in submission order (OwnerOrder): they all
\* go to one thread, and that thread's queue is first in, first out.
THEOREM ActionsInOwnerOrder == Spec => []OwnerOrder
<1>1. Inv => OwnerOrder
  BY DEF Inv, Order, Owned, InOrder, OwnerOrder, TypeOK
<1>2. QED BY <1>1, Invariance, PTL

\* The actions of one thread, and so those of one connection, complete in
\* submission order, which module Engine takes for granted of its connections.
THEOREM ThreadsInOrder == Spec => []InOrder
<1>1. Inv => InOrder
  BY DEF Inv, Order
<1>2. QED BY <1>1, Invariance, PTL

\* Two actions of one owner never run at the same time.
THEOREM OwnersExclusive == Spec => []OwnerExclusive
<1>1. Inv => OwnerExclusive
  <2> SUFFICES ASSUME Inv, NEW v \in Worker, NEW w \in Worker, v # w,
                      pc[v] = "perform", pc[w] = "perform", owner[cur[v]] # -1
               PROVE  owner[cur[v]] # owner[cur[w]]
    BY DEF OwnerExclusive
  <2>1. cur[v] \in Id /\ cur[w] \in Id
    BY PoolAssumption DEF Inv, Order, InHand, TypeOK, Id
  <2>2. where[cur[v]] = v /\ where[cur[w]] = w
    BY DEF Inv, Order, InHand
  <2>3. QED BY <2>1, <2>2 DEF Inv, Order, Owned
<1>2. QED BY <1>1, Invariance, PTL

\* No thread sleeps while it has work or was told to stop.
THEOREM WakeupsAreNotLost == Spec => []NoLostWakeup
<1>1. Inv => NoLostWakeup
  BY DEF Inv
<1>2. QED BY <1>1, Invariance, PTL

\* No two connections share a private thread, and none has a pool thread.
THEOREM ThreadsArePrivate == Spec => []PrivateThreads
<1>1. Inv => PrivateThreads
  <2> SUFFICES ASSUME Inv, NEW c \in Conns, handle[c] # NoThread
               PROVE  /\ handle[c] >= PoolSize
                      /\ \A d \in Conns : d # c => handle[d] # handle[c]
    BY DEF PrivateThreads
  <2>1. QED BY PoolAssumption DEF Inv, Private
<1>2. QED BY <1>1, Invariance, PTL

\* When queue_size_ is zero every submitted action has been completed, although
\* it is counted off only after on_complete has returned.
THEOREM WaitingIsEnough == Spec => []WaitAllComplete
<1>1. Inv => WaitAllComplete
  <2> SUFFICES ASSUME Inv, queue_size = 0, NEW a \in 1 .. nsub PROVE Done(a)
    BY DEF WaitAllComplete
  <2>1. /\ IsFiniteSet(Pending) /\ Cardinality(Pending) \in Nat
        /\ Cardinality(Retiring) \in Nat
    BY FiniteCounts, FS_CardinalityType DEF Inv
  <2>2. Cardinality(Pending) = 0
    BY <2>1 DEF Inv, Counted
  <2>3. Pending = {}
    BY <2>1, <2>2, FS_EmptySet
  <2>4. QED BY <2>3 DEF Pending
<1>2. QED BY <1>1, Invariance, PTL

\* What the pool is given it hands back (Delivery): each action once, those of
\* an owner in order and one at a time.
THEOREM ActionsDelivered == Spec => []Delivery
<1>1. QED
  BY ActionsExactlyOnce, ActionsInOwnerOrder, OwnersExclusive, PTL DEF Delivery

\* Nobody waits in vain (Waiting), neither a worker nor wait_all_actions.
THEOREM NoVainWait == Spec => []Waiting
<1>1. QED BY WakeupsAreNotLost, WaitingIsEnough, PTL DEF Waiting

\* The threads of the vector keep their types, and a connection has one to
\* itself (ThreadsHeld).
THEOREM ThreadsAreHeld == Spec => []ThreadsHeld
<1>1. QED BY TypeCorrect, ThreadsArePrivate, PTL DEF ThreadsHeld

-----------------------------------------------------------------------------
(* The pool implements ActionService. *)

LEMMA ServiceInit == Init => Service!Init
  BY DEF Init, Service!Init, Service!Id, Id, Open

LEMMA ServiceNext == Inv /\ [Next]_vars => [Service!Next]_Service!vars
<1> SUFFICES ASSUME Inv, [Next]_vars PROVE [Service!Next]_Service!vars
  OBVIOUS
<1>1. ASSUME NEW w \in Worker, NEW o \in Owners \cup {-1}, Submitting(w, o)
      PROVE  Service!Next
  <2>1. Service!Submit(o)
    BY <1>1 DEF Submitting, Push, Service!Submit, Open
  <2>2. QED BY <2>1 DEF Service!Next
<1>2. ASSUME NEW w \in Worker, Pop(w) PROVE UNCHANGED Service!vars
  BY <1>2 DEF Pop, gvars, Open, Service!vars
<1>3. ASSUME NEW w \in Worker, Perform(w) PROVE Service!Next
  <2> DEFINE a == cur[w]
  <2>1. /\ pc[w] = "perform" /\ completed' = Append(completed, a)
        /\ UNCHANGED <<nsub, owner, joining>>
    BY <1>3 DEF Perform, gvars
  <2>2. a \in Id /\ a <= nsub /\ where[a] = w /\ Performing(w, a)
    BY <2>1, PoolAssumption DEF Inv, Order, InHand, TypeOK, Id, Performing
  <2>3. ~Done(a)
    BY <2>2, InvExactlyOnce DEF ExactlyOnce
  <2>4. ASSUME NEW b \in 1 .. a - 1, owner[b] = owner[a], owner[a] # -1
        PROVE  Done(b)
    <3>1. b \in Id /\ b \in 1 .. nsub /\ b < a
      BY <2>2, PoolAssumption DEF Inv, TypeOK, Id
    <3>2. where[b] = w
      BY <2>2, <2>4, <3>1 DEF Inv, Order, Owned
    <3>3. InQueue(w, b) \/ Performing(w, b) \/ Done(b)
      BY <3>1, <3>2 DEF Inv, Order, Somewhere, Located
    <3>4. ~InQueue(w, b)
      BY <2>1, <3>1 DEF Inv, Order, InHand, InQueue, Elems, Id
    <3>5. ~Performing(w, b)
      BY <3>1 DEF Performing, Id
    <3>6. QED BY <3>3, <3>4, <3>5
  <2>5. Service!Complete(a)
    BY <2>1, <2>2, <2>3, <2>4 DEF Service!Complete, Service!Finished, Done, Elems, Open
  <2>6. QED BY <2>2, <2>5 DEF Service!Next, Service!Id, Id
<1>4. ASSUME NEW w \in Worker, Retire(w) PROVE UNCHANGED Service!vars
  BY <1>4 DEF Retire, gvars, Open, Service!vars
<1>5. CASE Quiet
  <2>1. CASE Open /\ ~Open'
    BY <1>5, <2>1 DEF Quiet, Service!Next, Service!Close
  <2>2. CASE Open <=> Open'
    BY <1>5, <2>2 DEF Quiet, Service!vars
  <2>3. QED BY <1>5, <2>1, <2>2 DEF Quiet
<1>6. QED
  BY <1>1, <1>2, <1>3, <1>4, <1>5, StepCases

\* Whatever the number of threads, and however connections come and go, the
\* pool is to the engine what ActionService says.
THEOREM PoolImplementsService == Spec => ServiceSpec
<1>1. QED BY ServiceInit, ServiceNext, Invariance, PTL DEF Spec, ServiceSpec, Service!Spec
=============================================================================
