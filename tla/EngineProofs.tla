---------------------------- MODULE EngineProofs ----------------------------
(***************************************************************************)
(* Proofs about the engine, for any number of accounts, connections, tasks *)
(* and articles, any commands of its user and any faults: what it counts   *)
(* it counts right, no cmdlist is executed twice at a time and no article  *)
(* is asked for twice or after it was decoded.                             *)
(*                                                                         *)
(* The inductive invariant IInv counts the actions that are under way with *)
(* Total, over the threads' queues, the jobs, done and pump's hand, and    *)
(* relates the counts to what the tasks, cmdlists, connections and batches *)
(* know.  A call on the GUI thread goes through many handlers and is one   *)
(* step: Settled(S, h, g, Ad) is the invariant of a state S between two of *)
(* them, with the action h still to be handled by its task, g by its       *)
(* connection, and each handler has a lemma that it keeps it.              *)
(***************************************************************************)
EXTENDS EngineProperties, CollectionFacts

-----------------------------------------------------------------------------
(* Types. *)

JobKinds  == {"decode", "binary", "text"}
ConnKinds == {"resolve", "connect", "initialize", "execute", "disconnect", "ping"}

\* What a private thread performs, and what the pool does.
ConnActions ==
    {a \in Action : /\ a.kind \in ConnKinds /\ a.conn \in ConnIds
                    /\ a.kind = "execute" => a.cl \in CmdIds /\ a.task \in Tasks}
JobActions ==
    {a \in Action : a.kind \in JobKinds /\ a.conn = 0 /\ a.task \in Tasks}

TaskRecords ==
    [st : TaskStates, ncl : Int, nact : Int, articles : Seq(Nat), ran : BOOLEAN,
     incomplete : BOOLEAN, decoded : SUBSET Nat, missing : SUBSET Nat, told : Int]
BatchRecords ==
    [live : BOOLEAN, st : TaskStates, num_tasks : Int, statesets : [TaskStates -> Int],
     told : Int]
CmdRecords ==
    [task : Tasks \cup {0}, account : Accounts \cup {0}, conn : ConnIds \cup {0},
     cancelbit : BOOLEAN, failbit : BOOLEAN, commands : Seq(Nat), buffers : Seq(Statuses)]
ConnRecords ==
    [st : ConnStates, account : Accounts \cup {0}, fatal : BOOLEAN, pinged : BOOLEAN,
     cancel : BOOLEAN]

EngineStates ==
    [started : BOOLEAN, tasks : Seq(Tasks), task : [Tasks -> TaskRecords],
     batch : [Batches -> BatchRecords], cmds : Seq(CmdIds), cl : [CmdIds -> CmdRecords],
     conns : Seq(ConnIds), conn : [ConnIds -> ConnRecords],
     queue : [ConnIds -> Seq(ConnActions)], jobs : SUBSET JobActions,
     done : Seq(ConnActions \cup JobActions),
     num_pending_actions : Int, num_pending_tasks : Int]

-----------------------------------------------------------------------------
(* The actions under way: on the threads' queues, among the jobs, done, and *)
(* the one in hand of pump.                                                 *)

\* In hand there may be nothing, or an action whose result has been handled.
Nothing == ConnAction("none", 0)
Spent   == ConnAction("ping", 0)

OfTask(t)       == {a \in Action : a.task = t /\ a.conn = 0}
Execs(k)        == {a \in Action : a.kind = "execute" /\ a.cl = k}
ExecsFor(k, t)  == {a \in Action : a.kind = "execute" /\ a.cl = k /\ a.task = t}
JobsOf(t, i, w) == {a \in Action : a.kind = w /\ a.task = t /\ a.article = i /\ a.conn = 0}

\* How many of the actions P are under way.
One(a, P)    == IF a \in P THEN 1 ELSE 0
Count(q, P)  == Cardinality({i \in DOMAIN q : q[i] \in P})
Queues(Q, P) == SumFunctionOnSet([c \in ConnIds |-> Count(Q[c], P)], ConnIds)
Total(S, h, P) ==
    Queues(S.queue, P) + Cardinality(S.jobs \cap P) + Count(S.done, P) + One(h, P)

\* The actions under way.
UnderWay(S, h) ==
    (UNION {Range(S.queue[c]) : c \in ConnIds}) \cup S.jobs \cup Range(S.done) \cup {h}

\* What the counts are taken of: engine states with finitely many jobs.
Countable(S) ==
    /\ S.queue \in [ConnIds -> Seq(ConnActions)]
    /\ S.jobs \in SUBSET JobActions /\ IsFiniteSet(S.jobs)
    /\ S.done \in Seq(ConnActions \cup JobActions)

LEMMA CountFacts ==
    ASSUME NEW X, NEW q \in Seq(X), NEW P
    PROVE  /\ Count(q, P) \in Nat
           /\ \A a \in X : Count(Append(q, a), P) = Count(q, P) + One(a, P)
           /\ q # <<>> => Count(q, P) = Count(Tail(q), P) + One(Head(q), P)
           /\ Count(q, P) = 0 <=> Range(q) \cap P = {}
           /\ X \subseteq P => Count(q, P) = Len(q)
<1> DEFINE D(r) == {i \in 1 .. Len(r) : r[i] \in P}
<1>0. Len(q) \in Nat /\ DOMAIN q = 1 .. Len(q)
  OBVIOUS
<1>1. ASSUME NEW r \in Seq(X)
      PROVE  IsFiniteSet(D(r)) /\ Count(r, P) = Cardinality(D(r)) /\ Cardinality(D(r)) \in Nat
  <2>1. Len(r) \in Nat /\ DOMAIN r = 1 .. Len(r) OBVIOUS
  <2>2. IsFiniteSet(1 .. Len(r)) BY <2>1, FS_Interval
  <2>3. IsFiniteSet(D(r)) BY <2>2, FS_Subset
  <2> QED BY <2>1, <2>3, FS_CardinalityType DEF Count
<1>2. ASSUME NEW a \in X PROVE Count(Append(q, a), P) = Count(q, P) + One(a, P)
  <2>1. /\ Append(q, a) \in Seq(X) /\ Len(Append(q, a)) = Len(q) + 1
        /\ Append(q, a)[Len(q) + 1] = a
        /\ \A i \in 1 .. Len(q) : Append(q, a)[i] = q[i]
    OBVIOUS
  <2>2. D(Append(q, a)) = D(q) \cup (IF a \in P THEN {Len(q) + 1} ELSE {})
    BY <2>1, <1>0
  <2>3. Len(q) + 1 \notin D(q) BY <1>0
  <2>4. a \in P => Cardinality(D(Append(q, a))) = Cardinality(D(q)) + 1
    BY <2>2, <2>3, <1>1, FS_AddElement, ZenonT(60)
  <2>5. a \notin P => D(Append(q, a)) = D(q)
    BY <2>2
  <2>6. Count(Append(q, a), P) = Cardinality(D(Append(q, a))) /\ Count(q, P) = Cardinality(D(q))
    BY <2>1, <1>1
  <2> HIDE DEF D
  <2>7. Count(q, P) \in Nat BY <1>1
  <2> QED BY <2>4, <2>5, <2>6, <2>7 DEF One
<1>3. ASSUME q # <<>> PROVE Count(q, P) = Count(Tail(q), P) + One(Head(q), P)
  <2>1. /\ Tail(q) \in Seq(X) /\ Len(Tail(q)) = Len(q) - 1 /\ Len(q) >= 1
        /\ Head(q) = q[1]
        /\ \A i \in 1 .. Len(q) - 1 : Tail(q)[i] = q[i + 1]
    BY <1>3
  <2> DEFINE E == {i \in 2 .. Len(q) : q[i] \in P}
             f == [i \in D(Tail(q)) |-> i + 1]
  <2>2. f \in Bijection(D(Tail(q)), E)
    <3>1. \A i \in D(Tail(q)) : i + 1 \in E BY <2>1, <1>0
    <3>2. \A j \in E : j - 1 \in D(Tail(q)) /\ (j - 1) + 1 = j BY <2>1, <1>0
    <3>3. \A i, j \in D(Tail(q)) : f[i] = f[j] => i = j BY <2>1
    <3>4. f \in [D(Tail(q)) -> E]
      BY <3>1
    <3>5. \A j \in E : \E i \in D(Tail(q)) : f[i] = j
      BY <3>2
    <3> HIDE DEF E, f
    <3> QED BY <3>3, <3>4, <3>5 DEF Bijection, Injection, Surjection, IsInjective
  <2>3. IsFiniteSet(E) /\ Cardinality(E) = Cardinality(D(Tail(q)))
    <3>1. IsFiniteSet(D(Tail(q))) BY <2>1, <1>1
    <3>2. ExistsBijection(D(Tail(q)), E) BY <2>2 DEF ExistsBijection
    <3> HIDE DEF E
    <3> QED BY <3>1, <3>2, FS_Bijection
  <2>4. D(q) = E \cup (IF Head(q) \in P THEN {1} ELSE {})
    BY <2>1, <1>0
  <2>5. 1 \notin E OBVIOUS
  <2>6. Head(q) \in P => Cardinality(D(q)) = Cardinality(E) + 1
    BY <2>3, <2>4, <2>5, FS_AddElement
  <2>7. Head(q) \notin P => D(q) = E
    BY <2>4
  <2>8. Count(Tail(q), P) = Cardinality(D(Tail(q))) /\ Cardinality(D(Tail(q))) \in Nat
    BY <2>1, <1>1
  <2>9. Count(q, P) = Cardinality(D(q)) BY <1>1
  <2> HIDE DEF E, D
  <2> QED BY <2>3, <2>6, <2>7, <2>8, <2>9 DEF One
<1>4. Count(q, P) = 0 <=> Range(q) \cap P = {}
  <2>1. Count(q, P) = 0 <=> D(q) = {}
    BY <1>1, FS_EmptySet
  <2>2. D(q) = {} <=> Range(q) \cap P = {}
    BY <1>0, RangeFacts
  <2> QED BY <2>1, <2>2
<1>5. ASSUME X \subseteq P PROVE Count(q, P) = Len(q)
  <2>1. D(q) = 1 .. Len(q) BY <1>5
  <2>2. Cardinality(1 .. Len(q)) = Len(q) BY <1>0, FS_Interval
  <2>3. Count(q, P) = Cardinality(D(q)) BY <1>1
  <2> HIDE DEF D
  <2> QED BY <2>1, <2>2, <2>3
<1> QED BY <1>1, <1>2, <1>3, <1>4, <1>5

LEMMA CountAppend ==
    ASSUME NEW X, NEW q \in Seq(X), NEW a \in X, NEW P
    PROVE  /\ Count(Append(q, a), P) = Count(q, P) + One(a, P)
           /\ Count(q, P) \in Nat
  BY CountFacts

LEMMA CountTail ==
    ASSUME NEW X, NEW q \in Seq(X), q # <<>>, NEW P
    PROVE  /\ Count(q, P) = Count(Tail(q), P) + One(Head(q), P)
           /\ Count(Tail(q), P) \in Nat
<1>1. Tail(q) \in Seq(X) OBVIOUS
<1>2. Count(Tail(q), P) \in Nat BY <1>1, CountFacts
<1> QED BY <1>2, CountFacts

\* Only the queue of c differs.
ChangesAt(Q, R, c) ==
    /\ R \in [ConnIds -> Seq(ConnActions)]
    /\ \A d \in ConnIds : d # c => R[d] = Q[d]

LEMMA QueuesFacts ==
    ASSUME EngineAssumption, NEW Q \in [ConnIds -> Seq(ConnActions)], NEW P
    PROVE  /\ Queues(Q, P) \in Nat
           /\ Queues(Q, P) = 0 <=> \A c \in ConnIds : Range(Q[c]) \cap P = {}
           /\ \A c \in ConnIds : \A R : ChangesAt(Q, R, c) =>
                  Queues(R, P) = Queues(Q, P) - Count(Q[c], P) + Count(R[c], P)
<1> PICK f : f = [c \in ConnIds |-> Count(Q[c], P)]
  OBVIOUS
<1>0. IsFiniteSet(ConnIds) BY DEF EngineAssumption
<1>1. \A c \in ConnIds : f[c] \in Nat /\ (f[c] = 0 <=> Range(Q[c]) \cap P = {})
  <2> TAKE c \in ConnIds
  <2>1. Q[c] \in Seq(ConnActions) OBVIOUS
  <2> QED BY <2>1, CountFacts
<1>2. Queues(Q, P) \in Nat /\ (Queues(Q, P) = 0 <=> \A c \in ConnIds : f[c] = 0)
  <2>1. Queues(Q, P) = SumFunctionOnSet(f, ConnIds) BY DEF Queues
  <2>2. \A c \in ConnIds : f[c] \in Nat BY <1>1
  <2>3. /\ SumFunctionOnSet(f, ConnIds) \in Nat
        /\ SumFunctionOnSet(f, ConnIds) = 0 <=> \A c \in ConnIds : f[c] = 0
    BY <2>2, <1>0, SumIsNatural, SMTT(30)
  <2> QED BY ONLY <2>1, <2>3
<1>3. ASSUME NEW c \in ConnIds, NEW R, ChangesAt(Q, R, c)
      PROVE  Queues(R, P) = Queues(Q, P) - Count(Q[c], P) + Count(R[c], P)
  <2>0. R \in [ConnIds -> Seq(ConnActions)] /\ \A d \in ConnIds : d # c => R[d] = Q[d]
    BY <1>3 DEF ChangesAt
  <2> PICK g : g = [d \in ConnIds |-> Count(R[d], P)]
    OBVIOUS
  <2>1. g[c] = Count(R[c], P) /\ f[c] = Count(Q[c], P)
    OBVIOUS
  <2>2. \A d \in ConnIds : d # c => f[d] = g[d]
    BY <2>0
  <2>3. /\ Queues(Q, P) = SumFunctionOnSet(f, ConnIds)
        /\ Queues(R, P) = SumFunctionOnSet(g, ConnIds)
    BY DEF Queues
  <2>4. g \in [ConnIds -> Nat]
    <3>1. ASSUME NEW d \in ConnIds PROVE Count(R[d], P) \in Nat
      BY <2>0, CountFacts
    <3> QED BY <3>1
  <2>5. f \in [ConnIds -> Nat] BY <1>1
  <2>6. SumFunctionOnSet(g, ConnIds) = SumFunctionOnSet(f, ConnIds) - f[c] + g[c]
    BY ONLY <2>2, <2>4, <2>5, <1>0, c \in ConnIds, SumOfChanged
  <2> QED BY <2>1, <2>3, <2>6
<1> QED BY <1>1, <1>2, <1>3

LEMMA QueuesChange ==
    ASSUME EngineAssumption, NEW P, NEW c \in ConnIds, NEW Q \in [ConnIds -> Seq(ConnActions)],
           NEW R, ChangesAt(Q, R, c)
    PROVE  Queues(R, P) = Queues(Q, P) - Count(Q[c], P) + Count(R[c], P)
  BY QueuesFacts, SMTT(30)

LEMMA TotalFacts ==
    ASSUME EngineAssumption, NEW S, Countable(S), NEW h, NEW P
    PROVE  /\ Queues(S.queue, P) \in Nat /\ Cardinality(S.jobs \cap P) \in Nat
           /\ Count(S.done, P) \in Nat /\ One(h, P) \in {0, 1}
           /\ Total(S, h, P) \in Nat
           /\ Total(S, h, P) = 0 <=> UnderWay(S, h) \cap P = {}
<1>1. Queues(S.queue, P) \in Nat /\ (Queues(S.queue, P) = 0 <=> \A c \in ConnIds : Range(S.queue[c]) \cap P = {})
  BY QueuesFacts DEF Countable
<1>2. IsFiniteSet(S.jobs \cap P)
  BY FS_Subset DEF Countable
<1>3. Cardinality(S.jobs \cap P) \in Nat /\ (Cardinality(S.jobs \cap P) = 0 <=> S.jobs \cap P = {})
  BY <1>2, FS_CardinalityType, FS_EmptySet
<1>4. Count(S.done, P) \in Nat /\ (Count(S.done, P) = 0 <=> Range(S.done) \cap P = {})
  BY CountFacts DEF Countable
<1>5. One(h, P) \in {0, 1} /\ (One(h, P) = 0 <=> h \notin P)
  BY DEF One
<1>6. /\ Total(S, h, P) \in Nat
      /\ Total(S, h, P) = 0 <=> /\ Queues(S.queue, P) = 0 /\ Cardinality(S.jobs \cap P) = 0
                                /\ Count(S.done, P) = 0 /\ One(h, P) = 0
  <2>1. One(h, P) \in Nat BY <1>5
  <2>2. Total(S, h, P) = Queues(S.queue, P) + Cardinality(S.jobs \cap P) + Count(S.done, P) + One(h, P)
    BY DEF Total
  <2> QED BY ONLY <2>1, <2>2, <1>1, <1>3, <1>4
<1>7. UnderWay(S, h) \cap P = {} <=> /\ \A c \in ConnIds : Range(S.queue[c]) \cap P = {}
                                     /\ S.jobs \cap P = {} /\ Range(S.done) \cap P = {}
                                     /\ h \notin P
  BY DEF UnderWay
<1> QED BY <1>1, <1>3, <1>4, <1>5, <1>6, <1>7

\* An action is submitted to a connection.
Submits(S, T, c, a) ==
    /\ T.queue = [S.queue EXCEPT ![c] = Append(S.queue[c], a)]
    /\ T.jobs = S.jobs /\ T.done = S.done

LEMMA TotalSubmits ==
    ASSUME EngineAssumption, NEW S, Countable(S), NEW T, NEW c \in ConnIds, NEW a \in ConnActions,
           Submits(S, T, c, a)
    PROVE  /\ Countable(T)
           /\ \A h, P : Total(T, h, P) = Total(S, h, P) + One(a, P)
<1>0. T.queue = [S.queue EXCEPT ![c] = Append(S.queue[c], a)] /\ T.jobs = S.jobs /\ T.done = S.done
  BY DEF Submits
<1>1. S.queue \in [ConnIds -> Seq(ConnActions)] /\ S.queue[c] \in Seq(ConnActions)
  BY DEF Countable
<1>2. Append(S.queue[c], a) \in Seq(ConnActions)
  BY <1>1
<1>3. Countable(T)
  BY <1>0, <1>1, <1>2 DEF Countable
<1>4. ASSUME NEW h, NEW P PROVE Total(T, h, P) = Total(S, h, P) + One(a, P)
  <2>1. Queues(T.queue, P) = Queues(S.queue, P) - Count(S.queue[c], P) + Count(Append(S.queue[c], a), P)
    <3>1. T.queue \in [ConnIds -> Seq(ConnActions)] BY <1>3 DEF Countable
    <3>2. T.queue[c] = Append(S.queue[c], a) /\ \A d \in ConnIds : d # c => T.queue[d] = S.queue[d]
      BY <1>0, <1>1
    <3>3. ChangesAt(S.queue, T.queue, c)
      BY ONLY <3>1, <3>2 DEF ChangesAt
    <3>4. Queues(T.queue, P) = Queues(S.queue, P) - Count(S.queue[c], P) + Count(T.queue[c], P)
      BY ONLY <3>3, <1>1, EngineAssumption, QueuesChange
    <3> QED BY ONLY <3>2, <3>4
  <2>2. Count(Append(S.queue[c], a), P) = Count(S.queue[c], P) + One(a, P) /\ Count(S.queue[c], P) \in Nat
    BY ONLY <1>1, a \in ConnActions, CountAppend
  <2>3. /\ Queues(S.queue, P) \in Nat /\ Cardinality(S.jobs \cap P) \in Nat
        /\ Count(S.done, P) \in Nat /\ One(h, P) \in Nat /\ One(a, P) \in Nat
    <3>1. One(h, P) \in Nat /\ One(a, P) \in Nat BY DEF One
    <3> QED BY <3>1, TotalFacts
  <2>4. /\ Total(T, h, P) = Queues(T.queue, P) + Cardinality(S.jobs \cap P) + Count(S.done, P) + One(h, P)
        /\ Total(S, h, P) = Queues(S.queue, P) + Cardinality(S.jobs \cap P) + Count(S.done, P) + One(h, P)
    BY <1>0 DEF Total
  <2> QED BY ONLY <2>1, <2>2, <2>3, <2>4
<1> QED BY <1>3, <1>4

\* New jobs are submitted to the pool.
LEMMA TotalHires ==
    ASSUME EngineAssumption, NEW S, Countable(S), NEW T, NEW A \in SUBSET JobActions,
           IsFiniteSet(A), A \cap S.jobs = {},
           T.queue = S.queue, T.jobs = S.jobs \cup A, T.done = S.done
    PROVE  /\ Countable(T)
           /\ \A h, P : /\ Total(T, h, P) = Total(S, h, P) + Cardinality(A \cap P)
                        /\ Cardinality(A \cap P) \in Nat
<1>1. IsFiniteSet(S.jobs) /\ S.jobs \in SUBSET JobActions
  BY DEF Countable
<1>2. Countable(T)
  <2>1. IsFiniteSet(S.jobs \cup A) BY <1>1, FS_Union
  <2>2. S.jobs \cup A \in SUBSET JobActions BY <1>1
  <2> QED BY <2>1, <2>2 DEF Countable
<1>3. ASSUME NEW h, NEW P
      PROVE  /\ Total(T, h, P) = Total(S, h, P) + Cardinality(A \cap P)
             /\ Cardinality(A \cap P) \in Nat
  <2>1. IsFiniteSet(A \cap P) /\ IsFiniteSet(S.jobs \cap P)
    BY <1>1, FS_Subset
  <2>2. T.jobs \cap P = (S.jobs \cap P) \cup (A \cap P) /\ (S.jobs \cap P) \cap (A \cap P) = {}
    OBVIOUS
  <2>3. /\ Cardinality(T.jobs \cap P) = Cardinality(S.jobs \cap P) + Cardinality(A \cap P)
        /\ Cardinality(A \cap P) \in Nat
    BY <2>1, <2>2, CardinalityOfUnion
  <2>4. /\ Queues(S.queue, P) \in Nat /\ Cardinality(S.jobs \cap P) \in Nat
        /\ Count(S.done, P) \in Nat /\ One(h, P) \in Nat
    <3>1. One(h, P) \in Nat BY DEF One
    <3> QED BY <3>1, TotalFacts
  <2>5. /\ Total(T, h, P) = Queues(S.queue, P) + Cardinality(T.jobs \cap P) + Count(S.done, P) + One(h, P)
        /\ Total(S, h, P) = Queues(S.queue, P) + Cardinality(S.jobs \cap P) + Count(S.done, P) + One(h, P)
    BY DEF Total
  <2> QED BY ONLY <2>3, <2>4, <2>5
<1> QED BY <1>2, <1>3

\* pump takes an action in its hand.
Takes(S, T) ==
    /\ S.done # <<>> /\ T.done = Tail(S.done)
    /\ T.queue = S.queue /\ T.jobs = S.jobs

LEMMA TotalTakes ==
    ASSUME EngineAssumption, NEW S, Countable(S), NEW T, NEW h, Takes(S, T)
    PROVE  /\ Countable(T) /\ Head(S.done) \in ConnActions \cup JobActions
           /\ \A P : h \notin P => Total(T, Head(S.done), P) = Total(S, h, P)
<1> USE DEF Takes
<1> DEFINE X == ConnActions \cup JobActions
<1>1. S.done \in Seq(X)
  BY DEF Countable
<1>2. Tail(S.done) \in Seq(X) /\ Head(S.done) \in X
  <2> HIDE DEF X
  <2> QED BY <1>1
<1>3. Countable(T)
  BY <1>2 DEF Countable
<1>4. ASSUME NEW P, h \notin P PROVE Total(T, Head(S.done), P) = Total(S, h, P)
  <2>1. Count(S.done, P) = Count(Tail(S.done), P) + One(Head(S.done), P) /\ Count(Tail(S.done), P) \in Nat
    <3> HIDE DEF X
    <3> QED BY ONLY <1>1, S.done # <<>>, CountTail
  <2>2. Queues(S.queue, P) \in Nat /\ Cardinality(S.jobs \cap P) \in Nat
    BY TotalFacts
  <2>3. One(h, P) = 0 /\ One(Head(S.done), P) \in Nat BY <1>4 DEF One
  <2>4. /\ Total(T, Head(S.done), P) = Queues(S.queue, P) + Cardinality(S.jobs \cap P)
                                         + Count(Tail(S.done), P) + One(Head(S.done), P)
        /\ Total(S, h, P) = Queues(S.queue, P) + Cardinality(S.jobs \cap P) + Count(S.done, P) + One(h, P)
    BY DEF Total
  <2> QED BY ONLY <2>1, <2>2, <2>3, <2>4
<1> QED BY <1>2, <1>3, <1>4

\* An action of a connection ends.
Ends(S, T, c, e) ==
    /\ S.queue[c] # <<>> /\ T.queue = [S.queue EXCEPT ![c] = Tail(S.queue[c])]
    /\ T.jobs = S.jobs /\ T.done = Append(S.done, e)

LEMMA TotalEnds ==
    ASSUME EngineAssumption, NEW S, Countable(S), NEW T, NEW c \in ConnIds,
           NEW e \in ConnActions, Ends(S, T, c, e)
    PROVE  /\ Countable(T) /\ Head(S.queue[c]) \in ConnActions
           /\ \A h, P : One(e, P) = One(Head(S.queue[c]), P) => Total(T, h, P) = Total(S, h, P)
<1> USE DEF Ends
<1> DEFINE X == ConnActions \cup JobActions
<1>1. /\ S.queue \in [ConnIds -> Seq(ConnActions)] /\ S.queue[c] \in Seq(ConnActions)
      /\ S.done \in Seq(X) /\ e \in X
  BY DEF Countable
<1>2. Tail(S.queue[c]) \in Seq(ConnActions) /\ Head(S.queue[c]) \in ConnActions
  BY <1>1
<1>3. Append(S.done, e) \in Seq(X)
  <2> HIDE DEF X
  <2> QED BY <1>1
<1>4. Countable(T)
  BY <1>1, <1>2, <1>3 DEF Countable
<1>5. ASSUME NEW h, NEW P, One(e, P) = One(Head(S.queue[c]), P)
      PROVE  Total(T, h, P) = Total(S, h, P)
  <2>1. Queues(T.queue, P) = Queues(S.queue, P) - Count(S.queue[c], P) + Count(Tail(S.queue[c]), P)
    <3>1. T.queue \in [ConnIds -> Seq(ConnActions)] BY <1>4 DEF Countable
    <3>2. T.queue[c] = Tail(S.queue[c]) /\ \A d \in ConnIds : d # c => T.queue[d] = S.queue[d]
      BY <1>1
    <3>3. ChangesAt(S.queue, T.queue, c)
      BY ONLY <3>1, <3>2 DEF ChangesAt
    <3>4. Queues(T.queue, P) = Queues(S.queue, P) - Count(S.queue[c], P) + Count(T.queue[c], P)
      BY ONLY <3>3, <1>1, EngineAssumption, QueuesChange
    <3> QED BY ONLY <3>2, <3>4
  <2>2. /\ Count(S.queue[c], P) = Count(Tail(S.queue[c]), P) + One(Head(S.queue[c]), P)
        /\ Count(Tail(S.queue[c]), P) \in Nat
    BY ONLY <1>1, S.queue[c] # <<>>, CountTail
  <2>3. Count(Append(S.done, e), P) = Count(S.done, P) + One(e, P)
    <3> HIDE DEF X
    <3> QED BY ONLY <1>1, CountAppend
  <2>4. /\ Queues(S.queue, P) \in Nat /\ Cardinality(S.jobs \cap P) \in Nat
        /\ Count(S.done, P) \in Nat /\ One(h, P) \in Nat /\ One(e, P) \in Nat
    <3>1. One(h, P) \in Nat /\ One(e, P) \in Nat BY DEF One
    <3> QED BY <3>1, TotalFacts
  <2>5. /\ Total(T, h, P) = Queues(T.queue, P) + Cardinality(S.jobs \cap P) + Count(Append(S.done, e), P) + One(h, P)
        /\ Total(S, h, P) = Queues(S.queue, P) + Cardinality(S.jobs \cap P) + Count(S.done, P) + One(h, P)
    BY DEF Total
  <2> QED BY ONLY <2>1, <2>2, <2>3, <2>4, <2>5, <1>5
<1> QED BY <1>2, <1>4, <1>5

\* A job ends.
Finishes(S, T, a, e) ==
    T.queue = S.queue /\ T.jobs = S.jobs \ {a} /\ T.done = Append(S.done, e)

LEMMA TotalFinishes ==
    ASSUME EngineAssumption, NEW S, Countable(S), NEW T, NEW a \in S.jobs, NEW e \in JobActions,
           Finishes(S, T, a, e)
    PROVE  /\ Countable(T)
           /\ \A h, P : One(e, P) = One(a, P) => Total(T, h, P) = Total(S, h, P)
<1> USE DEF Finishes
<1> DEFINE X == ConnActions \cup JobActions
<1>1. S.done \in Seq(X) /\ e \in X /\ IsFiniteSet(S.jobs) /\ S.jobs \subseteq JobActions
  BY DEF Countable
<1>2. Append(S.done, e) \in Seq(X)
  <2> HIDE DEF X
  <2> QED BY <1>1
<1>3. Countable(T)
  <2>1. IsFiniteSet(S.jobs \ {a}) BY <1>1, FS_Subset
  <2> QED BY <1>1, <1>2, <2>1 DEF Countable
<1>4. ASSUME NEW h, NEW P, One(e, P) = One(a, P)
      PROVE  Total(T, h, P) = Total(S, h, P)
  <2>1. Count(Append(S.done, e), P) = Count(S.done, P) + One(e, P)
    <3> HIDE DEF X
    <3> QED BY ONLY <1>1, CountAppend
  <2>2. Cardinality(S.jobs \cap P) = Cardinality(T.jobs \cap P) + One(a, P) /\ Cardinality(T.jobs \cap P) \in Nat
    <3>1. IsFiniteSet(T.jobs \cap P) BY <1>1, FS_Subset
    <3>2. a \in P => S.jobs \cap P = (T.jobs \cap P) \cup {a} /\ a \notin T.jobs \cap P
      OBVIOUS
    <3>3. a \notin P => S.jobs \cap P = T.jobs \cap P
      OBVIOUS
    <3>4. Cardinality(T.jobs \cap P) \in Nat BY <3>1, FS_CardinalityType
    <3>5. a \in P => Cardinality(S.jobs \cap P) = Cardinality(T.jobs \cap P) + 1
      BY <3>1, <3>2, FS_AddElement
    <3>6. a \notin P => Cardinality(S.jobs \cap P) = Cardinality(T.jobs \cap P)
      BY <3>3
    <3> QED BY ONLY <3>4, <3>5, <3>6 DEF One
  <2>3. /\ Queues(S.queue, P) \in Nat /\ Count(S.done, P) \in Nat /\ One(h, P) \in Nat /\ One(e, P) \in Nat
    <3>1. One(h, P) \in Nat /\ One(e, P) \in Nat BY DEF One
    <3> QED BY <3>1, TotalFacts
  <2>4. /\ Total(T, h, P) = Queues(S.queue, P) + Cardinality(T.jobs \cap P) + Count(Append(S.done, e), P) + One(h, P)
        /\ Total(S, h, P) = Queues(S.queue, P) + Cardinality(S.jobs \cap P) + Count(S.done, P) + One(h, P)
    BY DEF Total
  <2> QED BY ONLY <2>1, <2>2, <2>3, <2>4, <1>4
<1> QED BY <1>3, <1>4

\* What is in hand is exchanged.
LEMMA TotalSwaps ==
    ASSUME EngineAssumption, NEW S, Countable(S)
    PROVE  \A h, g, P : Total(S, g, P) = Total(S, h, P) - One(h, P) + One(g, P)
<1> TAKE h, g, P
<1>1. /\ Queues(S.queue, P) \in Nat /\ Cardinality(S.jobs \cap P) \in Nat
      /\ Count(S.done, P) \in Nat
  BY TotalFacts
<1>2. One(h, P) \in Nat /\ One(g, P) \in Nat
  BY DEF One
<1>3. /\ Total(S, g, P) = Queues(S.queue, P) + Cardinality(S.jobs \cap P) + Count(S.done, P) + One(g, P)
      /\ Total(S, h, P) = Queues(S.queue, P) + Cardinality(S.jobs \cap P) + Count(S.done, P) + One(h, P)
  BY DEF Total
<1> QED BY ONLY <1>1, <1>2, <1>3

\* The counts depend on the actions only.
LEMMA TotalSame ==
    ASSUME NEW S, NEW T, T.queue = S.queue, T.jobs = S.jobs, T.done = S.done
    PROVE  /\ Countable(S) => Countable(T)
           /\ \A h, P : Total(T, h, P) = Total(S, h, P)
  BY DEF Countable, Total

-----------------------------------------------------------------------------
(* The invariant, of the engine in state S with the action h in pump's hand *)
(* as far as tasks and cmdlists go, and g as far as connections go.         *)

Live(S) == ToSet(S.tasks)

\* The articles of a task and of its cmdlists are its own.
Owned(S) ==
    /\ \A t \in Tasks : /\ ToSet(S.task[t].articles) \subseteq Article(t)
                        /\ S.task[t].decoded \subseteq Article(t)
                        /\ S.task[t].missing \subseteq Article(t)
    /\ \A k \in CmdIds :
         /\ Len(S.cl[k].buffers) <= Len(S.cl[k].commands)
         /\ S.cl[k].task # 0 => /\ S.cl[k].account # 0
                                /\ ToSet(S.cl[k].commands) \subseteq Article(S.cl[k].task)

Typed(S) == S \in EngineStates /\ IsFiniteSet(S.jobs) /\ Owned(S)

\* The counters of actions.
Counted(S, h) ==
    /\ S.num_pending_actions = Total(S, h, Action)
    /\ \A t \in Live(S) : S.task[t].nact = Total(S, h, OfTask(t))
    /\ \A t \in Tasks : t \notin Live(S) => S.task[t].nact = 0

\* An article is decoded once and its contents are written once, after that.
DecodedOnce(S, h) ==
    /\ \A t \in Tasks, i \in Nat, w \in {"binary", "text"} :
         Total(S, h, JobsOf(t, i, "decode")) + Total(S, h, JobsOf(t, i, w)) <= 1
    /\ \A t \in Live(S), i \in Nat, w \in JobKinds :
         Total(S, h, JobsOf(t, i, w)) # 0 => i \in S.task[t].decoded

\* A cmdlist is executed once at a time, for its task, and it knows it.
ExecutedOnce(S, h) ==
    /\ \A k \in CmdIds :
         /\ Total(S, h, Execs(k)) <= 1
         /\ Total(S, h, Execs(k)) # 0 => S.cl[k].conn # 0 /\ S.cl[k].task # 0
         /\ \A t \in Tasks : t # S.cl[k].task => Total(S, h, ExecsFor(k, t)) = 0
    /\ \A k \in ToSet(S.cmds) : S.cl[k].task # 0

\* The cmdlists that are executed or wait to be, and the articles they claim.
Out(S, h) ==
    {k \in CmdIds : \/ Total(S, h, Execs(k)) # 0
                    \/ k \in ToSet(S.cmds) /\ S.cl[k].conn = 0}
Claims(S, k) == ToSet(S.cl[k].commands)
Claim(S, k) ==
    S.cl[k].task \in Live(S) =>
      /\ IsInjective(S.cl[k].commands)
      /\ Claims(S, k) \cap ToSet(S.task[S.cl[k].task].articles) = {}
      /\ Claims(S, k) \cap S.task[S.cl[k].task].decoded = {}
Apart(S, k, l) ==
    S.cl[k].task = S.cl[l].task /\ S.cl[k].task \in Live(S) =>
      Claims(S, k) \cap Claims(S, l) = {}

\* Every article is in one place: to be asked for, in one cmdlist, or decoded.
Claimed(S, h) ==
    /\ \A t \in Live(S) : /\ IsInjective(S.task[t].articles)
                          /\ ToSet(S.task[t].articles) \cap S.task[t].decoded = {}
    /\ \A k \in Out(S, h) : Claim(S, k)
    /\ \A k, l \in Out(S, h) : k # l => Apart(S, k, l)

\* Nothing is under way for the tasks of batches other than those, Ad, that
\* the user has submitted.
Unknown(S, h, Ad) ==
    \A t \in Tasks : BatchOf[t] \notin Ad =>
      /\ t \notin Live(S)
      /\ Total(S, h, OfTask(t)) = 0
      /\ \A i \in Nat, w \in JobKinds : Total(S, h, JobsOf(t, i, w)) = 0
      /\ \A k \in CmdIds : S.cl[k].task # t

Work(S, h, Ad) ==
    Counted(S, h) /\ DecodedOnce(S, h) /\ ExecutedOnce(S, h) /\ Claimed(S, h)
      /\ Unknown(S, h, Ad)

\* A connection works on one action at a time, which its state tells, a free
\* one on none.
OfConn(c)       == {a \in Action : a.conn = c}
KindOn(c, kind) == {a \in Action : a.kind = kind /\ a.conn = c}
During(kind)    == StateDuring(kind, "none")
LinkedAt(S, g, c) ==
    /\ S.conn[c].account # 0 /\ S.conn[c].st # "disconnected"
    /\ Total(S, g, OfConn(c)) = IF S.conn[c].st \in {"connected", "error"} THEN 0 ELSE 1
    /\ \A kind \in ConnKinds :
         Total(S, g, KindOn(c, kind)) = IF S.conn[c].st = During(kind) THEN 1 ELSE 0
Links(S, g) ==
    /\ IsInjective(S.conns)
    /\ \A c \in ToSet(S.conns) : LinkedAt(S, g, c)
    /\ \A c \in ConnIds : S.conn[c] = NoConn => Total(S, g, OfConn(c)) = 0

\* Pings are left out: the end of a ping takes a connection that executes a
\* cmdlist back to connected (conn::on_action).
Linked(S, g) == "ping" \notin Faults => Links(S, g)

\* The batches, but for those of X, count their tasks by the states, kn, that
\* they were told of.
States(S) == [t \in Tasks |-> S.task[t].st]
Mine(S, b) == {t \in Live(S) : BatchOf[t] = b}
CountsAs(B, M, kn) ==
    /\ B.num_tasks = Cardinality(M)
    /\ \A s \in TaskStates : B.statesets[s] = Cardinality({t \in M : kn[t] = s})
Known(S, kn, X, Ad) ==
    /\ IsInjective(S.tasks)
    /\ \A t \in Live(S) : BatchOf[t] \in X \/ S.batch[BatchOf[t]].live
    /\ \A b \in Batches \ X :
         /\ ~S.batch[b].live => S.batch[b] = NoBatch
         /\ S.batch[b].live => b \in Ad /\ CountsAs(S.batch[b], Mine(S, b), kn)

Good(S, h, g, Ad) == Typed(S) /\ Work(S, h, Ad) /\ Linked(S, g)
Settled(S, h, g, Ad) == Good(S, h, g, Ad) /\ Known(S, States(S), {}, Ad)

IInv ==
    /\ Settled(Current, Nothing, Nothing, added)
    /\ added \subseteq Batches /\ ncommands \in Nat /\ nfaults \in Nat

\* The sets of actions that the tasks and cmdlists count.
Watched ==
    {Execs(k) : k \in CmdIds} \cup {ExecsFor(k, t) : k \in CmdIds, t \in Tasks}
      \cup {OfTask(t) : t \in Tasks}
      \cup {JobsOf(t, i, w) : t \in Tasks, i \in Nat, w \in JobKinds}

LEMMA WatchedFacts ==
    /\ \A k \in CmdIds : Execs(k) \in Watched
    /\ \A k \in CmdIds, t \in Tasks : ExecsFor(k, t) \in Watched
    /\ \A t \in Tasks : OfTask(t) \in Watched
    /\ \A t \in Tasks, i \in Nat, w \in JobKinds : JobsOf(t, i, w) \in Watched
  BY DEF Watched

\* An action that is neither an execute nor a task's is not watched.
LEMMA ChoreUnwatched ==
    ASSUME EngineAssumption, NEW a, a.kind # "execute", a.conn # 0 \/ a.task = 0
    PROVE  \A P \in Watched : One(a, P) = 0
<1>1. 0 \notin Tasks
  BY DEF EngineAssumption
<1>2. \A P \in Watched : a \notin P
  BY <1>1 DEF Watched, Execs, ExecsFor, OfTask, JobsOf
<1> QED BY <1>2 DEF One

LEMMA HandsFacts ==
    ASSUME EngineAssumption
    PROVE  /\ \A P \in Watched : One(Nothing, P) = 0 /\ One(Spent, P) = 0
           /\ One(Nothing, Action) = 0 /\ One(Spent, Action) = 1
           /\ \A c \in ConnIds : One(Nothing, OfConn(c)) = 0 /\ One(Spent, OfConn(c)) = 0
           /\ \A c \in ConnIds : \A kind \in ConnKinds :
                One(Nothing, KindOn(c, kind)) = 0 /\ One(Spent, KindOn(c, kind)) = 0
<1>1. Nothing.kind = "none" /\ Spent.kind = "ping" /\ Nothing.task = 0 /\ Spent.task = 0
      /\ Nothing.conn = 0 /\ Spent.conn = 0
  BY DEF Nothing, Spent, ConnAction
<1>2. \A P \in Watched : One(Nothing, P) = 0 /\ One(Spent, P) = 0
  BY <1>1, ChoreUnwatched
<1>3. Nothing \notin Action
  BY <1>1 DEF Action, ActionKinds
<1>4. Spent \in Action
  BY DEF Action, ActionKinds, Spent, ConnAction
<1>5. 0 \notin ConnIds
  BY DEF EngineAssumption
<1> QED BY <1>1, <1>2, <1>3, <1>4, <1>5 DEF One, OfConn, KindOn

LEMMA ContainsFacts ==
    ASSUME NEW X, NEW s \in Seq(X)
    PROVE  /\ \A x : Contains(s, x) <=> x \in ToSet(s)
           /\ ToSet(s) \subseteq X /\ ToSet(s) = Range(s)
           /\ \A i \in 1 .. Len(s) : s[i] \in ToSet(s)
           /\ DOMAIN s = 1 .. Len(s)
<1>1. DOMAIN s = 1 .. Len(s) OBVIOUS
<1> QED BY <1>1 DEF Contains, ToSet, Range

-----------------------------------------------------------------------------
(* Steps that take nothing up. *)

\* From S to T no task or cmdlist takes anything up; tasks may be erased and
\* cmdlists forgotten.
Eased(S, h, T, g) ==
    /\ Live(T) \subseteq Live(S)
    /\ \A t \in Live(T) : /\ T.task[t].articles = S.task[t].articles
                          /\ T.task[t].decoded = S.task[t].decoded
    /\ \A t \in Tasks :
         T.task[t].nact = IF t \in Live(S) \ Live(T) THEN 0 ELSE S.task[t].nact
    /\ \A k \in CmdIds :
         \/ /\ T.cl[k].task = S.cl[k].task /\ T.cl[k].conn = S.cl[k].conn
            /\ T.cl[k].commands = S.cl[k].commands
         \/ T.cl[k] = NoCmdlist /\ Total(T, g, Execs(k)) = 0 /\ k \notin ToSet(T.cmds)
    /\ ToSet(T.cmds) \subseteq ToSet(S.cmds)
    /\ \A P \in Watched : Total(T, g, P) = Total(S, h, P)
    /\ T.num_pending_actions - S.num_pending_actions
         = Total(T, g, Action) - Total(S, h, Action)

LEMMA EasedKeeps ==
    ASSUME EngineAssumption, NEW S \in EngineStates, NEW T \in EngineStates,
           IsFiniteSet(S.jobs), IsFiniteSet(T.jobs), NEW h, NEW g, NEW Ad,
           Work(S, h, Ad), Eased(S, h, T, g)
    PROVE  Work(T, g, Ad)
<1>0. Countable(S) /\ Countable(T) /\ 0 \notin Tasks
  BY DEF Countable, EngineStates, EngineAssumption
<1>1. /\ Live(T) \subseteq Live(S) /\ Live(S) \subseteq Tasks
      /\ ToSet(T.cmds) \subseteq ToSet(S.cmds) /\ ToSet(S.cmds) \subseteq CmdIds
  BY ContainsFacts DEF Eased, Live, EngineStates
<1>2. \A P \in Watched : Total(T, g, P) = Total(S, h, P)
  BY DEF Eased
<1>3. Counted(T, g)
  <2>1. T.num_pending_actions = Total(T, g, Action)
    <3>1. /\ Total(T, g, Action) \in Nat /\ Total(S, h, Action) \in Nat
          /\ T.num_pending_actions \in Int /\ S.num_pending_actions = Total(S, h, Action)
      BY <1>0, TotalFacts DEF EngineStates, Work, Counted
    <3>2. T.num_pending_actions - S.num_pending_actions = Total(T, g, Action) - Total(S, h, Action)
      BY DEF Eased
    <3> QED BY ONLY <3>1, <3>2
  <2>2. \A t \in Live(T) : T.task[t].nact = Total(T, g, OfTask(t))
    BY <1>1, <1>2, WatchedFacts DEF Eased, Work, Counted
  <2>3. \A t \in Tasks : t \notin Live(T) => T.task[t].nact = 0
    BY <1>1 DEF Eased, Work, Counted
  <2> QED BY <2>1, <2>2, <2>3 DEF Counted
<1>4. DecodedOnce(T, g)
  <2>1. ASSUME NEW t \in Tasks, NEW i \in Nat, NEW w \in JobKinds
        PROVE  Total(T, g, JobsOf(t, i, w)) = Total(S, h, JobsOf(t, i, w))
    BY <1>2, WatchedFacts
  <2>2. "decode" \in JobKinds /\ {"binary", "text"} \subseteq JobKinds
    BY DEF JobKinds
  <2>3. ASSUME NEW t \in Tasks, NEW i \in Nat, NEW w \in {"binary", "text"}
        PROVE  Total(T, g, JobsOf(t, i, "decode")) + Total(T, g, JobsOf(t, i, w)) <= 1
    <3>1. Total(S, h, JobsOf(t, i, "decode")) + Total(S, h, JobsOf(t, i, w)) <= 1
      BY DEF Work, DecodedOnce
    <3>2. /\ Total(T, g, JobsOf(t, i, "decode")) = Total(S, h, JobsOf(t, i, "decode"))
          /\ Total(T, g, JobsOf(t, i, w)) = Total(S, h, JobsOf(t, i, w))
      BY <2>1, <2>2
    <3> QED BY <3>1, <3>2
  <2>4. ASSUME NEW t \in Live(T), NEW i \in Nat, NEW w \in JobKinds, Total(T, g, JobsOf(t, i, w)) # 0
        PROVE  i \in T.task[t].decoded
    <3>1. t \in Live(S) /\ t \in Tasks BY <1>1
    <3>2. Total(S, h, JobsOf(t, i, w)) # 0 BY <2>1, <2>4, <3>1
    <3>3. i \in S.task[t].decoded BY <3>1, <3>2 DEF Work, DecodedOnce
    <3> QED BY <3>3 DEF Eased
  <2> QED BY <2>3, <2>4 DEF DecodedOnce
<1>5. ASSUME NEW k \in CmdIds
      PROVE  /\ Total(T, g, Execs(k)) = Total(S, h, Execs(k))
             /\ \/ /\ T.cl[k].task = S.cl[k].task /\ T.cl[k].conn = S.cl[k].conn
                   /\ T.cl[k].commands = S.cl[k].commands
                \/ /\ T.cl[k] = NoCmdlist /\ Total(T, g, Execs(k)) = 0 /\ k \notin ToSet(T.cmds)
                   /\ T.cl[k].task = 0
             /\ \A t \in Tasks : Total(T, g, ExecsFor(k, t)) = Total(S, h, ExecsFor(k, t))
  <2>1. NoCmdlist.task = 0 BY DEF NoCmdlist
  <2>2. /\ Total(T, g, Execs(k)) = Total(S, h, Execs(k))
        /\ \A t \in Tasks : Total(T, g, ExecsFor(k, t)) = Total(S, h, ExecsFor(k, t))
    BY <1>2, WatchedFacts
  <2> QED BY <2>1, <2>2 DEF Eased
<1>6. ExecutedOnce(T, g)
  <2>1. ASSUME NEW k \in CmdIds
        PROVE  /\ Total(T, g, Execs(k)) <= 1
               /\ Total(T, g, Execs(k)) # 0 => T.cl[k].conn # 0 /\ T.cl[k].task # 0
    BY <1>5 DEF Work, ExecutedOnce
  <2>2. ASSUME NEW k \in CmdIds, NEW t \in Tasks, t # T.cl[k].task
        PROVE  Total(T, g, ExecsFor(k, t)) = 0
    <3>1. CASE T.cl[k].task = S.cl[k].task
      BY <3>1, <2>2, <1>5 DEF Work, ExecutedOnce
    <3>2. CASE Total(T, g, Execs(k)) = 0
      <4>1. UnderWay(T, g) \cap Execs(k) = {} BY <3>2, <1>0, TotalFacts
      <4>2. UnderWay(T, g) \cap ExecsFor(k, t) = {} BY <4>1 DEF Execs, ExecsFor
      <4> QED BY <4>2, <1>0, TotalFacts
    <3> QED BY <3>1, <3>2, <1>5
  <2>3. \A k \in ToSet(T.cmds) : T.cl[k].task # 0
    BY <1>1, <1>5 DEF Work, ExecutedOnce
  <2> QED BY <2>1, <2>2, <2>3 DEF ExecutedOnce
<1>7. Claimed(T, g)
  <2>1. ASSUME NEW k \in Out(T, g)
        PROVE  /\ k \in CmdIds /\ k \in Out(S, h)
               /\ T.cl[k].task = S.cl[k].task /\ T.cl[k].commands = S.cl[k].commands
    BY <1>1, <1>5 DEF Out
  <2>2. \A t \in Live(T) : /\ IsInjective(T.task[t].articles)
                           /\ ToSet(T.task[t].articles) \cap T.task[t].decoded = {}
    BY <1>1 DEF Eased, Work, Claimed
  <2>3. ASSUME NEW k \in Out(T, g) PROVE Claim(T, k)
    <3>1. Claim(S, k) BY <2>1 DEF Work, Claimed
    <3> QED BY <2>1, <3>1, <1>1 DEF Claim, Claims, Eased
  <2>4. ASSUME NEW k \in Out(T, g), NEW l \in Out(T, g), k # l PROVE Apart(T, k, l)
    <3>1. Apart(S, k, l) BY <2>1, <2>4 DEF Work, Claimed
    <3> QED BY <2>1, <3>1, <1>1 DEF Apart, Claims
  <2> QED BY <2>2, <2>3, <2>4 DEF Claimed
<1>8. Unknown(T, g, Ad)
  <2> SUFFICES ASSUME NEW t \in Tasks, BatchOf[t] \notin Ad
               PROVE  /\ t \notin Live(T)
                      /\ Total(T, g, OfTask(t)) = 0
                      /\ \A i \in Nat, w \in JobKinds : Total(T, g, JobsOf(t, i, w)) = 0
                      /\ \A k \in CmdIds : T.cl[k].task # t
    BY DEF Unknown
  <2>1. /\ t \notin Live(S) /\ Total(S, h, OfTask(t)) = 0
        /\ \A i \in Nat, w \in JobKinds : Total(S, h, JobsOf(t, i, w)) = 0
        /\ \A k \in CmdIds : S.cl[k].task # t
    BY DEF Work, Unknown
  <2>2. t \notin Live(T) /\ Total(T, g, OfTask(t)) = 0
    BY <2>1, <1>1, <1>2, WatchedFacts
  <2>3. \A i \in Nat, w \in JobKinds : Total(T, g, JobsOf(t, i, w)) = 0
    BY <2>1, <1>2, WatchedFacts
  <2>4. \A k \in CmdIds : T.cl[k].task # t
    BY <2>1, <1>0, <1>5
  <2> QED BY <2>2, <2>3, <2>4
<1> QED BY <1>3, <1>4, <1>6, <1>7, <1>8 DEF Work

-----------------------------------------------------------------------------
(* Connections. *)

\* What happens to connection c leaves the others' counts alone.
LinksApart(S, g, T, f, c) ==
    /\ IsInjective(T.conns) /\ ToSet(T.conns) \subseteq ConnIds
    /\ ToSet(T.conns) \subseteq ToSet(S.conns) \cup {c}
    /\ \A d \in ConnIds : d # c =>
         /\ T.conn[d] = S.conn[d]
         /\ Total(T, f, OfConn(d)) = Total(S, g, OfConn(d))
         /\ \A kind \in ConnKinds : Total(T, f, KindOn(d, kind)) = Total(S, g, KindOn(d, kind))
LinksAt(T, f, c) ==
    /\ T.conn[c] = NoConn => Total(T, f, OfConn(c)) = 0
    /\ c \in ToSet(T.conns) => LinkedAt(T, f, c)

LEMMA LinksChange ==
    ASSUME NEW S, NEW T, NEW g, NEW f, NEW c, Links(S, g),
           LinksApart(S, g, T, f, c), LinksAt(T, f, c)
    PROVE  Links(T, f)
<1>1. ASSUME NEW d \in ToSet(T.conns) PROVE LinkedAt(T, f, d)
  <2>1. CASE d = c BY <2>1 DEF LinksAt
  <2>2. CASE d # c
    <3>1. LinkedAt(S, g, d) /\ d \in ConnIds BY <2>2 DEF Links, LinksApart
    <3> QED BY <2>2, <3>1 DEF LinkedAt, LinksApart
  <2> QED BY <2>1, <2>2
<1>2. ASSUME NEW d \in ConnIds, T.conn[d] = NoConn PROVE Total(T, f, OfConn(d)) = 0
  <2>1. CASE d = c BY <2>1, <1>2 DEF LinksAt
  <2>2. CASE d # c BY <2>2, <1>2 DEF Links, LinksApart
  <2> QED BY <2>1, <2>2
<1> QED BY <1>1, <1>2 DEF Links, LinksApart

\* The pool's jobs are no connection's.
LEMMA LinksSame ==
    ASSUME EngineAssumption, NEW S \in EngineStates, NEW T \in EngineStates, NEW g, Links(S, g),
           T.conns = S.conns, T.conn = S.conn, T.queue = S.queue, T.done = S.done
    PROVE  Links(T, g)
<1>1. ASSUME NEW c \in ConnIds
      PROVE  /\ Total(T, g, OfConn(c)) = Total(S, g, OfConn(c))
             /\ \A kind \in ConnKinds : Total(T, g, KindOn(c, kind)) = Total(S, g, KindOn(c, kind))
  <2>1. S.jobs \cap OfConn(c) = {} /\ T.jobs \cap OfConn(c) = {}
    BY DEF EngineStates, JobActions, OfConn, EngineAssumption
  <2>2. \A kind : S.jobs \cap KindOn(c, kind) = {} /\ T.jobs \cap KindOn(c, kind) = {}
    BY DEF EngineStates, JobActions, KindOn, EngineAssumption
  <2> QED BY <2>1, <2>2 DEF Total
<1>2. ToSet(S.conns) \subseteq ConnIds
  BY ContainsFacts DEF EngineStates
<1>3. \A c \in ToSet(S.conns) : LinkedAt(S, g, c) => LinkedAt(T, g, c)
  BY <1>1, <1>2 DEF LinkedAt
<1> QED BY <1>1, <1>3 DEF Links

\* The tasks and batches are as they were.
TasksSame(S, T) ==
    /\ T.started = S.started /\ T.tasks = S.tasks /\ T.task = S.task /\ T.batch = S.batch
    /\ T.num_pending_tasks = S.num_pending_tasks
\* The cmdlists as well, and no action of a connection has ended.
CmdsSame(S, T) == TasksSame(S, T) /\ T.cmds = S.cmds /\ T.cl = S.cl

\* Action a is submitted to connection c.
Sent(S, T, c, a) ==
    /\ T \in EngineStates /\ CmdsSame(S, T) /\ Submits(S, T, c, a)
    /\ T.num_pending_actions = S.num_pending_actions + 1
\* And it is done so by do_action.
SentBy(S, T, c, a) ==
    /\ Sent(S, T, c, a) /\ T.conns = S.conns
    /\ \A d \in ConnIds : d # c => T.conn[d] = S.conn[d]
    /\ T.conn[c].st = StateDuring(a.kind, S.conn[c].st)
    /\ T.conn[c].account = S.conn[c].account

LEMMA DuringType ==
    ASSUME NEW kind \in ConnKinds, NEW st \in ConnStates
    PROVE  /\ StateDuring(kind, st) \in ConnStates
           /\ StateDuring(kind, st) = IF kind = "ping" THEN st ELSE During(kind)
           /\ \A k \in ConnKinds : During(k) = During(kind) => k = kind
           /\ During(kind) \notin {"connected", "error"}
  BY DEF StateDuring, During, ConnKinds, ConnStates

\* conn::do_action.
LEMMA SubmitFacts ==
    ASSUME EngineAssumption, NEW S \in EngineStates, NEW c \in ConnIds, NEW a \in ConnActions,
           NEW T, T = ConnSubmit(S, c, a)
    PROVE  SentBy(S, T, c, a)
<1>1. /\ a.kind \in ConnKinds /\ S.conn \in [ConnIds -> ConnRecords]
      /\ S.conn[c] \in ConnRecords /\ S.conn[c].st \in ConnStates
  BY DEF ConnActions, EngineStates, ConnRecords
<1>2. StateDuring(a.kind, S.conn[c].st) \in ConnStates
  BY <1>1, DuringType
<1>3. [S.conn[c] EXCEPT !.st = StateDuring(a.kind, @)] \in ConnRecords
  BY <1>1, <1>2 DEF ConnRecords
<1>4. S.queue[c] \in Seq(ConnActions) /\ S.queue \in [ConnIds -> Seq(ConnActions)]
  BY DEF EngineStates
<1>5. Append(S.queue[c], a) \in Seq(ConnActions) BY <1>4
<1>6. [S.queue EXCEPT ![c] = Append(@, a)] \in [ConnIds -> Seq(ConnActions)] BY <1>4, <1>5
<1>7. [S.conn EXCEPT ![c].st = StateDuring(a.kind, @)] \in [ConnIds -> ConnRecords] BY <1>1, <1>3
<1>8. S.num_pending_actions + 1 \in Int BY DEF EngineStates
<1>9. T \in EngineStates
  BY <1>6, <1>7, <1>8 DEF EngineStates, ConnSubmit
<1>10. T.conn[c] = [S.conn[c] EXCEPT !.st = StateDuring(a.kind, S.conn[c].st)]
  BY <1>1 DEF EngineStates, ConnSubmit
<1>11. T.conn[c].st = StateDuring(a.kind, S.conn[c].st) /\ T.conn[c].account = S.conn[c].account
  BY <1>1, <1>10 DEF ConnRecords
<1>12. Sent(S, T, c, a)
  BY <1>9 DEF EngineStates, ConnSubmit, Submits, CmdsSame, TasksSame, Sent
<1>13. T.conns = S.conns /\ \A d \in ConnIds : d # c => T.conn[d] = S.conn[d]
  BY <1>1 DEF EngineStates, ConnSubmit
<1> QED BY <1>11, <1>12, <1>13 DEF SentBy

\* Nobody's work but the connection's: an action other than an execute.
LEMMA ChoreKeeps ==
    ASSUME EngineAssumption, NEW S, NEW h, NEW g, NEW Ad, Typed(S), Work(S, h, Ad),
           NEW c \in ConnIds, NEW a \in ConnActions, a.kind # "execute",
           NEW T, Sent(S, T, c, a)
    PROVE  Typed(T) /\ Work(T, h, Ad)
<1>0. /\ T \in EngineStates /\ Submits(S, T, c, a)
      /\ T.tasks = S.tasks /\ T.task = S.task /\ T.cmds = S.cmds /\ T.cl = S.cl
      /\ T.num_pending_actions = S.num_pending_actions + 1
  BY DEF Sent, CmdsSame, TasksSame
<1>1. S \in EngineStates /\ IsFiniteSet(S.jobs) /\ Countable(S)
  BY DEF Typed, Countable, EngineStates
<1>20. \A f, P : Total(T, f, P) = Total(S, f, P) + One(a, P)
  BY ONLY EngineAssumption, c \in ConnIds, a \in ConnActions, <1>0, <1>1, TotalSubmits
<1>2. ASSUME NEW P PROVE Total(T, h, P) = Total(S, h, P) + One(a, P)
  BY ONLY <1>20
<1>3. a.conn # 0 /\ a \in Action
  BY DEF ConnActions, EngineAssumption
<1>4. ASSUME NEW P \in Watched PROVE Total(T, h, P) = Total(S, h, P)
  <2>1. One(a, P) = 0 BY <1>3, ChoreUnwatched
  <2>2. Total(S, h, P) \in Nat BY <1>1, TotalFacts
  <2>3. Total(T, h, P) = Total(S, h, P) + One(a, P) BY <1>2
  <2> QED BY ONLY <2>1, <2>2, <2>3
<1>5. T.num_pending_actions - S.num_pending_actions = Total(T, h, Action) - Total(S, h, Action)
  <2>1. One(a, Action) = 1 BY <1>3 DEF One
  <2>2. Total(S, h, Action) \in Nat /\ S.num_pending_actions \in Int
    BY <1>1, TotalFacts DEF EngineStates
  <2>3. Total(T, h, Action) = Total(S, h, Action) + One(a, Action) BY <1>2
  <2>4. T.num_pending_actions = S.num_pending_actions + 1 BY <1>0
  <2> QED BY ONLY <2>1, <2>2, <2>3, <2>4
<1>6. Eased(S, h, T, h)
  BY <1>0, <1>4, <1>5 DEF Eased, Live
<1>7. IsFiniteSet(T.jobs) BY <1>0, <1>1 DEF Submits
<1>8. Work(T, h, Ad) BY <1>0, <1>1, <1>6, <1>7, EasedKeeps
<1>9. Typed(T) BY <1>0, <1>7 DEF Typed, Owned
<1> QED BY <1>8, <1>9

\* The counts of actions by connection after a submission to connection c.
LinksReady(S, g, T, c, a) ==
    /\ IsInjective(T.conns) /\ ToSet(T.conns) \subseteq ToSet(S.conns) \cup {c}
    /\ \A d \in ConnIds : d # c => T.conn[d] = S.conn[d]
    /\ T.conn[c].account # 0
    /\ c \in ToSet(T.conns) =>
         /\ Total(S, g, OfConn(c)) = 0
         /\ T.conn[c].st = During(a.kind) /\ T.conn[c].st # "disconnected"

LEMMA LinksSubmit ==
    ASSUME EngineAssumption, NEW S \in EngineStates, IsFiniteSet(S.jobs), NEW g, Links(S, g),
           NEW c \in ConnIds, NEW a \in ConnActions, a.conn = c,
           NEW T \in EngineStates, Submits(S, T, c, a), LinksReady(S, g, T, c, a)
    PROVE  Links(T, g)
<1>0. /\ IsInjective(T.conns) /\ ToSet(T.conns) \subseteq ToSet(S.conns) \cup {c}
      /\ \A d \in ConnIds : d # c => T.conn[d] = S.conn[d]
      /\ T.conn[c].account # 0
      /\ c \in ToSet(T.conns) =>
           /\ Total(S, g, OfConn(c)) = 0
           /\ T.conn[c].st = During(a.kind) /\ T.conn[c].st # "disconnected"
  BY DEF LinksReady
<1>1. Countable(S) BY DEF Countable, EngineStates
<1>2. ASSUME NEW P PROVE Total(T, g, P) = Total(S, g, P) + One(a, P) /\ Total(S, g, P) \in Nat
  <2>1. Total(S, g, P) \in Nat BY <1>1, TotalFacts
  <2>2. Total(T, g, P) = Total(S, g, P) + One(a, P) BY <1>1, TotalSubmits
  <2> QED BY <2>1, <2>2
<1>3. a \in Action /\ a.kind \in ConnKinds BY DEF ConnActions
<1>4. ASSUME NEW d \in ConnIds, d # c
      PROVE  /\ Total(T, g, OfConn(d)) = Total(S, g, OfConn(d))
             /\ \A kind \in ConnKinds : Total(T, g, KindOn(d, kind)) = Total(S, g, KindOn(d, kind))
  <2>1. One(a, OfConn(d)) = 0 /\ \A kind : One(a, KindOn(d, kind)) = 0
    BY <1>4 DEF One, OfConn, KindOn
  <2>2. Total(T, g, OfConn(d)) = Total(S, g, OfConn(d))
    BY ONLY <2>1, <1>2
  <2>3. ASSUME NEW kind \in ConnKinds PROVE Total(T, g, KindOn(d, kind)) = Total(S, g, KindOn(d, kind))
    BY ONLY <2>1, <1>2
  <2> QED BY <2>2, <2>3
<1>5. ASSUME c \in ToSet(T.conns) PROVE LinkedAt(T, g, c)
  <2>1. /\ Total(S, g, OfConn(c)) = 0 /\ T.conn[c].st = During(a.kind)
        /\ T.conn[c].st # "disconnected" /\ T.conn[c].account # 0
    BY <1>0, <1>5
  <2>2. Total(T, g, OfConn(c)) = 1
    <3>1. One(a, OfConn(c)) = 1 BY <1>3 DEF One, OfConn
    <3>2. Total(T, g, OfConn(c)) = Total(S, g, OfConn(c)) + One(a, OfConn(c)) BY <1>2
    <3> QED BY ONLY <2>1, <3>1, <3>2
  <2>3. ASSUME NEW kind \in ConnKinds
        PROVE  Total(T, g, KindOn(c, kind)) = IF T.conn[c].st = During(kind) THEN 1 ELSE 0
    <3>1. Total(S, g, KindOn(c, kind)) = 0
      <4>1. UnderWay(S, g) \cap OfConn(c) = {} BY <2>1, <1>1, TotalFacts
      <4>2. UnderWay(S, g) \cap KindOn(c, kind) = {} BY <4>1 DEF OfConn, KindOn
      <4>3. Total(S, g, KindOn(c, kind)) = 0 <=> UnderWay(S, g) \cap KindOn(c, kind) = {}
        BY <1>1, TotalFacts
      <4> QED BY <4>2, <4>3
    <3>2. One(a, KindOn(c, kind)) = IF a.kind = kind THEN 1 ELSE 0
      BY <1>3 DEF One, KindOn
    <3>3. Total(T, g, KindOn(c, kind)) = Total(S, g, KindOn(c, kind)) + One(a, KindOn(c, kind))
      BY <1>2
    <3>4. T.conn[c].st = During(kind) <=> a.kind = kind
      BY <1>3, <2>1, DuringType, "error" \in ConnStates DEF ConnStates
    <3> QED BY ONLY <3>1, <3>2, <3>3, <3>4
  <2>4. T.conn[c].st \notin {"connected", "error"}
    BY <1>3, <2>1, DuringType, "error" \in ConnStates DEF ConnStates
  <2> QED BY <2>1, <2>2, <2>3, <2>4 DEF LinkedAt
<1>6. T.conn[c] # NoConn
  BY <1>0 DEF NoConn
<1>7. ToSet(T.conns) \subseteq ConnIds
  BY ContainsFacts DEF EngineStates
<1>8. LinksApart(S, g, T, g, c)
  BY <1>0, <1>4, <1>7 DEF LinksApart
<1>9. LinksAt(T, g, c)
  BY <1>5, <1>6 DEF LinksAt
<1> QED BY <1>8, <1>9, LinksChange

LEMMA ConnActionFacts ==
    ASSUME EngineAssumption, NEW c \in ConnIds, NEW kind \in ConnKinds, kind # "execute"
    PROVE  /\ ConnAction(kind, c) \in ConnActions /\ ConnAction(kind, c).conn = c
           /\ ConnAction(kind, c).kind = kind
  BY DEF ConnAction, ConnActions, Action, ActionKinds, ConnKinds

LEMMA AppendSet ==
    ASSUME NEW X, NEW s \in Seq(X), NEW x \in X
    PROVE  ToSet(Append(s, x)) = ToSet(s) \cup {x}
<1>1. /\ Len(s) \in Nat /\ DOMAIN s = 1 .. Len(s)
      /\ Len(Append(s, x)) = Len(s) + 1 /\ DOMAIN Append(s, x) = 1 .. Len(s) + 1
      /\ Append(s, x)[Len(s) + 1] = x /\ \A i \in 1 .. Len(s) : Append(s, x)[i] = s[i]
  OBVIOUS
<1>2. ToSet(s) = {s[i] : i \in 1 .. Len(s)} BY <1>1 DEF ToSet
<1>3. ToSet(Append(s, x)) = {Append(s, x)[i] : i \in 1 .. Len(s) + 1} BY <1>1 DEF ToSet
<1> QED BY <1>1, <1>2, <1>3

\* What is appended to a list without it keeps the list free of repetitions.
LEMMA AppendsOne ==
    ASSUME NEW X, NEW s \in Seq(X), IsInjective(s), NEW x \in X, x \notin ToSet(s)
    PROVE  /\ IsInjective(Append(s, x)) /\ Append(s, x) \in Seq(X)
           /\ ToSet(Append(s, x)) = ToSet(s) \cup {x}
<1>1. /\ Len(s) \in Nat /\ DOMAIN s = 1 .. Len(s)
      /\ Append(s, x) \in Seq(X) /\ Len(Append(s, x)) = Len(s) + 1
      /\ Append(s, x)[Len(s) + 1] = x /\ \A i \in 1 .. Len(s) : Append(s, x)[i] = s[i]
  OBVIOUS
<1>2. DOMAIN Append(s, x) = 1 .. Len(s) + 1 BY <1>1
<1>3. \A i \in 1 .. Len(s) : s[i] # x BY <1>1 DEF ToSet
<1>4. IsInjective(Append(s, x))
  <2> SUFFICES ASSUME NEW i \in 1 .. Len(s) + 1, NEW j \in 1 .. Len(s) + 1,
                      Append(s, x)[i] = Append(s, x)[j]
               PROVE  i = j
    BY <1>2 DEF IsInjective
  <2>1. CASE i \in 1 .. Len(s) /\ j \in 1 .. Len(s)
    BY <2>1, <1>1 DEF IsInjective
  <2>2. CASE i = Len(s) + 1 \/ j = Len(s) + 1
    BY <2>2, <1>1, <1>3
  <2> QED BY <2>1, <2>2, <1>1
<1>5. ToSet(Append(s, x)) = ToSet(s) \cup {x} BY AppendSet
<1> QED BY <1>1, <1>4, <1>5

LEMMA CreateAnyKeeps ==
    ASSUME EngineAssumption, NEW S, NEW h, NEW g, NEW Ad, Good(S, h, g, Ad),
           NEW acc \in Accounts \cup {0}, acc = 0 => "ping" \in Faults,
           NEW T, T = ConnCreate(S, acc)
    PROVE  Good(T, h, g, Ad) /\ CmdsSame(S, T)
<1>1. S \in EngineStates /\ IsFiniteSet(S.jobs) BY DEF Good, Typed
<1>2. CASE FreeConns(S) = {}
  <2>1. T = S BY <1>2 DEF ConnCreate
  <2> QED BY <2>1 DEF CmdsSame, TasksSame
<1>3. CASE FreeConns(S) # {}
  <2> PICK c : c = Min(FreeConns(S))
    OBVIOUS
  <2>1. c \in ConnIds /\ S.conn[c] = NoConn
    <3>1. FreeConns(S) \in SUBSET Nat BY DEF FreeConns, EngineAssumption
    <3> QED BY <3>1, <1>3, MinFacts DEF FreeConns
  <2> PICK N : N = [S EXCEPT !.conn[c] = [NoConn EXCEPT !.account = acc], !.conns = Append(@, c)]
    OBVIOUS
  <2>2. N \in EngineStates
    <3>1. [NoConn EXCEPT !.account = acc] \in ConnRecords
      BY DEF NoConn, ConnRecords, ConnStates
    <3>2. [S.conn EXCEPT ![c] = [NoConn EXCEPT !.account = acc]] \in [ConnIds -> ConnRecords]
      BY <3>1, <1>1, <2>1 DEF EngineStates
    <3>3. Append(S.conns, c) \in Seq(ConnIds)
      BY <1>1, <2>1 DEF EngineStates
    <3> QED BY <1>1, <3>2, <3>3 DEF EngineStates
  <2>3. /\ CmdsSame(S, N) /\ N.jobs = S.jobs /\ N.done = S.done /\ N.queue = S.queue
        /\ N.num_pending_actions = S.num_pending_actions
        /\ N.conns = Append(S.conns, c) /\ N.conn[c].account = acc
        /\ \A d \in ConnIds : d # c => N.conn[d] = S.conn[d]
    BY <1>1, <2>1 DEF EngineStates, CmdsSame, TasksSame, NoConn
  <2> PICK a : a = ConnAction("resolve", c)
    OBVIOUS
  <2>4. a \in ConnActions /\ a.conn = c /\ a.kind = "resolve" /\ "resolve" \in ConnKinds
    BY <2>1, ConnActionFacts DEF ConnKinds
  <2>5. T = ConnSubmit(N, c, a)
    BY <1>3 DEF ConnCreate
  <2>6. /\ Sent(N, T, c, a) /\ T.conns = N.conns
        /\ \A d \in ConnIds : d # c => T.conn[d] = N.conn[d]
        /\ T.conn[c].st = StateDuring(a.kind, N.conn[c].st) /\ T.conn[c].account = N.conn[c].account
    <3>1. SentBy(N, T, c, a) BY <2>1, <2>2, <2>4, <2>5, SubmitFacts
    <3> QED BY <3>1 DEF SentBy
  <2>7. Sent(S, T, c, a)
    BY <2>3, <2>6 DEF Submits, CmdsSame, TasksSame, Sent
  <2>8. Typed(T) /\ Work(T, h, Ad)
    <3>1. a.kind # "execute" /\ Typed(S) /\ Work(S, h, Ad) BY <2>4 DEF Good
    <3> QED BY <2>1, <2>4, <2>7, <3>1, ChoreKeeps
  <2>9. ASSUME "ping" \notin Faults, Links(S, g) PROVE Links(T, g)
    <3>1. acc # 0 /\ NoConn.account = 0 BY <2>9 DEF NoConn
    <3>2. c \notin ToSet(S.conns) /\ Total(S, g, OfConn(c)) = 0
      BY <2>1, <2>9, <3>1 DEF Links, LinkedAt
    <3>3. S.conns \in Seq(ConnIds) /\ IsInjective(S.conns)
      BY <1>1, <2>9 DEF EngineStates, Links
    <3>4. IsInjective(T.conns) /\ ToSet(T.conns) = ToSet(S.conns) \cup {c}
      BY <2>1, <2>3, <2>6, <3>2, <3>3, AppendsOne
    <3>5. T.conn[c].st = During(a.kind) /\ T.conn[c].st # "disconnected"
      BY <2>4, <2>6 DEF During, StateDuring
    <3>6. T.conn[c].account # 0 /\ \A d \in ConnIds : d # c => T.conn[d] = S.conn[d]
      BY <2>3, <2>6, <3>1
    <3>7. LinksReady(S, g, T, c, a) BY <3>2, <3>4, <3>5, <3>6 DEF LinksReady
    <3>8. T \in EngineStates /\ Submits(S, T, c, a) BY <2>7 DEF Sent
    <3> QED BY <1>1, <2>1, <2>4, <2>9, <3>7, <3>8, LinksSubmit
  <2> QED BY <2>7, <2>8, <2>9 DEF Good, Linked, Sent
<1> QED BY <1>2, <1>3
LEMMA CreateKeeps ==
    ASSUME EngineAssumption, NEW S, NEW h, NEW g, NEW Ad, Good(S, h, g, Ad), NEW acc \in Accounts,
           NEW T, T = ConnCreate(S, acc)
    PROVE  Good(T, h, g, Ad) /\ CmdsSame(S, T)
<1>1. acc \in Accounts \cup {0} /\ acc # 0 BY DEF EngineAssumption
<1> QED BY <1>1, CreateAnyKeeps

\* A connection that does nothing may be given something to do other than an
\* execute, and one that is left to itself may be told to disconnect.
MayChore(S, g, c, kind) ==
    "ping" \notin Faults =>
      /\ S.conn[c].account # 0
      /\ c \in ToSet(S.conns) => /\ Total(S, g, OfConn(c)) = 0
                                 /\ kind \notin {"ping", "disconnect"}
Chored(S, T, c, kind) ==
    /\ CmdsSame(S, T) /\ T.conns = S.conns
    /\ \A d \in ConnIds : d # c => T.conn[d] = S.conn[d]
    /\ T.conn[c].account = S.conn[c].account
    /\ T.conn[c].st = StateDuring(kind, S.conn[c].st)
LEMMA ChoreSubmitted ==
    ASSUME EngineAssumption, NEW S, NEW h, NEW g, NEW Ad, Good(S, h, g, Ad), NEW c \in ConnIds,
           NEW kind \in ConnKinds, kind # "execute", MayChore(S, g, c, kind),
           NEW T, T = ConnSubmit(S, c, ConnAction(kind, c))
    PROVE  Good(T, h, g, Ad) /\ Chored(S, T, c, kind)
<1>1. S \in EngineStates /\ IsFiniteSet(S.jobs) BY DEF Good, Typed
<1> PICK a : a = ConnAction(kind, c)
  OBVIOUS
<1>2. a \in ConnActions /\ a.conn = c /\ a.kind = kind
  BY ConnActionFacts
<1>3. /\ Sent(S, T, c, a) /\ T.conns = S.conns
      /\ \A d \in ConnIds : d # c => T.conn[d] = S.conn[d]
      /\ T.conn[c].st = StateDuring(kind, S.conn[c].st) /\ T.conn[c].account = S.conn[c].account
  <2>1. SentBy(S, T, c, a) BY <1>1, <1>2, SubmitFacts
  <2> QED BY <1>2, <2>1 DEF SentBy
<1>4. Typed(T) /\ Work(T, h, Ad)
  <2>1. Typed(S) /\ Work(S, h, Ad) BY DEF Good
  <2> QED BY <1>2, <1>3, <2>1, ChoreKeeps
<1>5. ASSUME "ping" \notin Faults PROVE Links(T, g)
  <2>1. Links(S, g) BY <1>5 DEF Good, Linked
  <2>2. IsInjective(T.conns) /\ ToSet(T.conns) \subseteq ToSet(S.conns) \cup {c}
    BY <1>3, <2>1 DEF Links
  <2>3. T.conn[c].account # 0 BY <1>3, <1>5 DEF MayChore
  <2>4. c \in ToSet(T.conns) => /\ Total(S, g, OfConn(c)) = 0 /\ T.conn[c].st = During(a.kind)
                                /\ T.conn[c].st # "disconnected"
    <3>1. kind \notin {"ping", "disconnect"} =>
            /\ StateDuring(kind, S.conn[c].st) = During(kind)
            /\ StateDuring(kind, S.conn[c].st) # "disconnected"
      BY DEF StateDuring, During, ConnKinds
    <3> QED BY <1>2, <1>3, <1>5, <3>1 DEF MayChore
  <2>5. LinksReady(S, g, T, c, a) BY <1>3, <2>2, <2>3, <2>4 DEF LinksReady
  <2>6. T \in EngineStates /\ Submits(S, T, c, a) BY <1>3 DEF Sent
  <2> QED BY <1>1, <1>2, <2>1, <2>5, <2>6, LinksSubmit
<1> QED BY <1>3, <1>4, <1>5 DEF Good, Linked, Sent, Chored

\* What tasks, cmdlists and actions there are is as it was.
WorkSame(S, T) ==
    /\ T \in EngineStates
    /\ T.tasks = S.tasks /\ T.task = S.task /\ T.cmds = S.cmds /\ T.cl = S.cl
    /\ T.queue = S.queue /\ T.jobs = S.jobs /\ T.done = S.done
    /\ T.num_pending_actions = S.num_pending_actions

LEMMA SameKeeps ==
    ASSUME EngineAssumption, NEW S, NEW T, NEW h, NEW Ad, Typed(S), Work(S, h, Ad), WorkSame(S, T)
    PROVE  /\ Typed(T) /\ Work(T, h, Ad)
           /\ \A g, P : Total(T, g, P) = Total(S, g, P)
<1>1. \A g, P : Total(T, g, P) = Total(S, g, P)
  BY DEF Total, WorkSame
<1>2. Typed(T)
  BY DEF Typed, WorkSame, Owned
<1>3. Eased(S, h, T, h)
  <2>1. \A P : Total(S, h, P) = Total(T, h, P) BY <1>1
  <2>2. Total(S, h, Action) \in Nat /\ S.num_pending_actions \in Int
    BY TotalFacts DEF Typed, EngineStates, Countable
  <2>3. T.num_pending_actions - S.num_pending_actions = Total(T, h, Action) - Total(S, h, Action)
    BY <2>1, <2>2 DEF WorkSame
  <2> QED BY <2>1, <2>3 DEF Eased, Live, WorkSame
<1>4. Work(T, h, Ad)
  <2>1. /\ S \in EngineStates /\ T \in EngineStates /\ IsFiniteSet(S.jobs) /\ IsFiniteSet(T.jobs)
    BY <1>2 DEF Typed
  <2> QED BY <1>3, <2>1, EasedKeeps
<1> QED BY <1>1, <1>2, <1>4

\* Only connection c, whose action has ended, differs.
CalmAt(S, T, c) ==
    /\ WorkSame(S, T) /\ CmdsSame(S, T) /\ T.conns = S.conns
    /\ \A d \in ConnIds : d # c => T.conn[d] = S.conn[d]
    /\ T.conn[c].account = S.conn[c].account
    /\ "ping" \notin Faults => T.conn[c].st \in {"connected", "error"}

\* The action a of connection c that pump has in its hand is the only one of c.
LEMMA HandOfConn ==
    ASSUME EngineAssumption, NEW S \in EngineStates, IsFiniteSet(S.jobs), NEW a \in ConnActions,
           Links(S, a), NEW c \in ToSet(S.conns), a.conn = c
    PROVE  /\ \A P : Total(S, Spent, P) = Total(S, a, P) - One(a, P) + One(Spent, P)
           /\ \A d \in ConnIds : d # c =>
                /\ Total(S, Spent, OfConn(d)) = Total(S, a, OfConn(d))
                /\ \A kind \in ConnKinds :
                     Total(S, Spent, KindOn(d, kind)) = Total(S, a, KindOn(d, kind))
           /\ Total(S, Spent, OfConn(c)) = 0
           /\ \A kind \in ConnKinds : Total(S, Spent, KindOn(c, kind)) = 0
           /\ S.conn[c].st = During(a.kind)
           /\ a.kind \in {"resolve", "connect", "initialize", "execute"}
<1>0. Countable(S) /\ c \in ConnIds /\ a \in Action /\ a.kind \in ConnKinds
  BY ContainsFacts DEF Countable, EngineStates, ConnActions
<1>1. ASSUME NEW P
      PROVE  /\ Total(S, Spent, P) = Total(S, a, P) - One(a, P) + One(Spent, P)
             /\ Total(S, Spent, P) \in Nat /\ Total(S, a, P) \in Nat
  <2>1. Total(S, Spent, P) \in Nat /\ Total(S, a, P) \in Nat BY <1>0, TotalFacts
  <2>2. Total(S, Spent, P) = Total(S, a, P) - One(a, P) + One(Spent, P) BY <1>0, TotalSwaps
  <2> QED BY <2>1, <2>2
<1>2. ASSUME NEW d \in ConnIds, d # c
      PROVE  /\ Total(S, Spent, OfConn(d)) = Total(S, a, OfConn(d))
             /\ \A kind \in ConnKinds : Total(S, Spent, KindOn(d, kind)) = Total(S, a, KindOn(d, kind))
  <2>1. One(a, OfConn(d)) = 0 /\ \A kind \in ConnKinds : One(a, KindOn(d, kind)) = 0
    BY <1>2 DEF One, OfConn, KindOn
  <2>2. One(Spent, OfConn(d)) = 0 /\ \A kind \in ConnKinds : One(Spent, KindOn(d, kind)) = 0
    BY HandsFacts
  <2>3. Total(S, Spent, OfConn(d)) = Total(S, a, OfConn(d))
    BY ONLY <2>1, <2>2, <1>1
  <2>4. ASSUME NEW kind \in ConnKinds PROVE Total(S, Spent, KindOn(d, kind)) = Total(S, a, KindOn(d, kind))
    BY ONLY <2>1, <2>2, <1>1
  <2> QED BY <2>3, <2>4
<1>3. Total(S, Spent, OfConn(c)) = 0
  <2>1. One(a, OfConn(c)) = 1 BY <1>0 DEF One, OfConn
  <2>2. One(Spent, OfConn(c)) = 0 BY <1>0, HandsFacts
  <2>3. Total(S, a, OfConn(c)) \in {0, 1} BY DEF Links, LinkedAt
  <2> QED BY ONLY <1>1, <2>1, <2>2, <2>3
<1>4. ASSUME NEW kind \in ConnKinds PROVE Total(S, Spent, KindOn(c, kind)) = 0
  <2>1. UnderWay(S, Spent) \cap OfConn(c) = {} BY <1>0, <1>3, TotalFacts
  <2>2. UnderWay(S, Spent) \cap KindOn(c, kind) = {} BY <2>1 DEF OfConn, KindOn
  <2>3. Total(S, Spent, KindOn(c, kind)) = 0 <=> UnderWay(S, Spent) \cap KindOn(c, kind) = {}
    BY <1>0, TotalFacts
  <2> QED BY <2>2, <2>3
<1>5. S.conn[c].st = During(a.kind)
  <2>1. One(a, KindOn(c, a.kind)) = 1 BY <1>0 DEF One, KindOn
  <2>2. One(Spent, KindOn(c, a.kind)) = 0 BY <1>0, HandsFacts
  <2>3. Total(S, a, KindOn(c, a.kind)) = IF S.conn[c].st = During(a.kind) THEN 1 ELSE 0
    BY <1>0 DEF Links, LinkedAt
  <2>4. Total(S, Spent, KindOn(c, a.kind)) = Total(S, a, KindOn(c, a.kind)) - One(a, KindOn(c, a.kind))
                                               + One(Spent, KindOn(c, a.kind))
        /\ Total(S, Spent, KindOn(c, a.kind)) \in Nat
    BY <1>1
  <2> QED BY ONLY <2>1, <2>2, <2>3, <2>4
<1>6. a.kind \in {"resolve", "connect", "initialize", "execute"}
  <2>1. S.conn[c].st # "disconnected" /\ S.conn[c].st \in ConnStates
    BY <1>0 DEF Links, LinkedAt, EngineStates, ConnRecords
  <2> QED BY <1>0, <1>5, <2>1 DEF During, StateDuring, ConnKinds, ConnStates
<1> QED BY <1>1, <1>2, <1>3, <1>4, <1>5, <1>6

LEMMA CalmKeeps ==
    ASSUME EngineAssumption, NEW S, NEW h, NEW Ad, Typed(S), Work(S, h, Ad), NEW a \in ConnActions,
           Linked(S, a), NEW c \in ToSet(S.conns), a.conn = c, NEW T, CalmAt(S, T, c)
    PROVE  /\ Good(T, h, Spent, Ad)
           /\ "ping" \notin Faults => Total(T, Spent, OfConn(c)) = 0
<1>1. WorkSame(S, T) /\ S \in EngineStates /\ IsFiniteSet(S.jobs) /\ T \in EngineStates /\ c \in ConnIds
  BY ContainsFacts DEF CalmAt, WorkSame, Typed, EngineStates
<1>2. ASSUME NEW P PROVE Total(T, Spent, P) = Total(S, Spent, P)
  BY <1>1 DEF WorkSame, Total
<1>3. ASSUME "ping" \notin Faults
      PROVE Links(T, Spent) /\ Total(T, Spent, OfConn(c)) = 0
  <2>1. Links(S, a) BY <1>3 DEF Linked
  <2>2. /\ \A d \in ConnIds : d # c =>
             /\ Total(S, Spent, OfConn(d)) = Total(S, a, OfConn(d))
             /\ \A kind \in ConnKinds :
                  Total(S, Spent, KindOn(d, kind)) = Total(S, a, KindOn(d, kind))
        /\ Total(S, Spent, OfConn(c)) = 0
        /\ \A kind \in ConnKinds : Total(S, Spent, KindOn(c, kind)) = 0
    BY <1>1, <2>1, HandOfConn
  <2>3. LinksApart(S, a, T, Spent, c)
    <3>1. T.conns = S.conns /\ IsInjective(S.conns) /\ ToSet(S.conns) \subseteq ConnIds
      BY <1>1, <2>1, ContainsFacts DEF CalmAt, Links, EngineStates
    <3> QED BY <1>2, <2>2, <3>1 DEF LinksApart, CalmAt
  <2>4. LinksAt(T, Spent, c)
    <3>1. T.conn[c].account # 0
      BY <2>1 DEF Links, LinkedAt, CalmAt
    <3>2. \A kind \in ConnKinds : T.conn[c].st # During(kind)
      BY <1>3, DuringType, "error" \in ConnStates DEF CalmAt, ConnStates
    <3>3. Total(T, Spent, OfConn(c)) = 0 /\ \A kind \in ConnKinds : Total(T, Spent, KindOn(c, kind)) = 0
      BY <1>2, <2>2
    <3>4. T.conn[c].st \in {"connected", "error"} BY <1>3 DEF CalmAt
    <3> QED BY <3>1, <3>2, <3>3, <3>4 DEF LinksAt, LinkedAt
  <2>5. Total(T, Spent, OfConn(c)) = 0
    BY <1>2, <2>2
  <2> QED BY <2>1, <2>3, <2>4, <2>5, LinksChange
<1>4. Typed(T) /\ Work(T, h, Ad)
  BY <1>1, SameKeeps
<1> QED BY <1>3, <1>4 DEF Good, Linked

\* Some fields of connection c are set; its state is then st.
ConnWith(S, T, c, st) ==
    /\ WorkSame(S, T) /\ CmdsSame(S, T) /\ T.conns = S.conns
    /\ \A d \in ConnIds : d # c => T.conn[d] = S.conn[d]
    /\ T.conn[c].account = S.conn[c].account /\ T.conn[c].st = st

LEMMA ConnWithSet ==
    ASSUME NEW S \in EngineStates, NEW c \in ConnIds, NEW r \in ConnRecords,
           r.account = S.conn[c].account, NEW T, T = [S EXCEPT !.conn = [S.conn EXCEPT ![c] = r]]
    PROVE  ConnWith(S, T, c, r.st)
<1>1. [S.conn EXCEPT ![c] = r] \in [ConnIds -> ConnRecords] BY DEF EngineStates
<1>2. T \in EngineStates BY <1>1 DEF EngineStates
<1>3. T.conn[c] = r /\ \A d \in ConnIds : d # c => T.conn[d] = S.conn[d]
  BY DEF EngineStates
<1> QED BY <1>2, <1>3 DEF EngineStates, WorkSame, CmdsSame, TasksSame, ConnWith

LEMMA SetsPinged ==
    ASSUME NEW S \in EngineStates, NEW c \in ConnIds, NEW v \in BOOLEAN
    PROVE  ConnWith(S, [S EXCEPT !.conn[c].pinged = v], c, S.conn[c].st)
<1> PICK r : r = [S.conn[c] EXCEPT !.pinged = v]
  OBVIOUS
<1>1. r \in ConnRecords /\ r.account = S.conn[c].account /\ r.st = S.conn[c].st
  BY DEF ConnRecords, EngineStates
<1> PICK T : T = [S EXCEPT !.conn[c].pinged = v]
  OBVIOUS
<1>2. T = [S EXCEPT !.conn = [S.conn EXCEPT ![c] = r]]
  OBVIOUS
<1>3. ConnWith(S, T, c, r.st)
  BY <1>1, <1>2, ConnWithSet, Zenon
<1> QED BY <1>1, <1>3

LEMMA SetsCancel ==
    ASSUME NEW S \in EngineStates, NEW c \in ConnIds, NEW v \in BOOLEAN
    PROVE  ConnWith(S, [S EXCEPT !.conn[c].cancel = v], c, S.conn[c].st)
<1> PICK r : r = [S.conn[c] EXCEPT !.cancel = v]
  OBVIOUS
<1>1. r \in ConnRecords /\ r.account = S.conn[c].account /\ r.st = S.conn[c].st
  BY DEF ConnRecords, EngineStates
<1> PICK T : T = [S EXCEPT !.conn[c].cancel = v]
  OBVIOUS
<1>2. T = [S EXCEPT !.conn = [S.conn EXCEPT ![c] = r]]
  OBVIOUS
<1>3. ConnWith(S, T, c, r.st)
  BY <1>1, <1>2, ConnWithSet, Zenon
<1> QED BY <1>1, <1>3

\* What on_action does to connection c but for submitting its next action.
WithReset(S, c)     == [S EXCEPT !.conn[c].pinged = FALSE]
WithFailed(S, c, a) ==
    [WithReset(S, c) EXCEPT !.conn[c].st = "error", !.conn[c].fatal = (a.exc = "rejected")]
WithState(S, c, st) == [WithReset(S, c) EXCEPT !.conn[c].st = st]

\* on_action ends with connection c in state st.
LEMMA ResetThenFails ==
    ASSUME NEW S \in EngineStates, NEW c \in ConnIds, NEW a
    PROVE  ConnWith(S, WithFailed(S, c, a), c, "error")
<1> PICK r : r = [S.conn[c] EXCEPT !.pinged = FALSE, !.st = "error", !.fatal = (a.exc = "rejected")]
  OBVIOUS
<1>1. r \in ConnRecords /\ r.account = S.conn[c].account /\ r.st = "error"
  BY DEF ConnRecords, ConnStates, EngineStates
<1> PICK T : T = WithFailed(S, c, a)
  OBVIOUS
<1>2. T = [S EXCEPT !.conn = [S.conn EXCEPT ![c] = r]]
  BY DEF WithFailed, WithReset
<1>3. ConnWith(S, T, c, r.st)
  BY <1>1, <1>2, ConnWithSet, Zenon
<1> QED BY <1>1, <1>3

LEMMA ResetThenState ==
    ASSUME NEW S \in EngineStates, NEW c \in ConnIds, NEW st \in ConnStates
    PROVE  ConnWith(S, WithState(S, c, st), c, st)
<1> PICK r : r = [S.conn[c] EXCEPT !.pinged = FALSE, !.st = st]
  OBVIOUS
<1>1. r \in ConnRecords /\ r.account = S.conn[c].account /\ r.st = st
  BY DEF ConnRecords, EngineStates
<1> PICK T : T = WithState(S, c, st)
  OBVIOUS
<1>2. T = [S EXCEPT !.conn = [S.conn EXCEPT ![c] = r]]
  BY DEF WithState, WithReset
<1>3. ConnWith(S, T, c, r.st)
  BY <1>1, <1>2, ConnWithSet, Zenon
<1> QED BY <1>1, <1>3

\* The state before is lost in do_action, but for a ping.
LEMMA SubmitForgetsState ==
    ASSUME NEW S, NEW c, NEW y, NEW kind, kind # "ping"
    PROVE  ConnSubmit(WithState(S, c, y), c, ConnAction(kind, c))
             = ConnSubmit(WithReset(S, c), c, ConnAction(kind, c))
<1> DEFINE Put(R, x, b) == [R EXCEPT !.conn[c].st = x, !.queue[c] = Append(@, b),
                                     !.num_pending_actions = @ + 1]
<1>1. ASSUME NEW x, NEW b PROVE Put(WithState(S, c, y), x, b) = Put(WithReset(S, c), x, b)
  BY ZenonT(60) DEF WithState, WithReset
<1>2. ConnAction(kind, c).kind = kind
  BY DEF ConnAction
<1>3. ASSUME NEW R
      PROVE  ConnSubmit(R, c, ConnAction(kind, c))
               = Put(R, StateDuring(kind, R.conn[c].st), ConnAction(kind, c))
  BY <1>2 DEF ConnSubmit
<1>4. \A x, z : StateDuring(kind, x) = StateDuring(kind, z)
  BY DEF StateDuring
<1> HIDE DEF Put
<1> QED BY <1>1, <1>3, <1>4

LEMMA OnActionKeeps ==
    ASSUME EngineAssumption, NEW S, NEW h, NEW Ad, Typed(S), Work(S, h, Ad), NEW a \in ConnActions,
           Linked(S, a), NEW c \in ToSet(S.conns), a.conn = c, NEW T, T = ConnOnAction(S, c, a)
    PROVE  /\ Good(T, h, Spent, Ad) /\ CmdsSame(S, T) /\ T.conns = S.conns
           /\ "ping" \notin Faults /\ T.conn[c].st = "connected" => Total(T, Spent, OfConn(c)) = 0
<1>1. /\ S \in EngineStates /\ c \in ConnIds /\ S.conn[c].st \in ConnStates /\ a.kind \in ConnKinds
  BY ContainsFacts, ZenonT(60) DEF Typed, EngineStates, ConnRecords, ConnActions
<1>2. "ping" \notin Faults => /\ S.conn[c].st = During(a.kind)
                              /\ a.kind \in {"resolve", "connect", "initialize", "execute"}
                              /\ S.conn[c].account # 0
  BY <1>1, HandOfConn DEF Linked, Links, LinkedAt, Typed
<1>3. ASSUME NEW M, NEW st, ConnWith(S, M, c, st),
             "ping" \notin Faults => st \in {"connected", "error"}
      PROVE  /\ Good(M, h, Spent, Ad) /\ CmdsSame(S, M) /\ M.conns = S.conns
             /\ M.conn[c].st = st /\ M.conn[c].account = S.conn[c].account
             /\ "ping" \notin Faults => Total(M, Spent, OfConn(c)) = 0
  <2>1. CalmAt(S, M, c)
    BY <1>3 DEF CalmAt, ConnWith
  <2>2. Good(M, h, Spent, Ad) /\ ("ping" \notin Faults => Total(M, Spent, OfConn(c)) = 0)
    BY <2>1, CalmKeeps
  <2> QED BY <1>3, <2>1, <2>2 DEF CalmAt, ConnWith
<1>4. CASE a.exc # "none"
  <2>2. T = WithFailed(S, c, a)
    BY <1>4 DEF ConnOnAction, WithFailed, WithReset
  <2>3. S \in EngineStates /\ c \in ConnIds BY <1>1
  <2>4. ConnWith(S, T, c, "error")
    BY <2>2, <2>3, ResetThenFails
  <2> QED BY <1>3, <2>4
<1>5. CASE a.exc = "none" /\ a.kind \notin {"resolve", "connect"}
  <2> PICK st : st = IF S.conn[c].st \in {"initializing", "active"} THEN "connected" ELSE S.conn[c].st
    OBVIOUS
  <2>1. st \in ConnStates /\ S \in EngineStates /\ c \in ConnIds
    BY <1>1 DEF ConnStates
  <2>2. WithReset(S, c).conn[c].st = S.conn[c].st
    BY <2>1 DEF EngineStates, ConnRecords, WithReset
  <2>3. T = [WithReset(S, c) EXCEPT !.conn[c].st =
                IF @ \in {"initializing", "active"} THEN "connected" ELSE @]
    BY <1>5 DEF ConnOnAction, WithReset
  <2>4. T = WithState(S, c, st)
    BY <2>2, <2>3 DEF WithState
  <2>5. ConnWith(S, T, c, st)
    BY <2>1, <2>4, ResetThenState
  <2>6. "ping" \notin Faults => st \in {"connected", "error"}
    BY <1>2, <1>5 DEF During, StateDuring
  <2> QED BY <1>3, <2>5, <2>6
<1>6. CASE a.exc = "none" /\ a.kind \in {"resolve", "connect"}
  <2> PICK M : M = WithState(S, c, "connected")
    OBVIOUS
  <2>1. ConnWith(S, M, c, "connected")
    <3>1. "connected" \in ConnStates /\ S \in EngineStates /\ c \in ConnIds
      BY <1>1 DEF ConnStates
    <3> QED BY <3>1, ResetThenState, Zenon
  <2>2. /\ Good(M, h, Spent, Ad) /\ CmdsSame(S, M) /\ M.conns = S.conns
        /\ M.conn[c].st = "connected" /\ M.conn[c].account = S.conn[c].account
        /\ "ping" \notin Faults => Total(M, Spent, OfConn(c)) = 0
    BY <1>3, <2>1
  <2> PICK kind : kind = IF a.kind = "resolve" THEN "connect" ELSE "initialize"
    OBVIOUS
  <2>3. kind \in ConnKinds /\ kind # "execute" /\ kind \notin {"ping", "disconnect"}
        /\ kind # "ping" /\ c \in ConnIds
    BY <1>1 DEF ConnKinds
  <2>4. T = ConnSubmit(M, c, ConnAction(kind, c))
    <3>1. T = ConnSubmit(WithReset(S, c), c, ConnAction(kind, c))
      BY <1>6 DEF ConnOnAction, WithReset
    <3> QED BY <2>3, <3>1, SubmitForgetsState
  <2> PICK f : f = Spent
    OBVIOUS
  <2>5. MayChore(M, f, c, kind)
    BY <1>2, <2>2, <2>3 DEF MayChore
  <2>6. Good(M, h, f, Ad) BY <2>2
  <2>7. Good(T, h, f, Ad) /\ CmdsSame(M, T) /\ T.conns = M.conns
        /\ T.conn[c].st = StateDuring(kind, M.conn[c].st)
    BY <2>3, <2>4, <2>5, <2>6, ChoreSubmitted DEF Chored
  <2>8. T.conn[c].st # "connected"
    BY <2>7 DEF StateDuring
  <2> QED BY <2>2, <2>7, <2>8 DEF CmdsSame, TasksSame
<1> QED BY <1>4, <1>5, <1>6

\* A cmdlist nobody executes, whose articles nobody else claims.
Spare(S, h, k) ==
    /\ Total(S, h, Execs(k)) = 0 /\ S.cl[k].task # 0 /\ S.cl[k].account # 0
    /\ Claim(S, k)
    /\ \A l \in Out(S, h) : l # k => Apart(S, k, l) /\ Apart(S, l, k)

\* Cmdlist k, and only it, is queued or executed.
Taken(S, T, h, k) ==
    /\ T.tasks = S.tasks /\ T.task = S.task
    /\ \A l \in CmdIds : l # k => T.cl[l] = S.cl[l]
    /\ T.cl[k].task = S.cl[k].task /\ T.cl[k].commands = S.cl[k].commands
    /\ ToSet(T.cmds) \subseteq ToSet(S.cmds) \cup {k}
    /\ \A t \in Tasks :
         /\ Total(T, h, OfTask(t)) = Total(S, h, OfTask(t))
         /\ \A i \in Nat, w \in JobKinds :
              Total(T, h, JobsOf(t, i, w)) = Total(S, h, JobsOf(t, i, w))
    /\ \A l \in CmdIds : l # k =>
         /\ Total(T, h, Execs(l)) = Total(S, h, Execs(l))
         /\ \A t \in Tasks : Total(T, h, ExecsFor(l, t)) = Total(S, h, ExecsFor(l, t))
    /\ \A t \in Tasks : t # S.cl[k].task =>
         Total(T, h, ExecsFor(k, t)) = Total(S, h, ExecsFor(k, t))
    /\ Total(T, h, Execs(k)) <= 1
    /\ Total(T, h, Execs(k)) # 0 => T.cl[k].conn # 0
    /\ T.num_pending_actions - S.num_pending_actions
         = Total(T, h, Action) - Total(S, h, Action)

LEMMA TakenKeeps ==
    ASSUME EngineAssumption, NEW S \in EngineStates, NEW T \in EngineStates,
           IsFiniteSet(S.jobs), IsFiniteSet(T.jobs), NEW h, NEW Ad, Work(S, h, Ad),
           NEW k \in CmdIds, Spare(S, h, k), Taken(S, T, h, k)
    PROVE  Work(T, h, Ad)
<1>0. Countable(S) /\ Countable(T) /\ 0 \notin Tasks
  BY DEF Countable, EngineStates, EngineAssumption
<1>1. Live(T) = Live(S) /\ Live(S) \subseteq Tasks /\ T.task = S.task
  BY ContainsFacts DEF Taken, Live, EngineStates
<1>2. ASSUME NEW t \in Tasks
      PROVE  /\ Total(T, h, OfTask(t)) = Total(S, h, OfTask(t))
             /\ \A i \in Nat, w \in JobKinds :
                  Total(T, h, JobsOf(t, i, w)) = Total(S, h, JobsOf(t, i, w))
  BY DEF Taken
<1>3. Counted(T, h)
  <2>1. T.num_pending_actions = Total(T, h, Action)
    <3>1. /\ Total(T, h, Action) \in Nat /\ Total(S, h, Action) \in Nat
          /\ T.num_pending_actions \in Int /\ S.num_pending_actions = Total(S, h, Action)
      BY <1>0, TotalFacts DEF EngineStates, Work, Counted
    <3>2. T.num_pending_actions - S.num_pending_actions = Total(T, h, Action) - Total(S, h, Action)
      BY DEF Taken
    <3> QED BY ONLY <3>1, <3>2
  <2> QED BY <2>1, <1>1, <1>2 DEF Counted, Work
<1>4. DecodedOnce(T, h)
  <2>1. "decode" \in JobKinds /\ {"binary", "text"} \subseteq JobKinds
    BY DEF JobKinds
  <2>2. ASSUME NEW t \in Tasks, NEW i \in Nat, NEW w \in {"binary", "text"}
        PROVE  Total(T, h, JobsOf(t, i, "decode")) + Total(T, h, JobsOf(t, i, w)) <= 1
    <3>1. Total(S, h, JobsOf(t, i, "decode")) + Total(S, h, JobsOf(t, i, w)) <= 1
      BY DEF Work, DecodedOnce
    <3>2. /\ Total(T, h, JobsOf(t, i, "decode")) = Total(S, h, JobsOf(t, i, "decode"))
          /\ Total(T, h, JobsOf(t, i, w)) = Total(S, h, JobsOf(t, i, w))
      BY <1>2, <2>1
    <3> QED BY <3>1, <3>2
  <2>3. ASSUME NEW t \in Live(T), NEW i \in Nat, NEW w \in JobKinds, Total(T, h, JobsOf(t, i, w)) # 0
        PROVE  i \in T.task[t].decoded
    <3>1. Total(S, h, JobsOf(t, i, w)) # 0 BY <1>1, <1>2, <2>3
    <3> QED BY <3>1, <1>1 DEF Work, DecodedOnce
  <2> QED BY <2>2, <2>3 DEF DecodedOnce
<1>5. ASSUME NEW l \in CmdIds
      PROVE  T.cl[l].task = S.cl[l].task /\ T.cl[l].commands = S.cl[l].commands
  BY DEF Taken
<1>6. ExecutedOnce(T, h)
  <2>1. ASSUME NEW l \in CmdIds
        PROVE  /\ Total(T, h, Execs(l)) <= 1
               /\ Total(T, h, Execs(l)) # 0 => T.cl[l].conn # 0 /\ T.cl[l].task # 0
               /\ \A t \in Tasks : t # T.cl[l].task => Total(T, h, ExecsFor(l, t)) = 0
    <3>1. CASE l # k
      BY <3>1, <1>5 DEF Work, ExecutedOnce, Taken
    <3>2. CASE l = k
      BY <3>2, <1>5 DEF Work, ExecutedOnce, Taken, Spare
    <3> QED BY <3>1, <3>2
  <2>2. \A l \in ToSet(T.cmds) : T.cl[l].task # 0
    <3>1. ToSet(T.cmds) \subseteq ToSet(S.cmds) \cup {k} /\ ToSet(S.cmds) \subseteq CmdIds
      BY ContainsFacts DEF Taken, EngineStates
    <3> QED BY <3>1, <1>5 DEF Work, ExecutedOnce, Spare
  <2> QED BY <2>1, <2>2 DEF ExecutedOnce
<1>7. Claimed(T, h)
  <2>1. ASSUME NEW l \in Out(T, h), l # k
        PROVE  l \in CmdIds /\ l \in Out(S, h)
    BY <2>1, ContainsFacts DEF Out, Taken
  <2>2. ASSUME NEW l \in CmdIds, Claim(S, l) PROVE Claim(T, l)
    BY <1>1, <1>5, <2>2 DEF Claim, Claims
  <2>3. ASSUME NEW l \in CmdIds, NEW m \in CmdIds, Apart(S, l, m) PROVE Apart(T, l, m)
    BY <1>1, <1>5, <2>3 DEF Apart, Claims
  <2>4. \A t \in Live(T) : /\ IsInjective(T.task[t].articles)
                           /\ ToSet(T.task[t].articles) \cap T.task[t].decoded = {}
    BY <1>1 DEF Work, Claimed
  <2>5. \A l \in Out(T, h) : Claim(T, l)
    BY <2>1, <2>2 DEF Work, Claimed, Spare
  <2>6. ASSUME NEW l \in Out(T, h), NEW m \in Out(T, h), l # m PROVE Apart(T, l, m)
    <3>1. Apart(S, l, m)
      BY <2>1, <2>6 DEF Work, Claimed, Spare
    <3>2. l \in CmdIds /\ m \in CmdIds BY DEF Out
    <3> QED BY <3>1, <3>2, <2>3
  <2> QED BY <2>4, <2>5, <2>6 DEF Claimed
<1>8. Unknown(T, h, Ad)
  BY <1>1, <1>2, <1>5 DEF Work, Unknown
<1> QED BY <1>3, <1>4, <1>6, <1>7, <1>8 DEF Work

\* Enqueue leaves cmdlist k in cmds.
AsQueued(S, k) == [S EXCEPT !.cl[k].conn = 0, !.cmds = Append(@, k)]
QueuedAs(S, T, k) ==
    /\ TasksSame(S, T) /\ T.conns = S.conns /\ T.conn = S.conn
    /\ T.queue = S.queue /\ T.jobs = S.jobs /\ T.done = S.done
    /\ T.num_pending_actions = S.num_pending_actions
    /\ \A l \in CmdIds : l # k => T.cl[l] = S.cl[l]
    /\ T.cl[k] = [S.cl[k] EXCEPT !.conn = 0]
    /\ T.cmds = Append(S.cmds, k)

LEMMA QueuedFacts ==
    ASSUME EngineAssumption, NEW S \in EngineStates, NEW k \in CmdIds,
           NEW T, T = AsQueued(S, k)
    PROVE  T \in EngineStates /\ QueuedAs(S, T, k)
<1>1. /\ S.cl \in [CmdIds -> CmdRecords] /\ S.cl[k] \in CmdRecords /\ S.cmds \in Seq(CmdIds)
  BY DEF EngineStates
<1>2. [S.cl[k] EXCEPT !.conn = 0] \in CmdRecords
  BY <1>1 DEF CmdRecords
<1>3. [S.cl EXCEPT ![k] = [S.cl[k] EXCEPT !.conn = 0]] \in [CmdIds -> CmdRecords]
  BY <1>1, <1>2
<1>4. T = [S EXCEPT !.cl = [S.cl EXCEPT ![k] = [S.cl[k] EXCEPT !.conn = 0]],
                    !.cmds = Append(S.cmds, k)]
  BY DEF AsQueued
<1>5. Append(S.cmds, k) \in Seq(CmdIds) BY <1>1
<1>6. T \in EngineStates
  BY <1>3, <1>4, <1>5 DEF EngineStates
<1>7. T.cl = [S.cl EXCEPT ![k] = [S.cl[k] EXCEPT !.conn = 0]] /\ T.cmds = Append(S.cmds, k)
  BY <1>4 DEF EngineStates
<1>8. T.cl[k] = [S.cl[k] EXCEPT !.conn = 0] /\ \A l \in CmdIds : l # k => T.cl[l] = S.cl[l]
  BY <1>1, <1>7
<1>9. TasksSame(S, T) /\ T.conns = S.conns /\ T.conn = S.conn
      /\ T.queue = S.queue /\ T.jobs = S.jobs /\ T.done = S.done
      /\ T.num_pending_actions = S.num_pending_actions
  BY <1>4 DEF EngineStates, TasksSame
<1> QED BY <1>6, <1>7, <1>8, <1>9 DEF QueuedAs

LEMMA QueuedKeeps ==
    ASSUME EngineAssumption, NEW S, NEW h, NEW g, NEW Ad, Good(S, h, g, Ad), NEW k \in CmdIds,
           Spare(S, h, k), NEW T, T = AsQueued(S, k)
    PROVE  Good(T, h, g, Ad) /\ Spare(T, h, k) /\ QueuedAs(S, T, k)
<1>1. S \in EngineStates /\ IsFiniteSet(S.jobs) /\ Owned(S) /\ Work(S, h, Ad)
  BY DEF Good, Typed
<1>2. T \in EngineStates /\ QueuedAs(S, T, k)
  BY <1>1, QueuedFacts
<1>3. \A f, P : Total(T, f, P) = Total(S, f, P)
  <2>1. T.queue = S.queue /\ T.jobs = S.jobs /\ T.done = S.done BY <1>2 DEF QueuedAs
  <2> QED BY <2>1, TotalSame
<1>4. S.cl[k] \in CmdRecords /\ S.cmds \in Seq(CmdIds) /\ T.cmds \in Seq(CmdIds)
  BY <1>1, <1>2 DEF EngineStates
<1>5. /\ T.cl[k].task = S.cl[k].task /\ T.cl[k].commands = S.cl[k].commands
      /\ T.cl[k].buffers = S.cl[k].buffers /\ T.cl[k].account = S.cl[k].account
  BY <1>2, <1>4 DEF QueuedAs, CmdRecords
<1>6. ToSet(T.cmds) = ToSet(S.cmds) \cup {k}
  <2>1. T.cmds = Append(S.cmds, k) BY <1>2 DEF QueuedAs
  <2> QED BY <2>1, <1>4, AppendSet
<1>7. T.tasks = S.tasks /\ T.task = S.task /\ T.num_pending_actions = S.num_pending_actions
      /\ T.jobs = S.jobs
  BY <1>2 DEF QueuedAs, TasksSame
<1>8. Taken(S, T, h, k)
  <2>1. Total(T, h, Execs(k)) = 0 BY <1>3 DEF Spare
  <2>2. T.num_pending_actions - S.num_pending_actions = Total(T, h, Action) - Total(S, h, Action)
    <3>1. Countable(S) /\ S.num_pending_actions \in Int BY <1>1 DEF EngineStates, Countable
    <3>2. Total(S, h, Action) \in Nat BY <3>1, TotalFacts
    <3>3. Total(T, h, Action) = Total(S, h, Action) BY <1>3
    <3> QED BY ONLY <1>7, <3>1, <3>2, <3>3
  <2>3. \A l \in CmdIds : l # k => T.cl[l] = S.cl[l]
    BY <1>2 DEF QueuedAs
  <2> QED BY <1>3, <1>5, <1>6, <1>7, <2>1, <2>2, <2>3 DEF Taken
<1>9. Work(T, h, Ad)
  BY <1>1, <1>2, <1>7, <1>8, TakenKeeps
<1>10. Typed(T)
  <2>1. \A l \in CmdIds : T.cl[l].buffers = S.cl[l].buffers /\ T.cl[l].commands = S.cl[l].commands
                          /\ T.cl[l].task = S.cl[l].task /\ T.cl[l].account = S.cl[l].account
    BY <1>2, <1>5 DEF QueuedAs
  <2> QED BY <1>1, <1>2, <1>7, <2>1 DEF Typed, Owned
<1>11. Linked(T, g)
  <2>1. Links(S, g) => Links(T, g)
    BY <1>1, <1>2, LinksSame DEF QueuedAs
  <2> QED BY <2>1 DEF Good, Linked
<1>12. Spare(T, h, k)
  <2>1. Live(T) = Live(S) BY <1>7 DEF Live
  <2>2. \A l \in CmdIds : T.cl[l].commands = S.cl[l].commands /\ T.cl[l].task = S.cl[l].task
    BY <1>2, <1>5 DEF QueuedAs
  <2>3. ASSUME NEW l \in Out(T, h), l # k PROVE l \in Out(S, h) /\ l \in CmdIds
    BY <1>2, <1>3, <1>6, <2>3 DEF Out, QueuedAs
  <2>4. ASSUME NEW l \in Out(T, h), l # k PROVE Apart(T, k, l) /\ Apart(T, l, k)
    <3>1. Apart(S, k, l) /\ Apart(S, l, k) /\ l \in CmdIds BY <2>3, <2>4 DEF Spare
    <3> QED BY <3>1, <2>1, <2>2 DEF Apart, Claims
  <2>5. Claim(T, k)
    <3>1. Claim(S, k) BY DEF Spare
    <3> QED BY <3>1, <1>7, <2>1, <2>2 DEF Claim, Claims
  <2> QED BY <1>3, <1>5, <2>4, <2>5 DEF Spare
<1> QED BY <1>2, <1>9, <1>10, <1>11, <1>12 DEF Good

\* Cmdlist k is executed by connection c.
ExecutedBy(S, T, c, k) ==
    /\ TasksSame(S, T) /\ T.conns = S.conns /\ T.cmds = S.cmds
    /\ \A l \in CmdIds : l # k => T.cl[l] = S.cl[l]
    /\ T.cl[k] = [S.cl[k] EXCEPT !.conn = c]
    /\ Submits(S, T, c, ExecuteAction(c, k, S.cl[k].task))
    /\ T.num_pending_actions = S.num_pending_actions + 1
    /\ \A d \in ConnIds : d # c => T.conn[d] = S.conn[d]
    /\ T.conn[c].st = "active" /\ T.conn[c].account = S.conn[c].account

LEMMA ExecuteActionFacts ==
    ASSUME EngineAssumption, NEW c \in ConnIds, NEW k \in CmdIds, NEW t \in Tasks
    PROVE  /\ ExecuteAction(c, k, t) \in ConnActions
           /\ ExecuteAction(c, k, t).conn = c /\ ExecuteAction(c, k, t).kind = "execute"
           /\ ExecuteAction(c, k, t).cl = k /\ ExecuteAction(c, k, t).task = t
  BY DEF ExecuteAction, ConnAction, ConnActions, Action, ActionKinds, ConnKinds

LEMMA ExecutedKeeps ==
    ASSUME EngineAssumption, NEW S, NEW h, NEW g, NEW Ad, Good(S, h, g, Ad), NEW k \in CmdIds,
           Spare(S, h, k), NEW c \in ToSet(S.conns), S.conn[c].st = "connected",
           NEW T \in EngineStates, ExecutedBy(S, T, c, k)
    PROVE  Good(T, h, g, Ad)
<1>1. S \in EngineStates /\ IsFiniteSet(S.jobs) /\ Owned(S) /\ Work(S, h, Ad)
  BY DEF Good, Typed
<1>2. /\ c \in ConnIds /\ 0 \notin ConnIds /\ S.cl[k] \in CmdRecords /\ S.cl[k].task \in Tasks
      /\ 0 \notin Tasks
  <2>1. c \in ConnIds /\ S.cl[k] \in CmdRecords /\ S.cl[k].task # 0
    BY <1>1, ContainsFacts DEF EngineStates, Spare
  <2> QED BY <2>1 DEF CmdRecords, EngineAssumption
<1> PICK u : u = S.cl[k].task
  OBVIOUS
<1> PICK a : a = ExecuteAction(c, k, u)
  OBVIOUS
<1>3. a \in ConnActions /\ a.conn = c /\ a.kind = "execute" /\ a.cl = k /\ a.task = S.cl[k].task
      /\ a \in Action
  <2>1. u \in Tasks BY <1>2
  <2>2. a \in ConnActions /\ a.conn = c /\ a.kind = "execute" /\ a.cl = k /\ a.task = u
    <3>1. c \in ConnIds /\ k \in CmdIds /\ u \in Tasks BY <1>2, <2>1
    <3> QED BY <3>1, ExecuteActionFacts
  <2> QED BY <2>2 DEF ConnActions
<1>4. Submits(S, T, c, a)
  BY DEF ExecutedBy
<1>5. \A f, P : Total(T, f, P) = Total(S, f, P) + One(a, P) /\ Total(S, f, P) \in Nat
  <2>1. Countable(S) BY <1>1 DEF Countable, EngineStates
  <2>2. ASSUME NEW f, NEW P PROVE Total(T, f, P) = Total(S, f, P) + One(a, P)
    BY <1>2, <1>3, <1>4, <2>1, TotalSubmits
  <2>3. ASSUME NEW f, NEW P PROVE Total(S, f, P) \in Nat
    BY <2>1, TotalFacts
  <2> QED BY <2>2, <2>3
<1>6. \A t \in Tasks : /\ One(a, OfTask(t)) = 0
                       /\ \A i \in Nat, w \in JobKinds : One(a, JobsOf(t, i, w)) = 0
  BY <1>2, <1>3 DEF One, OfTask, JobsOf
<1>7. \A l \in CmdIds : l # k => /\ One(a, Execs(l)) = 0
                                 /\ \A t \in Tasks : One(a, ExecsFor(l, t)) = 0
  BY <1>3 DEF One, Execs, ExecsFor
<1>8. \A t \in Tasks : t # S.cl[k].task => One(a, ExecsFor(k, t)) = 0
  BY <1>3 DEF One, ExecsFor
<1>9. One(a, Execs(k)) = 1 /\ One(a, Action) = 1
  BY <1>3 DEF One, Execs
<1>10. /\ T.cl[k].task = S.cl[k].task /\ T.cl[k].commands = S.cl[k].commands
       /\ T.cl[k].conn = c /\ T.cl[k].buffers = S.cl[k].buffers
       /\ T.cl[k].account = S.cl[k].account
  BY <1>2 DEF ExecutedBy, CmdRecords
<1>11. T.tasks = S.tasks /\ T.task = S.task /\ T.jobs = S.jobs /\ T.cmds = S.cmds
       /\ T.num_pending_actions = S.num_pending_actions + 1
  BY DEF ExecutedBy, TasksSame, Submits
<1>12. Taken(S, T, h, k)
  <2>1. \A l \in CmdIds : l # k => T.cl[l] = S.cl[l]
    BY DEF ExecutedBy
  <2>2. \A t \in Tasks : /\ Total(T, h, OfTask(t)) = Total(S, h, OfTask(t))
                         /\ \A i \in Nat, w \in JobKinds :
                              Total(T, h, JobsOf(t, i, w)) = Total(S, h, JobsOf(t, i, w))
    BY <1>5, <1>6
  <2>3. \A l \in CmdIds : l # k =>
          /\ Total(T, h, Execs(l)) = Total(S, h, Execs(l))
          /\ \A t \in Tasks : Total(T, h, ExecsFor(l, t)) = Total(S, h, ExecsFor(l, t))
    BY <1>5, <1>7
  <2>4. \A t \in Tasks : t # S.cl[k].task =>
          Total(T, h, ExecsFor(k, t)) = Total(S, h, ExecsFor(k, t))
    BY <1>5, <1>8
  <2>5. Total(T, h, Execs(k)) = 1
    BY <1>5, <1>9 DEF Spare
  <2>6. T.num_pending_actions - S.num_pending_actions = Total(T, h, Action) - Total(S, h, Action)
    <3>1. /\ S.num_pending_actions \in Int /\ Total(S, h, Action) \in Nat
          /\ Total(T, h, Action) = Total(S, h, Action) + 1
      BY <1>1, <1>5, <1>9 DEF EngineStates
    <3> QED BY ONLY <3>1, <1>11
  <2>7. T.cl[k].conn # 0 BY <1>2, <1>10
  <2> QED BY <1>10, <1>11, <2>1, <2>2, <2>3, <2>4, <2>5, <2>6, <2>7 DEF Taken
<1>13. Work(T, h, Ad)
  BY <1>1, <1>11, <1>12, TakenKeeps
<1>14. Typed(T)
  <2>1. \A l \in CmdIds : T.cl[l].buffers = S.cl[l].buffers /\ T.cl[l].commands = S.cl[l].commands
                          /\ T.cl[l].task = S.cl[l].task /\ T.cl[l].account = S.cl[l].account
    BY <1>10 DEF ExecutedBy
  <2> QED BY <1>1, <1>11, <2>1 DEF Typed, Owned
<1>15. ASSUME Links(S, g) PROVE Links(T, g)
  <2>1. LinkedAt(S, g, c) /\ IsInjective(S.conns) BY <1>15 DEF Links
  <2>2. S.conn[c].account # 0 /\ Total(S, g, OfConn(c)) = 0
    BY <2>1 DEF LinkedAt
  <2>3. LinksReady(S, g, T, c, a)
    BY <1>3, <2>1, <2>2 DEF LinksReady, ExecutedBy, During, StateDuring
  <2> QED BY <1>1, <1>2, <1>3, <1>4, <1>15, <2>3, LinksSubmit
<1> QED BY <1>13, <1>14, <1>15 DEF Good, Linked

\* The cmdlist knows its connection.
WithConn(S, k, c) == [S EXCEPT !.cl[k].conn = c]
LEMMA WithConnFacts ==
    ASSUME NEW S \in EngineStates, NEW k \in CmdIds, NEW c \in ConnIds, NEW T, T = WithConn(S, k, c)
    PROVE  /\ T \in EngineStates /\ TasksSame(S, T)
           /\ T.cmds = S.cmds /\ T.conns = S.conns /\ T.conn = S.conn
           /\ T.queue = S.queue /\ T.jobs = S.jobs /\ T.done = S.done
           /\ T.num_pending_actions = S.num_pending_actions
           /\ \A l \in CmdIds : l # k => T.cl[l] = S.cl[l]
           /\ T.cl[k] = [S.cl[k] EXCEPT !.conn = c] /\ T.cl[k].task = S.cl[k].task
<1>1. S.cl \in [CmdIds -> CmdRecords] /\ S.cl[k] \in CmdRecords
  BY DEF EngineStates
<1>2. [S.cl[k] EXCEPT !.conn = c] \in CmdRecords
  BY <1>1 DEF CmdRecords
<1>3. [S.cl EXCEPT ![k] = [S.cl[k] EXCEPT !.conn = c]] \in [CmdIds -> CmdRecords]
  BY <1>1, <1>2
<1>4. T = [S EXCEPT !.cl = [S.cl EXCEPT ![k] = [S.cl[k] EXCEPT !.conn = c]]]
  BY DEF WithConn
<1>5. T \in EngineStates
  BY <1>3, <1>4 DEF EngineStates
<1>6. T.cl = [S.cl EXCEPT ![k] = [S.cl[k] EXCEPT !.conn = c]]
  BY <1>4 DEF EngineStates
<1>7. T.cl[k] = [S.cl[k] EXCEPT !.conn = c] /\ \A l \in CmdIds : l # k => T.cl[l] = S.cl[l]
  BY <1>1, <1>6
<1>8. T.cl[k].task = S.cl[k].task
  BY <1>1, <1>7 DEF CmdRecords
<1>9. TasksSame(S, T) /\ T.cmds = S.cmds /\ T.conns = S.conns /\ T.conn = S.conn
      /\ T.queue = S.queue /\ T.jobs = S.jobs /\ T.done = S.done
      /\ T.num_pending_actions = S.num_pending_actions
  BY <1>4 DEF EngineStates, TasksSame
<1> QED BY <1>5, <1>7, <1>8, <1>9

\* conn::execute, which tells the cmdlist its connection before (enqueue) or
\* after (pump).
LEMMA ExecuteAfter ==
    ASSUME EngineAssumption, NEW S \in EngineStates, NEW k \in CmdIds, NEW c \in ConnIds,
           S.cl[k].task # 0, NEW T, T = ConnExecute(WithConn(S, k, c), c, k)
    PROVE  T \in EngineStates /\ ExecutedBy(S, T, c, k)
<1> PICK M : M = WithConn(S, k, c)
  OBVIOUS
<1>1. /\ M \in EngineStates /\ TasksSame(S, M)
      /\ M.cmds = S.cmds /\ M.conns = S.conns /\ M.conn = S.conn
      /\ M.queue = S.queue /\ M.jobs = S.jobs /\ M.done = S.done
      /\ M.num_pending_actions = S.num_pending_actions
      /\ \A l \in CmdIds : l # k => M.cl[l] = S.cl[l]
      /\ M.cl[k] = [S.cl[k] EXCEPT !.conn = c] /\ M.cl[k].task = S.cl[k].task
  BY WithConnFacts
<1> PICK u : u = S.cl[k].task
  OBVIOUS
<1>2. c \in ConnIds /\ k \in CmdIds /\ u \in Tasks
  BY DEF EngineStates, CmdRecords
<1> PICK a : a = ExecuteAction(c, k, u)
  OBVIOUS
<1>3. a \in ConnActions /\ a.kind = "execute"
  BY ONLY EngineAssumption, <1>2, a = ExecuteAction(c, k, u), ExecuteActionFacts
<1>4. T = ConnSubmit(M, c, a)
  BY <1>1 DEF ConnExecute
<1>5. SentBy(M, T, c, a)
  BY <1>1, <1>3, <1>4, SubmitFacts
<1>6. T.conn[c].st = "active"
  BY <1>3, <1>5 DEF SentBy, StateDuring
<1>7. Submits(S, T, c, a)
  BY <1>1, <1>5 DEF SentBy, Sent, Submits
<1>8. /\ T \in EngineStates /\ TasksSame(S, T) /\ T.conns = S.conns /\ T.cmds = S.cmds
      /\ T.cl = M.cl /\ T.num_pending_actions = S.num_pending_actions + 1
      /\ \A d \in ConnIds : d # c => T.conn[d] = S.conn[d]
      /\ T.conn[c].account = S.conn[c].account
  BY <1>1, <1>5 DEF SentBy, Sent, CmdsSame, TasksSame
<1> QED BY <1>1, <1>6, <1>7, <1>8 DEF ExecutedBy

LEMMA ExecuteBefore ==
    ASSUME EngineAssumption, NEW S \in EngineStates, NEW k \in CmdIds, NEW c \in ConnIds,
           S.cl[k].task # 0, NEW T, T = WithConn(ConnExecute(S, c, k), k, c)
    PROVE  T \in EngineStates /\ ExecutedBy(S, T, c, k)
<1> PICK u : u = S.cl[k].task
  OBVIOUS
<1>1. c \in ConnIds /\ k \in CmdIds /\ u \in Tasks
  BY DEF EngineStates, CmdRecords
<1> PICK a : a = ExecuteAction(c, k, u)
  OBVIOUS
<1>2. a \in ConnActions /\ a.kind = "execute"
  BY <1>1, ExecuteActionFacts
<1> PICK M : M = ConnExecute(S, c, k)
  OBVIOUS
<1>3. SentBy(S, M, c, a)
  <2>1. M = ConnSubmit(S, c, a) BY DEF ConnExecute
  <2> QED BY <1>2, <2>1, SubmitFacts
<1>4. /\ M \in EngineStates /\ TasksSame(S, M) /\ M.conns = S.conns /\ M.cmds = S.cmds
      /\ M.cl = S.cl /\ M.num_pending_actions = S.num_pending_actions + 1
      /\ \A d \in ConnIds : d # c => M.conn[d] = S.conn[d]
      /\ M.conn[c].account = S.conn[c].account /\ Submits(S, M, c, a)
  BY <1>3 DEF SentBy, Sent, CmdsSame
<1>5. M.conn[c].st = "active"
  BY <1>2, <1>3 DEF SentBy, StateDuring
<1>6. /\ T \in EngineStates /\ TasksSame(M, T)
      /\ T.cmds = M.cmds /\ T.conns = M.conns /\ T.conn = M.conn
      /\ T.queue = M.queue /\ T.jobs = M.jobs /\ T.done = M.done
      /\ T.num_pending_actions = M.num_pending_actions
      /\ \A l \in CmdIds : l # k => T.cl[l] = M.cl[l]
      /\ T.cl[k] = [M.cl[k] EXCEPT !.conn = c]
  BY <1>4, WithConnFacts
<1>7. Submits(S, T, c, a)
  BY <1>4, <1>6 DEF Submits
<1>8. TasksSame(S, T)
  BY <1>4, <1>6 DEF TasksSame
<1> QED BY <1>4, <1>5, <1>6, <1>7, <1>8 DEF ExecutedBy

LEMMA EnqueueKeeps ==
    ASSUME EngineAssumption, NEW S, NEW h, NEW g, NEW Ad, Good(S, h, g, Ad), NEW k \in CmdIds,
           Spare(S, h, k), NEW T, T = Enqueue(S, k)
    PROVE  Good(T, h, g, Ad) /\ TasksSame(S, T)
<1> PICK Q : Q = AsQueued(S, k)
  OBVIOUS
<1>1. Good(Q, h, g, Ad) /\ Spare(Q, h, k) /\ QueuedAs(S, Q, k)
  BY QueuedKeeps
<1>2. S \in EngineStates /\ Q \in EngineStates
  BY <1>1 DEF Good, Typed
<1>3. TasksSame(S, Q) /\ Q.conns = S.conns /\ Q.conn = S.conn
  BY <1>1 DEF QueuedAs
<1> PICK acc : acc = S.cl[k].account
  OBVIOUS
<1>4. acc \in Accounts
  BY <1>2 DEF Spare, EngineStates, CmdRecords
<1> PICK ready : ready = {i \in ConnsOf(S, acc) : IsReady(S, S.conns[i])}
  OBVIOUS
<1>5. \/ T = Q
      \/ T = ConnCreate(Q, acc)
      \/ ready # {} /\ T = ConnExecute(WithConn(Q, k, S.conns[Min(ready)]), S.conns[Min(ready)], k)
  BY DEF Enqueue, AsQueued, WithConn
<1>6. CASE T = Q
  BY <1>1, <1>3, <1>6
<1>7. CASE T = ConnCreate(Q, acc)
  <2>1. Good(T, h, g, Ad) /\ CmdsSame(Q, T)
    BY <1>1, <1>4, <1>7, CreateKeeps
  <2> QED BY <2>1, <1>3 DEF CmdsSame, TasksSame
<1>8. CASE ready # {} /\ T = ConnExecute(WithConn(Q, k, S.conns[Min(ready)]), S.conns[Min(ready)], k)
  <2>1. S.conns \in Seq(ConnIds) /\ DOMAIN S.conns = 1 .. Len(S.conns) /\ Len(S.conns) \in Nat
    BY <1>2 DEF EngineStates
  <2>2. Min(ready) \in ready
    <3>1. ready \in SUBSET Nat BY <2>1 DEF ConnsOf
    <3> QED BY <1>8, <3>1, MinFacts, Zenon
  <2> PICK c : c = S.conns[Min(ready)]
    BY ZenonT(60)
  <2>3. c \in ToSet(S.conns) /\ c \in ConnIds /\ S.conn[c].st = "connected"
    <3>1. Min(ready) \in 1 .. Len(S.conns) /\ IsReady(S, c)
      BY <2>1, <2>2, ZenonT(60) DEF ConnsOf
    <3>2. ToSet(S.conns) \subseteq ConnIds /\ \A i \in 1 .. Len(S.conns) : S.conns[i] \in ToSet(S.conns)
      BY <2>1, ContainsFacts, SMTT(30)
    <3>3. S.conn[c].st = "connected" BY <3>1 DEF IsReady
    <3>4. c \in ToSet(S.conns) BY <3>1, <3>2
    <3> QED BY <3>2, <3>3, <3>4, SMTT(30)
  <2>4. Q.cl[k].task # 0 BY <1>1 DEF Spare
  <2>5. T = ConnExecute(WithConn(Q, k, c), c, k) BY <1>8, SMTT(30)
  <2>6. T \in EngineStates /\ ExecutedBy(Q, T, c, k)
    BY <1>2, <2>3, <2>4, <2>5, ExecuteAfter
  <2>7. c \in ToSet(Q.conns) /\ Q.conn[c].st = "connected"
    BY <1>3, <2>3
  <2>8. Good(T, h, g, Ad)
    BY <1>1, <2>6, <2>7, ExecutedKeeps
  <2>9. TasksSame(Q, T) BY <2>6 DEF ExecutedBy
  <2> QED BY <1>3, <2>8, <2>9 DEF TasksSame
<1> QED BY <1>5, <1>6, <1>7, <1>8

-----------------------------------------------------------------------------
(* Tasks. *)

\* Only task t may have changed its state, and no list of tasks or batch has.
TaskFrame(S, T, t) ==
    /\ T.tasks = S.tasks /\ T.batch = S.batch
    /\ \A u \in Tasks : u # t => T.task[u].st = S.task[u].st

\* Of a cmdlist only its bits may have changed, and which account it is for.
SameCmd(C, D) ==
    /\ D.task = C.task /\ D.conn = C.conn
    /\ D.commands = C.commands /\ D.buffers = C.buffers
    /\ C.account # 0 => D.account # 0

\* Task t has changed without anything being asked for or submitted.
Quiet(S, T, t) ==
    /\ T \in EngineStates /\ TaskFrame(S, T, t)
    /\ T.conns = S.conns /\ T.conn = S.conn
    /\ T.queue = S.queue /\ T.jobs = S.jobs /\ T.done = S.done
    /\ T.num_pending_actions = S.num_pending_actions
    /\ \A u \in Tasks : u # t => T.task[u] = S.task[u]
    /\ T.task[t].articles = S.task[t].articles /\ T.task[t].decoded = S.task[t].decoded
    /\ T.task[t].nact = S.task[t].nact
    /\ S.task[t].missing \subseteq Article(t) => T.task[t].missing \subseteq Article(t)
    /\ \A k \in CmdIds : SameCmd(S.cl[k], T.cl[k])
    /\ ToSet(T.cmds) \subseteq ToSet(S.cmds)

LEMMA QuietTwice ==
    ASSUME NEW S, NEW T, NEW U, NEW t, Quiet(S, T, t), Quiet(T, U, t)
    PROVE  Quiet(S, U, t)
<1>1. TaskFrame(S, U, t)
  BY DEF Quiet, TaskFrame
<1>2. \A k \in CmdIds : SameCmd(S.cl[k], U.cl[k])
  BY DEF Quiet, SameCmd
<1>3. ToSet(U.cmds) \subseteq ToSet(S.cmds)
  BY DEF Quiet
<1> QED BY <1>1, <1>2, <1>3 DEF Quiet

LEMMA QuietNever ==
    ASSUME NEW S \in EngineStates, NEW t
    PROVE  Quiet(S, S, t)
  BY DEF Quiet, TaskFrame, SameCmd

LEMMA QuietKeeps ==
    ASSUME EngineAssumption, NEW S, NEW h, NEW g, NEW Ad, Good(S, h, g, Ad), NEW t \in Tasks,
           NEW T, Quiet(S, T, t)
    PROVE  /\ Good(T, h, g, Ad)
           /\ \A f, P : Total(T, f, P) = Total(S, f, P)
           /\ Out(T, h) \subseteq Out(S, h)
           /\ \A k \in CmdIds : Spare(S, h, k) => Spare(T, h, k)
<1>1. S \in EngineStates /\ IsFiniteSet(S.jobs) /\ Owned(S) /\ Work(S, h, Ad)
  BY DEF Good, Typed
<1>2. /\ T \in EngineStates /\ T.queue = S.queue /\ T.jobs = S.jobs /\ T.done = S.done
      /\ T.num_pending_actions = S.num_pending_actions /\ Live(T) = Live(S)
      /\ ToSet(T.cmds) \subseteq ToSet(S.cmds)
  BY DEF Quiet, TaskFrame, Live
<1>3. ASSUME NEW f, NEW P PROVE Total(T, f, P) = Total(S, f, P)
  BY <1>2, TotalSame
<1>4. ASSUME NEW u \in Tasks
      PROVE  /\ T.task[u].articles = S.task[u].articles /\ T.task[u].decoded = S.task[u].decoded
             /\ T.task[u].nact = S.task[u].nact
             /\ S.task[u].missing \subseteq Article(u) => T.task[u].missing \subseteq Article(u)
  <2>1. CASE u = t BY <2>1 DEF Quiet
  <2>2. CASE u # t BY <2>2 DEF Quiet
  <2> QED BY <2>1, <2>2
<1>5. ASSUME NEW k \in CmdIds
      PROVE  /\ T.cl[k].task = S.cl[k].task /\ T.cl[k].conn = S.cl[k].conn
             /\ T.cl[k].commands = S.cl[k].commands /\ T.cl[k].buffers = S.cl[k].buffers
             /\ S.cl[k].account # 0 => T.cl[k].account # 0
  BY DEF Quiet, SameCmd
<1>6. Live(S) \subseteq Tasks
  BY <1>1, ContainsFacts DEF Live, EngineStates
<1>7. Work(T, h, Ad)
  <2>1. T.num_pending_actions - S.num_pending_actions = Total(T, h, Action) - Total(S, h, Action)
    <3>1. Countable(S) /\ S.num_pending_actions \in Int BY <1>1 DEF EngineStates, Countable
    <3>2. Total(S, h, Action) \in Nat BY <3>1, TotalFacts
    <3>3. Total(T, h, Action) = Total(S, h, Action) BY <1>3
    <3> QED BY ONLY <1>2, <3>1, <3>2, <3>3
  <2>2. Eased(S, h, T, h)
    BY <1>2, <1>3, <1>4, <1>5, <1>6, <2>1 DEF Eased
  <2> QED BY <1>1, <1>2, <2>2, EasedKeeps
<1>8. Typed(T)
  BY <1>1, <1>2, <1>4, <1>5 DEF Typed, Owned
<1>9. Links(S, g) => Links(T, g)
  BY <1>1, <1>2, LinksSame DEF Quiet
<1>10. Good(T, h, g, Ad)
  BY <1>7, <1>8, <1>9 DEF Good, Linked
<1>11. Out(T, h) \subseteq Out(S, h)
  BY <1>2, <1>3, <1>5, ZenonT(60) DEF Out
<1>12. ASSUME NEW k \in CmdIds, Spare(S, h, k) PROVE Spare(T, h, k)
  <2>1. ASSUME NEW l \in Out(T, h), l # k PROVE Apart(T, k, l) /\ Apart(T, l, k)
    <3>1. Apart(S, k, l) /\ Apart(S, l, k) /\ l \in CmdIds
      BY <1>11, <1>12, <2>1 DEF Spare, Out
    <3> QED BY <3>1, <1>2, <1>5 DEF Apart, Claims
  <2>2. Claim(T, k)
    <3>1. Claim(S, k) BY <1>12 DEF Spare
    <3> QED BY <3>1, <1>2, <1>4, <1>5, <1>6 DEF Claim, Claims
  <2> QED BY <1>3, <1>5, <1>12, <2>1, <2>2 DEF Spare
<1> QED BY <1>3, <1>10, <1>11, <1>12

\* Task t becomes r, the cmdlists f and cmds s.
Changed(S, t, r, f, s, n) ==
    [S EXCEPT !.task = [S.task EXCEPT ![t] = r], !.cl = f, !.cmds = s, !.num_pending_tasks = n]

QuietChange(S, t, r, f, s, n) ==
    /\ r \in TaskRecords
    /\ r.articles = S.task[t].articles /\ r.decoded = S.task[t].decoded
    /\ r.nact = S.task[t].nact
    /\ S.task[t].missing \subseteq Article(t) => r.missing \subseteq Article(t)
    /\ f \in [CmdIds -> CmdRecords] /\ \A k \in CmdIds : SameCmd(S.cl[k], f[k])
    /\ s \in Seq(CmdIds) /\ ToSet(s) \subseteq ToSet(S.cmds)
    /\ n \in Int

LEMMA ChangedQuietly ==
    ASSUME NEW S \in EngineStates, NEW t \in Tasks, NEW r, NEW f, NEW s, NEW n,
           QuietChange(S, t, r, f, s, n), NEW T, T = Changed(S, t, r, f, s, n)
    PROVE  Quiet(S, T, t)
<1>1. r \in TaskRecords /\ f \in [CmdIds -> CmdRecords] /\ s \in Seq(CmdIds) /\ n \in Int
  BY DEF QuietChange
<1>2. S.task \in [Tasks -> TaskRecords] BY DEF EngineStates
<1>3. [S.task EXCEPT ![t] = r] \in [Tasks -> TaskRecords] BY <1>1, <1>2
<1>4. T \in EngineStates
  BY <1>1, <1>3 DEF EngineStates, Changed
<1>5. /\ T.task = [S.task EXCEPT ![t] = r] /\ T.cl = f /\ T.cmds = s
      /\ T.tasks = S.tasks /\ T.batch = S.batch /\ T.conns = S.conns /\ T.conn = S.conn
      /\ T.queue = S.queue /\ T.jobs = S.jobs /\ T.done = S.done
      /\ T.num_pending_actions = S.num_pending_actions
  BY DEF EngineStates, Changed
<1>6. T.task[t] = r /\ \A u \in Tasks : u # t => T.task[u] = S.task[u]
  BY <1>2, <1>5
<1> QED BY <1>4, <1>5, <1>6 DEF Quiet, TaskFrame, QuietChange

\* Only task t changes.
LEMMA TaskChange ==
    ASSUME NEW S \in EngineStates, NEW t, NEW r
    PROVE  [S EXCEPT !.task = [S.task EXCEPT ![t] = r]]
             = Changed(S, t, r, S.cl, S.cmds, S.num_pending_tasks)
  BY DEF EngineStates, Changed

LEMMA CmdsUnchanged ==
    ASSUME NEW S \in EngineStates
    PROVE  /\ S.cl \in [CmdIds -> CmdRecords] /\ \A k \in CmdIds : SameCmd(S.cl[k], S.cl[k])
           /\ S.cmds \in Seq(CmdIds) /\ ToSet(S.cmds) \subseteq ToSet(S.cmds)
           /\ S.num_pending_tasks \in Int
  BY DEF EngineStates, SameCmd

\* A task's cmdlists are canceled.
Canceled(S, t) ==
    [k \in CmdIds |-> IF Contains(S.cmds, k) /\ S.cl[k].task = t
                      THEN [S.cl[k] EXCEPT !.cancelbit = TRUE] ELSE S.cl[k]]
LEMMA CanceledFacts ==
    ASSUME NEW S \in EngineStates, NEW t
    PROVE  /\ Canceled(S, t) \in [CmdIds -> CmdRecords]
           /\ \A k \in CmdIds : SameCmd(S.cl[k], Canceled(S, t)[k])
<1>1. ASSUME NEW k \in CmdIds
      PROVE  Canceled(S, t)[k] \in CmdRecords /\ SameCmd(S.cl[k], Canceled(S, t)[k])
  <2>1. S.cl[k] \in CmdRecords BY DEF EngineStates
  <2>2. [S.cl[k] EXCEPT !.cancelbit = TRUE] \in CmdRecords
        /\ SameCmd(S.cl[k], [S.cl[k] EXCEPT !.cancelbit = TRUE])
    BY <2>1 DEF CmdRecords, SameCmd
  <2>3. SameCmd(S.cl[k], S.cl[k]) BY DEF SameCmd
  <2>4. Canceled(S, t)[k] = S.cl[k] \/ Canceled(S, t)[k] = [S.cl[k] EXCEPT !.cancelbit = TRUE]
    BY DEF Canceled
  <2> QED BY <2>1, <2>2, <2>3, <2>4
<1>2. Canceled(S, t) = [k \in CmdIds |-> Canceled(S, t)[k]]
  BY DEF Canceled
<1> QED BY <1>1, <1>2

LEMMA GotoStateQuiet ==
    ASSUME NEW S \in EngineStates, NEW t \in Tasks, NEW new \in TaskStates
    PROVE  Quiet(S, GotoState(S, t, new), t)
<1> PICK T : T = GotoState(S, t, new)
  OBVIOUS
<1>1. S.task[t] \in TaskRecords /\ S.task \in [Tasks -> TaskRecords] /\ S.num_pending_tasks \in Int
  BY DEF EngineStates
<1> PICK r : r = [S.task[t] EXCEPT !.st = new, !.told = @ + 1]
  OBVIOUS
<1>2. r \in TaskRecords /\ r.articles = S.task[t].articles /\ r.decoded = S.task[t].decoded
      /\ r.nact = S.task[t].nact /\ r.missing = S.task[t].missing
  <2> PICK R : R = S.task[t]
    OBVIOUS
  <2> PICK z : z = R.told + 1
    OBVIOUS
  <2>1. R \in TaskRecords BY <1>1
  <2>2. z \in Int BY <2>1 DEF TaskRecords
  <2>3. r = [R EXCEPT !.st = new, !.told = z]
    OBVIOUS
  <2> QED BY <2>1, <2>2, <2>3 DEF TaskRecords
<1> PICK n : n = S.num_pending_tasks - 1
  OBVIOUS
<1>3. CASE new = "complete"
  <2>1. T = Changed(S, t, r, S.cl, S.cmds, n)
    BY <1>1, <1>3 DEF GotoState, TaskDone, Changed, EngineStates
  <2>2. QuietChange(S, t, r, S.cl, S.cmds, n)
    BY <1>1, <1>2, CmdsUnchanged DEF QuietChange
  <2> QED BY <2>1, <2>2, ChangedQuietly
<1>4. CASE new = "error"
  <2> PICK f : f = Canceled(S, t)
    OBVIOUS
  <2>1. T = Changed(S, t, r, f, S.cmds, n)
    BY <1>1, <1>4, ZenonT(60) DEF GotoState, TaskDone, Changed, EngineStates, Canceled
  <2>2. QuietChange(S, t, r, f, S.cmds, n)
    BY <1>1, <1>2, CmdsUnchanged, CanceledFacts DEF QuietChange
  <2> QED BY <2>1, <2>2, ChangedQuietly
<1>5. CASE new \notin {"complete", "error"}
  <2> PICK q : q = [S.task[t] EXCEPT !.st = new]
    OBVIOUS
  <2>1. q \in TaskRecords /\ q.articles = S.task[t].articles /\ q.decoded = S.task[t].decoded
        /\ q.nact = S.task[t].nact /\ q.missing = S.task[t].missing
    BY <1>1 DEF TaskRecords
  <2>2. T = [S EXCEPT !.task = [S.task EXCEPT ![t] = q]]
    BY <1>5 DEF GotoState
  <2>3. T = Changed(S, t, q, S.cl, S.cmds, S.num_pending_tasks)
    BY <2>2, TaskChange
  <2>4. QuietChange(S, t, q, S.cl, S.cmds, S.num_pending_tasks)
    BY <2>1, CmdsUnchanged DEF QuietChange
  <2> QED BY <2>3, <2>4, ChangedQuietly
<1> QED BY <1>3, <1>4, <1>5

LEMMA RemovedFrom ==
    ASSUME NEW X, NEW s \in Seq(X), NEW m \in 1 .. Len(s)
    PROVE  /\ RemoveAt(s, m) \in Seq(X) /\ ToSet(RemoveAt(s, m)) \subseteq ToSet(s)
           /\ IsInjective(s) => IsInjective(RemoveAt(s, m)) /\ s[m] \notin ToSet(RemoveAt(s, m))
<1> PICK r : r = RemoveAt(s, m)
  OBVIOUS
<1>1. /\ r \in Seq(X) /\ Len(r) = Len(s) - 1 /\ Len(s) \in Nat
      /\ \A j \in 1 .. Len(s) - 1 : r[j] = IF j < m THEN s[j] ELSE s[j + 1]
  <2>1. /\ RemoveAt(s, m) \in Seq(X) /\ Len(RemoveAt(s, m)) = Len(s) - 1
        /\ \A j \in 1 .. Len(s) - 1 : RemoveAt(s, m)[j] = IF j < m THEN s[j] ELSE s[j + 1]
    BY RemoveAtFacts
  <2> QED BY <2>1
<1>2. DOMAIN r = 1 .. Len(s) - 1 /\ DOMAIN s = 1 .. Len(s)
  BY <1>1
<1>3. ToSet(r) \subseteq ToSet(s)
  BY <1>1, <1>2, SMTT(30) DEF ToSet
<1>4. ASSUME IsInjective(s) PROVE IsInjective(r) /\ s[m] \notin ToSet(r)
  <2>1. \A i, j \in 1 .. Len(s) : s[i] = s[j] => i = j
    BY <1>2, <1>4 DEF IsInjective
  <2>2. \A i, j \in 1 .. Len(s) - 1 : r[i] = r[j] => i = j
    BY <2>1, <1>1
  <2>3. \A j \in 1 .. Len(s) - 1 : r[j] # s[m]
    BY <2>1, <1>1
  <2> QED BY <2>2, <2>3, <1>2 DEF IsInjective, ToSet
<1> QED BY <1>1, <1>3, <1>4

\* Fields of task t that no other part of the engine reads.
WithNcl(S, t, z)      == [S EXCEPT !.task[t].ncl = z]
Flagged(S, t, arts)   == [S EXCEPT !.task[t].incomplete = @ \/ arts # {},
                                   !.task[t].missing = @ \cup arts]

LEMMA NclQuiet ==
    ASSUME NEW S \in EngineStates, NEW t \in Tasks, NEW z \in Int
    PROVE  Quiet(S, WithNcl(S, t, z), t)
<1> PICK T : T = WithNcl(S, t, z)
  OBVIOUS
<1> PICK r : r = [S.task[t] EXCEPT !.ncl = z]
  OBVIOUS
<1>1. r \in TaskRecords /\ r.articles = S.task[t].articles /\ r.decoded = S.task[t].decoded
      /\ r.nact = S.task[t].nact /\ r.missing = S.task[t].missing
  <2>1. S.task[t] \in TaskRecords BY DEF EngineStates
  <2> QED BY <2>1 DEF TaskRecords
<1>2. T = [S EXCEPT !.task = [S.task EXCEPT ![t] = r]]
  BY DEF WithNcl
<1>3. T = Changed(S, t, r, S.cl, S.cmds, S.num_pending_tasks)
  BY <1>2, TaskChange
<1>4. QuietChange(S, t, r, S.cl, S.cmds, S.num_pending_tasks)
  BY <1>1, CmdsUnchanged DEF QuietChange
<1> QED BY <1>3, <1>4, ChangedQuietly

LEMMA FlagQuiet ==
    ASSUME NEW S \in EngineStates, NEW t \in Tasks, NEW arts \in SUBSET Article(t),
           Article(t) \subseteq Nat
    PROVE  Quiet(S, Flagged(S, t, arts), t)
<1> PICK T : T = Flagged(S, t, arts)
  OBVIOUS
<1> PICK R : R = S.task[t]
  OBVIOUS
<1>0. R \in TaskRecords BY DEF EngineStates
<1> PICK b : b = IF R.incomplete \/ arts # {} THEN TRUE ELSE FALSE
  OBVIOUS
<1> PICK m : m = R.missing \cup arts
  OBVIOUS
<1> PICK r : r = [R EXCEPT !.incomplete = b, !.missing = m]
  OBVIOUS
<1>1. r \in TaskRecords /\ r.articles = R.articles /\ r.decoded = R.decoded
      /\ r.nact = R.nact /\ r.missing = R.missing \cup arts
  <2>1. b \in BOOLEAN /\ m \in SUBSET Nat
    BY <1>0 DEF TaskRecords
  <2> QED BY <1>0, <2>1 DEF TaskRecords
<1>2. T = [S EXCEPT !.task = [S.task EXCEPT ![t] = r]]
  <2>1. T = [S EXCEPT !.task = [S.task EXCEPT ![t] = [R EXCEPT !.incomplete = R.incomplete \/ arts # {},
                                                              !.missing = m]]]
    BY DEF Flagged
  <2>2. R.incomplete \in BOOLEAN BY <1>0 DEF TaskRecords
  <2>3. (R.incomplete \/ arts # {}) = b
    BY <2>2
  <2> QED BY <2>1, <2>3
<1>3. T = Changed(S, t, r, S.cl, S.cmds, S.num_pending_tasks)
  BY <1>2, TaskChange
<1>4. QuietChange(S, t, r, S.cl, S.cmds, S.num_pending_tasks)
  BY <1>1, CmdsUnchanged DEF QuietChange
<1> QED BY <1>3, <1>4, ChangedQuietly

LEMMA CountDownQuiet ==
    ASSUME NEW S \in EngineStates, NEW t \in Tasks, NEW k
    PROVE  Quiet(S, CountDown(S, t, k), t)
<1> PICK z : z = S.task[t].ncl - 1
  OBVIOUS
<1>1. z \in Int BY DEF EngineStates, TaskRecords
<1>2. CountDown(S, t, k) = S \/ CountDown(S, t, k) = WithNcl(S, t, z)
  BY DEF CountDown, WithNcl
<1>3. Quiet(S, S, t) BY QuietNever
<1>4. Quiet(S, WithNcl(S, t, z), t) BY <1>1, NclQuiet
<1> QED BY <1>2, <1>3, <1>4

LEMMA EraseCmdsQuiet ==
    ASSUME NEW S \in EngineStates, NEW t \in Tasks
    PROVE  Quiet(S, EraseCmds(S, t), t)
<1> PICK T : T = EraseCmds(S, t)
  OBVIOUS
<1> PICK f : f = Canceled(S, t)
  OBVIOUS
<1> PICK X : X = {k \in CmdIds : S.cl[k].task = t}
  OBVIOUS
<1> PICK s : s = Without(S.cmds, X)
  OBVIOUS
<1> PICK r : r = S.task[t]
  OBVIOUS
<1>1. s \in Seq(CmdIds) /\ ToSet(s) \subseteq ToSet(S.cmds)
  <2>1. S.cmds \in Seq(CmdIds) BY DEF EngineStates
  <2>2. s \in Seq(CmdIds) /\ Range(s) = Range(S.cmds) \ X
    BY <2>1, WithoutFacts
  <2>3. ToSet(s) = Range(s) /\ ToSet(S.cmds) = Range(S.cmds)
    BY <2>1, <2>2, ContainsFacts
  <2> QED BY <2>2, <2>3
<1>2. r \in TaskRecords /\ [S.task EXCEPT ![t] = r] = S.task
  BY DEF EngineStates
<1>3. T = [S EXCEPT !.cl = f, !.cmds = s]
  BY DEF EraseCmds, Canceled
<1>4. T = Changed(S, t, r, f, s, S.num_pending_tasks)
  BY <1>2, <1>3, ZenonT(60) DEF Changed, EngineStates
<1>5. QuietChange(S, t, r, f, s, S.num_pending_tasks)
  BY <1>1, <1>2, CmdsUnchanged, CanceledFacts DEF QuietChange
<1> QED BY <1>4, <1>5, ChangedQuietly

LEMMA EraseFirstQuiet ==
    ASSUME NEW S \in EngineStates, NEW t \in Tasks, NEW k,
           NEW T, T = [S EXCEPT !.cmds = RemoveFirst(@, k)]
    PROVE  Quiet(S, T, t)
<1> PICK s : s = RemoveFirst(S.cmds, k)
  OBVIOUS
<1> PICK r : r = S.task[t]
  OBVIOUS
<1>1. s \in Seq(CmdIds) /\ ToSet(s) \subseteq ToSet(S.cmds)
  <2>1. S.cmds \in Seq(CmdIds) /\ Len(S.cmds) \in Nat BY DEF EngineStates
  <2> PICK I : I = {i \in 1 .. Len(S.cmds) : S.cmds[i] = k}
    OBVIOUS
  <2>2. s = IF I # {} THEN RemoveAt(S.cmds, Min(I)) ELSE S.cmds
    BY DEF RemoveFirst, SelectInSeq
  <2>3. ASSUME I # {} PROVE RemoveAt(S.cmds, Min(I)) \in Seq(CmdIds)
                            /\ ToSet(RemoveAt(S.cmds, Min(I))) \subseteq ToSet(S.cmds)
    <3>1. I \in SUBSET Nat BY <2>1
    <3>2. Min(I) \in I BY <2>3, <3>1, MinFacts, Zenon
    <3> PICK m : m = Min(I)
      OBVIOUS
    <3>3. m \in 1 .. Len(S.cmds) BY <3>2
    <3> QED BY <2>1, <3>3, RemovedFrom
  <2> QED BY <2>1, <2>2, <2>3
<1>2. r \in TaskRecords /\ [S.task EXCEPT ![t] = r] = S.task
  BY DEF EngineStates
<1>3. T = Changed(S, t, r, S.cl, s, S.num_pending_tasks)
  BY <1>2 DEF Changed, EngineStates
<1>4. QuietChange(S, t, r, S.cl, s, S.num_pending_tasks)
  BY <1>1, <1>2, CmdsUnchanged DEF QuietChange
<1> QED BY <1>3, <1>4, ChangedQuietly

LEMMA UpdateQuiet ==
    ASSUME NEW S \in EngineStates, NEW t \in Tasks
    PROVE  Quiet(S, UpdateCompletion(S, t), t)
<1>1. \/ UpdateCompletion(S, t) = S
      \/ UpdateCompletion(S, t) = GotoState(S, t, "complete")
      \/ UpdateCompletion(S, t) = GotoState(S, t, "waiting")
  BY DEF UpdateCompletion, EngineStates, TaskRecords
<1>2. Quiet(S, S, t) BY QuietNever
<1>3. Quiet(S, GotoState(S, t, "complete"), t) /\ Quiet(S, GotoState(S, t, "waiting"), t)
  <2>1. "complete" \in TaskStates /\ "waiting" \in TaskStates BY DEF TaskStates
  <2> QED BY <2>1, GotoStateQuiet
<1> QED BY <1>1, <1>2, <1>3

LEMMA PauseQuiet ==
    ASSUME NEW S \in EngineStates, NEW t \in Tasks
    PROVE  Quiet(S, TaskPause(S, t), t)
<1>1. CASE S.task[t].st \in {"paused", "error", "complete"}
  BY <1>1, QuietNever DEF TaskPause
<1>2. CASE S.task[t].st \notin {"paused", "error", "complete"}
  <2> PICK E : E = EraseCmds(S, t)
    OBVIOUS
  <2>1. Quiet(S, E, t) BY EraseCmdsQuiet
  <2>2. E \in EngineStates BY <2>1 DEF Quiet
  <2> PICK n : n = Cardinality(CmdsOf(S, t))
    OBVIOUS
  <2>3. n \in Int
    <3>1. S.cmds \in Seq(CmdIds) BY DEF EngineStates
    <3>2. DOMAIN S.cmds = 1 .. Len(S.cmds) /\ Len(S.cmds) \in Nat BY <3>1
    <3>3. IsFiniteSet(DOMAIN S.cmds) BY <3>2, FS_Interval
    <3>4. IsFiniteSet(CmdsOf(S, t)) BY <3>3, FS_Subset DEF CmdsOf
    <3> QED BY <3>4, FS_CardinalityType
  <2> PICK z : z = E.task[t].ncl - n
    OBVIOUS
  <2>4. z \in Int BY <2>2, <2>3, SMTT(30) DEF EngineStates, TaskRecords
  <2> PICK C : C = WithNcl(E, t, z)
    OBVIOUS
  <2>5. Quiet(E, C, t) BY <2>2, <2>4, NclQuiet
  <2>6. C \in EngineStates BY <2>5 DEF Quiet
  <2>7. TaskPause(S, t) = GotoState(C, t, "paused")
    BY <1>2 DEF TaskPause, WithNcl
  <2>8. "paused" \in TaskStates BY DEF TaskStates
  <2>9. Quiet(C, GotoState(C, t, "paused"), t)
    BY <2>6, <2>8, GotoStateQuiet
  <2>10. Quiet(S, C, t) BY <2>1, <2>5, QuietTwice
  <2> QED BY <2>7, <2>9, <2>10, QuietTwice
<1> QED BY <1>1, <1>2

LEMMA ResumeQuiet ==
    ASSUME NEW S \in EngineStates, NEW t \in Tasks
    PROVE  Quiet(S, TaskResume(S, t), t)
<1> PICK U : U = UpdateCompletion(S, t)
  OBVIOUS
<1>1. Quiet(S, U, t) BY UpdateQuiet
<1>2. U \in EngineStates BY <1>1 DEF Quiet
<1> PICK w : w = IF S.task[t].ran THEN "waiting" ELSE "queued"
  OBVIOUS
<1>3. w \in TaskStates BY DEF TaskStates
<1>4. TaskResume(S, t) = S \/ TaskResume(S, t) = U \/ TaskResume(S, t) = GotoState(U, t, w)
  BY DEF TaskResume
<1>5. Quiet(S, S, t) BY QuietNever
<1>6. Quiet(U, GotoState(U, t, w), t) BY <1>2, <1>3, GotoStateQuiet
<1>7. Quiet(S, GotoState(U, t, w), t) BY <1>1, <1>6, QuietTwice
<1> QED BY <1>1, <1>4, <1>5, <1>7

LEMMA DoneQuiet ==
    ASSUME NEW S \in EngineStates, NEW t \in Tasks
    PROVE  Quiet(S, TaskDone(S, t), t)
<1> PICK n : n = S.num_pending_tasks - 1
  OBVIOUS
<1> PICK r : r = S.task[t]
  OBVIOUS
<1>1. n \in Int /\ r \in TaskRecords /\ [S.task EXCEPT ![t] = r] = S.task
  BY DEF EngineStates
<1> PICK T : T = TaskDone(S, t)
  OBVIOUS
<1>2. T = Changed(S, t, r, S.cl, S.cmds, n)
  BY <1>1 DEF TaskDone, Changed, EngineStates
<1>3. QuietChange(S, t, r, S.cl, S.cmds, n)
  BY <1>1, CmdsUnchanged DEF QuietChange
<1> QED BY <1>2, <1>3, ChangedQuietly

LEMMA KillQuiet ==
    ASSUME NEW S \in EngineStates, NEW t \in Tasks
    PROVE  Quiet(S, TaskKill(S, t), t)
<1> PICK E : E = IF S.task[t].st # "complete" THEN EraseCmds(S, t) ELSE S
  OBVIOUS
<1>1. Quiet(S, E, t)
  BY EraseCmdsQuiet, QuietNever
<1>2. E \in EngineStates BY <1>1 DEF Quiet
<1>3. TaskKill(S, t) = E \/ TaskKill(S, t) = TaskDone(E, t)
  BY DEF TaskKill
<1>4. Quiet(E, TaskDone(E, t), t) BY <1>2, DoneQuiet
<1>5. Quiet(S, TaskDone(E, t), t) BY <1>1, <1>4, QuietTwice
<1> QED BY <1>1, <1>3, <1>5

-----------------------------------------------------------------------------
(* The result of an execute is in pump's hand. *)

\* Its cmdlist is nobody's once it has been taken.
LEMMA WorkSpends ==
    ASSUME EngineAssumption, NEW S \in EngineStates, IsFiniteSet(S.jobs), NEW Ad,
           NEW a \in ConnActions, Work(S, a, Ad), a.kind = "execute"
    PROVE  /\ Work(S, Spent, Ad) /\ Total(S, Spent, Execs(a.cl)) = 0
           /\ a.cl \in CmdIds /\ S.cl[a.cl].task = a.task /\ a.task \in Tasks
           /\ a.cl \notin Out(S, Spent)
           /\ Claim(S, a.cl)
           /\ \A l \in Out(S, Spent) : l # a.cl => Apart(S, a.cl, l) /\ Apart(S, l, a.cl)
<1> PICK k : k = a.cl
  OBVIOUS
<1>0. Countable(S) BY DEF Countable, EngineStates
<1>1. /\ k \in CmdIds /\ a.task \in Tasks /\ a \in Action /\ a.conn \in ConnIds /\ a.conn # 0
      /\ a \in Execs(k) /\ a \in ExecsFor(k, a.task)
  BY DEF ConnActions, EngineAssumption, Execs, ExecsFor
<1>2. ASSUME NEW P
      PROVE  /\ Total(S, Spent, P) = Total(S, a, P) - One(a, P) + One(Spent, P)
             /\ Total(S, a, P) \in Nat /\ Total(S, Spent, P) \in Nat
  <2>1. Total(S, Spent, P) = Total(S, a, P) - One(a, P) + One(Spent, P)
    BY <1>0, TotalSwaps
  <2>2. Total(S, a, P) \in Nat BY <1>0, TotalFacts
  <2>3. Total(S, Spent, P) \in Nat BY <1>0, TotalFacts
  <2> QED BY <2>1, <2>2, <2>3
<1>3. /\ \A P \in Watched : One(Spent, P) = 0
      /\ One(Spent, Action) = 1 /\ One(a, Action) = 1 /\ One(a, Execs(k)) = 1
  BY <1>1, HandsFacts DEF One
<1>4. /\ \A t \in Tasks : /\ One(a, OfTask(t)) = 0
                          /\ \A i \in Nat, w \in JobKinds : One(a, JobsOf(t, i, w)) = 0
      /\ \A l \in CmdIds : l # k => One(a, Execs(l)) = 0
  BY <1>1 DEF One, OfTask, JobsOf, Execs
<1>5. ASSUME NEW t \in Tasks
      PROVE  /\ Total(S, Spent, OfTask(t)) = Total(S, a, OfTask(t))
             /\ \A i \in Nat, w \in JobKinds : Total(S, Spent, JobsOf(t, i, w)) = Total(S, a, JobsOf(t, i, w))
  <2>1. Total(S, Spent, OfTask(t)) = Total(S, a, OfTask(t))
    <3>1. One(Spent, OfTask(t)) = 0 BY <1>3, WatchedFacts
    <3>2. One(a, OfTask(t)) = 0 BY <1>4
    <3> QED BY <1>2, <3>1, <3>2
  <2>2. ASSUME NEW i \in Nat, NEW w \in JobKinds
        PROVE  Total(S, Spent, JobsOf(t, i, w)) = Total(S, a, JobsOf(t, i, w))
    <3>1. One(Spent, JobsOf(t, i, w)) = 0 BY <1>3, WatchedFacts
    <3>2. One(a, JobsOf(t, i, w)) = 0 BY <1>4
    <3> QED BY <1>2, <3>1, <3>2
  <2> QED BY <2>1, <2>2
<1>6. ASSUME NEW l \in CmdIds
      PROVE  /\ Total(S, Spent, Execs(l)) = IF l = k THEN 0 ELSE Total(S, a, Execs(l))
             /\ \A t \in Tasks : Total(S, Spent, ExecsFor(l, t)) <= Total(S, a, ExecsFor(l, t))
  <2>1. Total(S, a, Execs(l)) <= 1 BY DEF Work, ExecutedOnce
  <2>2. One(Spent, Execs(l)) = 0 BY <1>3, WatchedFacts
  <2>3. l # k => One(a, Execs(l)) = 0 BY <1>4
  <2>4. Total(S, Spent, Execs(l)) = IF l = k THEN 0 ELSE Total(S, a, Execs(l))
    BY <1>2, <1>3, <2>1, <2>2, <2>3
  <2>5. ASSUME NEW t \in Tasks
        PROVE  Total(S, Spent, ExecsFor(l, t)) <= Total(S, a, ExecsFor(l, t))
    <3>1. One(Spent, ExecsFor(l, t)) = 0 BY <1>3, WatchedFacts
    <3>2. One(a, ExecsFor(l, t)) \in {0, 1} BY DEF One
    <3> QED BY <1>2, <3>1, <3>2
  <2> QED BY <2>4, <2>5
<1>7. Total(S, a, Execs(k)) # 0 /\ Total(S, a, ExecsFor(k, a.task)) # 0
  <2>1. a \in UnderWay(S, a) BY DEF UnderWay
  <2>2. ASSUME NEW P, a \in P PROVE Total(S, a, P) # 0
    <3>1. Total(S, a, P) = 0 <=> UnderWay(S, a) \cap P = {} BY <1>0, TotalFacts
    <3> QED BY <2>1, <2>2, <3>1
  <2> QED BY <1>1, <2>2
<1>8. S.cl[k].task = a.task
  <2>1. ExecutedOnce(S, a) BY DEF Work
  <2>2. a.task # S.cl[k].task => Total(S, a, ExecsFor(k, a.task)) = 0
    BY ONLY <1>1, <2>1 DEF ExecutedOnce
  <2> QED BY ONLY <1>7, <2>2
<1>9. Out(S, Spent) \subseteq Out(S, a) /\ k \in Out(S, a)
  BY <1>1, <1>6, <1>7 DEF Out
<1>10. Claim(S, k) /\ \A l \in Out(S, a) : l # k => Apart(S, k, l) /\ Apart(S, l, k)
  BY <1>9 DEF Work, Claimed
<1>11. Counted(S, Spent)
  <2>1. Total(S, Spent, Action) = Total(S, a, Action)
    BY <1>2, <1>3
  <2>2. Live(S) \subseteq Tasks BY ContainsFacts DEF Live, EngineStates
  <2> QED BY <1>5, <2>1, <2>2 DEF Work, Counted
<1>12. DecodedOnce(S, Spent)
  <2>1. "decode" \in JobKinds /\ {"binary", "text"} \subseteq JobKinds BY DEF JobKinds
  <2>2. ASSUME NEW t \in Tasks, NEW i \in Nat, NEW w \in {"binary", "text"}
        PROVE  Total(S, Spent, JobsOf(t, i, "decode")) + Total(S, Spent, JobsOf(t, i, w)) <= 1
    <3>1. Total(S, a, JobsOf(t, i, "decode")) + Total(S, a, JobsOf(t, i, w)) <= 1
      BY DEF Work, DecodedOnce
    <3>2. /\ Total(S, Spent, JobsOf(t, i, "decode")) = Total(S, a, JobsOf(t, i, "decode"))
          /\ Total(S, Spent, JobsOf(t, i, w)) = Total(S, a, JobsOf(t, i, w))
      BY <1>5, <2>1
    <3> QED BY <3>1, <3>2
  <2>3. ASSUME NEW t \in Live(S), NEW i \in Nat, NEW w \in JobKinds, Total(S, Spent, JobsOf(t, i, w)) # 0
        PROVE  i \in S.task[t].decoded
    <3>1. t \in Tasks BY ContainsFacts DEF Live, EngineStates
    <3>2. Total(S, a, JobsOf(t, i, w)) # 0 BY <1>5, <2>3, <3>1
    <3> QED BY <3>2 DEF Work, DecodedOnce
  <2> QED BY <2>2, <2>3 DEF DecodedOnce
<1>13. ExecutedOnce(S, Spent)
  <2>1. ASSUME NEW l \in CmdIds, NEW t \in Tasks, t # S.cl[l].task
        PROVE  Total(S, Spent, ExecsFor(l, t)) = 0
    <3>1. Total(S, a, ExecsFor(l, t)) = 0 BY <2>1 DEF Work, ExecutedOnce
    <3>2. Total(S, Spent, ExecsFor(l, t)) <= Total(S, a, ExecsFor(l, t)) BY <1>6
    <3>3. Total(S, Spent, ExecsFor(l, t)) \in Nat BY <1>2
    <3> QED BY <3>1, <3>2, <3>3
  <2> QED BY <1>6, <2>1 DEF Work, ExecutedOnce
<1>14. Claimed(S, Spent)
  BY <1>9 DEF Work, Claimed
<1>15. Unknown(S, Spent, Ad)
  BY <1>5 DEF Work, Unknown
<1>16. Work(S, Spent, Ad)
  BY <1>11, <1>12, <1>13, <1>14, <1>15 DEF Work
<1>17. k \notin Out(S, Spent)
  BY <1>1, <1>6, <1>7 DEF Out, Work, ExecutedOnce
<1>18. Total(S, Spent, Execs(k)) = 0
  BY <1>1, <1>6
<1>19. \A l \in Out(S, Spent) : l # k => Apart(S, k, l) /\ Apart(S, l, k)
  BY <1>9, <1>10
<1> QED BY <1>1, <1>8, <1>10, <1>16, <1>17, <1>18, <1>19

\* A list is cut in two.
IsCut(s, n, a, b) ==
    n \in 0 .. Len(s) /\ a = SubSeq(s, 1, n) /\ b = SubSeq(s, n + 1, Len(s))
Shared(X, s, a, b) ==
    /\ a \in Seq(X) /\ b \in Seq(X)
    /\ ToSet(a) \subseteq ToSet(s) /\ ToSet(b) \subseteq ToSet(s)
    /\ IsInjective(s) => IsInjective(a) /\ IsInjective(b) /\ ToSet(a) \cap ToSet(b) = {}
LEMMA CutFacts ==
    ASSUME NEW X, NEW s \in Seq(X), NEW n, NEW a, NEW b, IsCut(s, n, a, b)
    PROVE  Shared(X, s, a, b)
<1> USE DEF IsCut
<1> PICK L : L = Len(s)
  OBVIOUS
<1> PICK m : m = L - n
  OBVIOUS
<1>0. L \in Nat /\ n \in Nat /\ m \in Nat /\ n + m = L /\ DOMAIN s = 1 .. L
  OBVIOUS
<1>1. a \in Seq(X) /\ DOMAIN a = 1 .. n /\ \A i \in 1 .. n : a[i] = s[i]
  OBVIOUS
<1>2. b \in Seq(X) /\ DOMAIN b = 1 .. m /\ \A i \in 1 .. m : b[i] = s[n + i]
  OBVIOUS
<1>3. ASSUME NEW i \in 1 .. n PROVE i \in 1 .. L
  BY ONLY <1>0, <1>3
<1>4. ASSUME NEW i \in 1 .. m PROVE n + i \in 1 .. L
  BY ONLY <1>0, <1>4
<1>5. ASSUME NEW i \in 1 .. m, NEW j \in 1 .. m, n + i = n + j PROVE i = j
  BY ONLY <1>0, <1>5
<1>6. ASSUME NEW i \in 1 .. n, NEW j \in 1 .. m PROVE i # n + j
  BY ONLY <1>0, <1>6
<1>7. /\ ToSet(a) = {a[i] : i \in 1 .. n} /\ ToSet(b) = {b[i] : i \in 1 .. m}
      /\ ToSet(s) = {s[i] : i \in 1 .. L}
  BY <1>0, <1>1, <1>2 DEF ToSet
<1>8. ToSet(a) \subseteq ToSet(s) /\ ToSet(b) \subseteq ToSet(s)
  BY <1>1, <1>2, <1>3, <1>4, <1>7, ZenonT(30)
<1>9. ASSUME IsInjective(s)
      PROVE  IsInjective(a) /\ IsInjective(b) /\ ToSet(a) \cap ToSet(b) = {}
  <2>1. \A i, j \in 1 .. L : s[i] = s[j] => i = j
    BY <1>0, <1>9 DEF IsInjective
  <2>2. ASSUME NEW i \in 1 .. n, NEW j \in 1 .. n, a[i] = a[j] PROVE i = j
    BY <1>1, <1>3, <2>1, <2>2
  <2>3. ASSUME NEW i \in 1 .. m, NEW j \in 1 .. m, b[i] = b[j] PROVE i = j
    <3>1. n + i = n + j BY <1>2, <1>4, <2>1, <2>3, SMTT(30)
    <3> QED BY <3>1, <1>5
  <2>4. ASSUME NEW i \in 1 .. n, NEW j \in 1 .. m PROVE a[i] # b[j]
    <3>1. i # n + j BY <1>6
    <3>2. a[i] = s[i] /\ b[j] = s[n + j] BY <1>1, <1>2
    <3> QED BY <3>1, <3>2, <1>3, <1>4, <2>1, Zenon
  <2>5. IsInjective(a) BY <1>1, <2>2 DEF IsInjective
  <2>6. IsInjective(b) BY <1>2, <2>3 DEF IsInjective
  <2>7. ASSUME NEW x \in ToSet(a), x \in ToSet(b) PROVE FALSE
    <3>1. PICK i \in 1 .. n : x = a[i] BY <1>7, Zenon
    <3>2. PICK j \in 1 .. m : x = b[j] BY <1>7, <2>7, Zenon
    <3> QED BY <3>1, <3>2, <2>4
  <2> QED BY <2>5, <2>6, <2>7
<1> QED BY <1>1, <1>2, <1>8, <1>9 DEF Shared

\* create_commands: cmdlist k gets the articles C of task t and leaves it R.
CreatedAs(S, t, k, C, R) ==
    [S EXCEPT !.cl[k] = [NoCmdlist EXCEPT !.task = t, !.account = AccountOf[t], !.commands = C],
              !.task[t].articles = R]
CreateChange(S, T, t, k, C, R) ==
    /\ T \in EngineStates /\ TaskFrame(S, T, t)
    /\ T.conns = S.conns /\ T.conn = S.conn /\ T.cmds = S.cmds
    /\ T.queue = S.queue /\ T.jobs = S.jobs /\ T.done = S.done
    /\ T.num_pending_actions = S.num_pending_actions
    /\ \A u \in Tasks : u # t => T.task[u] = S.task[u]
    /\ T.task[t].articles = R /\ T.task[t].decoded = S.task[t].decoded
    /\ T.task[t].nact = S.task[t].nact /\ T.task[t].missing = S.task[t].missing
    /\ \A l \in CmdIds : l # k => T.cl[l] = S.cl[l]
    /\ T.cl[k].task = t /\ T.cl[k].account = AccountOf[t] /\ T.cl[k].commands = C
    /\ T.cl[k].buffers = <<>>

LEMMA CreateFacts ==
    ASSUME EngineAssumption, NEW S \in EngineStates, NEW t \in Tasks, NEW k \in CmdIds,
           NEW C \in Seq(Nat), NEW R \in Seq(Nat), NEW T, T = CreatedAs(S, t, k, C, R)
    PROVE  CreateChange(S, T, t, k, C, R)
<1> PICK N : N = [NoCmdlist EXCEPT !.task = t, !.account = AccountOf[t], !.commands = C]
  OBVIOUS
<1>1. AccountOf[t] \in Accounts BY DEF EngineAssumption
<1>2. N \in CmdRecords /\ N.task = t /\ N.account = AccountOf[t] /\ N.commands = C
      /\ N.buffers = <<>>
  <2>1. <<>> \in Seq(Nat) /\ <<>> \in Seq(Statuses) OBVIOUS
  <2> QED BY <1>1, <2>1 DEF NoCmdlist, CmdRecords
<1> PICK r : r = [S.task[t] EXCEPT !.articles = R]
  OBVIOUS
<1>3. r \in TaskRecords /\ r.articles = R /\ r.decoded = S.task[t].decoded
      /\ r.nact = S.task[t].nact /\ r.missing = S.task[t].missing
  <2>1. S.task[t] \in TaskRecords BY DEF EngineStates
  <2> QED BY <2>1 DEF TaskRecords
<1>4. T = [S EXCEPT !.cl = [S.cl EXCEPT ![k] = N], !.task = [S.task EXCEPT ![t] = r]]
  BY DEF CreatedAs
<1>5. [S.cl EXCEPT ![k] = N] \in [CmdIds -> CmdRecords] /\ [S.task EXCEPT ![t] = r] \in [Tasks -> TaskRecords]
  BY <1>2, <1>3 DEF EngineStates
<1>6. T \in EngineStates
  BY <1>4, <1>5 DEF EngineStates
<1>7. /\ T.task = [S.task EXCEPT ![t] = r] /\ T.cl = [S.cl EXCEPT ![k] = N]
      /\ T.cmds = S.cmds
      /\ T.tasks = S.tasks /\ T.batch = S.batch /\ T.conns = S.conns /\ T.conn = S.conn
      /\ T.queue = S.queue /\ T.jobs = S.jobs /\ T.done = S.done
      /\ T.num_pending_actions = S.num_pending_actions
  BY <1>4 DEF EngineStates
<1>8. S.task \in [Tasks -> TaskRecords] /\ S.cl \in [CmdIds -> CmdRecords]
  BY DEF EngineStates
<1>9. /\ T.task[t] = r /\ \A u \in Tasks : u # t => T.task[u] = S.task[u]
      /\ T.cl[k] = N /\ \A l \in CmdIds : l # k => T.cl[l] = S.cl[l]
  BY <1>7, <1>8
<1> QED BY <1>2, <1>3, <1>6, <1>7, <1>9 DEF CreateChange, TaskFrame

\* The cmdlist takes articles of a living task out of its list.
CreateCut(S, t, k, C, R) ==
    /\ S.cl[k] = NoCmdlist
    /\ C \in Seq(Nat) /\ R \in Seq(Nat)
    /\ ToSet(C) \subseteq ToSet(S.task[t].articles)
    /\ ToSet(R) \subseteq ToSet(S.task[t].articles)
    /\ IsInjective(C) /\ IsInjective(R) /\ ToSet(C) \cap ToSet(R) = {}

LEMMA CreatedKeeps ==
    ASSUME EngineAssumption, NEW S, NEW h, NEW g, NEW Ad, Good(S, h, g, Ad), NEW t \in Live(S),
           NEW k \in CmdIds, NEW C, NEW R, CreateCut(S, t, k, C, R),
           NEW T, T = CreatedAs(S, t, k, C, R)
    PROVE  Good(T, h, g, Ad) /\ Spare(T, h, k) /\ TaskFrame(S, T, t)
<1>1. S \in EngineStates /\ IsFiniteSet(S.jobs) /\ Owned(S) /\ Work(S, h, Ad)
  BY DEF Good, Typed
<1>2. t \in Tasks /\ Live(S) \subseteq Tasks
  BY <1>1, ContainsFacts DEF Live, EngineStates
<1>3. CreateChange(S, T, t, k, C, R)
  BY <1>1, <1>2, CreateFacts DEF CreateCut
<1>4. /\ T \in EngineStates /\ T.queue = S.queue /\ T.jobs = S.jobs /\ T.done = S.done
      /\ T.num_pending_actions = S.num_pending_actions /\ Live(T) = Live(S)
      /\ T.cmds = S.cmds
  BY <1>3 DEF CreateChange, TaskFrame, Live
<1>5. ASSUME NEW f, NEW P PROVE Total(T, f, P) = Total(S, f, P)
  BY <1>4, TotalSame
<1>6. ASSUME NEW u \in Tasks
      PROVE  /\ T.task[u].decoded = S.task[u].decoded
             /\ T.task[u].nact = S.task[u].nact /\ T.task[u].missing = S.task[u].missing
             /\ ToSet(T.task[u].articles) \subseteq ToSet(S.task[u].articles)
             /\ IsInjective(S.task[u].articles) => IsInjective(T.task[u].articles)
  <2>1. CASE u = t BY <2>1, <1>3 DEF CreateChange, CreateCut
  <2>2. CASE u # t BY <2>2, <1>3 DEF CreateChange
  <2> QED BY <2>1, <2>2
<1>7. \A l \in CmdIds : l # k => T.cl[l] = S.cl[l]
  BY <1>3 DEF CreateChange
<1>8. T.cl[k].task = t /\ T.cl[k].commands = C /\ T.cl[k].buffers = <<>> /\ T.cl[k].account # 0
      /\ T.task[t].articles = R
  BY <1>2, <1>3 DEF CreateChange, EngineAssumption
<1>9. Total(S, h, Execs(k)) = 0 /\ k \notin ToSet(S.cmds) /\ S.cl[k].task = 0
  BY <1>1 DEF CreateCut, NoCmdlist, Work, ExecutedOnce
<1>10. Out(T, h) = Out(S, h) /\ k \notin Out(S, h)
  <2>1. k \notin Out(S, h) /\ k \notin Out(T, h)
    BY <1>4, <1>5, <1>9 DEF Out
  <2>2. ASSUME NEW l \in CmdIds, l # k PROVE l \in Out(T, h) <=> l \in Out(S, h)
    BY <1>4, <1>5, <1>7, <2>2 DEF Out
  <2>3. Out(T, h) \subseteq CmdIds /\ Out(S, h) \subseteq CmdIds BY DEF Out
  <2>4. \A l : l \in Out(T, h) <=> l \in Out(S, h) BY <2>1, <2>2, <2>3, Zenon
  <2> QED BY <2>1, <2>4
<1>11. Counted(T, h)
  BY <1>1, <1>2, <1>4, <1>5, <1>6 DEF Work, Counted
<1>12. DecodedOnce(T, h)
  BY <1>1, <1>2, <1>4, <1>5, <1>6 DEF Work, DecodedOnce
<1>13. ExecutedOnce(T, h)
  <2>1. ASSUME NEW l \in CmdIds
        PROVE  /\ Total(T, h, Execs(l)) <= 1
               /\ Total(T, h, Execs(l)) # 0 => T.cl[l].conn # 0 /\ T.cl[l].task # 0
               /\ \A u \in Tasks : u # T.cl[l].task => Total(T, h, ExecsFor(l, u)) = 0
    <3>1. CASE l # k
      BY <3>1, <1>1, <1>5, <1>7 DEF Work, ExecutedOnce
    <3>2. CASE l = k
      <4>1. Total(S, h, Execs(l)) <= 1 /\ \A u \in Tasks : u # 0 => Total(S, h, ExecsFor(l, u)) = 0
        BY <3>2, <1>1, <1>9 DEF Work, ExecutedOnce
      <4>2. 0 \notin Tasks BY DEF EngineAssumption
      <4> QED BY <3>2, <4>1, <4>2, <1>5, <1>9
    <3> QED BY <3>1, <3>2
  <2>2. \A l \in ToSet(T.cmds) : T.cl[l].task # 0
    <3>1. ToSet(S.cmds) \subseteq CmdIds BY <1>1, ContainsFacts DEF EngineStates
    <3> QED BY <3>1, <1>1, <1>4, <1>7, <1>9 DEF Work, ExecutedOnce
  <2> QED BY <2>1, <2>2 DEF ExecutedOnce
<1>14. ASSUME NEW l \in Out(S, h)
       PROVE  l \in CmdIds /\ l # k /\ T.cl[l] = S.cl[l] /\ Claim(S, l) /\ Claim(T, l)
  <2>1. l \in CmdIds /\ l # k /\ T.cl[l] = S.cl[l] /\ Claim(S, l)
    BY <1>1, <1>7, <1>10 DEF Out, Work, Claimed
  <2>2. ASSUME T.cl[l].task \in Live(T)
        PROVE  /\ IsInjective(T.cl[l].commands)
               /\ Claims(T, l) \cap ToSet(T.task[T.cl[l].task].articles) = {}
               /\ Claims(T, l) \cap T.task[T.cl[l].task].decoded = {}
    <3> PICK u : u = S.cl[l].task
      OBVIOUS
    <3>1. u \in Live(S) /\ u \in Tasks /\ T.cl[l].task = u BY <1>2, <1>4, <2>1, <2>2
    <3>2. /\ IsInjective(S.cl[l].commands)
          /\ Claims(S, l) \cap ToSet(S.task[u].articles) = {}
          /\ Claims(S, l) \cap S.task[u].decoded = {}
      BY <2>1, <3>1 DEF Claim
    <3>3. Claims(T, l) = Claims(S, l) BY <2>1 DEF Claims
    <3>4. T.task[u].decoded = S.task[u].decoded
          /\ ToSet(T.task[u].articles) \subseteq ToSet(S.task[u].articles)
      BY <1>6, <3>1
    <3> QED BY <2>1, <3>1, <3>2, <3>3, <3>4
  <2> QED BY <2>1, <2>2 DEF Claim
<1>15. Claimed(T, h)
  <2>1. \A u \in Live(T) : /\ IsInjective(T.task[u].articles)
                           /\ ToSet(T.task[u].articles) \cap T.task[u].decoded = {}
    BY <1>1, <1>2, <1>4, <1>6 DEF Work, Claimed
  <2>2. ASSUME NEW l \in Out(T, h), NEW m \in Out(T, h), l # m PROVE Apart(T, l, m)
    <3>1. Apart(S, l, m) BY <1>1, <1>10, <2>2 DEF Work, Claimed
    <3> QED BY <3>1, <1>4, <1>10, <1>14 DEF Apart, Claims
  <2> QED BY <1>10, <1>14, <2>1, <2>2 DEF Claimed
<1>16. Unknown(T, h, Ad)
  <2>1. BatchOf[t] \in Ad BY <1>1, <1>2 DEF Work, Unknown
  <2>2. ASSUME NEW l \in CmdIds PROVE T.cl[l].task = S.cl[l].task \/ T.cl[l].task = t
    BY <1>7, <1>8
  <2>3. Unknown(S, h, Ad) /\ Live(T) = Live(S) BY ONLY <1>1, <1>4 DEF Work
  <2>4. ASSUME NEW u \in Tasks, BatchOf[u] \notin Ad
        PROVE  /\ u \notin Live(T) /\ Total(T, h, OfTask(u)) = 0
               /\ \A i \in Nat, w \in JobKinds : Total(T, h, JobsOf(u, i, w)) = 0
    BY ONLY <1>5, <2>3, <2>4 DEF Unknown
  <2>5. ASSUME NEW u \in Tasks, BatchOf[u] \notin Ad, NEW l \in CmdIds PROVE T.cl[l].task # u
    BY ONLY <2>1, <2>2, <2>3, <2>5 DEF Unknown
  <2> QED BY ONLY <2>4, <2>5 DEF Unknown
<1>17. Typed(T)
  <2>1. ToSet(C) \subseteq Article(t) BY <1>1, <1>2 DEF Owned, CreateCut
  <2>2. ASSUME NEW l \in CmdIds
        PROVE  /\ Len(T.cl[l].buffers) <= Len(T.cl[l].commands)
               /\ T.cl[l].task # 0 => /\ T.cl[l].account # 0
                                      /\ ToSet(T.cl[l].commands) \subseteq Article(T.cl[l].task)
    <3>1. CASE l # k BY <3>1, <1>1, <1>7 DEF Owned
    <3>2. CASE l = k
      <4>1. Len(C) \in Nat /\ Len(<<>>) = 0 BY DEF CreateCut
      <4> QED BY <3>2, <4>1, <2>1, <1>8
    <3> QED BY <3>1, <3>2
  <2>3. Owned(T)
    BY <1>1, <1>6, <2>2 DEF Owned
  <2> QED BY <1>1, <1>4, <2>3 DEF Typed
<1>18. Links(S, g) => Links(T, g)
  <2>1. T.conns = S.conns /\ T.conn = S.conn BY <1>3 DEF CreateChange
  <2> QED BY <1>1, <1>4, <2>1, LinksSame
<1>19. Spare(T, h, k)
  <2>1. IsInjective(S.task[t].articles) /\ ToSet(S.task[t].articles) \cap S.task[t].decoded = {}
    BY <1>1 DEF Work, Claimed
  <2>2. Claim(T, k)
    BY <1>2, <1>4, <1>6, <1>8, <2>1 DEF Claim, Claims, CreateCut
  <2>3. ASSUME NEW l \in Out(T, h), l # k PROVE Apart(T, k, l) /\ Apart(T, l, k)
    <3>1. l \in CmdIds /\ T.cl[l] = S.cl[l] /\ Claim(S, l) BY <1>10, <1>14, <2>3
    <3>2. ASSUME T.cl[l].task = t PROVE Claims(T, l) \cap Claims(T, k) = {}
      <4>1. S.cl[l].task = t BY <3>1, <3>2
      <4>2. Claims(S, l) \cap ToSet(S.task[t].articles) = {}
        BY <3>1, <4>1 DEF Claim
      <4>3. Claims(T, l) = Claims(S, l) /\ Claims(T, k) = ToSet(C) BY <1>8, <3>1 DEF Claims
      <4> QED BY <4>2, <4>3 DEF CreateCut
    <3> QED BY <1>8, <3>2 DEF Apart
  <2>4. t # 0 BY <1>2 DEF EngineAssumption
  <2> QED BY <1>5, <1>8, <1>9, <2>2, <2>3, <2>4 DEF Spare
<1>20. Work(T, h, Ad)
  BY <1>11, <1>12, <1>13, <1>15, <1>16 DEF Work
<1>21. TaskFrame(S, T, t) BY <1>3 DEF CreateChange
<1> QED BY <1>17, <1>18, <1>19, <1>20, <1>21 DEF Good, Linked

\* A step that may have changed task t keeps what holds of the engine.
Steps(S, T, t, h, g, Ad) == Good(T, h, g, Ad) /\ TaskFrame(S, T, t)

LEMMA StepsTwice ==
    ASSUME NEW S, NEW T, NEW U, NEW t, NEW h, NEW g, NEW Ad,
           Steps(S, T, t, h, g, Ad), Steps(T, U, t, h, g, Ad)
    PROVE  Steps(S, U, t, h, g, Ad)
  BY DEF Steps, TaskFrame

LEMMA StepsSame ==
    ASSUME NEW S, NEW T, NEW t, NEW h, NEW g, NEW Ad, Good(T, h, g, Ad), TasksSame(S, T)
    PROVE  Steps(S, T, t, h, g, Ad)
  BY DEF Steps, TaskFrame, TasksSame

LEMMA StepsQuiet ==
    ASSUME EngineAssumption, NEW S, NEW h, NEW g, NEW Ad, Good(S, h, g, Ad), NEW t \in Tasks,
           NEW T, Quiet(S, T, t)
    PROVE  Steps(S, T, t, h, g, Ad)
<1>1. Good(T, h, g, Ad) BY QuietKeeps
<1> QED BY <1>1 DEF Steps, Quiet

\* enqueue, with the task counting its cmdlist.
CountUp(S, t)  == [S EXCEPT !.task[t].ncl = @ + 1]
Requeued(S, t, k) == CountUp(Enqueue(S, k), t)
LEMMA CountUpQuiet ==
    ASSUME NEW S \in EngineStates, NEW t \in Tasks
    PROVE  Quiet(S, CountUp(S, t), t)
<1> PICK z : z = S.task[t].ncl + 1
  OBVIOUS
<1>1. z \in Int BY DEF EngineStates, TaskRecords
<1>2. CountUp(S, t) = WithNcl(S, t, z)
  BY DEF CountUp, WithNcl
<1>3. Quiet(S, WithNcl(S, t, z), t) BY <1>1, NclQuiet
<1> QED BY <1>2, <1>3

LEMMA EnqueueSteps ==
    ASSUME EngineAssumption, NEW S, NEW h, NEW g, NEW Ad, Good(S, h, g, Ad), NEW t \in Tasks,
           NEW k \in CmdIds, Spare(S, h, k),
           NEW T, T = Requeued(S, t, k)
    PROVE  Steps(S, T, t, h, g, Ad)
<1> PICK E : E = Enqueue(S, k)
  OBVIOUS
<1>1. Good(E, h, g, Ad) /\ TasksSame(S, E)
  BY EnqueueKeeps
<1>2. Steps(S, E, t, h, g, Ad)
  BY <1>1, StepsSame
<1>3. E \in EngineStates /\ T = CountUp(E, t)
  BY <1>1 DEF Good, Typed, Requeued
<1>6. Quiet(E, T, t)
  BY <1>3, CountUpQuiet
<1>7. Steps(E, T, t, h, g, Ad)
  BY <1>1, <1>6, StepsQuiet
<1> QED BY <1>2, <1>7, StepsTwice

\* create_commands takes the first articles of the list.
CutSize(S, t) == Min({Len(S.task[t].articles), ArticlesPerCmdlist})
LEMMA CutOff ==
    ASSUME EngineAssumption, NEW S \in EngineStates, NEW h, NEW Ad, Work(S, h, Ad), NEW t \in Live(S),
           NEW k, S.cl[k] = NoCmdlist, t \in Tasks,
           NEW n, n = CutSize(S, t), NEW C, C = SubSeq(S.task[t].articles, 1, n),
           NEW R, R = SubSeq(S.task[t].articles, n + 1, Len(S.task[t].articles))
    PROVE  CreateCut(S, t, k, C, R)
<1> PICK s : s = S.task[t].articles
  OBVIOUS
<1>1. s \in Seq(Nat) /\ IsInjective(s)
  BY DEF EngineStates, TaskRecords, Work, Claimed
<1>2. Len(s) \in Nat BY <1>1
<1>3. ArticlesPerCmdlist \in Nat BY DEF EngineAssumption
<1> PICK M : M = {Len(s), ArticlesPerCmdlist}
  OBVIOUS
<1>4. M \in SUBSET Nat /\ M # {} /\ Len(s) \in M BY <1>2, <1>3
<1>5. Min(M) \in M /\ \A m \in M : Min(M) <= m BY <1>4, MinFacts, Zenon
<1>6. n = Min(M) BY DEF CutSize
<1>7. n \in 0 .. Len(s) BY <1>2, <1>4, <1>5, <1>6
<1>8. IsCut(s, n, C, R) BY <1>7 DEF IsCut
<1>9. Shared(Nat, s, C, R)
  BY <1>1, <1>8, CutFacts
<1> QED BY <1>1, <1>9 DEF CreateCut, Shared

\* run
LEMMA TaskRunKeeps ==
    ASSUME EngineAssumption, NEW S, NEW h, NEW g, NEW Ad, Good(S, h, g, Ad), NEW t \in Live(S),
           NEW T, T = TaskRun(S, t)
    PROVE  Steps(S, T, t, h, g, Ad)
<1>1. S \in EngineStates /\ Owned(S) /\ Work(S, h, Ad) /\ t \in Tasks
  BY ContainsFacts DEF Good, Typed, Live, EngineStates
<1>2. CASE FreeCmds(S) = {}
  <2>1. T = S BY <1>2 DEF TaskRun
  <2> QED BY <2>1 DEF Steps, TaskFrame
<1>3. CASE FreeCmds(S) # {}
  <2> PICK k, n, C, R, N, E :
        /\ k = Min(FreeCmds(S)) /\ n = CutSize(S, t)
        /\ C = SubSeq(S.task[t].articles, 1, n)
        /\ R = SubSeq(S.task[t].articles, n + 1, Len(S.task[t].articles))
        /\ N = CreatedAs(S, t, k, C, R) /\ E = Requeued(N, t, k)
    BY ZenonT(60)
  <2>1. T = GotoState(E, t, "active")
    <3>1. N = [S EXCEPT !.cl[k] = [NoCmdlist EXCEPT !.task = t, !.account = AccountOf[t],
                                         !.commands = SubSeq(S.task[t].articles, 1, n)],
                        !.task[t].articles = SubSeq(@, n + 1, Len(@))]
      BY DEF CreatedAs
    <3> QED BY <1>3, <3>1, ZenonT(60) DEF TaskRun, Requeued, CountUp, CutSize
  <2>2. k \in CmdIds /\ S.cl[k] = NoCmdlist
    <3>1. FreeCmds(S) \in SUBSET Nat BY DEF FreeCmds, EngineAssumption
    <3>2. k \in FreeCmds(S) BY <1>3, <3>1, MinFacts, Zenon
    <3> QED BY <3>2 DEF FreeCmds
  <2>3. CreateCut(S, t, k, C, R)
    BY <1>1, <2>2, CutOff
  <2>6. Good(N, h, g, Ad) /\ Spare(N, h, k) /\ TaskFrame(S, N, t)
    BY ONLY EngineAssumption, Good(S, h, g, Ad), t \in Live(S), <2>2, <2>3,
            N = CreatedAs(S, t, k, C, R), CreatedKeeps
  <2>7. Steps(S, N, t, h, g, Ad) BY <2>6 DEF Steps
  <2>8. Steps(N, E, t, h, g, Ad) BY <1>1, <2>2, <2>6, EnqueueSteps
  <2>9. Good(E, h, g, Ad) /\ E \in EngineStates /\ "active" \in TaskStates
    BY <2>8 DEF Steps, Good, Typed, TaskStates
  <2>10. Quiet(E, T, t) BY <1>1, <2>1, <2>9, GotoStateQuiet
  <2>11. Steps(E, T, t, h, g, Ad) BY <1>1, <2>9, <2>10, StepsQuiet
  <2> QED BY <2>7, <2>8, <2>11, StepsTwice, SMTT(30)
<1> QED BY <1>2, <1>3

\* The cmdlist goes to the fill account.
LEMMA RefillKeeps ==
    ASSUME EngineAssumption, NEW S, NEW h, NEW g, NEW Ad, Good(S, h, g, Ad), NEW t \in Tasks,
           NEW k \in CmdIds, Spare(S, h, k), FillAccount # 0, NEW T, T = Refill(S, t, k)
    PROVE  Steps(S, T, t, h, g, Ad)
<1>1. S \in EngineStates
  BY DEF Good, Typed
<1> PICK C : C = [S.cl[k] EXCEPT !.account = FillAccount]
  OBVIOUS
<1> PICK f : f = [S.cl EXCEPT ![k] = C]
  OBVIOUS
<1> PICK F : F = [S EXCEPT !.cl[k].account = FillAccount]
  OBVIOUS
<1>2. C \in CmdRecords /\ SameCmd(S.cl[k], C)
  <2>1. S.cl[k] \in CmdRecords BY <1>1 DEF EngineStates
  <2> QED BY <2>1 DEF CmdRecords, SameCmd, EngineAssumption
<1>3. f \in [CmdIds -> CmdRecords] /\ \A l \in CmdIds : SameCmd(S.cl[l], f[l])
  <2>1. S.cl \in [CmdIds -> CmdRecords] BY <1>1 DEF EngineStates
  <2> QED BY <1>2, <2>1 DEF SameCmd
<1>4. F = [S EXCEPT !.cl = f]
  OBVIOUS
<1>5. Quiet(S, F, t)
  BY <1>1, <1>3, <1>4 DEF Quiet, TaskFrame, EngineStates
<1>6. Good(F, h, g, Ad) /\ Spare(F, h, k) /\ Steps(S, F, t, h, g, Ad)
  BY <1>5, QuietKeeps, StepsQuiet
<1>7. T = Requeued(F, t, k)
  BY DEF Refill, Requeued, CountUp
<1>8. Steps(F, T, t, h, g, Ad)
  BY <1>6, <1>7, EnqueueSteps
<1> QED BY <1>6, <1>8, StepsTwice

\* The jobs of the kinds W for the articles I of task t.
Jobs(t, W, I) == {TaskAction(w, t, i) : w \in W, i \in I}

LEMMA JobFacts ==
    ASSUME EngineAssumption, NEW t \in Tasks, NEW w \in JobKinds, NEW i \in Nat
    PROVE  /\ TaskAction(w, t, i) \in JobActions /\ TaskAction(w, t, i) \in Action
           /\ TaskAction(w, t, i).kind = w /\ TaskAction(w, t, i).task = t
           /\ TaskAction(w, t, i).article = i /\ TaskAction(w, t, i).conn = 0
  BY DEF TaskAction, ConnAction, JobActions, Action, ActionKinds, JobKinds

JobsAre(t, W, I, J) ==
    /\ J \in SUBSET JobActions /\ IsFiniteSet(J)
    /\ J \cap Action = J /\ J \cap OfTask(t) = J
    /\ \A u \in Tasks : u # t => J \cap OfTask(u) = {}
    /\ \A u \in Tasks, i \in Nat, w \in JobKinds :
         ~(u = t /\ i \in I /\ w \in W) => J \cap JobsOf(u, i, w) = {}
    /\ \A i \in Nat, w \in JobKinds : Cardinality(J \cap JobsOf(t, i, w)) <= 1
    /\ \A k \in CmdIds : /\ J \cap Execs(k) = {}
                         /\ \A u \in Tasks : J \cap ExecsFor(k, u) = {}
LEMMA JobsFacts ==
    ASSUME EngineAssumption, NEW t \in Tasks, NEW W \in SUBSET JobKinds, NEW I \in SUBSET Nat,
           IsFiniteSet(I), NEW J, J = Jobs(t, W, I)
    PROVE  JobsAre(t, W, I, J)
<1>1. ASSUME NEW a \in J
      PROVE  \E w \in W, i \in I :
               /\ a = TaskAction(w, t, i) /\ a \in JobActions /\ a \in Action
               /\ a.kind = w /\ a.task = t /\ a.article = i /\ a.conn = 0 /\ a.kind # "execute"
  <2>1. PICK w \in W, i \in I : a = TaskAction(w, t, i) BY DEF Jobs
  <2>2. w \in JobKinds /\ i \in Nat /\ w # "execute" BY DEF JobKinds
  <2>3. /\ TaskAction(w, t, i) \in JobActions /\ TaskAction(w, t, i) \in Action
        /\ TaskAction(w, t, i).kind = w /\ TaskAction(w, t, i).task = t
        /\ TaskAction(w, t, i).article = i /\ TaskAction(w, t, i).conn = 0
    BY <2>2, JobFacts
  <2> QED BY <2>1, <2>2, <2>3
<1>2. J \in SUBSET JobActions /\ J \cap Action = J /\ J \cap OfTask(t) = J
  BY <1>1 DEF OfTask
<1>3. \A u \in Tasks : u # t => J \cap OfTask(u) = {}
  BY <1>1 DEF OfTask
<1>4. \A u \in Tasks, i \in Nat, w \in JobKinds :
        ~(u = t /\ i \in I /\ w \in W) => J \cap JobsOf(u, i, w) = {}
  BY <1>1 DEF JobsOf
<1>5. \A k \in CmdIds : /\ J \cap Execs(k) = {}
                        /\ \A u \in Tasks : J \cap ExecsFor(k, u) = {}
  BY <1>1 DEF Execs, ExecsFor
<1>6. ASSUME NEW i \in Nat, NEW w \in JobKinds PROVE Cardinality(J \cap JobsOf(t, i, w)) <= 1
  <2>1. J \cap JobsOf(t, i, w) \subseteq {TaskAction(w, t, i)}
    BY <1>1 DEF JobsOf
  <2>2. CASE J \cap JobsOf(t, i, w) = {}
    <3>1. Cardinality(J \cap JobsOf(t, i, w)) = 0 BY <2>2, FS_EmptySet
    <3> QED BY <3>1
  <2>3. CASE J \cap JobsOf(t, i, w) = {TaskAction(w, t, i)}
    <3>1. Cardinality(J \cap JobsOf(t, i, w)) = 1 BY <2>3, FS_Singleton
    <3> QED BY <3>1
  <2> QED BY <2>1, <2>2, <2>3
<1>7. IsFiniteSet(J)
  <2> PICK f : f = [p \in W \X I |-> TaskAction(p[1], t, p[2])]
    OBVIOUS
  <2>1. IsFiniteSet(JobKinds)
    <3>1. IsFiniteSet({"decode"}) /\ IsFiniteSet({"binary"}) /\ IsFiniteSet({"text"})
      BY FS_Singleton
    <3>3. IsFiniteSet({"binary"} \cup {"text"})
      BY <3>1, FS_Union
    <3>4. IsFiniteSet({"decode"} \cup ({"binary"} \cup {"text"}))
      BY <3>1, <3>3, FS_Union
    <3>2. JobKinds = {"decode"} \cup ({"binary"} \cup {"text"}) BY DEF JobKinds
    <3> QED BY <3>4, <3>2 DEF JobKinds
  <2>2. IsFiniteSet(W) BY <2>1, FS_Subset
  <2>3. IsFiniteSet(W \X I) BY <2>2, FS_Product
  <2>4. f \in Surjection(W \X I, J)
    <3>1. ASSUME NEW w \in W, NEW i \in I
          PROVE  <<w, i>> \in W \X I /\ f[<<w, i>>] = TaskAction(w, t, i)
      <4>1. <<w, i>> \in W \X I /\ <<w, i>>[1] = w /\ <<w, i>>[2] = i OBVIOUS
      <4>2. \A p \in W \X I : f[p] = TaskAction(p[1], t, p[2]) OBVIOUS
      <4> QED BY <4>1, <4>2
    <3>2. \A p \in W \X I : f[p] \in J BY DEF Jobs
    <3>3. ASSUME NEW a \in J PROVE \E p \in W \X I : f[p] = a
      <4>1. PICK w \in W, i \in I : a = TaskAction(w, t, i) BY DEF Jobs
      <4>2. <<w, i>> \in W \X I /\ f[<<w, i>>] = a BY <3>1, <4>1
      <4> QED BY <4>2
    <3> QED BY <3>2, <3>3 DEF Surjection
  <2> QED BY <2>3, <2>4, FS_Surjection
<1> QED BY <1>2, <1>3, <1>4, <1>5, <1>6, <1>7 DEF JobsAre

\* Decodes of articles that have none, or writes of what a decode found.
Fresh(S, h, t, W, I) ==
    /\ W \in SUBSET JobKinds /\ (W = {"decode"} \/ "decode" \notin W)
    /\ IsFiniteSet(I) /\ I \subseteq S.task[t].decoded
    /\ \A i \in I, w \in JobKinds : Total(S, h, JobsOf(t, i, w)) = 0
Submitted(S, t, W, I) == TaskSubmit(S, t, Jobs(t, W, I))

SubmitChange(S, T, t, J) ==
    /\ T \in EngineStates /\ TaskFrame(S, T, t) /\ T.cmds = S.cmds /\ T.cl = S.cl
    /\ T.conns = S.conns /\ T.conn = S.conn
    /\ T.queue = S.queue /\ T.jobs = S.jobs \cup J /\ T.done = S.done
    /\ T.num_pending_actions = S.num_pending_actions + Cardinality(J)
    /\ \A u \in Tasks : u # t => T.task[u] = S.task[u]
    /\ T.task[t].articles = S.task[t].articles /\ T.task[t].decoded = S.task[t].decoded
    /\ T.task[t].missing = S.task[t].missing
    /\ T.task[t].nact = S.task[t].nact + Cardinality(J)

LEMMA SubmitChanges ==
    ASSUME NEW S \in EngineStates, NEW t \in Tasks, NEW J \in SUBSET JobActions, IsFiniteSet(J),
           NEW T, T = TaskSubmit(S, t, J)
    PROVE  SubmitChange(S, T, t, J)
<1> PICK n : n = Cardinality(J)
  OBVIOUS
<1>1. n \in Nat BY FS_CardinalityType
<1> PICK m : m = S.task[t].nact + n
  OBVIOUS
<1> PICK r : r = [S.task[t] EXCEPT !.nact = m]
  OBVIOUS
<1>2. r \in TaskRecords /\ r.articles = S.task[t].articles /\ r.decoded = S.task[t].decoded
      /\ r.missing = S.task[t].missing /\ r.nact = m
  <2>1. S.task[t] \in TaskRecords BY DEF EngineStates
  <2>2. m \in Int BY <1>1, <2>1 DEF TaskRecords
  <2> QED BY <2>1, <2>2 DEF TaskRecords
<1>3. T = [S EXCEPT !.jobs = S.jobs \cup J, !.task = [S.task EXCEPT ![t] = r],
                    !.num_pending_actions = S.num_pending_actions + n]
  BY DEF TaskSubmit
<1>4. [S.task EXCEPT ![t] = r] \in [Tasks -> TaskRecords]
  BY <1>2 DEF EngineStates
<1>5. T \in EngineStates
  <2>1. S.jobs \cup J \in SUBSET JobActions BY DEF EngineStates
  <2>2. S.num_pending_actions + n \in Int BY <1>1 DEF EngineStates
  <2> QED BY <1>3, <1>4, <2>1, <2>2 DEF EngineStates
<1>6. /\ T.tasks = S.tasks /\ T.batch = S.batch /\ T.cmds = S.cmds /\ T.cl = S.cl
      /\ T.conns = S.conns /\ T.conn = S.conn
      /\ T.queue = S.queue /\ T.jobs = S.jobs \cup J /\ T.done = S.done
      /\ T.num_pending_actions = S.num_pending_actions + n
      /\ T.task = [S.task EXCEPT ![t] = r]
  BY <1>3 DEF EngineStates
<1>7. T.task[t] = r /\ \A u \in Tasks : u # t => T.task[u] = S.task[u]
  BY <1>6 DEF EngineStates
<1> QED BY <1>2, <1>5, <1>6, <1>7 DEF SubmitChange, TaskFrame

\* Fresh jobs are submitted.
LEMMA HiredKeeps ==
    ASSUME EngineAssumption, NEW S, NEW h, NEW g, NEW Ad, Good(S, h, g, Ad), NEW t \in Live(S),
           NEW W, NEW I, Fresh(S, h, t, W, I), NEW T, T = Submitted(S, t, W, I)
    PROVE  Steps(S, T, t, h, g, Ad)
<1> PICK J : J = Jobs(t, W, I)
  OBVIOUS
<1>1. /\ S \in EngineStates /\ IsFiniteSet(S.jobs) /\ Owned(S) /\ Work(S, h, Ad)
      /\ Live(S) \subseteq Tasks /\ t \in Tasks
  BY ContainsFacts DEF Good, Typed, Live, EngineStates
<1>2. /\ W \in SUBSET JobKinds /\ I \in SUBSET Nat /\ IsFiniteSet(I)
      /\ I \subseteq S.task[t].decoded
  BY <1>1 DEF Fresh, EngineStates, TaskRecords
<1>3. /\ J \in SUBSET JobActions /\ IsFiniteSet(J)
      /\ J \cap Action = J /\ J \cap OfTask(t) = J
      /\ \A u \in Tasks : u # t => J \cap OfTask(u) = {}
      /\ \A u \in Tasks, i \in Nat, w \in JobKinds :
           ~(u = t /\ i \in I /\ w \in W) => J \cap JobsOf(u, i, w) = {}
      /\ \A i \in Nat, w \in JobKinds : Cardinality(J \cap JobsOf(t, i, w)) <= 1
      /\ \A k \in CmdIds : /\ J \cap Execs(k) = {}
                           /\ \A u \in Tasks : J \cap ExecsFor(k, u) = {}
  <2>1. JobsAre(t, W, I, J) BY <1>1, <1>2, JobsFacts
  <2> QED BY <2>1 DEF JobsAre
<1>4. SubmitChange(S, T, t, J)
  BY <1>1, <1>3, SubmitChanges DEF Submitted
<1>5. /\ T \in EngineStates /\ TaskFrame(S, T, t) /\ T.cmds = S.cmds /\ T.cl = S.cl
      /\ T.conns = S.conns /\ T.conn = S.conn /\ Live(T) = Live(S)
      /\ T.queue = S.queue /\ T.jobs = S.jobs \cup J /\ T.done = S.done
      /\ T.num_pending_actions = S.num_pending_actions + Cardinality(J)
      /\ \A u \in Tasks :
           /\ T.task[u].articles = S.task[u].articles /\ T.task[u].decoded = S.task[u].decoded
           /\ T.task[u].missing = S.task[u].missing
      /\ \A u \in Tasks : u # t => T.task[u].nact = S.task[u].nact
      /\ T.task[t].nact = S.task[t].nact + Cardinality(J)
  BY <1>4 DEF SubmitChange, TaskFrame, Live
<1>6. Countable(S) /\ Cardinality(J) \in Nat /\ Cardinality({}) = 0
  BY <1>1, <1>3, FS_CardinalityType, FS_EmptySet DEF Countable, EngineStates
<1>7. J \cap S.jobs = {}
  <2> SUFFICES ASSUME NEW a \in J, a \in S.jobs PROVE FALSE
    OBVIOUS
  <2>1. PICK w \in W, i \in I : a = TaskAction(w, t, i) BY DEF Jobs
  <2>2. w \in JobKinds /\ i \in Nat BY <1>2
  <2>3. TaskAction(w, t, i) \in JobsOf(t, i, w) BY <1>1, <2>2, JobFacts DEF JobsOf
  <2>4. Total(S, h, JobsOf(t, i, w)) = 0 BY <2>2 DEF Fresh
  <2>5. UnderWay(S, h) \cap JobsOf(t, i, w) = {}
    <3> PICK P : P = JobsOf(t, i, w)
      OBVIOUS
    <3>1. Total(S, h, P) = 0 <=> UnderWay(S, h) \cap P = {} BY <1>6, TotalFacts, ZenonT(60)
    <3> QED BY <2>4, <3>1
  <2> QED BY <2>1, <2>3, <2>5 DEF UnderWay
<1>20. \A f, P : /\ Total(T, f, P) = Total(S, f, P) + Cardinality(J \cap P)
                 /\ Cardinality(J \cap P) \in Nat
  BY ONLY EngineAssumption, <1>3, <1>5, <1>6, <1>7, TotalHires
<1>8. ASSUME NEW P
      PROVE  /\ Total(T, h, P) = Total(S, h, P) + Cardinality(J \cap P)
             /\ Cardinality(J \cap P) \in Nat /\ Total(S, h, P) \in Nat
  <2>1. /\ Total(T, h, P) = Total(S, h, P) + Cardinality(J \cap P)
        /\ Cardinality(J \cap P) \in Nat
    BY <1>20
  <2>2. Total(S, h, P) \in Nat BY <1>6, TotalFacts
  <2> QED BY <2>1, <2>2
<1>9. ASSUME NEW k \in CmdIds
      PROVE  /\ Total(T, h, Execs(k)) = Total(S, h, Execs(k))
             /\ \A u \in Tasks : Total(T, h, ExecsFor(k, u)) = Total(S, h, ExecsFor(k, u))
  <2>1. Total(T, h, Execs(k)) = Total(S, h, Execs(k))
    BY <1>3, <1>6, <1>8
  <2>2. ASSUME NEW u \in Tasks PROVE Total(T, h, ExecsFor(k, u)) = Total(S, h, ExecsFor(k, u))
    BY <1>3, <1>6, <1>8
  <2> QED BY <2>1, <2>2
<1>10. ASSUME NEW u \in Tasks, NEW i \in Nat, NEW w \in JobKinds
       PROVE  /\ ~(u = t /\ i \in I /\ w \in W) =>
                   Total(T, h, JobsOf(u, i, w)) = Total(S, h, JobsOf(u, i, w))
              /\ u = t /\ i \in I => Total(T, h, JobsOf(u, i, w)) <= 1
              /\ u = t /\ i \in I /\ w \notin W => Total(T, h, JobsOf(u, i, w)) = 0
              /\ Total(T, h, JobsOf(u, i, w)) \in Nat /\ Total(S, h, JobsOf(u, i, w)) \in Nat
  <2> PICK P : P = JobsOf(u, i, w)
    OBVIOUS
  <2>1. /\ Total(T, h, P) = Total(S, h, P) + Cardinality(J \cap P)
        /\ Cardinality(J \cap P) \in Nat /\ Total(S, h, P) \in Nat
    BY <1>8
  <2>2. /\ ~(u = t /\ i \in I /\ w \in W) => Cardinality(J \cap P) = 0
        /\ u = t => Cardinality(J \cap P) <= 1
    BY <1>3, <1>6
  <2>3. u = t /\ i \in I => Total(S, h, P) = 0
    BY DEF Fresh
  <2> QED BY <2>1, <2>2, <2>3
<1>11. Counted(T, h)
  <2>1. T.num_pending_actions = Total(T, h, Action)
    BY <1>1, <1>3, <1>5, <1>8 DEF Work, Counted
  <2>2. ASSUME NEW u \in Live(T) PROVE T.task[u].nact = Total(T, h, OfTask(u))
    <3>1. u \in Tasks /\ S.task[u].nact = Total(S, h, OfTask(u))
      BY <1>1, <1>5, <2>2 DEF Work, Counted
    <3>2. CASE u = t BY <1>3, <1>5, <1>8, <3>1, <3>2
    <3>3. CASE u # t
      <4>1. Total(T, h, OfTask(u)) = Total(S, h, OfTask(u)) BY <1>3, <1>6, <1>8, <3>1, <3>3
      <4> QED BY <1>5, <3>1, <3>3, <4>1
    <3> QED BY <3>2, <3>3
  <2>3. ASSUME NEW u \in Tasks, u \notin Live(T) PROVE T.task[u].nact = 0
    BY <1>1, <1>5, <2>3 DEF Work, Counted
  <2> QED BY <2>1, <2>2, <2>3 DEF Counted
<1>12. DecodedOnce(T, h)
  <2>1. "decode" \in JobKinds /\ {"binary", "text"} \subseteq JobKinds BY DEF JobKinds
  <2>2. ASSUME NEW u \in Tasks, NEW i \in Nat, NEW w \in {"binary", "text"}
        PROVE  Total(T, h, JobsOf(u, i, "decode")) + Total(T, h, JobsOf(u, i, w)) <= 1
    <3>1. CASE u = t /\ i \in I
      <4>1. /\ Total(T, h, JobsOf(u, i, "decode")) <= 1 /\ Total(T, h, JobsOf(u, i, w)) <= 1
            /\ Total(T, h, JobsOf(u, i, "decode")) \in Nat /\ Total(T, h, JobsOf(u, i, w)) \in Nat
        BY <1>10, <2>1, <3>1
      <4>2. CASE W = {"decode"}
        <5>1. w \notin W BY <4>2
        <5>2. Total(T, h, JobsOf(u, i, w)) = 0 BY <1>10, <2>1, <3>1, <5>1
        <5> QED BY <4>1, <5>2
      <4>3. CASE "decode" \notin W
        <5>2. Total(T, h, JobsOf(u, i, "decode")) = 0 BY <1>10, <2>1, <3>1, <4>3
        <5> QED BY <4>1, <5>2
      <4> QED BY <4>2, <4>3 DEF Fresh
    <3>2. CASE ~(u = t /\ i \in I)
      <4>1. /\ Total(T, h, JobsOf(u, i, "decode")) = Total(S, h, JobsOf(u, i, "decode"))
            /\ Total(T, h, JobsOf(u, i, w)) = Total(S, h, JobsOf(u, i, w))
        BY <1>10, <2>1, <3>2
      <4> QED BY <1>1, <4>1 DEF Work, DecodedOnce
    <3> QED BY <3>1, <3>2
  <2>3. ASSUME NEW u \in Live(T), NEW i \in Nat, NEW w \in JobKinds, Total(T, h, JobsOf(u, i, w)) # 0
        PROVE  i \in T.task[u].decoded
    <3>1. u \in Live(S) /\ u \in Tasks BY <1>1, <1>5
    <3>2. CASE u = t /\ i \in I BY <1>2, <1>5, <3>1, <3>2
    <3>3. CASE ~(u = t /\ i \in I)
      <4>1. Total(S, h, JobsOf(u, i, w)) # 0 BY <1>10, <2>3, <3>1, <3>3
      <4> QED BY <1>1, <1>5, <3>1, <4>1 DEF Work, DecodedOnce
    <3> QED BY <3>2, <3>3
  <2> QED BY <2>2, <2>3 DEF DecodedOnce
<1>13. ExecutedOnce(T, h)
  BY <1>1, <1>5, <1>9 DEF Work, ExecutedOnce
<1>14. Out(T, h) = Out(S, h)
  BY <1>5, <1>9 DEF Out
<1>15. Claimed(T, h)
  <2>1. \A k \in Out(S, h) : Claim(S, k) => Claim(T, k)
    <3> SUFFICES ASSUME NEW k \in Out(S, h), Claim(S, k), T.cl[k].task \in Live(T)
                 PROVE  /\ IsInjective(T.cl[k].commands)
                        /\ Claims(T, k) \cap ToSet(T.task[T.cl[k].task].articles) = {}
                        /\ Claims(T, k) \cap T.task[T.cl[k].task].decoded = {}
      BY DEF Claim
    <3> PICK u : u = T.cl[k].task
      OBVIOUS
    <3>1. u \in Live(S) /\ u \in Tasks /\ u = S.cl[k].task BY <1>1, <1>5
    <3>2. T.task[u].articles = S.task[u].articles /\ T.task[u].decoded = S.task[u].decoded
      BY <1>5, <3>1
    <3> QED BY <1>5, <3>1, <3>2 DEF Claim, Claims
  <2>2. \A k, l : Apart(S, k, l) => Apart(T, k, l)
    BY <1>5 DEF Apart, Claims
  <2>3. \A u \in Live(T) : /\ IsInjective(T.task[u].articles)
                           /\ ToSet(T.task[u].articles) \cap T.task[u].decoded = {}
    BY <1>1, <1>5 DEF Work, Claimed
  <2> QED BY <1>1, <1>14, <2>1, <2>2, <2>3 DEF Work, Claimed
<1>16. Unknown(T, h, Ad)
  <2>1. BatchOf[t] \in Ad BY <1>1 DEF Work, Unknown
  <2>2. ASSUME NEW u \in Tasks, BatchOf[u] \notin Ad
        PROVE  /\ u \notin Live(T)
               /\ Total(T, h, OfTask(u)) = 0
               /\ \A i \in Nat, w \in JobKinds : Total(T, h, JobsOf(u, i, w)) = 0
               /\ \A k \in CmdIds : T.cl[k].task # u
    <3>1. u # t BY <2>1, <2>2
    <3>2. /\ u \notin Live(S) /\ Total(S, h, OfTask(u)) = 0
          /\ \A i \in Nat, w \in JobKinds : Total(S, h, JobsOf(u, i, w)) = 0
          /\ \A k \in CmdIds : S.cl[k].task # u
      BY <1>1, <2>2 DEF Work, Unknown
    <3>3. Total(T, h, OfTask(u)) = 0 BY <1>3, <1>6, <1>8, <3>1, <3>2
    <3>4. \A i \in Nat, w \in JobKinds : Total(T, h, JobsOf(u, i, w)) = 0
      BY <1>10, <3>1, <3>2
    <3> QED BY <1>5, <3>2, <3>3, <3>4
  <2> QED BY <2>2 DEF Unknown
<1>17. Typed(T)
  <2>1. IsFiniteSet(S.jobs \cup J) BY <1>1, <1>3, FS_Union
  <2> QED BY <1>1, <1>5, <2>1 DEF Typed, Owned
<1>18. Linked(T, g)
  <2>1. Links(S, g) => Links(T, g) BY <1>1, <1>5, LinksSame
  <2> QED BY <2>1 DEF Good, Linked
<1>19. Work(T, h, Ad)
  BY <1>11, <1>12, <1>13, <1>15, <1>16 DEF Work
<1> QED BY <1>5, <1>17, <1>18, <1>19 DEF Steps, Good

\* A cmdlist of task t whose execute has been taken out of done.
Back(S, h, t, k) == k \in CmdIds /\ Spare(S, h, k) /\ k \notin Out(S, h) /\ S.cl[k].task = t

LEMMA QuietBack ==
    ASSUME EngineAssumption, NEW S, NEW h, NEW g, NEW Ad, Good(S, h, g, Ad), NEW t \in Tasks,
           NEW k, Back(S, h, t, k), NEW T, Quiet(S, T, t)
    PROVE  Back(T, h, t, k)
<1>1. k \in CmdIds /\ Spare(S, h, k) /\ k \notin Out(S, h) /\ S.cl[k].task = t
  BY DEF Back
<1>2. Spare(T, h, k) /\ Out(T, h) \subseteq Out(S, h)
  <2>1. /\ Out(T, h) \subseteq Out(S, h)
        /\ \A l \in CmdIds : Spare(S, h, l) => Spare(T, h, l)
    BY QuietKeeps
  <2> QED BY <1>1, <2>1
<1>3. T.cl[k].task = S.cl[k].task
  BY <1>1 DEF Quiet, SameCmd
<1> QED BY <1>1, <1>2, <1>3 DEF Back

\* download::complete gives the articles R back and decodes the articles G.
TakenBack(S, t, R, G) == [S EXCEPT !.task[t].articles = @ \o R, !.task[t].decoded = @ \cup G]
Handled(S, k, R, G) ==
    /\ R \in Seq(Nat) /\ IsInjective(R) /\ ToSet(R) \cap G = {}
    /\ ToSet(R) \subseteq Claims(S, k) /\ G \subseteq Claims(S, k)

BackChange(S, T, t, R, G) ==
    /\ T \in EngineStates /\ TaskFrame(S, T, t) /\ T.cmds = S.cmds /\ T.cl = S.cl
    /\ T.conns = S.conns /\ T.conn = S.conn
    /\ T.queue = S.queue /\ T.jobs = S.jobs /\ T.done = S.done
    /\ T.num_pending_actions = S.num_pending_actions
    /\ \A u \in Tasks : u # t => T.task[u] = S.task[u]
    /\ T.task[t].articles = S.task[t].articles \o R
    /\ T.task[t].decoded = S.task[t].decoded \cup G
    /\ T.task[t].missing = S.task[t].missing /\ T.task[t].nact = S.task[t].nact

LEMMA BackChanges ==
    ASSUME NEW S \in EngineStates, NEW t \in Tasks, NEW R \in Seq(Nat), NEW G \in SUBSET Nat,
           NEW T, T = TakenBack(S, t, R, G)
    PROVE  BackChange(S, T, t, R, G)
<1> PICK s, D : s = S.task[t].articles \o R /\ D = S.task[t].decoded \cup G
  OBVIOUS
<1> PICK r : r = [S.task[t] EXCEPT !.articles = s, !.decoded = D]
  OBVIOUS
<1>1. S.task[t] \in TaskRecords BY DEF EngineStates
<1>2. s \in Seq(Nat) /\ D \in SUBSET Nat
  BY <1>1 DEF TaskRecords
<1>3. r \in TaskRecords /\ r.articles = s /\ r.decoded = D
      /\ r.missing = S.task[t].missing /\ r.nact = S.task[t].nact
  BY <1>1, <1>2 DEF TaskRecords
<1>4. T = [S EXCEPT !.task = [S.task EXCEPT ![t] = r]]
  BY DEF TakenBack
<1>5. [S.task EXCEPT ![t] = r] \in [Tasks -> TaskRecords]
  BY <1>3 DEF EngineStates
<1>6. T \in EngineStates
  BY <1>4, <1>5 DEF EngineStates
<1>7. /\ T.tasks = S.tasks /\ T.batch = S.batch /\ T.cmds = S.cmds /\ T.cl = S.cl
      /\ T.conns = S.conns /\ T.conn = S.conn
      /\ T.queue = S.queue /\ T.jobs = S.jobs /\ T.done = S.done
      /\ T.num_pending_actions = S.num_pending_actions
      /\ T.task = [S.task EXCEPT ![t] = r]
  BY <1>4 DEF EngineStates
<1>8. T.task[t] = r /\ \A u \in Tasks : u # t => T.task[u] = S.task[u]
  BY <1>7 DEF EngineStates
<1> QED BY <1>3, <1>6, <1>7, <1>8 DEF BackChange, TaskFrame

LEMMA BackKeeps ==
    ASSUME EngineAssumption, NEW S, NEW h, NEW g, NEW Ad, Good(S, h, g, Ad), NEW t \in Live(S),
           NEW k, Back(S, h, t, k), NEW R, NEW G, Handled(S, k, R, G),
           NEW T, T = TakenBack(S, t, R, G)
    PROVE  Steps(S, T, t, h, g, Ad) /\ Fresh(T, h, t, {"decode"}, G)
<1>1. /\ S \in EngineStates /\ IsFiniteSet(S.jobs) /\ Owned(S) /\ Work(S, h, Ad)
      /\ Live(S) \subseteq Tasks /\ t \in Tasks
  BY ContainsFacts DEF Good, Typed, Live, EngineStates
<1>2. k \in CmdIds /\ k \notin Out(S, h) /\ S.cl[k].task = t /\ t # 0
      /\ \A l \in Out(S, h) : Apart(S, k, l)
  BY <1>1 DEF Back, Spare, EngineAssumption
<1>3. /\ R \in Seq(Nat) /\ IsInjective(R) /\ ToSet(R) \cap G = {}
      /\ ToSet(R) \subseteq Claims(S, k) /\ G \subseteq Claims(S, k)
  BY DEF Handled
<1>4. /\ Claims(S, k) \cap ToSet(S.task[t].articles) = {}
      /\ Claims(S, k) \cap S.task[t].decoded = {}
  BY <1>2 DEF Back, Spare, Claim
<1>5. Claims(S, k) \subseteq Article(t) /\ Article(t) \in SUBSET Nat /\ IsFiniteSet(Article(t))
  <2>1. Claims(S, k) \subseteq Article(t) BY <1>1, <1>2 DEF Claims, Owned
  <2>2. NumArticles[t] \in Nat BY <1>1 DEF EngineAssumption
  <2> PICK n : n = NumArticles[t]
    OBVIOUS
  <2>3. IsFiniteSet(1 .. n) BY <2>2, FS_Interval
  <2> QED BY <2>1, <2>2, <2>3 DEF Article
<1>6. BackChange(S, T, t, R, G)
  <2>1. G \in SUBSET Nat BY <1>3, <1>5
  <2> QED BY <1>1, <1>3, <2>1, BackChanges
<1>7. /\ T \in EngineStates /\ TaskFrame(S, T, t) /\ T.cmds = S.cmds /\ T.cl = S.cl
      /\ T.conns = S.conns /\ T.conn = S.conn /\ Live(T) = Live(S)
      /\ T.queue = S.queue /\ T.jobs = S.jobs /\ T.done = S.done
      /\ T.num_pending_actions = S.num_pending_actions
      /\ \A u \in Tasks :
           /\ T.task[u].missing = S.task[u].missing /\ T.task[u].nact = S.task[u].nact
           /\ S.task[u].decoded \subseteq T.task[u].decoded
      /\ \A u \in Tasks : u # t => T.task[u] = S.task[u]
      /\ T.task[t].decoded = S.task[t].decoded \cup G
  BY <1>6 DEF BackChange, TaskFrame, Live
<1>8. /\ ToSet(T.task[t].articles) = ToSet(S.task[t].articles) \cup ToSet(R)
      /\ IsInjective(T.task[t].articles)
  <2> PICK s : s = S.task[t].articles
    OBVIOUS
  <2>1. s \in Seq(Nat) /\ IsInjective(s)
    BY <1>1 DEF EngineStates, TaskRecords, Work, Claimed
  <2>2. Range(s) = ToSet(s) /\ Range(R) = ToSet(R)
    BY <2>1, <1>3, ContainsFacts
  <2>3. /\ s \o R \in Seq(Nat) /\ Range(s \o R) = Range(s) \cup Range(R)
        /\ IsInjective(s \o R) <=>
             IsInjective(s) /\ IsInjective(R) /\ Range(s) \cap Range(R) = {}
    BY <2>1, <1>3, ConcatFacts
  <2>4. Range(s) \cap Range(R) = {} BY <1>3, <1>4, <2>2
  <2>5. ToSet(s \o R) = Range(s \o R) BY <2>3, ContainsFacts
  <2>6. T.task[t].articles = s \o R BY <1>6 DEF BackChange
  <2> QED BY <1>3, <2>1, <2>2, <2>3, <2>4, <2>5, <2>6
<1>9. ASSUME NEW f, NEW P PROVE Total(T, f, P) = Total(S, f, P)
  BY <1>7, TotalSame
<1>10. Out(T, h) = Out(S, h)
  BY <1>7, <1>9 DEF Out
<1>11. Counted(T, h)
  BY <1>1, <1>7, <1>9 DEF Work, Counted
<1>12. DecodedOnce(T, h)
  BY <1>1, <1>7, <1>9 DEF Work, DecodedOnce
<1>13. ExecutedOnce(T, h)
  BY <1>1, <1>7, <1>9 DEF Work, ExecutedOnce
<1>14. ASSUME NEW l \in Out(S, h) PROVE Claim(T, l)
  <2> SUFFICES ASSUME T.cl[l].task \in Live(T)
               PROVE  /\ IsInjective(T.cl[l].commands)
                      /\ Claims(T, l) \cap ToSet(T.task[T.cl[l].task].articles) = {}
                      /\ Claims(T, l) \cap T.task[T.cl[l].task].decoded = {}
    BY DEF Claim
  <2> PICK u : u = S.cl[l].task
    OBVIOUS
  <2>1. u \in Live(S) /\ u \in Tasks /\ T.cl[l].task = u BY <1>1, <1>7
  <2>2. Claims(T, l) = Claims(S, l) /\ T.cl[l].commands = S.cl[l].commands
    BY <1>7 DEF Claims
  <2>3. /\ IsInjective(S.cl[l].commands)
        /\ Claims(S, l) \cap ToSet(S.task[u].articles) = {}
        /\ Claims(S, l) \cap S.task[u].decoded = {}
    BY <1>1, <2>1 DEF Work, Claimed, Claim
  <2>4. CASE u # t BY <1>7, <2>1, <2>2, <2>3, <2>4
  <2>5. CASE u = t
    <3>1. Claims(S, k) \cap Claims(S, l) = {} BY <1>2, <2>1, <2>5 DEF Apart
    <3> QED BY <1>3, <1>7, <1>8, <2>1, <2>2, <2>3, <2>5, <3>1
  <2> QED BY <2>4, <2>5
<1>15. Claimed(T, h)
  <2>1. ASSUME NEW u \in Live(T)
        PROVE  /\ IsInjective(T.task[u].articles)
               /\ ToSet(T.task[u].articles) \cap T.task[u].decoded = {}
    <3>1. u \in Live(S) /\ u \in Tasks BY <1>1, <1>7
    <3>2. /\ IsInjective(S.task[u].articles)
          /\ ToSet(S.task[u].articles) \cap S.task[u].decoded = {}
      BY <1>1, <3>1 DEF Work, Claimed
    <3>3. CASE u # t BY <1>7, <3>1, <3>2, <3>3
    <3>4. CASE u = t BY <1>3, <1>4, <1>7, <1>8, <3>2, <3>4
    <3> QED BY <3>3, <3>4
  <2>2. \A l, m : Apart(S, l, m) => Apart(T, l, m)
    BY <1>7 DEF Apart, Claims
  <2>3. \A l, m \in Out(S, h) : l # m => Apart(S, l, m)
    BY <1>1 DEF Work, Claimed
  <2>4. \A l, m \in Out(T, h) : l # m => Apart(T, l, m)
    BY <1>10, <2>2, <2>3
  <2>5. \A l \in Out(T, h) : Claim(T, l)
    BY <1>10, <1>14
  <2> QED BY <2>1, <2>4, <2>5 DEF Claimed
<1>16. Unknown(T, h, Ad)
  BY <1>1, <1>7, <1>9 DEF Work, Unknown
<1>17. Typed(T)
  <2>1. ASSUME NEW u \in Tasks
        PROVE  /\ ToSet(T.task[u].articles) \subseteq Article(u)
               /\ T.task[u].decoded \subseteq Article(u)
               /\ T.task[u].missing \subseteq Article(u)
    <3>1. /\ ToSet(S.task[u].articles) \subseteq Article(u)
          /\ S.task[u].decoded \subseteq Article(u)
          /\ S.task[u].missing \subseteq Article(u)
      BY <1>1 DEF Owned
    <3>2. CASE u = t BY <1>3, <1>5, <1>7, <1>8, <3>1, <3>2
    <3>3. CASE u # t BY <1>7, <3>1, <3>3
    <3> QED BY <3>2, <3>3
  <2>2. Owned(T) BY <1>1, <1>7, <2>1 DEF Owned
  <2> QED BY <1>1, <1>7, <2>2 DEF Typed
<1>18. Linked(T, g)
  <2>1. Links(S, g) => Links(T, g) BY <1>1, <1>7, LinksSame
  <2> QED BY <2>1 DEF Good, Linked
<1>19. Work(T, h, Ad)
  BY <1>11, <1>12, <1>13, <1>15, <1>16 DEF Work
<1>20. Steps(S, T, t, h, g, Ad)
  BY <1>7, <1>17, <1>18, <1>19 DEF Steps, Good
<1>21. Fresh(T, h, t, {"decode"}, G)
  <2>1. IsFiniteSet(G) /\ G \subseteq Nat BY <1>3, <1>5, FS_Subset
  <2>2. ASSUME NEW i \in G, NEW w \in JobKinds PROVE Total(T, h, JobsOf(t, i, w)) = 0
    <3>1. i \notin S.task[t].decoded /\ i \in Nat BY <1>3, <1>4, <2>1
    <3>2. Total(S, h, JobsOf(t, i, w)) = 0 BY <1>1, <3>1 DEF Work, DecodedOnce
    <3> QED BY <3>2, <1>9
  <2>3. {"decode"} \in SUBSET JobKinds BY DEF JobKinds
  <2> QED BY <1>7, <2>1, <2>2, <2>3 DEF Fresh
<1> QED BY <1>20, <1>21

\* What a cmdlist has received and what it was not asked for are apart.
LEMMA ReceivedApart ==
    ASSUME EngineAssumption, NEW S, S \in EngineStates, Owned(S), NEW k \in CmdIds,
           IsInjective(S.cl[k].commands),
           NEW R, R = NotProcessed(S.cl[k]), NEW G, G = ArticlesWith(S.cl[k], {"success"})
    PROVE  Handled(S, k, R, G)
<1> PICK c, b : c = S.cl[k].commands /\ b = S.cl[k].buffers
  OBVIOUS
<1> PICK n : n = Len(b)
  OBVIOUS
<1> PICK P : P = SubSeq(c, 1, n)
  OBVIOUS
<1>1. c \in Seq(Nat) /\ b \in Seq(Statuses) /\ IsInjective(c)
  BY DEF EngineStates, CmdRecords
<1>2. n \in 0 .. Len(c) /\ DOMAIN b = 1 .. n
  <2>1. Len(b) \in Nat /\ Len(c) \in Nat /\ DOMAIN b = 1 .. Len(b) BY <1>1
  <2>2. Len(b) <= Len(c) BY DEF Owned
  <2> QED BY <2>1, <2>2
<1>3. R = SubSeq(c, n + 1, Len(c)) BY DEF NotProcessed
<1>4. IsCut(c, n, P, R) BY <1>2, <1>3 DEF IsCut
<1>5. Shared(Nat, c, P, R) BY <1>1, <1>4, CutFacts
<1>6. G \subseteq ToSet(P)
  <2>1. G = {c[i] : i \in {j \in DOMAIN b : b[j] \in {"success"}}}
    BY DEF ArticlesWith
  <2>2. ASSUME NEW i \in 1 .. n PROVE c[i] \in ToSet(P)
    <3>1. DOMAIN P = 1 .. n /\ P[i] = c[i] BY <1>1, <1>2
    <3> QED BY <3>1 DEF ToSet
  <2> QED BY <1>2, <2>1, <2>2
<1> QED BY <1>1, <1>5, <1>6 DEF Handled, Shared, Claims

LEMMA DownloadCompleteKeeps ==
    ASSUME EngineAssumption, NEW S, NEW h, NEW g, NEW Ad, Good(S, h, g, Ad), NEW t \in Live(S),
           NEW k, Back(S, h, t, k), NEW T, T = DownloadComplete(S, t, k)
    PROVE  Steps(S, T, t, h, g, Ad)
<1>1. S \in EngineStates /\ Owned(S) /\ k \in CmdIds /\ S.cl[k].task = t /\ Claim(S, k)
  BY DEF Good, Typed, Back, Spare
<1> PICK R, G : R = NotProcessed(S.cl[k]) /\ G = ArticlesWith(S.cl[k], {"success"})
  OBVIOUS
<1> PICK M : M = TakenBack(S, t, R, G)
  OBVIOUS
<1>2. T = Submitted(M, t, {"decode"}, G)
  <2>1. Jobs(t, {"decode"}, G) = {TaskAction("decode", t, i) : i \in G}
    BY DEF Jobs
  <2> QED BY <2>1 DEF DownloadComplete, TakenBack, Submitted
<1>3. Handled(S, k, R, G)
  <2>1. IsInjective(S.cl[k].commands) BY <1>1 DEF Claim
  <2> QED BY <1>1, <2>1, ReceivedApart
<1>4. Steps(S, M, t, h, g, Ad) /\ Fresh(M, h, t, {"decode"}, G)
  BY <1>3, BackKeeps
<1>5. Good(M, h, g, Ad) /\ t \in Live(M)
  BY <1>4 DEF Steps, TaskFrame, Live
<1>6. Steps(M, T, t, h, g, Ad)
  BY <1>2, <1>4, <1>5, HiredKeeps
<1> QED BY <1>4, <1>6, StepsTwice

\* complete(cmdlist)
LEMMA TaskCompleteKeeps ==
    ASSUME EngineAssumption, NEW S, NEW h, NEW g, NEW Ad, Good(S, h, g, Ad), NEW t \in Live(S),
           NEW k, Back(S, h, t, k), NEW T, T = TaskComplete(S, t, k)
    PROVE  Steps(S, T, t, h, g, Ad)
<1>1. S \in EngineStates /\ Owned(S) /\ k \in CmdIds /\ S.cl[k].task = t /\ t \in Tasks /\ t # 0
  BY ContainsFacts DEF Good, Typed, Back, Live, EngineStates, EngineAssumption
<1> PICK D : D = CountDown(S, t, k)
  OBVIOUS
<1>2. Quiet(S, D, t) BY <1>1, CountDownQuiet
<1>3. Steps(S, D, t, h, g, Ad) /\ Back(D, h, t, k)
  BY <1>1, <1>2, StepsQuiet, QuietBack
<1>4. Good(D, h, g, Ad) /\ t \in Live(D) /\ D \in EngineStates /\ Spare(D, h, k)
  BY <1>3 DEF Steps, TaskFrame, Live, Good, Typed, Back
<1> PICK A, B : A = ToSet(S.cl[k].commands) /\ B = ArticlesWith(S.cl[k], {"unavailable"})
  OBVIOUS
<1>5. A \in SUBSET Article(t) /\ B \in SUBSET Article(t) /\ Article(t) \subseteq Nat
  <2>1. A \subseteq Article(t) BY <1>1 DEF Owned
  <2>2. B \subseteq A
    <3> PICK c, b : c = S.cl[k].commands /\ b = S.cl[k].buffers
      OBVIOUS
    <3>1. /\ DOMAIN c = 1 .. Len(c) /\ DOMAIN b = 1 .. Len(b)
          /\ Len(c) \in Nat /\ Len(b) \in Nat
      BY <1>1 DEF EngineStates, CmdRecords
    <3>2. Len(b) <= Len(c) BY <1>1 DEF Owned
    <3>3. DOMAIN b \subseteq DOMAIN c BY <3>1, <3>2
    <3> QED BY <3>3 DEF ArticlesWith, ToSet
  <2>3. Article(t) \subseteq Nat BY DEF Article
  <2> QED BY <2>1, <2>2, <2>3
<1> PICK E, F : E = Flagged(D, t, A) /\ F = Flagged(D, t, B)
  OBVIOUS
<1>6. Quiet(D, E, t) /\ Quiet(D, F, t)
  BY <1>1, <1>4, <1>5, FlagQuiet
<1>7. \/ T = D
      \/ CanRefill(D, k) /\ T = Refill(D, t, k)
      \/ T = E
      \/ T = GotoState(D, t, "error")
      \/ T = UpdateCompletion(DownloadComplete(F, t, k), t)
  <2>1. CASE D.task[t].st = "error"
    BY <2>1, Zenon DEF TaskComplete
  <2>2. CASE D.task[t].st # "error" /\ S.cl[k].failbit
    BY <2>2, Zenon DEF TaskComplete, Flagged
  <2>3. CASE D.task[t].st # "error" /\ ~S.cl[k].failbit
    <3> PICK C : C = S.cl[k]
      BY SMTT(30)
    <3> PICK bad : bad = {i \in DOMAIN C.buffers : C.buffers[i] # "success"}
      OBVIOUS
    <3>1. T = (CASE bad # {} /\ CanRefill(D, k) /\ C.buffers[Min(bad)] # "error" -> Refill(D, t, k)
                 [] \E i \in bad : /\ C.buffers[i] = "error"
                                   /\ CanRefill(D, k) => i = Min(bad) -> GotoState(D, t, "error")
                 [] OTHER -> UpdateCompletion(DownloadComplete(F, t, k), t))
      BY ONLY <2>3, T = TaskComplete(S, t, k), D = CountDown(S, t, k), C = S.cl[k],
              B = ArticlesWith(S.cl[k], {"unavailable"}), F = Flagged(D, t, B),
              bad = {i \in DOMAIN C.buffers : C.buffers[i] # "success"}, ZenonT(60)
         DEF TaskComplete, Flagged
    <3>2. CASE bad # {} /\ CanRefill(D, k) /\ C.buffers[Min(bad)] # "error"
      <4>1. ~ \E i \in bad : C.buffers[i] = "error" /\ (CanRefill(D, k) => i = Min(bad))
        BY <3>2
      <4> QED BY <3>1, <3>2, <4>1, Zenon
    <3>3. CASE ~(bad # {} /\ CanRefill(D, k) /\ C.buffers[Min(bad)] # "error")
      BY <3>1, <3>3, Zenon
    <3> QED BY <3>2, <3>3
  <2> QED BY <2>1, <2>2, <2>3
<1>8. Steps(D, E, t, h, g, Ad)
  BY <1>1, <1>4, <1>6, StepsQuiet
<1>9. ASSUME T = UpdateCompletion(DownloadComplete(F, t, k), t)
      PROVE  Steps(D, T, t, h, g, Ad)
  <2>1. Steps(D, F, t, h, g, Ad) /\ Back(F, h, t, k)
    BY <1>1, <1>3, <1>4, <1>6, StepsQuiet, QuietBack
  <2>2. Good(F, h, g, Ad) /\ t \in Live(F)
    BY <1>4, <2>1 DEF Steps, TaskFrame, Live
  <2> PICK M : M = DownloadComplete(F, t, k)
    OBVIOUS
  <2>3. Steps(F, M, t, h, g, Ad)
    BY <2>1, <2>2, DownloadCompleteKeeps
  <2>4. Good(M, h, g, Ad) /\ M \in EngineStates
    BY <2>3 DEF Steps, Good, Typed
  <2>5. Quiet(M, T, t) BY <1>1, <1>9, <2>4, UpdateQuiet
  <2>6. Steps(M, T, t, h, g, Ad)
    BY <1>1, <2>4, <2>5, StepsQuiet
  <2> QED BY <2>1, <2>3, <2>6, StepsTwice
<1>10. ASSUME T = GotoState(D, t, "error")
       PROVE  Steps(D, T, t, h, g, Ad)
  <2>0. "error" \in TaskStates BY DEF TaskStates
  <2>1. Quiet(D, T, t) BY <1>1, <1>4, <1>10, <2>0, GotoStateQuiet
  <2> QED BY <1>1, <1>4, <2>1, StepsQuiet
<1>11. ASSUME CanRefill(D, k), T = Refill(D, t, k)
       PROVE  Steps(D, T, t, h, g, Ad)
  <2>1. FillAccount # 0 BY <1>11 DEF CanRefill
  <2> QED BY <1>1, <1>4, <1>11, <2>1, RefillKeeps
<1> QED BY <1>3, <1>7, <1>8, <1>9, <1>10, <1>11, StepsTwice

-----------------------------------------------------------------------------
(* The action in pump's hand is handled. *)

\* The hands that count for no connection are alike.
Alike(f, g) ==
    \A c \in ConnIds :
      /\ One(f, OfConn(c)) = One(g, OfConn(c))
      /\ \A kind \in ConnKinds : One(f, KindOn(c, kind)) = One(g, KindOn(c, kind))
LEMMA LinksHand ==
    ASSUME NEW S \in EngineStates, NEW g, NEW f, Links(S, g), Alike(f, g)
    PROVE  Links(S, f)
<1>1. ASSUME NEW c \in ConnIds
      PROVE  /\ Total(S, f, OfConn(c)) = Total(S, g, OfConn(c))
             /\ \A kind \in ConnKinds : Total(S, f, KindOn(c, kind)) = Total(S, g, KindOn(c, kind))
  BY DEF Total, Alike
<1>2. ToSet(S.conns) \subseteq ConnIds
  BY ContainsFacts DEF EngineStates
<1>3. \A c \in ToSet(S.conns) : LinkedAt(S, g, c) => LinkedAt(S, f, c)
  BY <1>1, <1>2 DEF LinkedAt
<1> QED BY <1>1, <1>3 DEF Links

\* The action of a connection that is gone.
LEMMA LinksDrop ==
    ASSUME EngineAssumption, NEW S \in EngineStates, IsFiniteSet(S.jobs), NEW a, Links(S, a),
           a.conn \notin ToSet(S.conns)
    PROVE  Links(S, Spent)
<1>1. Countable(S) BY DEF Countable, EngineStates
<1>2. ASSUME NEW P, One(Spent, P) = 0
      PROVE  /\ Total(S, Spent, P) \in Nat /\ Total(S, Spent, P) <= Total(S, a, P)
             /\ a \notin P => Total(S, Spent, P) = Total(S, a, P)
             /\ Total(S, a, P) \in Nat
  <2>1. Total(S, Spent, P) = Total(S, a, P) - One(a, P) + One(Spent, P) BY <1>1, TotalSwaps
  <2>2. Total(S, a, P) \in Nat /\ Total(S, Spent, P) \in Nat /\ One(a, P) \in {0, 1}
    <3>1. Total(S, a, P) \in Nat /\ One(a, P) \in {0, 1} BY <1>1, TotalFacts
    <3>2. Total(S, Spent, P) \in Nat BY <1>1, TotalFacts
    <3> QED BY <3>1, <3>2
  <2>3. a \notin P => One(a, P) = 0 BY DEF One
  <2> QED BY <1>2, <2>1, <2>2, <2>3
<1>3. \A c \in ConnIds : /\ One(Spent, OfConn(c)) = 0
                         /\ \A kind \in ConnKinds : One(Spent, KindOn(c, kind)) = 0
  BY HandsFacts
<1>4. ToSet(S.conns) \subseteq ConnIds
  BY ContainsFacts DEF EngineStates
<1>5. ASSUME NEW c \in ToSet(S.conns) PROVE LinkedAt(S, Spent, c)
  <2>1. a \notin OfConn(c) /\ \A kind \in ConnKinds : a \notin KindOn(c, kind)
    BY <1>5 DEF OfConn, KindOn
  <2>2. LinkedAt(S, a, c) BY DEF Links
  <2>3. Total(S, Spent, OfConn(c)) = Total(S, a, OfConn(c)) BY <1>2, <1>3, <1>4, <2>1
  <2>4. ASSUME NEW kind \in ConnKinds
        PROVE  Total(S, Spent, KindOn(c, kind)) = Total(S, a, KindOn(c, kind))
    BY <1>2, <1>3, <1>4, <2>1
  <2> QED BY <2>2, <2>3, <2>4 DEF LinkedAt
<1>6. ASSUME NEW c \in ConnIds, S.conn[c] = NoConn PROVE Total(S, Spent, OfConn(c)) = 0
  <2>1. Total(S, a, OfConn(c)) = 0 BY <1>6 DEF Links
  <2>2. Total(S, Spent, OfConn(c)) \in Nat /\ Total(S, Spent, OfConn(c)) <= Total(S, a, OfConn(c))
    BY <1>2, <1>3
  <2> QED BY <2>1, <2>2
<1> QED BY <1>5, <1>6 DEF Links

\* A job's task counts one action less.
WithNact(S, t, z) == [S EXCEPT !.task[t].nact = z]
NactChange(S, T, t, z) ==
    /\ T \in EngineStates /\ TaskFrame(S, T, t) /\ T.cmds = S.cmds /\ T.cl = S.cl
    /\ T.conns = S.conns /\ T.conn = S.conn
    /\ T.queue = S.queue /\ T.jobs = S.jobs /\ T.done = S.done
    /\ T.num_pending_actions = S.num_pending_actions
    /\ \A u \in Tasks : u # t => T.task[u] = S.task[u]
    /\ T.task[t].articles = S.task[t].articles /\ T.task[t].decoded = S.task[t].decoded
    /\ T.task[t].missing = S.task[t].missing /\ T.task[t].nact = z

LEMMA NactChanges ==
    ASSUME NEW S \in EngineStates, NEW t \in Tasks, NEW z \in Int, NEW T, T = WithNact(S, t, z)
    PROVE  NactChange(S, T, t, z)
<1> PICK r : r = [S.task[t] EXCEPT !.nact = z]
  OBVIOUS
<1>1. r \in TaskRecords /\ r.articles = S.task[t].articles /\ r.decoded = S.task[t].decoded
      /\ r.missing = S.task[t].missing /\ r.nact = z
  <2>1. S.task[t] \in TaskRecords BY DEF EngineStates
  <2> QED BY <2>1 DEF TaskRecords
<1>2. T = [S EXCEPT !.task = [S.task EXCEPT ![t] = r]]
  BY DEF WithNact
<1>3. [S.task EXCEPT ![t] = r] \in [Tasks -> TaskRecords]
  BY <1>1 DEF EngineStates
<1>4. T \in EngineStates
  BY <1>2, <1>3 DEF EngineStates
<1>5. /\ T.tasks = S.tasks /\ T.batch = S.batch /\ T.cmds = S.cmds /\ T.cl = S.cl
      /\ T.conns = S.conns /\ T.conn = S.conn
      /\ T.queue = S.queue /\ T.jobs = S.jobs /\ T.done = S.done
      /\ T.num_pending_actions = S.num_pending_actions
      /\ T.task = [S.task EXCEPT ![t] = r]
  BY <1>2 DEF EngineStates
<1>6. T.task[t] = r /\ \A u \in Tasks : u # t => T.task[u] = S.task[u]
  BY <1>5 DEF EngineStates
<1> QED BY <1>1, <1>4, <1>5, <1>6 DEF NactChange, TaskFrame

\* A job was in hand, and its task counts it no more.
JobSpent(S, T, t) ==
    IF t \in Live(S) THEN NactChange(S, T, t, S.task[t].nact - 1) ELSE T = S

\* A decoded article has no jobs.
JobOver(T, a) ==
    /\ a.article \in T.task[a.task].decoded
    /\ \A w \in JobKinds : Total(T, Spent, JobsOf(a.task, a.article, w)) = 0

LEMMA JobSpends ==
    ASSUME EngineAssumption, NEW S, NEW a \in JobActions, NEW Ad, Good(S, a, a, Ad),
           NEW T, JobSpent(S, T, a.task)
    PROVE  /\ Steps(S, T, a.task, Spent, Spent, Ad)
           /\ a.task \in Live(S) /\ a.kind = "decode" => JobOver(T, a)
<1> PICK t, i, v : t = a.task /\ i = a.article /\ v = a.kind
  OBVIOUS
<1>1. /\ S \in EngineStates /\ IsFiniteSet(S.jobs) /\ Owned(S) /\ Work(S, a, Ad)
      /\ Live(S) \subseteq Tasks /\ Countable(S)
  BY ContainsFacts DEF Good, Typed, Live, EngineStates, Countable
<1>2. /\ t \in Tasks /\ i \in Nat /\ v \in JobKinds /\ v # "execute" /\ a.conn = 0 /\ a \in Action
      /\ a \in OfTask(t) /\ a \in JobsOf(t, i, v)
  BY DEF JobActions, Action, OfTask, JobsOf, JobKinds
<1>3. /\ T \in EngineStates /\ TaskFrame(S, T, t) /\ T.cmds = S.cmds /\ T.cl = S.cl
      /\ T.conns = S.conns /\ T.conn = S.conn /\ Live(T) = Live(S)
      /\ T.queue = S.queue /\ T.jobs = S.jobs /\ T.done = S.done
      /\ T.num_pending_actions = S.num_pending_actions
      /\ \A u \in Tasks : u # t => T.task[u] = S.task[u]
      /\ \A u \in Tasks :
           /\ T.task[u].articles = S.task[u].articles /\ T.task[u].decoded = S.task[u].decoded
           /\ T.task[u].missing = S.task[u].missing
      /\ t \in Live(S) => T.task[t].nact = S.task[t].nact - 1
      /\ t \notin Live(S) => T.task[t].nact = S.task[t].nact
  <2>1. CASE t \in Live(S)
    BY <2>1 DEF JobSpent, NactChange, TaskFrame, Live
  <2>2. CASE t \notin Live(S) /\ T = S
    BY <1>1, <2>2 DEF TaskFrame
  <2> QED BY <2>1, <2>2 DEF JobSpent
<1>4. ASSUME NEW P
      PROVE  /\ Total(T, Spent, P) = Total(S, a, P) - One(a, P) + One(Spent, P)
             /\ Total(S, a, P) \in Nat /\ Total(T, Spent, P) \in Nat
  <2>1. Total(S, Spent, P) = Total(S, a, P) - One(a, P) + One(Spent, P)
    BY <1>1, TotalSwaps
  <2>2. Total(S, a, P) \in Nat BY <1>1, TotalFacts
  <2>3. Total(S, Spent, P) \in Nat BY <1>1, TotalFacts
  <2>4. Total(T, Spent, P) = Total(S, Spent, P) BY <1>3, TotalSame
  <2> QED BY <2>1, <2>2, <2>3, <2>4
<1>5. \A P \in Watched : One(Spent, P) = 0
  BY HandsFacts
<1>6. ASSUME NEW P \in Watched
      PROVE  /\ a \notin P => Total(T, Spent, P) = Total(S, a, P)
             /\ a \in P => Total(T, Spent, P) = Total(S, a, P) - 1
             /\ Total(S, a, P) \in Nat /\ Total(T, Spent, P) \in Nat
  <2>1. (a \notin P => One(a, P) = 0) /\ (a \in P => One(a, P) = 1) BY DEF One
  <2> QED BY <1>4, <1>5, <2>1
<1>7. ASSUME NEW u \in Tasks
      PROVE  /\ Total(T, Spent, OfTask(u)) = IF u = t THEN Total(S, a, OfTask(u)) - 1
                                             ELSE Total(S, a, OfTask(u))
             /\ Total(S, a, OfTask(u)) \in Nat
  <2>1. OfTask(u) \in Watched BY WatchedFacts
  <2>2. a \in OfTask(u) <=> u = t BY <1>2 DEF OfTask
  <2> QED BY <1>6, <2>1, <2>2
<1>8. ASSUME NEW u \in Tasks, NEW j \in Nat, NEW w \in JobKinds
      PROVE  /\ Total(T, Spent, JobsOf(u, j, w)) <= Total(S, a, JobsOf(u, j, w))
             /\ Total(T, Spent, JobsOf(u, j, w)) \in Nat /\ Total(S, a, JobsOf(u, j, w)) \in Nat
             /\ u = t /\ j = i /\ w = v =>
                  Total(T, Spent, JobsOf(u, j, w)) = Total(S, a, JobsOf(u, j, w)) - 1
  <2>1. JobsOf(u, j, w) \in Watched BY WatchedFacts
  <2>2. u = t /\ j = i /\ w = v => a \in JobsOf(u, j, w) BY <1>2
  <2> QED BY <1>6, <2>1, <2>2
<1>9. ASSUME NEW k \in CmdIds
      PROVE  /\ Total(T, Spent, Execs(k)) = Total(S, a, Execs(k))
             /\ \A u \in Tasks : Total(T, Spent, ExecsFor(k, u)) = Total(S, a, ExecsFor(k, u))
  <2>1. a \notin Execs(k) /\ \A u \in Tasks : a \notin ExecsFor(k, u)
    BY <1>2 DEF Execs, ExecsFor
  <2>2. Execs(k) \in Watched /\ \A u \in Tasks : ExecsFor(k, u) \in Watched
    BY WatchedFacts
  <2> QED BY <1>6, <2>1, <2>2
<1>10. Out(T, Spent) = Out(S, a)
  BY <1>3, <1>9 DEF Out
<1>11. Counted(T, Spent)
  <2>1. T.num_pending_actions = Total(T, Spent, Action)
    <3>1. One(Spent, Action) = 1 /\ One(a, Action) = 1
      <4>1. One(Spent, Action) = 1 BY HandsFacts
      <4> QED BY <1>2, <4>1 DEF One
    <3>2. S.num_pending_actions = Total(S, a, Action) BY <1>1 DEF Work, Counted
    <3> QED BY <1>3, <1>4, <3>1, <3>2
  <2>2. ASSUME NEW u \in Live(T) PROVE T.task[u].nact = Total(T, Spent, OfTask(u))
    <3>1. u \in Tasks /\ u \in Live(S) /\ S.task[u].nact = Total(S, a, OfTask(u))
      BY <1>1, <1>3, <2>2 DEF Work, Counted
    <3>2. CASE u = t BY <1>3, <1>7, <3>1, <3>2
    <3>3. CASE u # t BY <1>3, <1>7, <3>1, <3>3
    <3> QED BY <3>2, <3>3
  <2>3. ASSUME NEW u \in Tasks, u \notin Live(T) PROVE T.task[u].nact = 0
    <3>1. S.task[u].nact = 0 BY <1>1, <1>3, <2>3 DEF Work, Counted
    <3> QED BY <1>3, <2>3, <3>1
  <2> QED BY <2>1, <2>2, <2>3 DEF Counted
<1>12. DecodedOnce(T, Spent)
  <2>1. "decode" \in JobKinds /\ {"binary", "text"} \subseteq JobKinds BY DEF JobKinds
  <2>2. ASSUME NEW u \in Tasks, NEW j \in Nat, NEW w \in {"binary", "text"}
        PROVE  Total(T, Spent, JobsOf(u, j, "decode")) + Total(T, Spent, JobsOf(u, j, w)) <= 1
    <3>1. Total(S, a, JobsOf(u, j, "decode")) + Total(S, a, JobsOf(u, j, w)) <= 1
      BY <1>1 DEF Work, DecodedOnce
    <3>2. /\ Total(T, Spent, JobsOf(u, j, "decode")) <= Total(S, a, JobsOf(u, j, "decode"))
          /\ Total(T, Spent, JobsOf(u, j, "decode")) \in Nat
          /\ Total(S, a, JobsOf(u, j, "decode")) \in Nat
      BY <1>8, <2>1
    <3>3. /\ Total(T, Spent, JobsOf(u, j, w)) <= Total(S, a, JobsOf(u, j, w))
          /\ Total(T, Spent, JobsOf(u, j, w)) \in Nat /\ Total(S, a, JobsOf(u, j, w)) \in Nat
      BY <1>8, <2>1
    <3> QED BY <3>1, <3>2, <3>3
  <2>3. ASSUME NEW u \in Live(T), NEW j \in Nat, NEW w \in JobKinds,
               Total(T, Spent, JobsOf(u, j, w)) # 0
        PROVE  j \in T.task[u].decoded
    <3>1. u \in Live(S) /\ u \in Tasks BY <1>1, <1>3
    <3>2. Total(S, a, JobsOf(u, j, w)) # 0 BY <1>8, <2>3, <3>1
    <3> QED BY <1>1, <1>3, <3>1, <3>2 DEF Work, DecodedOnce
  <2> QED BY <2>2, <2>3 DEF DecodedOnce
<1>13. ExecutedOnce(T, Spent)
  <2>1. ExecutedOnce(S, a) BY <1>1 DEF Work
  <2>2. ASSUME NEW k \in CmdIds
        PROVE  /\ Total(T, Spent, Execs(k)) <= 1
               /\ Total(T, Spent, Execs(k)) # 0 => T.cl[k].conn # 0 /\ T.cl[k].task # 0
               /\ \A u \in Tasks : u # T.cl[k].task => Total(T, Spent, ExecsFor(k, u)) = 0
    <3>1. /\ Total(S, a, Execs(k)) <= 1
          /\ Total(S, a, Execs(k)) # 0 => S.cl[k].conn # 0 /\ S.cl[k].task # 0
      BY <2>1 DEF ExecutedOnce
    <3>2. Total(T, Spent, Execs(k)) = Total(S, a, Execs(k)) /\ T.cl = S.cl
      BY <1>3, <1>9
    <3>3. ASSUME NEW u \in Tasks, u # T.cl[k].task PROVE Total(T, Spent, ExecsFor(k, u)) = 0
      <4>1. Total(S, a, ExecsFor(k, u)) = 0 BY <2>1, <3>2, <3>3 DEF ExecutedOnce
      <4>2. Total(T, Spent, ExecsFor(k, u)) = Total(S, a, ExecsFor(k, u)) BY <1>9
      <4> QED BY <4>1, <4>2
    <3>4. Total(T, Spent, Execs(k)) <= 1 BY <3>1, <3>2
    <3>5. Total(T, Spent, Execs(k)) # 0 => T.cl[k].conn # 0 /\ T.cl[k].task # 0
      BY <3>1, <3>2
    <3> QED BY <3>3, <3>4, <3>5
  <2>3. \A k \in ToSet(T.cmds) : T.cl[k].task # 0
    BY <1>3, <2>1 DEF ExecutedOnce
  <2> QED BY <2>2, <2>3 DEF ExecutedOnce
<1>14. Claimed(T, Spent)
  <2>1. ASSUME NEW k \in Out(S, a), Claim(S, k) PROVE Claim(T, k)
    <3> SUFFICES ASSUME T.cl[k].task \in Live(T)
                 PROVE  /\ IsInjective(T.cl[k].commands)
                        /\ Claims(T, k) \cap ToSet(T.task[T.cl[k].task].articles) = {}
                        /\ Claims(T, k) \cap T.task[T.cl[k].task].decoded = {}
      BY DEF Claim
    <3> PICK u : u = T.cl[k].task
      OBVIOUS
    <3>1. u \in Live(S) /\ u \in Tasks /\ u = S.cl[k].task BY <1>1, <1>3
    <3>2. T.task[u].articles = S.task[u].articles /\ T.task[u].decoded = S.task[u].decoded
      BY <1>3, <3>1
    <3> QED BY <1>3, <2>1, <3>1, <3>2 DEF Claim, Claims
  <2>2. \A k, l : Apart(S, k, l) => Apart(T, k, l)
    BY <1>3 DEF Apart, Claims
  <2>3. \A u \in Live(T) : /\ IsInjective(T.task[u].articles)
                           /\ ToSet(T.task[u].articles) \cap T.task[u].decoded = {}
    BY <1>1, <1>3 DEF Work, Claimed
  <2> QED BY <1>1, <1>10, <2>1, <2>2, <2>3 DEF Work, Claimed
<1>15. Unknown(T, Spent, Ad)
  <2>1. ASSUME NEW u \in Tasks, BatchOf[u] \notin Ad
        PROVE  /\ u \notin Live(T)
               /\ Total(T, Spent, OfTask(u)) = 0
               /\ \A j \in Nat, w \in JobKinds : Total(T, Spent, JobsOf(u, j, w)) = 0
               /\ \A k \in CmdIds : T.cl[k].task # u
    <3>1. /\ u \notin Live(S) /\ Total(S, a, OfTask(u)) = 0
          /\ \A j \in Nat, w \in JobKinds : Total(S, a, JobsOf(u, j, w)) = 0
          /\ \A k \in CmdIds : S.cl[k].task # u
      BY <1>1, <2>1 DEF Work, Unknown
    <3>2. u # t
      <4>1. CASE u = t
        <5>1. Total(T, Spent, OfTask(t)) = Total(S, a, OfTask(t)) - 1 BY <1>2, <1>7
        <5>2. Total(T, Spent, OfTask(t)) \in Nat BY <1>4
        <5> QED BY <3>1, <4>1, <5>1, <5>2
      <4> QED BY <4>1
    <3>3. Total(T, Spent, OfTask(u)) = 0 BY <1>7, <3>1, <3>2
    <3>4. ASSUME NEW j \in Nat, NEW w \in JobKinds PROVE Total(T, Spent, JobsOf(u, j, w)) = 0
      <4>1. Total(T, Spent, JobsOf(u, j, w)) <= Total(S, a, JobsOf(u, j, w))
            /\ Total(T, Spent, JobsOf(u, j, w)) \in Nat
        BY <1>8
      <4> QED BY <3>1, <4>1
    <3> QED BY <1>3, <3>1, <3>3, <3>4
  <2> QED BY <2>1 DEF Unknown
<1>16. Typed(T)
  BY <1>1, <1>3 DEF Typed, Owned
<1>17. Linked(T, Spent)
  <2>1. ASSUME Links(S, a) PROVE Links(T, Spent)
    <3>1. \A c \in ConnIds : One(Spent, OfConn(c)) = 0
                             /\ \A kind \in ConnKinds : One(Spent, KindOn(c, kind)) = 0
      BY HandsFacts
    <3>2. \A c \in ConnIds : One(a, OfConn(c)) = 0
                             /\ \A kind \in ConnKinds : One(a, KindOn(c, kind)) = 0
      BY <1>2 DEF One, OfConn, KindOn, EngineAssumption
    <3>4. Alike(Spent, a) BY <3>1, <3>2 DEF Alike
    <3>3. Links(S, Spent)
      BY <1>1, <2>1, <3>4, LinksHand
    <3> QED BY <1>1, <1>3, <3>3, LinksSame
  <2> QED BY <2>1 DEF Good, Linked
<1>18. Work(T, Spent, Ad)
  BY <1>11, <1>12, <1>13, <1>14, <1>15 DEF Work
<1>19. Steps(S, T, t, Spent, Spent, Ad)
  BY <1>3, <1>16, <1>17, <1>18 DEF Steps, Good
<1>20. ASSUME t \in Live(S), v = "decode" PROVE JobOver(T, a)
  <2>1. Total(T, Spent, JobsOf(t, i, "decode")) = 0 /\ Total(S, a, JobsOf(t, i, "decode")) = 1
        /\ \A w \in {"binary", "text"} : Total(S, a, JobsOf(t, i, w)) = 0
    <3>1. /\ Total(T, Spent, JobsOf(t, i, "decode")) = Total(S, a, JobsOf(t, i, "decode")) - 1
          /\ Total(T, Spent, JobsOf(t, i, "decode")) \in Nat
          /\ Total(S, a, JobsOf(t, i, "decode")) \in Nat
      <4>1. "decode" \in JobKinds BY DEF JobKinds
      <4> QED BY <1>2, <1>8, <1>20, <4>1
    <3>2. ASSUME NEW w \in {"binary", "text"}
          PROVE  /\ Total(S, a, JobsOf(t, i, w)) \in Nat
                 /\ Total(S, a, JobsOf(t, i, "decode")) + Total(S, a, JobsOf(t, i, w)) <= 1
      <4>1. w \in JobKinds BY DEF JobKinds
      <4> QED BY <1>1, <1>2, <1>8, <4>1 DEF Work, DecodedOnce
    <3> QED BY <3>1, <3>2
  <2>2. ASSUME NEW w \in JobKinds PROVE Total(T, Spent, JobsOf(t, i, w)) = 0
    <3>1. CASE w = "decode" BY <2>1, <3>1
    <3>2. CASE w \in {"binary", "text"}
      <4>1. Total(T, Spent, JobsOf(t, i, w)) <= Total(S, a, JobsOf(t, i, w))
            /\ Total(T, Spent, JobsOf(t, i, w)) \in Nat
        BY <1>2, <1>8
      <4> QED BY <2>1, <3>2, <4>1
    <3> QED BY <3>1, <3>2 DEF JobKinds
  <2>3. i \in S.task[t].decoded
    <3>1. Total(S, a, JobsOf(t, i, v)) # 0 BY <1>20, <2>1
    <3> QED BY <1>1, <1>2, <1>20, <3>1 DEF Work, DecodedOnce
  <2> QED BY <1>2, <1>3, <2>2, <2>3 DEF JobOver
<1> QED BY <1>19, <1>20

LEMMA FailSteps ==
    ASSUME EngineAssumption, NEW S, NEW h, NEW g, NEW Ad, Good(S, h, g, Ad), NEW t \in Tasks,
           NEW T, T = GotoState(S, t, "error")
    PROVE  Steps(S, T, t, h, g, Ad)
<1>1. "error" \in TaskStates /\ S \in EngineStates BY DEF TaskStates, Good, Typed
<1>2. Quiet(S, T, t) BY <1>1, GotoStateQuiet
<1> QED BY <1>2, StepsQuiet

LEMMA UpdateSteps ==
    ASSUME EngineAssumption, NEW S, NEW h, NEW g, NEW Ad, Good(S, h, g, Ad), NEW t \in Tasks,
           NEW T, T = UpdateCompletion(S, t)
    PROVE  Steps(S, T, t, h, g, Ad)
<1>1. S \in EngineStates BY DEF Good, Typed
<1>2. Quiet(S, T, t) BY <1>1, UpdateQuiet
<1> QED BY <1>2, StepsQuiet

\* on_action of a living task.
LEMMA TaskOnActionKeeps ==
    ASSUME EngineAssumption, NEW S, NEW a \in JobActions, NEW Ad, Good(S, a, a, Ad),
           a.task \in Live(S), NEW writes \in SUBSET {"binary", "text"},
           NEW T, T = TaskOnAction(S, a.task, a, writes)
    PROVE  Steps(S, T, a.task, Spent, Spent, Ad)
<1> PICK t, i : t = a.task /\ i = a.article
  OBVIOUS
<1>1. S \in EngineStates /\ t \in Tasks /\ i \in Nat /\ S.task[t].nact \in Int
  <2>1. S \in EngineStates BY DEF Good, Typed
  <2>2. t \in Tasks /\ i \in Nat BY DEF JobActions, Action
  <2>3. S.task[t] \in TaskRecords BY <2>1, <2>2 DEF EngineStates
  <2> QED BY <2>1, <2>2, <2>3 DEF TaskRecords
<1> PICK z : z = S.task[t].nact - 1
  OBVIOUS
<1> PICK D : D = WithNact(S, t, z)
  OBVIOUS
<1>2. z \in Int BY <1>1
<1>3. JobSpent(S, D, t)
  BY <1>1, <1>2, NactChanges DEF JobSpent
<1>4. /\ Steps(S, D, t, Spent, Spent, Ad)
      /\ a.kind = "decode" => JobOver(D, a)
  BY <1>3, JobSpends
<1>5. Good(D, Spent, Spent, Ad) /\ t \in Live(D) /\ D \in EngineStates
  BY <1>4 DEF Steps, TaskFrame, Live, Good, Typed
<1>6. \/ T = D
      \/ T = GotoState(D, t, "error")
      \/ T = UpdateCompletion(D, t)
      \/ /\ a.kind = "decode"
         /\ T = UpdateCompletion(TaskSubmit(D, t, {TaskAction(w, t, i) : w \in writes}), t)
  <2> PICK X : X = TaskSubmit(D, t, {TaskAction(w, t, i) : w \in writes})
    OBVIOUS
  <2>1. T = (CASE D.task[t].st = "error" -> D
               [] D.task[t].st # "error" /\ a.exc # "none" -> GotoState(D, t, "error")
               [] OTHER -> UpdateCompletion(IF a.kind = "decode" THEN X ELSE D, t))
    BY SMTT(60) DEF TaskOnAction, WithNact
  <2>2. CASE D.task[t].st = "error" BY <2>1, <2>2, Zenon
  <2>3. CASE D.task[t].st # "error" /\ a.exc # "none" BY <2>1, <2>3, Zenon
  <2>4. CASE D.task[t].st # "error" /\ ~(a.exc # "none")
    <3>1. T = UpdateCompletion(IF a.kind = "decode" THEN X ELSE D, t)
      BY <2>1, <2>4, Zenon
    <3>2. CASE a.kind = "decode" BY <3>1, <3>2
    <3>3. CASE a.kind # "decode" BY <3>1, <3>3
    <3> QED BY <3>2, <3>3
  <2> QED BY <2>2, <2>3, <2>4
<1>7. ASSUME T = GotoState(D, t, "error")
      PROVE  Steps(D, T, t, Spent, Spent, Ad)
  BY <1>1, <1>5, <1>7, FailSteps
<1>8. ASSUME T = UpdateCompletion(D, t)
      PROVE  Steps(D, T, t, Spent, Spent, Ad)
  BY <1>1, <1>5, <1>8, UpdateSteps
<1>9. ASSUME a.kind = "decode",
             T = UpdateCompletion(TaskSubmit(D, t, {TaskAction(w, t, i) : w \in writes}), t)
      PROVE  Steps(D, T, t, Spent, Spent, Ad)
  <2> PICK W, I : W = writes /\ I = {i}
    OBVIOUS
  <2>1. Fresh(D, Spent, t, W, I)
    <3>1. W \in SUBSET JobKinds /\ "decode" \notin W BY DEF JobKinds
    <3>2. IsFiniteSet(I) BY FS_Singleton
    <3>3. I \subseteq D.task[t].decoded /\ \A w \in JobKinds : Total(D, Spent, JobsOf(t, i, w)) = 0
      BY <1>4, <1>9 DEF JobOver
    <3> QED BY <3>1, <3>2, <3>3 DEF Fresh
  <2>2. {TaskAction(w, t, i) : w \in writes} = Jobs(t, W, I)
    BY DEF Jobs
  <2> PICK X : X = Submitted(D, t, W, I)
    OBVIOUS
  <2>3. T = UpdateCompletion(X, t) BY <1>9, <2>2 DEF Submitted
  <2>4. Steps(D, X, t, Spent, Spent, Ad)
    BY <1>5, <2>1, HiredKeeps
  <2>5. Good(X, Spent, Spent, Ad) /\ X \in EngineStates
    BY <2>4 DEF Steps, Good, Typed
  <2>7. Steps(X, T, t, Spent, Spent, Ad)
    BY <1>1, <2>3, <2>5, UpdateSteps
  <2> QED BY <2>4, <2>7, StepsTwice
<1> QED BY <1>4, <1>6, <1>7, <1>8, <1>9, StepsTwice

-----------------------------------------------------------------------------
(* The loops of the engine. *)

\* state::execute opens the connections an account lacks.
LEMMA OpenKeeps ==
    ASSUME EngineAssumption, NEW S, NEW h, NEW g, NEW Ad, Good(S, h, g, Ad),
           NEW s \in Seq(Accounts), NEW T, T = ForEach(ConnCreate, S, s)
    PROVE  Good(T, h, g, Ad) /\ CmdsSame(S, T)
<1>a. PICK n : n = Len(s)
  OBVIOUS
<1>b. PICK G : G = {Y \in EngineStates : Good(Y, h, g, Ad) /\ CmdsSame(S, Y)}
  OBVIOUS
<1>1. n \in Nat /\ S \in G
  BY <1>a, <1>b DEF Good, Typed, CmdsSame, TasksSame
<1>2. ASSUME NEW Y \in G, NEW i \in 1 .. n PROVE ConnCreate(Y, s[i]) \in G
  <2>z. PICK Z : Z = ConnCreate(Y, s[i])
    OBVIOUS
  <2>1. s[i] \in Accounts /\ Good(Y, h, g, Ad) /\ CmdsSame(S, Y) BY <1>a, <1>b
  <2>2. Good(Z, h, g, Ad) /\ CmdsSame(Y, Z) BY <2>1, <2>z, CreateKeeps
  <2>3. Z \in EngineStates BY <2>2 DEF Good, Typed
  <2>4. CmdsSame(S, Z) BY <2>1, <2>2 DEF CmdsSame, TasksSame
  <2> QED BY <1>b, <2>2, <2>3, <2>4, <2>z
<1>c. PICK turn : turn = [i \in 1 .. n |-> [Y \in G |-> ConnCreate(Y, s[i])]]
  OBVIOUS
<1>3. IsLoop(n, G, S, turn)
  BY <1>1, <1>2, <1>c DEF IsLoop
<1>d. PICK run : IsCourse(run, n, G, S, turn)
  BY <1>3, LoopRuns
<1>e. PICK after : after = CHOOSE f : f = [i \in 0 .. n |-> IF i = 0 THEN S
                                                         ELSE ConnCreate(f[i - 1], s[i])]
  OBVIOUS
<1>4. run = [i \in 0 .. n |-> IF i = 0 THEN S ELSE ConnCreate(run[i - 1], s[i])]
  <2>1. /\ run \in [0 .. n -> G] /\ run[0] = S
        /\ \A i \in 1 .. n : run[i - 1] \in G /\ run[i] = turn[i][run[i - 1]]
    <3>1. ASSUME NEW i \in 1 .. n PROVE i - 1 \in 0 .. n BY <1>1
    <3> QED BY <1>d, <3>1 DEF IsCourse
  <2>2. ASSUME NEW i \in 1 .. n PROVE run[i] = ConnCreate(run[i - 1], s[i])
    <3>1. turn[i] = [Y \in G |-> ConnCreate(Y, s[i])] BY <1>c
    <3>2. run[i - 1] \in G /\ run[i] = turn[i][run[i - 1]] BY <2>1
    <3> QED BY <3>1, <3>2
  <2>3. ASSUME NEW i \in 0 .. n
        PROVE  run[i] = IF i = 0 THEN S ELSE ConnCreate(run[i - 1], s[i])
    <3>1. CASE i = 0 BY <2>1, <3>1
    <3>2. CASE i # 0
      <4>1. i \in 1 .. n BY <1>1, <3>2
      <4> QED BY <2>2, <3>2, <4>1
    <3> QED BY <3>1, <3>2
  <2> QED BY <2>1, <2>3
<1>5. after = [i \in 0 .. n |-> IF i = 0 THEN S ELSE ConnCreate(after[i - 1], s[i])]
  <2>1. \E f : f = [i \in 0 .. n |-> IF i = 0 THEN S ELSE ConnCreate(f[i - 1], s[i])]
    BY <1>4
  <2> QED BY <1>e, <2>1
<1>6. after[n] \in G
  <2>1. after[0] \in G BY <1>1, <1>5
  <2>2. ASSUME NEW i \in 1 .. n, after[i - 1] \in G PROVE after[i] \in G
    <3>1. after[i] = ConnCreate(after[i - 1], s[i]) BY <1>1, <1>5
    <3> QED BY <1>2, <2>2, <3>1
  <2> QED BY <1>1, <2>1, <2>2, LoopEnds
<1>7. T = after[n]
  BY <1>a, <1>e DEF ForEach
<1> QED BY <1>b, <1>6, <1>7

-----------------------------------------------------------------------------
(* Batches count their tasks by state. *)

LEMMA RecountFacts ==
    ASSUME NEW B \in BatchRecords, NEW C, C = Recount(B)
    PROVE  /\ C \in BatchRecords /\ C.live = B.live /\ C.num_tasks = B.num_tasks
           /\ C.statesets = B.statesets /\ C.told = B.told
<1>1. BatchState(B) \in TaskStates
  <2>1. B.st \in TaskStates BY DEF BatchRecords
  <2> QED BY <2>1 DEF BatchState, TaskStates
<1>2. PICK st : st = BatchState(B)
  OBVIOUS
<1>3. C = [B EXCEPT !.st = st] BY <1>2 DEF Recount
<1> QED BY <1>1, <1>2, <1>3 DEF BatchRecords

WithSets(B, C, e) ==
    /\ C \in BatchRecords /\ C.live = B.live /\ C.told = B.told
    /\ C.num_tasks = B.num_tasks /\ C.statesets = e
MovedSets(f, e, from, to) == e = [[f EXCEPT ![from] = f[from] - 1] EXCEPT ![to] = f[to] + 1]
LEMMA MovedIs ==
    ASSUME NEW B \in BatchRecords, NEW from, NEW to, from # to,
           NEW e \in [TaskStates -> Int], MovedSets(B.statesets, e, from, to),
           NEW C, C = Moved(B, from, to)
    PROVE  WithSets(B, C, e)
<1>1. PICK f, x, y : f = B.statesets /\ x = f[from] - 1 /\ y = f[to] + 1
  OBVIOUS
<1>2. e = [[f EXCEPT ![from] = x] EXCEPT ![to] = y]
  BY <1>1 DEF MovedSets
<1>3. C = [B EXCEPT !.statesets = e]
  BY <1>1, <1>2 DEF Moved, BatchRecords
<1> QED BY <1>3 DEF WithSets, BatchRecords

\* Who counts, with task t in one state before and in another after.
StateMoves(M, kn, ln, t, from, to) ==
    /\ IsFiniteSet(M) /\ t \in M /\ kn[t] = from /\ ln[t] = to
    /\ from \in TaskStates /\ to \in TaskStates /\ from # to
    /\ \A u \in M : u # t => ln[u] = kn[u]
LEMMA MovedCounts ==
    ASSUME NEW B \in BatchRecords, NEW M, NEW kn, NEW ln, NEW t, NEW from, NEW to,
           CountsAs(B, M, kn), StateMoves(M, kn, ln, t, from, to), NEW C, C = Moved(B, from, to)
    PROVE  /\ C \in BatchRecords /\ C.live = B.live /\ C.told = B.told
           /\ CountsAs(C, M, ln)
<1>1. /\ IsFiniteSet(M) /\ t \in M /\ kn[t] = from /\ ln[t] = to
      /\ from \in TaskStates /\ to \in TaskStates /\ from # to
      /\ \A u \in M : u # t => ln[u] = kn[u]
  BY DEF StateMoves
<1>2. PICK f : f = B.statesets
  OBVIOUS
<1>3. PICK e : e = [[f EXCEPT ![from] = f[from] - 1] EXCEPT ![to] = f[to] + 1]
  OBVIOUS
<1>4. f \in [TaskStates -> Int] BY <1>2 DEF BatchRecords
<1>5. /\ e \in [TaskStates -> Int] /\ e[from] = f[from] - 1 /\ e[to] = f[to] + 1
      /\ \A s \in TaskStates : s # from /\ s # to => e[s] = f[s]
  BY <1>1, <1>3, <1>4
<1>6. MovedSets(B.statesets, e, from, to)
  BY <1>2, <1>3 DEF MovedSets
<1>7. C \in BatchRecords /\ C.live = B.live /\ C.told = B.told
      /\ C.num_tasks = B.num_tasks /\ C.statesets = e
  BY <1>1, <1>5, <1>6, MovedIs DEF WithSets
<1>8. ASSUME NEW s \in TaskStates
      PROVE  e[s] = Cardinality({u \in M : ln[u] = s})
  <2>a. PICK A : A = {u \in M : kn[u] = s}
    OBVIOUS
  <2>b. PICK D : D = {u \in M : ln[u] = s}
    OBVIOUS
  <2>1. IsFiniteSet(A) /\ IsFiniteSet(D) BY <1>1, <2>a, <2>b, FS_Subset
  <2>2. f[s] = Cardinality(A) BY <1>2, <2>a DEF CountsAs
  <2>3. CASE s = from
    <3>1. t \in A /\ D = A \ {t} BY <1>1, <2>a, <2>b, <2>3
    <3>2. Cardinality(D) = Cardinality(A) - 1 BY <2>1, <3>1, FS_RemoveElement
    <3> QED BY <1>5, <2>2, <2>3, <2>b, <3>2
  <2>4. CASE s = to
    <3>1. t \notin A /\ D = A \cup {t} BY <1>1, <2>a, <2>b, <2>4
    <3>2. Cardinality(D) = Cardinality(A) + 1 BY <2>1, <3>1, FS_AddElement
    <3> QED BY <1>5, <2>2, <2>4, <2>b, <3>2
  <2>5. CASE s # from /\ s # to
    <3>1. D = A BY <1>1, <2>a, <2>b, <2>5
    <3> QED BY <1>5, <2>2, <2>5, <2>b, <3>1
  <2> QED BY <2>3, <2>4, <2>5
<1>9. B.num_tasks = Cardinality(M) BY DEF CountsAs
<1> QED BY <1>7, <1>8, <1>9 DEF CountsAs

\* Only batch b differs.
BatchChange(S, T, b, B) ==
    /\ WorkSame(S, T) /\ T.started = S.started /\ T.conns = S.conns /\ T.conn = S.conn
    /\ T.batch[b] = B /\ \A d \in Batches : d # b => T.batch[d] = S.batch[d]
LEMMA BatchSet ==
    ASSUME NEW S \in EngineStates, NEW b \in Batches, NEW B \in BatchRecords,
           NEW T, T = [S EXCEPT !.batch[b] = B]
    PROVE  BatchChange(S, T, b, B)
<1>1. PICK f : f = [S.batch EXCEPT ![b] = B]
  OBVIOUS
<1>2. f \in [Batches -> BatchRecords] /\ f[b] = B /\ \A d \in Batches : d # b => f[d] = S.batch[d]
  BY <1>1 DEF EngineStates
<1>3. T = [S EXCEPT !.batch = f]
  BY <1>1 DEF EngineStates
<1> QED BY <1>2, <1>3 DEF BatchChange, WorkSame, EngineStates

LEMMA BatchGood ==
    ASSUME EngineAssumption, NEW S, NEW h, NEW g, NEW Ad, Good(S, h, g, Ad), NEW b, NEW B,
           NEW T, BatchChange(S, T, b, B)
    PROVE  Good(T, h, g, Ad)
<1>1. WorkSame(S, T) /\ Typed(S) /\ Work(S, h, Ad) /\ S \in EngineStates
  BY DEF BatchChange, Good, Typed
<1>2. Typed(T) /\ Work(T, h, Ad) /\ T \in EngineStates
  BY <1>1, SameKeeps DEF Typed
<1>3. ASSUME Links(S, g) PROVE Links(T, g)
  BY <1>1, <1>2, <1>3, LinksSame DEF BatchChange, WorkSame
<1> QED BY <1>2, <1>3 DEF Good, Linked

\* Batch b was told of the move of its task t.
Told(S, T, b, ln) ==
    /\ T.tasks = S.tasks /\ T.batch[b].live = S.batch[b].live
    /\ CountsAs(T.batch[b], Mine(S, b), ln)
    /\ \A d \in Batches : d # b => T.batch[d] = S.batch[d]
LEMMA KnownMoves ==
    ASSUME EngineAssumption, NEW S \in EngineStates, NEW kn, NEW X, NEW Ad, Known(S, kn, X, Ad),
           NEW b \in Batches, b \notin X, S.batch[b].live, NEW ln,
           \A u \in Tasks : BatchOf[u] # b => ln[u] = kn[u],
           NEW T, Told(S, T, b, ln)
    PROVE  Known(T, ln, X, Ad)
<1>1. Live(S) \subseteq Tasks BY ContainsFacts DEF Live, EngineStates
<1>2. T.tasks = S.tasks /\ Live(T) = Live(S) BY DEF Told, Live
<1>3. b \in Batches /\ S.batch[b].live /\ b \in Ad
  BY DEF Known
<1>4. ASSUME NEW d PROVE Mine(T, d) = Mine(S, d)
  BY <1>2 DEF Mine
<1>5. \A u \in Live(T) : BatchOf[u] \in X \/ T.batch[BatchOf[u]].live
  <2>1. ASSUME NEW u \in Live(T) PROVE BatchOf[u] \in X \/ T.batch[BatchOf[u]].live
    <3>1. BatchOf[u] \in Batches BY <1>1, <1>2 DEF EngineAssumption
    <3> QED BY <1>2, <1>3, <3>1 DEF Known, Told
  <2> QED BY <2>1
<1>6. ASSUME NEW d \in Batches \ X
      PROVE  /\ ~T.batch[d].live => T.batch[d] = NoBatch
             /\ T.batch[d].live => d \in Ad /\ CountsAs(T.batch[d], Mine(T, d), ln)
  <2>1. CASE d = b
    BY <1>3, <1>4, <2>1 DEF Told
  <2>2. CASE d # b
    <3>1. T.batch[d] = S.batch[d] BY <2>2 DEF Told
    <3>2. ASSUME S.batch[d].live PROVE d \in Ad /\ CountsAs(S.batch[d], Mine(S, d), ln)
      <4>1. d \in Ad /\ CountsAs(S.batch[d], Mine(S, d), kn) BY <3>2 DEF Known
      <4>2. \A u \in Mine(S, d) : ln[u] = kn[u]
        BY <1>1, <2>2 DEF Mine
      <4>3. \A s : {u \in Mine(S, d) : ln[u] = s} = {u \in Mine(S, d) : kn[u] = s}
        BY <4>2
      <4> QED BY <4>1, <4>3 DEF CountsAs
    <3>3. ~S.batch[d].live => S.batch[d] = NoBatch BY DEF Known
    <3> QED BY <1>4, <3>1, <3>2, <3>3
  <2> QED BY <2>1, <2>2
<1> QED BY <1>2, <1>5, <1>6 DEF Known

\* The lists of tasks and batches are all that matters, and what is known.
LEMMA KnownSame ==
    ASSUME NEW S, NEW T, NEW kn, NEW X, NEW Ad, Known(S, kn, X, Ad),
           T.tasks = S.tasks, T.batch = S.batch
    PROVE  Known(T, kn, X, Ad) /\ Live(T) = Live(S)
<1>1. Live(T) = Live(S) /\ \A d : Mine(T, d) = Mine(S, d) BY DEF Live, Mine
<1> QED BY <1>1 DEF Known

LEMMA MineFacts ==
    ASSUME EngineAssumption, NEW S \in EngineStates, NEW b
    PROVE  /\ Live(S) \subseteq Tasks /\ IsFiniteSet(Live(S))
           /\ Mine(S, b) \subseteq Live(S) /\ IsFiniteSet(Mine(S, b))
<1>1. Live(S) \subseteq Tasks BY ContainsFacts DEF Live, EngineStates
<1>2. IsFiniteSet(Live(S)) BY <1>1, FS_Subset DEF EngineAssumption
<1>3. Mine(S, b) \subseteq Live(S) BY DEF Mine
<1> QED BY <1>1, <1>2, <1>3, FS_Subset

LEMMA StateType ==
    ASSUME NEW S \in EngineStates, NEW t \in Tasks
    PROVE  S.task[t].st \in TaskStates
<1>1. S.task[t] \in TaskRecords BY DEF EngineStates
<1> QED BY <1>1 DEF TaskRecords

\* A task has gone from a state to another: whose counts change.
LEMMA FrameMoves ==
    ASSUME EngineAssumption, NEW S \in EngineStates, NEW T \in EngineStates, NEW t \in Live(S),
           TaskFrame(S, T, t), S.task[t].st # T.task[t].st, NEW b, b = BatchOf[t]
    PROVE  /\ StateMoves(Mine(S, b), States(S), States(T), t, S.task[t].st, T.task[t].st)
           /\ \A u \in Tasks : u # t => States(T)[u] = States(S)[u]
<1>1. t \in Tasks /\ Mine(S, b) \subseteq Tasks /\ IsFiniteSet(Mine(S, b)) /\ t \in Mine(S, b)
  <2>1. Mine(S, b) \subseteq Live(S) /\ Live(S) \subseteq Tasks /\ IsFiniteSet(Mine(S, b))
    BY MineFacts
  <2>2. t \in Mine(S, b) BY DEF Mine
  <2> QED BY <2>1, <2>2
<1>2. \A u \in Tasks : States(S)[u] = S.task[u].st /\ States(T)[u] = T.task[u].st
  BY DEF States
<1>3. S.task[t].st \in TaskStates /\ T.task[t].st \in TaskStates
  BY <1>1, StateType
<1>4. \A u \in Tasks : u # t => States(T)[u] = States(S)[u]
  BY <1>2 DEF TaskFrame
<1> QED BY <1>1, <1>2, <1>3, <1>4 DEF StateMoves

LEMMA FrameStays ==
    ASSUME NEW S, NEW T, NEW t, TaskFrame(S, T, t), S.task[t].st = T.task[t].st
    PROVE  States(T) = States(S)
<1>1. \A u \in Tasks : T.task[u].st = S.task[u].st BY DEF TaskFrame
<1> QED BY <1>1 DEF States

\* The batch counts its task's move, and may have been told of it.
WithBatch(S, b, B) == [S EXCEPT !.batch[b] = B]
SameCounts(B, C)   == B.live = C.live /\ B.num_tasks = C.num_tasks /\ B.statesets = C.statesets
LEMMA MovedKnown ==
    ASSUME EngineAssumption, NEW S \in EngineStates, NEW X, NEW Ad,
           Known(S, States(S), X, Ad), NEW t \in Live(S), NEW h, NEW g, NEW T, Steps(S, T, t, h, g, Ad),
           S.task[t].st # T.task[t].st, NEW b, b = BatchOf[t], b \notin X,
           NEW C, C = Moved(T.batch[b], S.task[t].st, T.task[t].st),
           NEW B \in BatchRecords, SameCounts(B, C), NEW U, U = WithBatch(T, b, B)
    PROVE  /\ Good(U, h, g, Ad) /\ Known(U, States(U), X, Ad) /\ U.tasks = S.tasks
           /\ \A d \in Batches : U.batch[d].live = S.batch[d].live
<1>1. TaskFrame(S, T, t) /\ Good(T, h, g, Ad) /\ T \in EngineStates
  BY DEF Steps, Good, Typed
<1>2. t \in Tasks /\ b \in Batches BY MineFacts DEF EngineAssumption
<1>3. /\ StateMoves(Mine(S, b), States(S), States(T), t, S.task[t].st, T.task[t].st)
      /\ \A u \in Tasks : u # t => States(T)[u] = States(S)[u]
  BY <1>1, FrameMoves
<1>4. /\ T.batch[b] = S.batch[b] /\ S.batch[b] \in BatchRecords /\ S.batch[b].live
      /\ CountsAs(S.batch[b], Mine(S, b), States(S))
  BY <1>1, <1>2 DEF TaskFrame, EngineStates, Known
<1>5. C.live = S.batch[b].live /\ CountsAs(C, Mine(S, b), States(T))
  <2>1. PICK x, y : x = S.task[t].st /\ y = T.task[t].st
    OBVIOUS
  <2>2. PICK A : A = S.batch[b]
    OBVIOUS
  <2>3. C = Moved(A, x, y) /\ A \in BatchRecords /\ CountsAs(A, Mine(S, b), States(S))
        /\ StateMoves(Mine(S, b), States(S), States(T), t, x, y)
    BY <1>3, <1>4, <2>1, <2>2
  <2>4. C.live = A.live /\ CountsAs(C, Mine(S, b), States(T))
    BY <2>3, MovedCounts
  <2> QED BY <2>2, <2>4
<1>6. CountsAs(B, Mine(S, b), States(T)) /\ B.live = C.live
  BY <1>5 DEF CountsAs, SameCounts
<1>7. BatchChange(T, U, b, B)
  BY <1>1, <1>2, BatchSet DEF WithBatch
<1>8. Good(U, h, g, Ad)
  BY <1>1, <1>7, BatchGood
<1>9. U.tasks = S.tasks /\ U.task = T.task /\ Told(S, U, b, States(T))
  <2>1. /\ U.tasks = T.tasks /\ U.task = T.task /\ T.tasks = S.tasks /\ T.batch = S.batch
        /\ U.batch[b] = B /\ \A d \in Batches : d # b => U.batch[d] = T.batch[d]
    BY <1>1, <1>7 DEF BatchChange, WorkSame, TaskFrame
  <2>2. U.batch[b].live = S.batch[b].live BY <1>5, <1>6, <2>1
  <2>3. CountsAs(U.batch[b], Mine(S, b), States(T)) BY <1>6, <2>1
  <2> QED BY <2>1, <2>2, <2>3 DEF Told
<1>10. States(U) = States(T)
  BY <1>9 DEF States
<1>11. Known(U, States(T), X, Ad)
  <2>1. \A u \in Tasks : BatchOf[u] # b => States(T)[u] = States(S)[u]
    BY <1>3
  <2>2. b \in Batches /\ S.batch[b].live /\ Told(S, U, b, States(T)) BY <1>2, <1>4, <1>9
  <2> QED BY <2>1, <2>2, KnownMoves
<1>12. ASSUME NEW d \in Batches PROVE U.batch[d].live = S.batch[d].live
  BY <1>9 DEF Told
<1> QED BY <1>8, <1>9, <1>10, <1>11, <1>12

\* batch::update.
LEMMA SettleKeeps ==
    ASSUME EngineAssumption, NEW S \in EngineStates, NEW Ad,
           Known(S, States(S), {}, Ad), NEW t \in Live(S), NEW h, NEW g, NEW T, Steps(S, T, t, h, g, Ad),
           NEW U, U = Settle(S, T, t)
    PROVE  Settled(U, h, g, Ad) /\ U.tasks = S.tasks
<1>1. TaskFrame(S, T, t) /\ Good(T, h, g, Ad) /\ T \in EngineStates
  BY DEF Steps, Good, Typed
<1>2. CASE S.task[t].st = T.task[t].st
  <2>1. U = T BY <1>2 DEF Settle
  <2>2. States(T) = States(S) BY <1>1, <1>2, FrameStays
  <2>3. Known(T, States(S), {}, Ad) BY <1>1, KnownSame DEF TaskFrame
  <2> QED BY <1>1, <2>1, <2>2, <2>3 DEF Settled, TaskFrame
<1>3. CASE S.task[t].st # T.task[t].st
  <2>1. PICK b : b = BatchOf[t]
    OBVIOUS
  <2>2. t \in Tasks /\ b \in Batches BY <2>1, MineFacts DEF EngineAssumption
  <2>3. PICK C : C = Moved(T.batch[b], S.task[t].st, T.task[t].st)
    OBVIOUS
  <2>4. PICK D : D = Recount(C)
    OBVIOUS
  <2>5. PICK z : z = IF Announces(D, T.task[t].st) THEN D.told + 1 ELSE D.told
    OBVIOUS
  <2>6. PICK B : B = [D EXCEPT !.told = z]
    OBVIOUS
  <2>7. U = WithBatch(T, b, B)
    BY <1>3, <2>1, <2>3, <2>4, <2>5, <2>6 DEF Settle, WithBatch
  <2>8. C \in BatchRecords
    <3>1. /\ StateMoves(Mine(S, b), States(S), States(T), t, S.task[t].st, T.task[t].st)
      BY <1>1, <1>3, <2>1, FrameMoves
    <3>2. /\ T.batch[b] = S.batch[b] /\ S.batch[b] \in BatchRecords
          /\ CountsAs(S.batch[b], Mine(S, b), States(S))
      BY <1>1, <2>1, <2>2 DEF TaskFrame, EngineStates, Known
    <3>3. PICK x, y, A : x = S.task[t].st /\ y = T.task[t].st /\ A = S.batch[b]
      OBVIOUS
    <3>4. C = Moved(A, x, y) /\ A \in BatchRecords /\ CountsAs(A, Mine(S, b), States(S))
          /\ StateMoves(Mine(S, b), States(S), States(T), t, x, y)
      BY <2>3, <3>1, <3>2, <3>3
    <3> QED BY <3>4, MovedCounts
  <2>9. D \in BatchRecords /\ D.live = C.live /\ D.num_tasks = C.num_tasks
        /\ D.statesets = C.statesets
    BY <2>4, <2>8, RecountFacts
  <2>10. z \in Int BY <2>5, <2>9 DEF BatchRecords
  <2>11. B \in BatchRecords /\ SameCounts(B, C)
    BY <2>6, <2>9, <2>10 DEF BatchRecords, SameCounts
  <2>12. Good(U, h, g, Ad) /\ Known(U, States(U), {}, Ad) /\ U.tasks = S.tasks
    <3>1. b \notin {} OBVIOUS
    <3> QED BY <1>3, <2>1, <2>3, <2>7, <2>11, <3>1, MovedKnown
  <2> QED BY <2>12 DEF Settled
<1> QED BY <1>2, <1>3

\* A run of a task, and its batch's count of it.
LEMMA RunKeeps ==
    ASSUME EngineAssumption, NEW S, NEW h, NEW g, NEW Ad, Settled(S, h, g, Ad), NEW t \in Live(S),
           NEW T, T = RunAndSettle(S, t)
    PROVE  Settled(T, h, g, Ad) /\ T.tasks = S.tasks
<1>1. S \in EngineStates /\ Good(S, h, g, Ad) /\ Known(S, States(S), {}, Ad)
  BY DEF Settled, Good, Typed
<1>2. PICK R : R = TaskRun(S, t)
  OBVIOUS
<1>3. Steps(S, R, t, h, g, Ad) BY <1>1, <1>2, TaskRunKeeps
<1>4. T = Settle(S, R, t) BY <1>2 DEF RunAndSettle
<1> QED BY <1>1, <1>3, <1>4, SettleKeeps

\* The loops of state::execute: it opens connections, and offers each of them
\* the task.
OpenAll(S, s) == ForEach(ConnCreate, S, s)
Offers(S, t) ==
    IF EligibleForRun(S, t) /\ \E i \in ConnsOf(S, AccountOf[t]) : IsReady(S, S.conns[i])
    THEN RunAndSettle(S, t) ELSE S
OfferAll(S, t, s) == ForEach(LAMBDA X, c : Offers(X, t), S, s)
ExecuteAll(S, s)  == ForEach(ExecuteTask, S, s)

LEMMA OfferKeeps ==
    ASSUME EngineAssumption, NEW S, NEW h, NEW g, NEW Ad, Settled(S, h, g, Ad), NEW t \in Live(S),
           NEW s \in Seq(ConnIds), NEW T, T = OfferAll(S, t, s)
    PROVE  Settled(T, h, g, Ad) /\ T.tasks = S.tasks
<1>a. PICK n : n = Len(s)
  OBVIOUS
<1>b. PICK G : G = {Y \in EngineStates : Settled(Y, h, g, Ad) /\ Y.tasks = S.tasks}
  OBVIOUS
<1>1. n \in Nat /\ S \in G
  BY <1>a, <1>b DEF Settled, Good, Typed
<1>2. ASSUME NEW Y \in G, NEW i \in 1 .. n PROVE Offers(Y, t) \in G
  <2>1. Settled(Y, h, g, Ad) /\ Y.tasks = S.tasks /\ t \in Live(Y)
    BY <1>b DEF Live
  <2>2. PICK Z : Z = RunAndSettle(Y, t)
    OBVIOUS
  <2>3. Settled(Z, h, g, Ad) /\ Z.tasks = Y.tasks BY <2>1, <2>2, RunKeeps
  <2>4. Z \in G BY <1>b, <2>1, <2>3 DEF Settled, Good, Typed
  <2>5. Offers(Y, t) = Z \/ Offers(Y, t) = Y BY <2>2 DEF Offers
  <2> QED BY <2>4, <2>5
<1>c. PICK turn : turn = [i \in 1 .. n |-> [Y \in G |-> Offers(Y, t)]]
  OBVIOUS
<1>3. IsLoop(n, G, S, turn)
  BY <1>1, <1>2, <1>c DEF IsLoop
<1>d. PICK run : IsCourse(run, n, G, S, turn)
  BY <1>3, LoopRuns
<1>e. PICK after :
        after = CHOOSE f : f = [i \in 0 .. n |-> IF i = 0 THEN S ELSE Offers(f[i - 1], t)]
  OBVIOUS
<1>4. run = [i \in 0 .. n |-> IF i = 0 THEN S ELSE Offers(run[i - 1], t)]
  <2>1. /\ run \in [0 .. n -> G] /\ run[0] = S
        /\ \A i \in 1 .. n : run[i - 1] \in G /\ run[i] = turn[i][run[i - 1]]
    <3>1. ASSUME NEW i \in 1 .. n PROVE i - 1 \in 0 .. n BY <1>1
    <3> QED BY <1>d, <3>1 DEF IsCourse
  <2>2. ASSUME NEW i \in 1 .. n PROVE run[i] = Offers(run[i - 1], t)
    <3>1. turn[i] = [Y \in G |-> Offers(Y, t)] BY <1>c
    <3>2. run[i - 1] \in G /\ run[i] = turn[i][run[i - 1]] BY <2>1
    <3> QED BY <3>1, <3>2
  <2>3. ASSUME NEW i \in 0 .. n
        PROVE  run[i] = IF i = 0 THEN S ELSE Offers(run[i - 1], t)
    <3>1. CASE i = 0 BY <2>1, <3>1
    <3>2. CASE i # 0
      <4>1. i \in 1 .. n BY <1>1, <3>2
      <4> QED BY <2>2, <3>2, <4>1
    <3> QED BY <3>1, <3>2
  <2> QED BY <2>1, <2>3
<1>5. after = [i \in 0 .. n |-> IF i = 0 THEN S ELSE Offers(after[i - 1], t)]
  <2>1. \E f : f = [i \in 0 .. n |-> IF i = 0 THEN S ELSE Offers(f[i - 1], t)]
    BY <1>4
  <2> QED BY <1>e, <2>1
<1>6. after[n] \in G
  <2>1. after[0] \in G BY <1>1, <1>5
  <2>2. ASSUME NEW i \in 1 .. n, after[i - 1] \in G PROVE after[i] \in G
    <3>1. after[i] = Offers(after[i - 1], t) BY <1>1, <1>5
    <3> QED BY <1>2, <2>2, <3>1
  <2> QED BY <1>1, <2>1, <2>2, LoopEnds
<1>7. T = after[n]
  BY <1>a, <1>e DEF ForEach, OfferAll
<1> QED BY <1>b, <1>6, <1>7

\* The connections that the account of task t lacks.
Lacking(S, t) ==
    [i \in 1 .. Connections[AccountOf[t]] - Cardinality(ConnsOf(S, AccountOf[t])) |-> AccountOf[t]]
LEMMA LackingType ==
    ASSUME EngineAssumption, NEW S \in EngineStates, NEW t \in Tasks
    PROVE  Lacking(S, t) \in Seq(Accounts)
<1>1. PICK acc : acc = AccountOf[t]
  OBVIOUS
<1>2. acc \in Accounts /\ Connections[acc] \in Nat
  BY <1>1 DEF EngineAssumption
<1>3. Cardinality(ConnsOf(S, acc)) \in Nat
  <2>1. DOMAIN S.conns = 1 .. Len(S.conns) /\ Len(S.conns) \in Nat
    BY DEF EngineStates
  <2>2. IsFiniteSet(1 .. Len(S.conns))
    <3>1. 1 \in Int /\ Len(S.conns) \in Int BY <2>1
    <3> QED BY <3>1, FS_Interval
  <2>3. ConnsOf(S, acc) \subseteq 1 .. Len(S.conns) BY <2>1 DEF ConnsOf
  <2> QED BY <2>2, <2>3, FS_Subset, FS_CardinalityType
<1>4. PICK z : z = Connections[acc] - Cardinality(ConnsOf(S, acc))
  OBVIOUS
<1>5. z \in Int BY <1>2, <1>3, <1>4
<1>6. Lacking(S, t) = [i \in 1 .. z |-> acc] BY <1>1, <1>4 DEF Lacking
<1>7. CASE z \in Nat
  <2>1. PICK q : q = [i \in 1 .. z |-> acc]
    OBVIOUS
  <2>2. q \in [1 .. z -> Accounts] BY <1>2, <2>1
  <2>3. q \in Seq(Accounts) BY <1>7, <2>2
  <2> QED BY <1>6, <2>1, <2>3
<1>8. CASE z \notin Nat
  <2>1. 1 .. z = 1 .. 0 BY <1>5, <1>8
  <2>2. [i \in 1 .. 0 |-> acc] \in Seq(Accounts) BY <1>2
  <2> QED BY <1>6, <2>1, <2>2
<1> QED BY <1>7, <1>8

LEMMA ExecuteTaskKeeps ==
    ASSUME EngineAssumption, NEW S, NEW h, NEW g, NEW Ad, Settled(S, h, g, Ad), NEW t \in Live(S),
           NEW T, T = ExecuteTask(S, t)
    PROVE  Settled(T, h, g, Ad) /\ T.tasks = S.tasks
<1>1. S \in EngineStates /\ t \in Tasks /\ Good(S, h, g, Ad) /\ Known(S, States(S), {}, Ad)
  BY MineFacts DEF Settled, Good, Typed
<1>2. PICK s : s = Lacking(S, t)
  OBVIOUS
<1>3. s \in Seq(Accounts) BY <1>1, <1>2, LackingType
<1>4. PICK O : O = OpenAll(S, s)
  OBVIOUS
<1>5. T = S \/ T = OfferAll(O, t, O.conns)
  BY <1>2, <1>4 DEF ExecuteTask, OfferAll, OpenAll, Lacking, Offers
<1>6. Good(O, h, g, Ad) /\ CmdsSame(S, O)
  BY <1>1, <1>3, <1>4, OpenKeeps DEF OpenAll
<1>7. O.tasks = S.tasks /\ O.batch = S.batch /\ O.task = S.task /\ O.conns \in Seq(ConnIds)
  BY <1>6 DEF CmdsSame, TasksSame, Good, Typed, EngineStates
<1>8. Known(O, States(S), {}, Ad) /\ Live(O) = Live(S)
  BY <1>1, <1>7, KnownSame
<1>9. States(O) = States(S) BY <1>7 DEF States
<1>10. Settled(O, h, g, Ad) /\ t \in Live(O) BY <1>6, <1>8, <1>9 DEF Settled
<1>11. ASSUME T = OfferAll(O, t, O.conns) PROVE Settled(T, h, g, Ad) /\ T.tasks = O.tasks
  BY <1>7, <1>10, <1>11, OfferKeeps
<1> QED BY <1>5, <1>7, <1>11

\* state::execute.
LEMMA ExecuteAllKeeps ==
    ASSUME EngineAssumption, NEW S, NEW h, NEW g, NEW Ad, Settled(S, h, g, Ad),
           NEW s \in Seq(Live(S)), NEW T, T = ExecuteAll(S, s)
    PROVE  Settled(T, h, g, Ad) /\ T.tasks = S.tasks
<1>a. PICK n : n = Len(s)
  OBVIOUS
<1>b. PICK G : G = {Y \in EngineStates : Settled(Y, h, g, Ad) /\ Y.tasks = S.tasks}
  OBVIOUS
<1>1. n \in Nat /\ S \in G
  BY <1>a, <1>b DEF Settled, Good, Typed
<1>2. ASSUME NEW Y \in G, NEW i \in 1 .. n PROVE ExecuteTask(Y, s[i]) \in G
  <2>0. PICK t : t = s[i]
    OBVIOUS
  <2>1. Settled(Y, h, g, Ad) /\ Y.tasks = S.tasks /\ t \in Live(Y)
    <3>1. t \in Live(S) BY <1>a, <2>0
    <3> QED BY <1>b, <3>1 DEF Live
  <2>2. PICK Z : Z = ExecuteTask(Y, t)
    OBVIOUS
  <2>3. Settled(Z, h, g, Ad) /\ Z.tasks = Y.tasks BY <2>1, <2>2, ExecuteTaskKeeps
  <2>4. Z \in G BY <1>b, <2>1, <2>3 DEF Settled, Good, Typed
  <2> QED BY <2>0, <2>2, <2>4
<1>c. PICK turn : turn = [i \in 1 .. n |-> [Y \in G |-> ExecuteTask(Y, s[i])]]
  OBVIOUS
<1>3. IsLoop(n, G, S, turn)
  BY <1>1, <1>2, <1>c DEF IsLoop
<1>d. PICK run : IsCourse(run, n, G, S, turn)
  BY <1>3, LoopRuns
<1>e. PICK after :
        after = CHOOSE f : f = [i \in 0 .. n |-> IF i = 0 THEN S ELSE ExecuteTask(f[i - 1], s[i])]
  OBVIOUS
<1>4. run = [i \in 0 .. n |-> IF i = 0 THEN S ELSE ExecuteTask(run[i - 1], s[i])]
  <2>1. /\ run \in [0 .. n -> G] /\ run[0] = S
        /\ \A i \in 1 .. n : run[i - 1] \in G /\ run[i] = turn[i][run[i - 1]]
    <3>1. ASSUME NEW i \in 1 .. n PROVE i - 1 \in 0 .. n BY <1>1
    <3> QED BY <1>d, <3>1 DEF IsCourse
  <2>2. ASSUME NEW i \in 1 .. n PROVE run[i] = ExecuteTask(run[i - 1], s[i])
    <3>1. turn[i] = [Y \in G |-> ExecuteTask(Y, s[i])] BY <1>c
    <3>2. run[i - 1] \in G /\ run[i] = turn[i][run[i - 1]] BY <2>1
    <3> QED BY <3>1, <3>2
  <2>3. ASSUME NEW i \in 0 .. n
        PROVE  run[i] = IF i = 0 THEN S ELSE ExecuteTask(run[i - 1], s[i])
    <3>1. CASE i = 0 BY <2>1, <3>1
    <3>2. CASE i # 0
      <4>1. i \in 1 .. n BY <1>1, <3>2
      <4> QED BY <2>2, <3>2, <4>1
    <3> QED BY <3>1, <3>2
  <2> QED BY <2>1, <2>3
<1>5. after = [i \in 0 .. n |-> IF i = 0 THEN S ELSE ExecuteTask(after[i - 1], s[i])]
  <2>1. \E f : f = [i \in 0 .. n |-> IF i = 0 THEN S ELSE ExecuteTask(f[i - 1], s[i])]
    BY <1>4
  <2> QED BY <1>e, <2>1
<1>6. after[n] \in G
  <2>1. after[0] \in G BY <1>1, <1>5
  <2>2. ASSUME NEW i \in 1 .. n, after[i - 1] \in G PROVE after[i] \in G
    <3>1. after[i] = ExecuteTask(after[i - 1], s[i]) BY <1>1, <1>5
    <3> QED BY <1>2, <2>2, <3>1
  <2> QED BY <1>1, <2>1, <2>2, LoopEnds
<1>7. T = after[n]
  BY <1>a, <1>e DEF ForEach, ExecuteAll
<1> QED BY <1>b, <1>6, <1>7

LEMMA ExecuteKeeps ==
    ASSUME EngineAssumption, NEW S, NEW h, NEW g, NEW Ad, Settled(S, h, g, Ad),
           NEW T, T = Execute(S)
    PROVE  Settled(T, h, g, Ad) /\ T.tasks = S.tasks
<1>1. S.tasks \in Seq(Live(S))
  BY DEF Settled, Good, Typed, EngineStates, Live, ToSet
<1>2. T = S \/ T = ExecuteAll(S, S.tasks)
  BY DEF Execute, ExecuteAll
<1>3. ASSUME T = ExecuteAll(S, S.tasks)
      PROVE  Settled(T, h, g, Ad) /\ T.tasks = S.tasks
  BY <1>1, <1>3, ExecuteAllKeeps
<1> QED BY <1>2, <1>3

-----------------------------------------------------------------------------
(* Connections are stopped. *)

\* The engine's list of connections has lost some, and nothing else differs but
\* whether it is started.
Trimmed(S, T) ==
    /\ WorkSame(S, T) /\ T.conn = S.conn /\ T.batch = S.batch
    /\ ToSet(T.conns) \subseteq ToSet(S.conns)
    /\ IsInjective(S.conns) => IsInjective(T.conns)
LEMMA TrimmedKeeps ==
    ASSUME EngineAssumption, NEW S, NEW h, NEW g, NEW Ad, Settled(S, h, g, Ad),
           NEW T, Trimmed(S, T)
    PROVE  Settled(T, h, g, Ad)
<1>1. /\ S \in EngineStates /\ Typed(S) /\ Work(S, h, Ad) /\ Linked(S, g)
      /\ WorkSame(S, T) /\ T \in EngineStates
      /\ Known(S, States(S), {}, Ad)
  BY DEF Settled, Good, Typed, Trimmed, WorkSame
<1>2. Typed(T) /\ Work(T, h, Ad) BY <1>1, SameKeeps
<1>3. \A f, P : Total(T, f, P) = Total(S, f, P) BY <1>1, SameKeeps
<1>4. ASSUME Links(S, g) PROVE Links(T, g)
  <2>1. T.conn = S.conn /\ ToSet(T.conns) \subseteq ToSet(S.conns) /\ IsInjective(T.conns)
    BY <1>4 DEF Trimmed, Links
  <2>2. ASSUME NEW c \in ToSet(T.conns) PROVE LinkedAt(T, g, c)
    <3>1. LinkedAt(S, g, c) BY <1>4, <2>1 DEF Links
    <3> QED BY <1>3, <2>1, <3>1 DEF LinkedAt
  <2>3. \A c \in ConnIds : T.conn[c] = NoConn => Total(T, g, OfConn(c)) = 0
    BY <1>3, <1>4, <2>1 DEF Links
  <2> QED BY <2>1, <2>2, <2>3 DEF Links
<1>5. T.tasks = S.tasks /\ T.batch = S.batch /\ T.task = S.task
  BY <1>1 DEF Trimmed, WorkSame
<1>6. Known(T, States(S), {}, Ad) BY <1>1, <1>5, KnownSame
<1>7. States(T) = States(S) BY <1>5 DEF States
<1> QED BY <1>1, <1>2, <1>4, <1>6, <1>7 DEF Settled, Good, Linked

\* What a connection's doings leave alone.
ConnsMove(S, T) ==
    /\ CmdsSame(S, T) /\ T.conns = S.conns
    /\ \A c \in ConnIds : T.conn[c].account = S.conn[c].account
LEMMA MoveSettled ==
    ASSUME NEW S, NEW h, NEW g, NEW Ad, Settled(S, h, g, Ad), NEW T, CmdsSame(S, T), Good(T, h, g, Ad)
    PROVE  Settled(T, h, g, Ad) /\ T.tasks = S.tasks
<1>1. T.tasks = S.tasks /\ T.batch = S.batch /\ T.task = S.task
  BY DEF CmdsSame, TasksSame
<1>2. Known(T, States(S), {}, Ad) BY <1>1, KnownSame DEF Settled
<1>3. States(T) = States(S) BY <1>1 DEF States
<1> QED BY <1>1, <1>2, <1>3 DEF Settled

\* A connection's flags say nothing of its actions.
LEMMA FlagKeeps ==
    ASSUME EngineAssumption, NEW S, NEW h, NEW g, NEW Ad, Good(S, h, g, Ad), NEW c \in ConnIds,
           NEW T, ConnWith(S, T, c, S.conn[c].st),
           T.conn[c] = NoConn => S.conn[c] = NoConn
    PROVE  Good(T, h, g, Ad) /\ CmdsSame(S, T)
<1>1. /\ S \in EngineStates /\ Typed(S) /\ Work(S, h, Ad) /\ Linked(S, g)
      /\ WorkSame(S, T) /\ CmdsSame(S, T) /\ T.conns = S.conns
  BY DEF Good, Typed, ConnWith
<1>2. Typed(T) /\ Work(T, h, Ad) BY <1>1, SameKeeps
<1>3. \A f, P : Total(T, f, P) = Total(S, f, P) BY <1>1, SameKeeps
<1>4. \A d \in ConnIds : /\ T.conn[d].st = S.conn[d].st /\ T.conn[d].account = S.conn[d].account
                         /\ T.conn[d] = NoConn => S.conn[d] = NoConn
  BY DEF ConnWith
<1>5. ASSUME Links(S, g) PROVE Links(T, g)
  <2>1. ToSet(S.conns) \subseteq ConnIds BY <1>1, ContainsFacts DEF EngineStates
  <2>2. ASSUME NEW d \in ToSet(T.conns) PROVE LinkedAt(T, g, d)
    <3>1. LinkedAt(S, g, d) /\ d \in ConnIds BY <1>1, <1>5, <2>1 DEF Links
    <3>2. T.conn[d].st = S.conn[d].st /\ T.conn[d].account = S.conn[d].account BY <1>4, <3>1
    <3> QED BY <1>3, <3>1, <3>2 DEF LinkedAt
  <2>3. \A d \in ConnIds : T.conn[d] = NoConn => Total(T, g, OfConn(d)) = 0
    BY <1>3, <1>4, <1>5 DEF Links
  <2>4. IsInjective(T.conns) BY <1>1, <1>5 DEF Links
  <2> QED BY <2>2, <2>3, <2>4 DEF Links
<1> QED BY <1>1, <1>2, <1>5 DEF Good, Linked

\* conn::stop of a connection that is in the list no more.
MayStop(S, c) == "ping" \notin Faults => c \notin ToSet(S.conns) /\ S.conn[c].account # 0
LEMMA StopKeeps ==
    ASSUME EngineAssumption, NEW S, NEW h, NEW g, NEW Ad, Good(S, h, g, Ad), NEW c \in ConnIds,
           MayStop(S, c), NEW T, T = ConnStop(S, c)
    PROVE  Good(T, h, g, Ad) /\ ConnsMove(S, T)
<1>1. S \in EngineStates BY DEF Good, Typed
<1>2. PICK D : D = [S EXCEPT !.conn[c].cancel = TRUE]
  OBVIOUS
<1>3. ConnWith(S, D, c, S.conn[c].st)
  BY <1>1, <1>2, SetsCancel
<1>4. D.conn[c].cancel = TRUE
  BY <1>1, <1>2 DEF EngineStates, ConnRecords
<1>5. D.conn[c] # NoConn
  BY <1>4 DEF NoConn
<1>6. Good(D, h, g, Ad) /\ CmdsSame(S, D)
  BY <1>3, <1>5, FlagKeeps
<1>7. D.conns = S.conns /\ \A d \in ConnIds : D.conn[d].account = S.conn[d].account
  BY <1>3 DEF ConnWith
<1>8. T = S \/ T = D \/ T = ConnSubmit(D, c, ConnAction("disconnect", c))
  BY <1>2 DEF ConnStop
<1>9. CASE T = S
  BY <1>9 DEF ConnsMove, CmdsSame, TasksSame
<1>10. CASE T = D
  BY <1>6, <1>7, <1>10 DEF ConnsMove
<1>11. CASE T = ConnSubmit(D, c, ConnAction("disconnect", c))
  <2>1. PICK kind : kind = "disconnect"
    OBVIOUS
  <2>2. kind \in ConnKinds /\ kind # "execute" BY <2>1 DEF ConnKinds
  <2>3. MayChore(D, g, c, kind)
    BY <1>7 DEF MayChore, MayStop
  <2>4. Good(T, h, g, Ad) /\ Chored(D, T, c, kind)
    BY <1>6, <1>11, <2>1, <2>2, <2>3, ChoreSubmitted
  <2>5. CmdsSame(S, T) BY <1>6, <2>4 DEF Chored, CmdsSame, TasksSame
  <2>6. T.conns = S.conns /\ \A d \in ConnIds : T.conn[d].account = S.conn[d].account
    BY <1>7, <2>4 DEF Chored
  <2> QED BY <2>4, <2>5, <2>6 DEF ConnsMove
<1> QED BY <1>8, <1>9, <1>10, <1>11

\* conn::stop does not look at the list.
WithConns(S, s) == [S EXCEPT !.conns = s]
LEMMA SubmitApart ==
    ASSUME NEW S \in EngineStates, NEW c \in ConnIds, NEW s, NEW a
    PROVE  WithConns(ConnSubmit(S, c, a), s) = ConnSubmit(WithConns(S, s), c, a)
BY DEF WithConns, ConnSubmit, EngineStates
LEMMA StopApart ==
    ASSUME NEW S \in EngineStates, NEW c \in ConnIds, NEW s
    PROVE  WithConns(ConnStop(S, c), s) = ConnStop(WithConns(S, s), c)
<1>1. WithConns(S, s).conn = S.conn
  BY DEF WithConns, EngineStates
<1>2. CASE S.conn[c].st = "disconnected"
  BY <1>1, <1>2 DEF ConnStop
<1>3. CASE S.conn[c].st \in {"connected", "active"}
  <2>1. PICK D, a : D = [S EXCEPT !.conn[c].cancel = TRUE] /\ a = ConnAction("disconnect", c)
    OBVIOUS
  <2>2. D \in EngineStates
    <3>1. ConnWith(S, D, c, S.conn[c].st) BY <2>1, SetsCancel
    <3> QED BY <3>1 DEF ConnWith, WorkSame
  <2>3. ConnStop(S, c) = ConnSubmit(D, c, a) BY <1>3, <2>1 DEF ConnStop
  <2>4. WithConns(D, s) = [WithConns(S, s) EXCEPT !.conn[c].cancel = TRUE]
    BY <2>1 DEF WithConns, EngineStates
  <2>5. ConnStop(WithConns(S, s), c) = ConnSubmit(WithConns(D, s), c, a)
    BY <1>1, <1>3, <2>1, <2>4 DEF ConnStop
  <2> QED BY <2>2, <2>3, <2>5, SubmitApart
<1>4. CASE S.conn[c].st \notin {"disconnected", "connected", "active"}
  BY <1>1, <1>4 DEF ConnStop, WithConns, EngineStates
<1> QED BY <1>2, <1>3, <1>4

LEMMA WithConnsFacts ==
    ASSUME NEW S \in EngineStates, NEW s \in Seq(ConnIds), NEW T, T = WithConns(S, s)
    PROVE  /\ T \in EngineStates /\ WorkSame(S, T) /\ CmdsSame(S, T)
           /\ T.conns = s /\ T.conn = S.conn /\ T.batch = S.batch
BY DEF WithConns, EngineStates, WorkSame, CmdsSame, TasksSame

\* conn::stop with the connection in the list and without.
LEMMA StopBoth ==
    ASSUME NEW Y \in EngineStates, NEW s \in Seq(ConnIds), NEW Z, Z = WithConns(Y, s),
           NEW c \in ConnIds, NEW X \in EngineStates, X = ConnStop(Z, c), ConnsMove(Z, X),
           NEW R, R = ConnStop(Y, c)
    PROVE  R \in EngineStates /\ ConnsMove(Y, R) /\ WithConns(R, s) = X
<1>1. Z \in EngineStates /\ CmdsSame(Y, Z) /\ Z.conn = Y.conn
  BY WithConnsFacts
<1>2. Y.conns \in Seq(ConnIds) BY DEF EngineStates
<1>3. WithConns(Z, Y.conns) = Y
  BY DEF WithConns, EngineStates
<1>4. R = WithConns(X, Y.conns)
  BY <1>1, <1>3, StopApart
<1>5. R \in EngineStates /\ CmdsSame(X, R) /\ R.conns = Y.conns /\ R.conn = X.conn
  BY <1>2, <1>4, WithConnsFacts
<1>6. WithConns(R, s) = X
  BY StopApart
<1>7. CmdsSame(Y, R)
  BY <1>1, <1>5 DEF CmdsSame, TasksSame, ConnsMove
<1> QED BY <1>1, <1>5, <1>6, <1>7 DEF ConnsMove

StopAll(S, s) == ForEach(ConnStop, S, s)
\* The connections of list s may be stopped when they are out of the list.
Stoppable(S, s) == \A i \in 1 .. Len(s) : "ping" \notin Faults => S.conn[s[i]].account # 0

LEMMA StopLoop ==
    ASSUME EngineAssumption, NEW S \in EngineStates, NEW h, NEW g, NEW Ad, Good(WithConns(S, <<>>), h, g, Ad),
           NEW s \in Seq(ConnIds), Stoppable(S, s), NEW T, T = StopAll(S, s)
    PROVE  T \in EngineStates /\ Good(WithConns(T, <<>>), h, g, Ad) /\ ConnsMove(S, T)
<1>a. PICK n : n = Len(s)
  OBVIOUS
<1>b. PICK G : G = {Y \in EngineStates : Good(WithConns(Y, <<>>), h, g, Ad) /\ ConnsMove(S, Y)}
  OBVIOUS
<1>1. n \in Nat /\ S \in G
  BY <1>a, <1>b DEF ConnsMove, CmdsSame, TasksSame
<1>2. ASSUME NEW Y \in G, NEW i \in 1 .. n PROVE ConnStop(Y, s[i]) \in G
  <2>0. PICK c, s0 : c = s[i] /\ s0 = <<>>
    OBVIOUS
  <2>1. Y \in EngineStates /\ ConnsMove(S, Y) /\ c \in ConnIds /\ s0 \in Seq(ConnIds)
    BY <1>a, <1>b, <2>0
  <2>2. PICK Z : Z = WithConns(Y, s0)
    OBVIOUS
  <2>3. Good(Z, h, g, Ad) BY <1>b, <2>0, <2>2
  <2>4. Z.conns = s0 /\ Z.conn = Y.conn BY <2>1, <2>2, WithConnsFacts
  <2>5. MayStop(Z, c)
    <3>1. c \notin ToSet(Z.conns) BY <2>0, <2>4 DEF ToSet
    <3>2. "ping" \notin Faults => Z.conn[c].account # 0
      BY <1>a, <2>0, <2>1, <2>4 DEF Stoppable, ConnsMove
    <3> QED BY <3>1, <3>2 DEF MayStop
  <2>6. PICK X : X = ConnStop(Z, c)
    OBVIOUS
  <2>7. Good(X, h, g, Ad) /\ ConnsMove(Z, X) BY <2>1, <2>3, <2>5, <2>6, StopKeeps
  <2>8. X \in EngineStates BY <2>7 DEF Good, Typed
  <2>9. PICK R : R = ConnStop(Y, c)
    OBVIOUS
  <2>10. R \in EngineStates /\ ConnsMove(Y, R) /\ WithConns(R, s0) = X
    BY <2>1, <2>2, <2>6, <2>7, <2>8, <2>9, StopBoth
  <2>11. ConnsMove(S, R) BY <2>1, <2>10 DEF ConnsMove, CmdsSame, TasksSame
  <2>12. Good(WithConns(R, <<>>), h, g, Ad) BY <2>0, <2>7, <2>10
  <2> QED BY <1>b, <2>0, <2>9, <2>10, <2>11, <2>12
<1>c. PICK turn : turn = [i \in 1 .. n |-> [Y \in G |-> ConnStop(Y, s[i])]]
  OBVIOUS
<1>3. IsLoop(n, G, S, turn)
  BY <1>1, <1>2, <1>c DEF IsLoop
<1>d. PICK run : IsCourse(run, n, G, S, turn)
  BY <1>3, LoopRuns
<1>e. PICK after :
        after = CHOOSE f : f = [i \in 0 .. n |-> IF i = 0 THEN S ELSE ConnStop(f[i - 1], s[i])]
  OBVIOUS
<1>4. run = [i \in 0 .. n |-> IF i = 0 THEN S ELSE ConnStop(run[i - 1], s[i])]
  <2>1. /\ run \in [0 .. n -> G] /\ run[0] = S
        /\ \A i \in 1 .. n : run[i - 1] \in G /\ run[i] = turn[i][run[i - 1]]
    <3>1. ASSUME NEW i \in 1 .. n PROVE i - 1 \in 0 .. n BY <1>1
    <3> QED BY <1>d, <3>1 DEF IsCourse
  <2>2. ASSUME NEW i \in 1 .. n PROVE run[i] = ConnStop(run[i - 1], s[i])
    <3>1. turn[i] = [Y \in G |-> ConnStop(Y, s[i])] BY <1>c
    <3>2. run[i - 1] \in G /\ run[i] = turn[i][run[i - 1]] BY <2>1
    <3> QED BY <3>1, <3>2
  <2>3. ASSUME NEW i \in 0 .. n
        PROVE  run[i] = IF i = 0 THEN S ELSE ConnStop(run[i - 1], s[i])
    <3>1. CASE i = 0 BY <2>1, <3>1
    <3>2. CASE i # 0
      <4>1. i \in 1 .. n BY <1>1, <3>2
      <4> QED BY <2>2, <3>2, <4>1
    <3> QED BY <3>1, <3>2
  <2> QED BY <2>1, <2>3
<1>5. after = [i \in 0 .. n |-> IF i = 0 THEN S ELSE ConnStop(after[i - 1], s[i])]
  <2>1. \E f : f = [i \in 0 .. n |-> IF i = 0 THEN S ELSE ConnStop(f[i - 1], s[i])]
    BY <1>4
  <2> QED BY <1>e, <2>1
<1>6. after[n] \in G
  <2>1. after[0] \in G BY <1>1, <1>5
  <2>2. ASSUME NEW i \in 1 .. n, after[i - 1] \in G PROVE after[i] \in G
    <3>1. after[i] = ConnStop(after[i - 1], s[i]) BY <1>1, <1>5
    <3> QED BY <1>2, <2>2, <3>1
  <2> QED BY <1>1, <2>1, <2>2, LoopEnds
<1>7. T = after[n]
  BY <1>a, <1>e DEF ForEach, StopAll
<1> QED BY <1>b, <1>6, <1>7

\* stop.
Stopped(S) == [StopAll(S, S.conns) EXCEPT !.conns = <<>>, !.started = FALSE]
LEMMA StoppedKeeps ==
    ASSUME EngineAssumption, NEW S, NEW h, NEW g, NEW Ad, Settled(S, h, g, Ad), NEW T, T = Stopped(S)
    PROVE  Settled(T, h, g, Ad) /\ T.tasks = S.tasks
<1>1. /\ S \in EngineStates /\ Linked(S, g) /\ S.conns \in Seq(ConnIds)
      /\ ToSet(S.conns) \subseteq ConnIds
  BY ContainsFacts DEF Settled, Good, Typed, EngineStates
<1>2. PICK s0 : s0 = <<>>
  OBVIOUS
<1>3. s0 \in Seq(ConnIds) /\ ToSet(s0) = {} /\ IsInjective(s0)
  BY <1>2 DEF ToSet, IsInjective
<1>4. PICK Z : Z = WithConns(S, s0)
  OBVIOUS
<1>5. Trimmed(S, Z)
  <2>1. WorkSame(S, Z) /\ Z.conn = S.conn /\ Z.conns = s0 /\ Z.batch = S.batch
    BY <1>1, <1>3, <1>4, WithConnsFacts
  <2> QED BY <1>3, <2>1 DEF Trimmed
<1>6. Settled(Z, h, g, Ad) BY <1>5, TrimmedKeeps
<1>7. Stoppable(S, S.conns)
  <2>1. ASSUME NEW i \in 1 .. Len(S.conns), "ping" \notin Faults PROVE S.conn[S.conns[i]].account # 0
    <3>1. S.conns[i] \in ToSet(S.conns) BY <1>1, ContainsFacts
    <3>2. LinkedAt(S, g, S.conns[i]) BY <1>1, <2>1, <3>1 DEF Linked, Links
    <3> QED BY <3>2 DEF LinkedAt
  <2> QED BY <2>1 DEF Stoppable
<1>8. PICK A : A = StopAll(S, S.conns)
  OBVIOUS
<1>9. A \in EngineStates /\ Good(WithConns(A, s0), h, g, Ad) /\ ConnsMove(S, A)
  <2>1. Good(WithConns(S, <<>>), h, g, Ad) BY <1>2, <1>4, <1>6 DEF Settled
  <2> QED BY <1>1, <1>2, <1>7, <1>8, <2>1, StopLoop
<1>10. PICK D : D = WithConns(A, s0)
  OBVIOUS
<1>11. Good(D, h, g, Ad) /\ CmdsSame(A, D) /\ D \in EngineStates
  BY <1>3, <1>9, <1>10, WithConnsFacts
<1>12. CmdsSame(S, D) BY <1>9, <1>11 DEF ConnsMove, CmdsSame, TasksSame
<1>13. Settled(D, h, g, Ad) /\ D.tasks = S.tasks BY <1>11, <1>12, MoveSettled DEF Settled
<1>14. T = [D EXCEPT !.started = FALSE]
  BY <1>2, <1>8, <1>9, <1>10 DEF Stopped, WithConns, EngineStates
<1>15. Trimmed(D, T)
  BY <1>11, <1>14 DEF Trimmed, WorkSame, EngineStates
<1>16. T.tasks = D.tasks BY <1>15 DEF Trimmed, WorkSame
<1> QED BY <1>13, <1>15, <1>16, TrimmedKeeps

\* kill_connection.
ConnKilled(S, i) == [ConnStop(S, S.conns[i]) EXCEPT !.conns = RemoveAt(@, i)]
LEMMA ConnKilledKeeps ==
    ASSUME EngineAssumption, NEW S, NEW h, NEW g, NEW Ad, Settled(S, h, g, Ad),
           NEW i \in DOMAIN S.conns, NEW T, T = ConnKilled(S, i)
    PROVE  Settled(T, h, g, Ad) /\ T.tasks = S.tasks
<1>1. /\ S \in EngineStates /\ Linked(S, g) /\ S.conns \in Seq(ConnIds)
      /\ ToSet(S.conns) \subseteq ConnIds /\ i \in 1 .. Len(S.conns)
  BY ContainsFacts, SMTT(30) DEF Settled, Good, Typed, EngineStates
<1>2. PICK c, r : c = S.conns[i] /\ r = RemoveAt(S.conns, i)
  OBVIOUS
<1>3. /\ r \in Seq(ConnIds) /\ ToSet(r) \subseteq ToSet(S.conns)
      /\ IsInjective(S.conns) => IsInjective(r) /\ c \notin ToSet(r)
  BY <1>1, <1>2, RemovedFrom
<1>4. c \in ConnIds /\ c \in ToSet(S.conns)
  BY <1>1, <1>2, ContainsFacts
<1>5. PICK Z : Z = WithConns(S, r)
  OBVIOUS
<1>6. Z \in EngineStates /\ WorkSame(S, Z) /\ Z.conn = S.conn /\ Z.conns = r /\ Z.batch = S.batch
      /\ CmdsSame(S, Z)
  BY <1>1, <1>3, <1>5, WithConnsFacts
<1>7. Trimmed(S, Z)
  BY <1>3, <1>6 DEF Trimmed
<1>8. Settled(Z, h, g, Ad) /\ Good(Z, h, g, Ad) BY <1>7, TrimmedKeeps DEF Settled
<1>9. MayStop(Z, c)
  <2>1. ASSUME "ping" \notin Faults PROVE c \notin ToSet(Z.conns) /\ Z.conn[c].account # 0
    <3>1. IsInjective(S.conns) /\ LinkedAt(S, g, c) BY <1>1, <1>4, <2>1 DEF Linked, Links
    <3> QED BY <1>3, <1>6, <3>1 DEF LinkedAt
  <2> QED BY <2>1 DEF MayStop
<1>10. PICK X : X = ConnStop(Z, c)
  OBVIOUS
<1>11. Good(X, h, g, Ad) /\ ConnsMove(Z, X) BY <1>4, <1>8, <1>9, <1>10, StopKeeps
<1>12. X \in EngineStates BY <1>11 DEF Good, Typed
<1>13. PICK R : R = ConnStop(S, c)
  OBVIOUS
<1>14. R \in EngineStates /\ ConnsMove(S, R) /\ WithConns(R, r) = X
  BY <1>1, <1>3, <1>4, <1>5, <1>10, <1>11, <1>12, <1>13, StopBoth
<1>15. T = X
  BY <1>2, <1>13, <1>14 DEF ConnKilled, WithConns, ConnsMove
<1>16. Settled(X, h, g, Ad) /\ X.tasks = Z.tasks
  BY <1>8, <1>11, MoveSettled DEF ConnsMove
<1> QED BY <1>6, <1>15, <1>16 DEF CmdsSame, TasksSame

\* clone_connection.
LEMMA CloneKeeps ==
    ASSUME EngineAssumption, NEW S, NEW h, NEW g, NEW Ad, Settled(S, h, g, Ad),
           NEW i \in DOMAIN S.conns, NEW T, T = ConnCreate(S, S.conn[S.conns[i]].account)
    PROVE  Settled(T, h, g, Ad) /\ T.tasks = S.tasks
<1>1. /\ S \in EngineStates /\ Good(S, h, g, Ad) /\ Linked(S, g) /\ S.conns \in Seq(ConnIds)
      /\ ToSet(S.conns) \subseteq ConnIds /\ i \in 1 .. Len(S.conns)
  BY ContainsFacts, SMTT(30) DEF Settled, Good, Typed, EngineStates
<1>2. PICK c, acc : c = S.conns[i] /\ acc = S.conn[c].account
  OBVIOUS
<1>3. c \in ToSet(S.conns) /\ c \in ConnIds
  BY <1>1, <1>2, ContainsFacts
<1>4. acc \in Accounts \cup {0}
  <2>1. S.conn[c] \in ConnRecords BY <1>1, <1>3 DEF EngineStates
  <2> QED BY <1>2, <2>1 DEF ConnRecords
<1>5. acc = 0 => "ping" \in Faults
  <2>1. ASSUME "ping" \notin Faults PROVE acc # 0
    <3>1. LinkedAt(S, g, c) BY <1>1, <1>3, <2>1 DEF Linked, Links
    <3> QED BY <1>2, <3>1 DEF LinkedAt
  <2> QED BY <2>1
<1>6. Good(T, h, g, Ad) /\ CmdsSame(S, T)
  <2>1. T = ConnCreate(S, acc) BY <1>2
  <2> QED BY <1>1, <1>4, <1>5, <2>1, CreateAnyKeeps
<1> QED BY <1>6, MoveSettled

\* tick: a ping or a reconnect of a connection of the list.
LEMMA ChoreSettled ==
    ASSUME EngineAssumption, NEW S, NEW h, NEW g, NEW Ad, Settled(S, h, g, Ad), NEW c \in ConnIds,
           NEW kind \in ConnKinds, kind # "execute", MayChore(S, g, c, kind),
           NEW T, T = ConnSubmit(S, c, ConnAction(kind, c))
    PROVE  Settled(T, h, g, Ad) /\ T.tasks = S.tasks
<1>1. Good(S, h, g, Ad) BY DEF Settled
<1>2. Good(T, h, g, Ad) /\ Chored(S, T, c, kind) BY <1>1, ChoreSubmitted
<1> QED BY <1>2, MoveSettled DEF Chored

LEMMA ReconnectKeeps ==
    ASSUME EngineAssumption, NEW S, NEW h, NEW g, NEW Ad, Settled(S, h, g, Ad),
           NEW c \in ToSet(S.conns), S.conn[c].st = "error", NEW T, T = ConnReconnect(S, c)
    PROVE  Settled(T, h, g, Ad) /\ T.tasks = S.tasks
<1>1. /\ S \in EngineStates /\ Linked(S, g) /\ c \in ConnIds
  BY ContainsFacts DEF Settled, Good, Typed, EngineStates
<1>2. PICK kind : kind = "resolve"
  OBVIOUS
<1>3. kind \in ConnKinds /\ kind # "execute" /\ kind \notin {"ping", "disconnect"}
  BY <1>2 DEF ConnKinds
<1>4. MayChore(S, g, c, kind)
  <2>1. ASSUME "ping" \notin Faults
        PROVE  S.conn[c].account # 0 /\ Total(S, g, OfConn(c)) = 0
    <3>1. LinkedAt(S, g, c) BY <1>1, <2>1 DEF Linked, Links
    <3> QED BY <3>1 DEF LinkedAt
  <2> QED BY <1>3, <2>1 DEF MayChore
<1>5. T = ConnSubmit(S, c, ConnAction(kind, c)) BY <1>2 DEF ConnReconnect
<1>6. c \in ConnIds /\ kind \in ConnKinds /\ kind # "execute" BY <1>1, <1>3
<1> QED BY <1>4, <1>5, <1>6, ChoreSettled

LEMMA PingKeeps ==
    ASSUME EngineAssumption, NEW S, NEW h, NEW g, NEW Ad, Settled(S, h, g, Ad),
           NEW c \in ConnIds, "ping" \in Faults, S.conn[c].st = "connected",
           NEW T, T = ConnPing(S, c)
    PROVE  Settled(T, h, g, Ad) /\ T.tasks = S.tasks
<1>1. S \in EngineStates /\ Good(S, h, g, Ad) BY DEF Settled, Good, Typed
<1>2. PICK D : D = [S EXCEPT !.conn[c].pinged = TRUE]
  OBVIOUS
<1>3. ConnWith(S, D, c, S.conn[c].st) BY <1>1, <1>2, SetsPinged
<1>4. D.conn[c] = NoConn => S.conn[c] = NoConn
  BY <1>3 DEF ConnWith, NoConn
<1>5. Good(D, h, g, Ad) /\ CmdsSame(S, D) BY <1>1, <1>3, <1>4, FlagKeeps
<1>6. Settled(D, h, g, Ad) /\ D.tasks = S.tasks BY <1>5, MoveSettled
<1>7. PICK kind : kind = "ping"
  OBVIOUS
<1>8. kind \in ConnKinds /\ kind # "execute" BY <1>7 DEF ConnKinds
<1>9. MayChore(D, g, c, kind) BY DEF MayChore
<1>10. T = ConnSubmit(D, c, ConnAction(kind, c)) BY <1>2, <1>7 DEF ConnPing
<1> QED BY ONLY EngineAssumption, c \in ConnIds, <1>6, <1>8, <1>9, <1>10, ChoreSettled

-----------------------------------------------------------------------------
(* Pause, resume and kill. *)

LEMMA QuietSettled ==
    ASSUME EngineAssumption, NEW S, NEW h, NEW g, NEW Ad, Settled(S, h, g, Ad), NEW t \in Live(S),
           NEW Y, Quiet(S, Y, t), NEW T, T = Settle(S, Y, t)
    PROVE  Settled(T, h, g, Ad) /\ T.tasks = S.tasks
<1>1. S \in EngineStates /\ t \in Tasks /\ Good(S, h, g, Ad) /\ Known(S, States(S), {}, Ad)
  BY MineFacts DEF Settled, Good, Typed
<1>2. Steps(S, Y, t, h, g, Ad) BY <1>1, StepsQuiet
<1> QED BY <1>1, <1>2, SettleKeeps

LEMMA PauseTaskKeeps ==
    ASSUME EngineAssumption, NEW S, NEW h, NEW g, NEW Ad, Settled(S, h, g, Ad), NEW t \in Live(S),
           NEW T, T = Settle(S, TaskPause(S, t), t)
    PROVE  Settled(T, h, g, Ad) /\ T.tasks = S.tasks
<1>1. S \in EngineStates /\ t \in Tasks
  BY MineFacts DEF Settled, Good, Typed
<1>2. PICK Y : Y = TaskPause(S, t)
  OBVIOUS
<1>3. Quiet(S, Y, t) BY <1>1, <1>2, PauseQuiet
<1>4. T = Settle(S, Y, t) BY <1>2
<1> QED BY <1>3, <1>4, QuietSettled

LEMMA ResumeTaskKeeps ==
    ASSUME EngineAssumption, NEW S, NEW h, NEW g, NEW Ad, Settled(S, h, g, Ad), NEW t \in Live(S),
           NEW T, T = Settle(S, TaskResume(S, t), t)
    PROVE  Settled(T, h, g, Ad) /\ T.tasks = S.tasks
<1>1. S \in EngineStates /\ t \in Tasks
  BY MineFacts DEF Settled, Good, Typed
<1>2. PICK Y : Y = TaskResume(S, t)
  OBVIOUS
<1>3. Quiet(S, Y, t) BY <1>1, <1>2, ResumeQuiet
<1>4. T = Settle(S, Y, t) BY <1>2
<1> QED BY <1>3, <1>4, QuietSettled

\* A batch's pause or resume takes task t on to Y.
Transferred(S, Y, b, t) ==
    IF S.task[t].st = Y.task[t].st THEN Y
    ELSE [Y EXCEPT !.batch[b] = Moved(@, S.task[t].st, Y.task[t].st)]
LivesSame(S, T) ==
    T.tasks = S.tasks /\ \A b \in Batches : T.batch[b].live = S.batch[b].live
LEMMA TransferredKeeps ==
    ASSUME EngineAssumption, NEW S, NEW h, NEW g, NEW Ad, Settled(S, h, g, Ad), NEW t \in Live(S),
           NEW b, b = BatchOf[t], NEW Y, Quiet(S, Y, t), NEW T, T = Transferred(S, Y, b, t)
    PROVE  Settled(T, h, g, Ad) /\ LivesSame(S, T)
<1>1. /\ S \in EngineStates /\ t \in Tasks /\ Good(S, h, g, Ad) /\ Known(S, States(S), {}, Ad)
      /\ b \in Batches
  BY MineFacts DEF Settled, Good, Typed, EngineAssumption
<1>2. Steps(S, Y, t, h, g, Ad) BY <1>1, StepsQuiet
<1>3. TaskFrame(S, Y, t) /\ Good(Y, h, g, Ad) /\ Y \in EngineStates
  BY <1>2 DEF Steps, Good, Typed
<1>4. CASE S.task[t].st = Y.task[t].st
  <2>1. T = Y BY <1>4 DEF Transferred
  <2>2. States(Y) = States(S) BY <1>3, <1>4, FrameStays
  <2>3. Known(Y, States(S), {}, Ad) BY <1>1, <1>3, KnownSame DEF TaskFrame
  <2> QED BY <1>3, <2>1, <2>2, <2>3 DEF Settled, TaskFrame, LivesSame
<1>5. CASE S.task[t].st # Y.task[t].st
  <2>1. PICK x, y : x = S.task[t].st /\ y = Y.task[t].st
    OBVIOUS
  <2>2. PICK C : C = Moved(Y.batch[b], x, y)
    OBVIOUS
  <2>3. T = WithBatch(Y, b, C)
    BY <1>5, <2>1, <2>2 DEF Transferred, WithBatch
  <2>4. C \in BatchRecords
    <3>1. StateMoves(Mine(S, b), States(S), States(Y), t, x, y)
      BY <1>1, <1>3, <1>5, <2>1, FrameMoves
    <3>2. PICK A : A = S.batch[b]
      OBVIOUS
    <3>3. C = Moved(A, x, y) /\ A \in BatchRecords /\ CountsAs(A, Mine(S, b), States(S))
      BY <1>1, <1>3, <2>2, <3>2 DEF TaskFrame, EngineStates, Known
    <3> QED BY <3>1, <3>3, MovedCounts
  <2>5. SameCounts(C, C) BY DEF SameCounts
  <2>6. C = Moved(Y.batch[b], S.task[t].st, Y.task[t].st) BY <2>1, <2>2
  <2>8. b \notin {} OBVIOUS
  <2>9. S \in EngineStates BY <1>1
  <2>10. Known(S, States(S), {}, Ad) BY <1>1
  <2>7. /\ Good(T, h, g, Ad) /\ Known(T, States(T), {}, Ad) /\ T.tasks = S.tasks
        /\ \A d \in Batches : T.batch[d].live = S.batch[d].live
    BY <2>8, <2>9, <2>10, <1>2, <1>5, <2>3, <2>4, <2>5, <2>6, MovedKnown, SMTT(30)
  <2> QED BY <2>7 DEF Settled, LivesSame
<1> QED BY <1>4, <1>5

\* The state of the batch follows.
LEMMA RecountKeeps ==
    ASSUME EngineAssumption, NEW S, NEW h, NEW g, NEW Ad, Settled(S, h, g, Ad), NEW b \in Batches,
           S.batch[b].live, NEW T, T = [S EXCEPT !.batch[b] = Recount(@)]
    PROVE  Settled(T, h, g, Ad) /\ T.tasks = S.tasks
<1>1. /\ S \in EngineStates /\ Good(S, h, g, Ad) /\ Known(S, States(S), {}, Ad)
      /\ S.batch[b] \in BatchRecords
  BY DEF Settled, Good, Typed, EngineStates
<1>2. PICK A, B : A = S.batch[b] /\ B = Recount(A)
  OBVIOUS
<1>3. /\ B \in BatchRecords /\ B.live = A.live /\ B.num_tasks = A.num_tasks
      /\ B.statesets = A.statesets
  BY <1>1, <1>2, RecountFacts
<1>4. T = [S EXCEPT !.batch[b] = B] BY <1>2
<1>5. BatchChange(S, T, b, B) BY <1>1, <1>3, <1>4, BatchSet
<1>6. Good(T, h, g, Ad) BY <1>1, <1>5, BatchGood
<1>7. T.tasks = S.tasks /\ T.task = S.task /\ T.batch[b] = B
      /\ \A d \in Batches : d # b => T.batch[d] = S.batch[d]
  BY <1>5 DEF BatchChange, WorkSame
<1>8. Told(S, T, b, States(S))
  <2>1. CountsAs(A, Mine(S, b), States(S)) BY <1>1, <1>2 DEF Known
  <2>2. CountsAs(B, Mine(S, b), States(S)) BY <1>3, <2>1 DEF CountsAs
  <2> QED BY <1>2, <1>3, <1>7, <2>2 DEF Told
<1>9. Known(T, States(S), {}, Ad)
  <2>1. b \notin {} /\ \A u \in Tasks : BatchOf[u] # b => States(S)[u] = States(S)[u] OBVIOUS
  <2> QED BY <1>1, <1>8, <2>1, KnownMoves
<1>10. States(T) = States(S) BY <1>7 DEF States
<1> QED BY <1>6, <1>7, <1>9, <1>10 DEF Settled

\* batch::pause and batch::resume.
PauseStep(S, b, t) ==
    IF BatchOf[t] # b THEN S ELSE
    LET Y == TaskPause(S, t)
    IN  IF S.task[t].st = Y.task[t].st THEN Y ELSE
        [Y EXCEPT !.batch[b] = Moved(@, S.task[t].st, Y.task[t].st)]
ResumeStep(S, b, t) ==
    IF BatchOf[t] # b THEN S ELSE
    LET Y == TaskResume(S, t)
    IN  IF S.task[t].st = Y.task[t].st THEN Y ELSE
        [Y EXCEPT !.batch[b] = Moved(@, S.task[t].st, Y.task[t].st)]
PauseAll(S, b, s)  == ForEach(LAMBDA X, t : PauseStep(X, b, t), S, s)
ResumeAll(S, b, s) == ForEach(LAMBDA X, t : ResumeStep(X, b, t), S, s)

LEMMA PauseLoop ==
    ASSUME EngineAssumption, NEW S, NEW h, NEW g, NEW Ad, Settled(S, h, g, Ad), NEW b,
           NEW s \in Seq(Live(S)), NEW T, T = PauseAll(S, b, s)
    PROVE  T \in EngineStates /\ Settled(T, h, g, Ad) /\ LivesSame(S, T)
<1>a. PICK n : n = Len(s)
  OBVIOUS
<1>b. PICK G : G = {Y \in EngineStates : Settled(Y, h, g, Ad) /\ LivesSame(S, Y)}
  OBVIOUS
<1>1. n \in Nat /\ S \in G
  BY <1>a, <1>b DEF Settled, Good, Typed, LivesSame
<1>2. ASSUME NEW Y \in G, NEW i \in 1 .. n PROVE PauseStep(Y, b, s[i]) \in G
  <2>0. PICK t : t = s[i]
    OBVIOUS
  <2>1. Settled(Y, h, g, Ad) /\ LivesSame(S, Y) /\ t \in Live(Y) /\ Y \in EngineStates /\ t \in Tasks
    <3>1. t \in Live(S) BY <1>a, <2>0
    <3>2. t \in Live(Y) /\ Y \in EngineStates BY <1>b, <3>1 DEF Live, LivesSame
    <3> QED BY <1>b, <3>2, MineFacts
  <2>2. PICK X : X = TaskPause(Y, t)
    OBVIOUS
  <2>3. Quiet(Y, X, t) BY <2>1, <2>2, PauseQuiet
  <2>4. PICK Z : Z = Transferred(Y, X, b, t)
    OBVIOUS
  <2>5. CASE BatchOf[t] # b
    <3>1. PauseStep(Y, b, t) = Y BY <2>5 DEF PauseStep
    <3> QED BY <2>0, <3>1
  <2>6. CASE BatchOf[t] = b
    <3>1. PauseStep(Y, b, t) = Z BY <2>2, <2>4, <2>6 DEF PauseStep, Transferred
    <3>2. Settled(Z, h, g, Ad) /\ LivesSame(Y, Z)
      BY <2>1, <2>3, <2>4, <2>6, TransferredKeeps
    <3>3. Z \in EngineStates /\ LivesSame(S, Z)
      BY <2>1, <3>2 DEF Settled, Good, Typed, LivesSame
    <3> QED BY <1>b, <2>0, <3>1, <3>2, <3>3
  <2> QED BY <2>5, <2>6
<1>c. PICK turn : turn = [i \in 1 .. n |-> [Y \in G |-> PauseStep(Y, b, s[i])]]
  OBVIOUS
<1>3. IsLoop(n, G, S, turn)
  BY <1>1, <1>2, <1>c DEF IsLoop
<1>d. PICK run : IsCourse(run, n, G, S, turn)
  BY <1>3, LoopRuns
<1>e. PICK after :
        after = CHOOSE f : f = [i \in 0 .. n |-> IF i = 0 THEN S ELSE PauseStep(f[i - 1], b, s[i])]
  OBVIOUS
<1>4. run = [i \in 0 .. n |-> IF i = 0 THEN S ELSE PauseStep(run[i - 1], b, s[i])]
  <2>1. /\ run \in [0 .. n -> G] /\ run[0] = S
        /\ \A i \in 1 .. n : run[i - 1] \in G /\ run[i] = turn[i][run[i - 1]]
    <3>1. ASSUME NEW i \in 1 .. n PROVE i - 1 \in 0 .. n BY <1>1
    <3> QED BY <1>d, <3>1 DEF IsCourse
  <2>2. ASSUME NEW i \in 1 .. n PROVE run[i] = PauseStep(run[i - 1], b, s[i])
    <3>1. turn[i] = [Y \in G |-> PauseStep(Y, b, s[i])] BY <1>c
    <3>2. run[i - 1] \in G /\ run[i] = turn[i][run[i - 1]] BY <2>1
    <3> QED BY <3>1, <3>2
  <2>3. ASSUME NEW i \in 0 .. n
        PROVE  run[i] = IF i = 0 THEN S ELSE PauseStep(run[i - 1], b, s[i])
    <3>1. CASE i = 0 BY <2>1, <3>1
    <3>2. CASE i # 0
      <4>1. i \in 1 .. n BY <1>1, <3>2
      <4> QED BY <2>2, <3>2, <4>1
    <3> QED BY <3>1, <3>2
  <2> QED BY <2>1, <2>3
<1>5. after = [i \in 0 .. n |-> IF i = 0 THEN S ELSE PauseStep(after[i - 1], b, s[i])]
  <2>1. \E f : f = [i \in 0 .. n |-> IF i = 0 THEN S ELSE PauseStep(f[i - 1], b, s[i])]
    BY <1>4
  <2> QED BY <1>e, <2>1
<1>6. after[n] \in G
  <2>1. after[0] \in G BY <1>1, <1>5
  <2>2. ASSUME NEW i \in 1 .. n, after[i - 1] \in G PROVE after[i] \in G
    <3>1. after[i] = PauseStep(after[i - 1], b, s[i]) BY <1>1, <1>5
    <3> QED BY <1>2, <2>2, <3>1
  <2> QED BY <1>1, <2>1, <2>2, LoopEnds
<1>7. T = after[n]
  BY <1>a, <1>e DEF ForEach, PauseAll
<1> QED BY <1>b, <1>6, <1>7

LEMMA BatchPauseKeeps ==
    ASSUME EngineAssumption, NEW S, NEW h, NEW g, NEW Ad, Settled(S, h, g, Ad), NEW b \in Batches,
           S.batch[b].live, NEW T, T = BatchPause(S, b)
    PROVE  Settled(T, h, g, Ad) /\ T.tasks = S.tasks
<1>1. S.tasks \in Seq(Live(S))
  BY DEF Settled, Good, Typed, EngineStates, Live, ToSet
<1>2. PICK A : A = PauseAll(S, b, S.tasks)
  OBVIOUS
<1>3. Settled(A, h, g, Ad) /\ LivesSame(S, A)
  BY <1>1, <1>2, PauseLoop
<1>4. T = [A EXCEPT !.batch[b] = Recount(@)]
  BY <1>2 DEF BatchPause, TransferAll, PauseAll, PauseStep
<1>5. A.batch[b].live /\ A.tasks = S.tasks BY <1>3 DEF LivesSame
<1>6. Settled(T, h, g, Ad) /\ T.tasks = A.tasks BY <1>3, <1>4, <1>5, RecountKeeps
<1> QED BY <1>5, <1>6

LEMMA ResumeLoop ==
    ASSUME EngineAssumption, NEW S, NEW h, NEW g, NEW Ad, Settled(S, h, g, Ad), NEW b,
           NEW s \in Seq(Live(S)), NEW T, T = ResumeAll(S, b, s)
    PROVE  T \in EngineStates /\ Settled(T, h, g, Ad) /\ LivesSame(S, T)
<1>a. PICK n : n = Len(s)
  OBVIOUS
<1>b. PICK G : G = {Y \in EngineStates : Settled(Y, h, g, Ad) /\ LivesSame(S, Y)}
  OBVIOUS
<1>1. n \in Nat /\ S \in G
  BY <1>a, <1>b DEF Settled, Good, Typed, LivesSame
<1>2. ASSUME NEW Y \in G, NEW i \in 1 .. n PROVE ResumeStep(Y, b, s[i]) \in G
  <2>0. PICK t : t = s[i]
    OBVIOUS
  <2>1. Settled(Y, h, g, Ad) /\ LivesSame(S, Y) /\ t \in Live(Y) /\ Y \in EngineStates /\ t \in Tasks
    <3>1. t \in Live(S) BY <1>a, <2>0
    <3>2. t \in Live(Y) /\ Y \in EngineStates BY <1>b, <3>1 DEF Live, LivesSame
    <3> QED BY <1>b, <3>2, MineFacts
  <2>2. PICK X : X = TaskResume(Y, t)
    OBVIOUS
  <2>3. Quiet(Y, X, t) BY <2>1, <2>2, ResumeQuiet
  <2>4. PICK Z : Z = Transferred(Y, X, b, t)
    OBVIOUS
  <2>5. CASE BatchOf[t] # b
    <3>1. ResumeStep(Y, b, t) = Y BY <2>5 DEF ResumeStep
    <3> QED BY <2>0, <3>1
  <2>6. CASE BatchOf[t] = b
    <3>1. ResumeStep(Y, b, t) = Z BY <2>2, <2>4, <2>6 DEF ResumeStep, Transferred
    <3>2. Settled(Z, h, g, Ad) /\ LivesSame(Y, Z)
      BY <2>1, <2>3, <2>4, <2>6, TransferredKeeps
    <3>3. Z \in EngineStates /\ LivesSame(S, Z)
      BY <2>1, <3>2 DEF Settled, Good, Typed, LivesSame
    <3> QED BY <1>b, <2>0, <3>1, <3>2, <3>3
  <2> QED BY <2>5, <2>6
<1>c. PICK turn : turn = [i \in 1 .. n |-> [Y \in G |-> ResumeStep(Y, b, s[i])]]
  OBVIOUS
<1>3. IsLoop(n, G, S, turn)
  BY <1>1, <1>2, <1>c DEF IsLoop
<1>d. PICK run : IsCourse(run, n, G, S, turn)
  BY <1>3, LoopRuns
<1>e. PICK after :
        after = CHOOSE f : f = [i \in 0 .. n |-> IF i = 0 THEN S ELSE ResumeStep(f[i - 1], b, s[i])]
  OBVIOUS
<1>4. run = [i \in 0 .. n |-> IF i = 0 THEN S ELSE ResumeStep(run[i - 1], b, s[i])]
  <2>1. /\ run \in [0 .. n -> G] /\ run[0] = S
        /\ \A i \in 1 .. n : run[i - 1] \in G /\ run[i] = turn[i][run[i - 1]]
    <3>1. ASSUME NEW i \in 1 .. n PROVE i - 1 \in 0 .. n BY <1>1
    <3> QED BY <1>d, <3>1 DEF IsCourse
  <2>2. ASSUME NEW i \in 1 .. n PROVE run[i] = ResumeStep(run[i - 1], b, s[i])
    <3>1. turn[i] = [Y \in G |-> ResumeStep(Y, b, s[i])] BY <1>c
    <3>2. run[i - 1] \in G /\ run[i] = turn[i][run[i - 1]] BY <2>1
    <3> QED BY <3>1, <3>2
  <2>3. ASSUME NEW i \in 0 .. n
        PROVE  run[i] = IF i = 0 THEN S ELSE ResumeStep(run[i - 1], b, s[i])
    <3>1. CASE i = 0 BY <2>1, <3>1
    <3>2. CASE i # 0
      <4>1. i \in 1 .. n BY <1>1, <3>2
      <4> QED BY <2>2, <3>2, <4>1
    <3> QED BY <3>1, <3>2
  <2> QED BY <2>1, <2>3
<1>5. after = [i \in 0 .. n |-> IF i = 0 THEN S ELSE ResumeStep(after[i - 1], b, s[i])]
  <2>1. \E f : f = [i \in 0 .. n |-> IF i = 0 THEN S ELSE ResumeStep(f[i - 1], b, s[i])]
    BY <1>4
  <2> QED BY <1>e, <2>1
<1>6. after[n] \in G
  <2>1. after[0] \in G BY <1>1, <1>5
  <2>2. ASSUME NEW i \in 1 .. n, after[i - 1] \in G PROVE after[i] \in G
    <3>1. after[i] = ResumeStep(after[i - 1], b, s[i]) BY <1>1, <1>5
    <3> QED BY <1>2, <2>2, <3>1
  <2> QED BY <1>1, <2>1, <2>2, LoopEnds
<1>7. T = after[n]
  BY <1>a, <1>e DEF ForEach, ResumeAll
<1> QED BY <1>b, <1>6, <1>7

LEMMA BatchResumeKeeps ==
    ASSUME EngineAssumption, NEW S, NEW h, NEW g, NEW Ad, Settled(S, h, g, Ad), NEW b \in Batches,
           S.batch[b].live, NEW T, T = BatchResume(S, b)
    PROVE  Settled(T, h, g, Ad) /\ T.tasks = S.tasks
<1>1. S.tasks \in Seq(Live(S))
  BY DEF Settled, Good, Typed, EngineStates, Live, ToSet
<1>2. PICK A : A = ResumeAll(S, b, S.tasks)
  OBVIOUS
<1>3. Settled(A, h, g, Ad) /\ LivesSame(S, A)
  BY <1>1, <1>2, ResumeLoop
<1>4. T = [A EXCEPT !.batch[b] = Recount(@)]
  BY <1>2 DEF BatchResume, TransferAll, ResumeAll, ResumeStep
<1>5. A.batch[b].live /\ A.tasks = S.tasks BY <1>3 DEF LivesSame
<1>6. Settled(T, h, g, Ad) /\ T.tasks = A.tasks BY <1>3, <1>4, <1>5, RecountKeeps
<1> QED BY <1>5, <1>6

-----------------------------------------------------------------------------
\* A killed task is erased.
ErasedFrom(S, T, t) ==
    /\ T \in EngineStates /\ T.batch = S.batch
    /\ T.conns = S.conns /\ T.conn = S.conn /\ T.cmds = S.cmds /\ T.cl = S.cl
    /\ T.queue = S.queue /\ T.jobs = S.jobs /\ T.done = S.done
    /\ T.num_pending_actions = S.num_pending_actions
    /\ Live(T) = Live(S) \ {t} /\ (IsInjective(S.tasks) => IsInjective(T.tasks))
    /\ \A u \in Tasks : u # t => T.task[u] = S.task[u]
    /\ T.task[t] = NoTask
LEMMA NoTaskType ==
    /\ NoTask \in TaskRecords /\ NoTask.nact = 0 /\ NoTask.articles = <<>>
    /\ NoTask.decoded = {} /\ NoTask.missing = {} /\ NoTask.st = "queued"
<1>1. NoTask.articles = <<>> /\ <<>> \in Seq(Nat)
  BY DEF NoTask
<1>2. "queued" \in TaskStates /\ {} \in SUBSET Nat /\ 0 \in Int
  BY DEF TaskStates
<1> QED BY <1>1, <1>2 DEF NoTask, TaskRecords

LEMMA EraseFacts ==
    ASSUME NEW S \in EngineStates, NEW t \in Tasks, NEW T, T = EraseTask(S, t)
    PROVE  ErasedFrom(S, T, t)
<1>1. PICK s, r : s = Without(S.tasks, {t}) /\ r = [S.task EXCEPT ![t] = NoTask]
  OBVIOUS
<1>2. S.tasks \in Seq(Tasks) /\ S.task \in [Tasks -> TaskRecords] BY DEF EngineStates
<1>3. /\ s \in Seq(Tasks) /\ Range(s) = Range(S.tasks) \ {t}
      /\ IsInjective(S.tasks) => IsInjective(s)
  BY <1>1, <1>2, WithoutFacts
<1>4. ToSet(s) = ToSet(S.tasks) \ {t}
  BY <1>2, <1>3, ContainsFacts
<1>5. r \in [Tasks -> TaskRecords] /\ r[t] = NoTask /\ \A u \in Tasks : u # t => r[u] = S.task[u]
  BY <1>1, <1>2, NoTaskType
<1>6. T = [S EXCEPT !.tasks = s, !.task = r]
  BY <1>1 DEF EraseTask
<1>7. T.tasks = s /\ T.task = r /\ T \in EngineStates
  BY <1>3, <1>5, <1>6 DEF EngineStates
<1> QED BY <1>3, <1>4, <1>5, <1>6, <1>7 DEF ErasedFrom, EngineStates, Live

LEMMA EraseKeeps ==
    ASSUME EngineAssumption, NEW S, NEW h, NEW g, NEW Ad, Good(S, h, g, Ad), NEW t \in Tasks,
           NEW T, ErasedFrom(S, T, t)
    PROVE  Good(T, h, g, Ad)
<1>1. S \in EngineStates /\ T \in EngineStates /\ Work(S, h, Ad) /\ Owned(S)
      /\ IsFiniteSet(S.jobs) /\ IsFiniteSet(T.jobs)
  BY DEF Good, Typed, ErasedFrom
<1>2. Live(T) = Live(S) \ {t} /\ Live(S) \subseteq Tasks
  BY <1>1, MineFacts DEF ErasedFrom
<1>3. \A f, P : Total(T, f, P) = Total(S, f, P)
  BY TotalSame DEF ErasedFrom
<1>4. Eased(S, h, T, h)
  <2>1. \A u \in Live(T) : /\ T.task[u].articles = S.task[u].articles
                           /\ T.task[u].decoded = S.task[u].decoded
    BY <1>2 DEF ErasedFrom
  <2>2. ASSUME NEW u \in Tasks
        PROVE  T.task[u].nact = IF u \in Live(S) \ Live(T) THEN 0 ELSE S.task[u].nact
    <3>1. CASE u # t BY <3>1, <1>2 DEF ErasedFrom
    <3>2. CASE u = t
      <4>1. T.task[u].nact = 0 BY <3>2, NoTaskType DEF ErasedFrom
      <4>2. u \notin Live(S) => S.task[u].nact = 0 BY <1>1 DEF Work, Counted
      <4>3. u \notin Live(T) BY <1>2, <3>2
      <4> QED BY <4>1, <4>2, <4>3
    <3> QED BY <3>1, <3>2
  <2>3. T.cl = S.cl /\ T.cmds = S.cmds /\ T.num_pending_actions = S.num_pending_actions
    BY DEF ErasedFrom
  <2>4. \A P \in Watched : Total(T, h, P) = Total(S, h, P) BY <1>3
  <2>5. T.num_pending_actions - S.num_pending_actions = Total(T, h, Action) - Total(S, h, Action)
    <3>1. Total(T, h, Action) = Total(S, h, Action) BY <1>3
    <3>2. S.num_pending_actions \in Int BY <1>1 DEF EngineStates
    <3>3. Total(S, h, Action) = S.num_pending_actions BY <1>1 DEF Work, Counted
    <3> QED BY <2>3, <3>1, <3>2, <3>3
  <2> QED BY <1>2, <2>1, <2>2, <2>3, <2>4, <2>5 DEF Eased
<1>5. Work(T, h, Ad) BY <1>1, <1>4, EasedKeeps
<1>6. Owned(T)
  <2>1. ASSUME NEW u \in Tasks
        PROVE  /\ ToSet(T.task[u].articles) \subseteq Article(u)
               /\ T.task[u].decoded \subseteq Article(u) /\ T.task[u].missing \subseteq Article(u)
    <3>1. CASE u # t BY <3>1, <1>1 DEF ErasedFrom, Owned
    <3>2. CASE u = t
      <4>1. T.task[u].articles = <<>> /\ T.task[u].decoded = {} /\ T.task[u].missing = {}
        BY <3>2, NoTaskType DEF ErasedFrom
      <4>2. ToSet(<<>>) = {} BY DEF ToSet
      <4> QED BY <4>1, <4>2
    <3> QED BY <3>1, <3>2
  <2>2. T.cl = S.cl BY DEF ErasedFrom
  <2> QED BY <1>1, <2>1, <2>2 DEF Owned
<1>7. Linked(T, g)
  <2>1. ASSUME Links(S, g) PROVE Links(T, g)
    <3>1. T.conns = S.conns /\ T.conn = S.conn /\ T.queue = S.queue /\ T.done = S.done
      BY DEF ErasedFrom
    <3> QED BY <1>1, <2>1, <3>1, LinksSame
  <2> QED BY <2>1 DEF Good, Linked
<1> QED BY <1>1, <1>5, <1>6, <1>7 DEF Good, Typed

\* A batch loses a task it knew to be in state st.
Left(B, st) == Recount([B EXCEPT !.statesets[st] = @ - 1, !.num_tasks = @ - 1])
Leaves(B, C, M, kn, t, st) ==
    /\ B \in BatchRecords /\ IsFiniteSet(M) /\ CountsAs(B, M, kn)
    /\ t \in M /\ kn[t] = st /\ st \in TaskStates /\ C = Left(B, st)
LEMMA LeftCounts ==
    ASSUME NEW B, NEW C, NEW M, NEW kn, NEW t, NEW st, Leaves(B, C, M, kn, t, st)
    PROVE  /\ C \in BatchRecords /\ C.live = B.live
           /\ CountsAs(C, M \ {t}, kn)
           /\ C.num_tasks = 0 <=> M \ {t} = {}
<1>0. /\ B \in BatchRecords /\ IsFiniteSet(M) /\ CountsAs(B, M, kn)
      /\ t \in M /\ kn[t] = st /\ st \in TaskStates /\ C = Left(B, st)
  BY DEF Leaves
<1>1. PICK e : e = [B.statesets EXCEPT ![st] = B.statesets[st] - 1]
  OBVIOUS
<1>2. PICK D : D = [B EXCEPT !.statesets = e, !.num_tasks = B.num_tasks - 1]
  OBVIOUS
<1>3. C = Recount(D) BY <1>0, <1>1, <1>2 DEF Left
<1>4. B.statesets \in [TaskStates -> Int] /\ B.num_tasks \in Int BY <1>0 DEF BatchRecords
<1>5. /\ e \in [TaskStates -> Int] /\ e[st] = B.statesets[st] - 1
      /\ \A s \in TaskStates : s # st => e[s] = B.statesets[s]
  BY <1>0, <1>1, <1>4
<1>6. /\ D \in BatchRecords /\ D.live = B.live /\ D.num_tasks = B.num_tasks - 1
      /\ D.statesets = e
  <2>1. B.num_tasks - 1 \in Int BY <1>4
  <2>2. PICK n : n = B.num_tasks - 1
    OBVIOUS
  <2>3. D = [B EXCEPT !.statesets = e, !.num_tasks = n] BY <1>2, <2>2
  <2>4. n \in Int BY <2>1, <2>2
  <2>5. D \in BatchRecords BY <1>0, <1>5, <2>3, <2>4 DEF BatchRecords
  <2> QED BY <1>0, <2>2, <2>3, <2>5 DEF BatchRecords
<1>7. /\ C \in BatchRecords /\ C.live = B.live /\ C.num_tasks = B.num_tasks - 1
      /\ C.statesets = e
  BY <1>3, <1>6, RecountFacts
<1>8. B.num_tasks = Cardinality(M) BY <1>0 DEF CountsAs
<1>9. IsFiniteSet(M \ {t}) /\ Cardinality(M \ {t}) = Cardinality(M) - 1
  BY <1>0, FS_RemoveElement
<1>10. ASSUME NEW s \in TaskStates
       PROVE  e[s] = Cardinality({u \in M \ {t} : kn[u] = s})
  <2>a. PICK A : A = {u \in M : kn[u] = s}
    OBVIOUS
  <2>b. PICK E : E = {u \in M \ {t} : kn[u] = s}
    OBVIOUS
  <2>1. IsFiniteSet(A) BY <1>0, <2>a, FS_Subset
  <2>2. B.statesets[s] = Cardinality(A) BY <1>0, <2>a DEF CountsAs
  <2>3. CASE s = st
    <3>1. t \in A /\ E = A \ {t} BY <1>0, <2>a, <2>b, <2>3
    <3>2. Cardinality(E) = Cardinality(A) - 1 BY <2>1, <3>1, FS_RemoveElement
    <3> QED BY <1>5, <2>2, <2>3, <2>b, <3>2
  <2>4. CASE s # st
    <3>1. E = A BY <1>0, <2>a, <2>b, <2>4
    <3> QED BY <1>5, <2>2, <2>4, <2>b, <3>1
  <2> QED BY <2>3, <2>4
<1>11. CountsAs(C, M \ {t}, kn)
  BY <1>7, <1>8, <1>9, <1>10 DEF CountsAs
<1>12. Cardinality(M \ {t}) = 0 <=> M \ {t} = {}
  BY <1>9, FS_EmptySet
<1> QED BY <1>7, <1>8, <1>9, <1>11, <1>12

\* The batch has lost task t, which is erased.
Parted(S, T, t, b, C) ==
    /\ Live(T) = Live(S) \ {t} /\ IsInjective(T.tasks)
    /\ \A u \in Tasks : u # t => T.task[u].st = S.task[u].st
    /\ \A d \in Batches : d # b => T.batch[d] = S.batch[d]
    /\ T.batch[b] = IF C.num_tasks = 0 THEN NoBatch ELSE C
LEMMA PartedKnown ==
    ASSUME EngineAssumption, NEW S \in EngineStates, NEW Ad, Known(S, States(S), {}, Ad),
           NEW t \in Live(S), NEW b, b = BatchOf[t], NEW st, st = S.task[t].st,
           NEW C, C = Left(S.batch[b], st), NEW T, Parted(S, T, t, b, C)
    PROVE  Known(T, States(T), {}, Ad)
<1>1. t \in Tasks /\ b \in Batches /\ st \in TaskStates /\ Live(S) \subseteq Tasks
      /\ IsFiniteSet(Mine(S, b)) /\ t \in Mine(S, b)
  <2>1. Live(S) \subseteq Tasks /\ IsFiniteSet(Mine(S, b)) BY MineFacts
  <2>2. t \in Tasks BY <2>1
  <2>3. st \in TaskStates BY <2>2, StateType
  <2>4. b \in Batches BY <2>2 DEF EngineAssumption
  <2> QED BY <2>1, <2>2, <2>3, <2>4 DEF Mine
<1>2. /\ S.batch[b] \in BatchRecords /\ S.batch[b].live /\ b \in Ad
      /\ CountsAs(S.batch[b], Mine(S, b), States(S))
  BY <1>1 DEF EngineStates, Known
<1>3. States(S)[t] = st BY <1>1 DEF States
<1>4. /\ C \in BatchRecords /\ C.live
      /\ CountsAs(C, Mine(S, b) \ {t}, States(S))
      /\ C.num_tasks = 0 <=> Mine(S, b) \ {t} = {}
  <2>1. PICK B, M, kn : B = S.batch[b] /\ M = Mine(S, b) /\ kn = States(S)
    OBVIOUS
  <2>2. B \in BatchRecords /\ IsFiniteSet(M) /\ CountsAs(B, M, kn) /\ t \in M /\ kn[t] = st
    BY <1>1, <1>2, <1>3, <2>1
  <2>3. C = Left(B, st) /\ st \in TaskStates BY <1>1, <2>1
  <2>4. /\ C \in BatchRecords /\ C.live = B.live
        /\ CountsAs(C, M \ {t}, kn)
        /\ C.num_tasks = 0 <=> M \ {t} = {}
    <3>1. Leaves(B, C, M, kn, t, st) BY <2>2, <2>3 DEF Leaves
    <3> QED BY <3>1, LeftCounts
  <2> QED BY <1>2, <2>1, <2>4
<1>5. Mine(T, b) = Mine(S, b) \ {t}
  BY DEF Mine, Parted
<1>6. \A d \in Batches : d # b => Mine(T, d) = Mine(S, d)
  BY DEF Mine, Parted
<1>7. \A u \in Tasks : u # t => States(T)[u] = States(S)[u]
  BY DEF States, Parted
<1>8. ASSUME NEW u \in Live(T) PROVE T.batch[BatchOf[u]].live
  <2>1. u \in Live(S) /\ u \in Tasks /\ u # t BY <1>1 DEF Parted
  <2>2. CASE BatchOf[u] = b
    <3>1. u \in Mine(S, b) \ {t} BY <2>1, <2>2 DEF Mine
    <3>2. T.batch[b] = C BY <1>4, <3>1 DEF Parted
    <3> QED BY <1>4, <2>2, <3>2
  <2>3. CASE BatchOf[u] # b
    <3>1. BatchOf[u] \in Batches BY <2>1 DEF EngineAssumption
    <3> QED BY <2>1, <2>3, <3>1 DEF Parted, Known
  <2> QED BY <2>2, <2>3
<1>9. ASSUME NEW d \in Batches
      PROVE  /\ ~T.batch[d].live => T.batch[d] = NoBatch
             /\ T.batch[d].live => d \in Ad /\ CountsAs(T.batch[d], Mine(T, d), States(T))
  <2>1. ASSUME NEW B, NEW M \in SUBSET Tasks, t \notin M, CountsAs(B, M, States(S))
        PROVE  CountsAs(B, M, States(T))
    <3>1. ASSUME NEW s PROVE {u \in M : States(T)[u] = s} = {u \in M : States(S)[u] = s}
      BY <1>7, <2>1
    <3> QED BY <2>1, <3>1 DEF CountsAs
  <2>2. CASE d # b
    <3>1. T.batch[d] = S.batch[d] BY <2>2 DEF Parted
    <3>2. Mine(T, d) = Mine(S, d) /\ Mine(S, d) \in SUBSET Tasks /\ t \notin Mine(S, d)
      BY <1>1, <1>6, <2>2 DEF Mine
    <3>3. /\ ~S.batch[d].live => S.batch[d] = NoBatch
          /\ S.batch[d].live => d \in Ad /\ CountsAs(S.batch[d], Mine(S, d), States(S))
      BY DEF Known
    <3> QED BY <2>1, <3>1, <3>2, <3>3
  <2>3. CASE d = b
    <3>1. CASE C.num_tasks = 0
      <4>1. T.batch[d] = NoBatch BY <2>3, <3>1 DEF Parted
      <4> QED BY <4>1 DEF NoBatch
    <3>2. CASE C.num_tasks # 0
      <4>1. T.batch[d] = C BY <2>3, <3>2 DEF Parted
      <4>2. Mine(S, b) \ {t} \in SUBSET Tasks /\ t \notin Mine(S, b) \ {t}
        BY <1>1 DEF Mine
      <4>3. CountsAs(C, Mine(S, b) \ {t}, States(T)) BY <1>4, <2>1, <4>2
      <4> QED BY <1>2, <1>4, <1>5, <2>3, <4>1, <4>3
    <3> QED BY <3>1, <3>2
  <2> QED BY <2>2, <2>3
<1> QED BY <1>8, <1>9 DEF Known, Parted

\* kill_task of one task.
LEMMA KillTaskKeeps ==
    ASSUME EngineAssumption, NEW S, NEW h, NEW g, NEW Ad, Settled(S, h, g, Ad), NEW t \in Live(S),
           NEW T, T = EraseTask(TaskKill(BatchRemove(S, t), t), t)
    PROVE  Settled(T, h, g, Ad)
<1>1. S \in EngineStates /\ Good(S, h, g, Ad) /\ Known(S, States(S), {}, Ad) /\ t \in Tasks
      /\ IsInjective(S.tasks)
  BY MineFacts DEF Settled, Good, Typed, Known
<1>2. PICK b, st : b = BatchOf[t] /\ st = S.task[t].st
  OBVIOUS
<1>3. PICK C : C = Left(S.batch[b], st)
  OBVIOUS
<1>4. PICK B : B = IF C.num_tasks = 0 THEN NoBatch ELSE C
  BY SMTT(30)
<1>5. PICK R : R = BatchRemove(S, t)
  BY SMTT(30)
<1>6. R = [S EXCEPT !.batch[b] = B]
  BY <1>2, <1>3, <1>4, <1>5, ZenonT(60) DEF BatchRemove, Left
<1>7. b \in Batches /\ B \in BatchRecords
  <2>1. b \in Batches /\ st \in TaskStates BY <1>1, <1>2, StateType DEF EngineAssumption
  <2>2. PICK A, M, kn : A = S.batch[b] /\ M = Mine(S, b) /\ kn = States(S)
    OBVIOUS
  <2>3. A \in BatchRecords /\ IsFiniteSet(M) /\ CountsAs(A, M, kn) /\ t \in M /\ kn[t] = st
    <3>1. IsFiniteSet(M) BY <1>1, <2>2, MineFacts
    <3>2. t \in M BY <1>2, <2>2 DEF Mine
    <3>3. kn[t] = st BY <1>1, <1>2, <2>2 DEF States
    <3>4. A \in BatchRecords BY <1>1, <2>1, <2>2 DEF EngineStates
    <3>5. S.batch[b].live BY <1>1, <1>2 DEF Known
    <3>6. CountsAs(A, M, kn) BY <1>1, <2>1, <2>2, <3>5 DEF Known
    <3> QED BY <3>1, <3>2, <3>3, <3>4, <3>6
  <2>4. C = Left(A, st) /\ st \in TaskStates BY <1>3, <2>1, <2>2
  <2>5. /\ C \in BatchRecords /\ C.live = A.live
        /\ CountsAs(C, M \ {t}, kn)
        /\ C.num_tasks = 0 <=> M \ {t} = {}
    <3>1. Leaves(A, C, M, kn, t, st) BY <2>3, <2>4 DEF Leaves
    <3> QED BY <3>1, LeftCounts
  <2>6. NoBatch \in BatchRecords BY DEF NoBatch, BatchRecords, TaskStates
  <2> QED BY <1>4, <2>1, <2>5, <2>6
<1>8. BatchChange(S, R, b, B) BY <1>1, <1>6, <1>7, BatchSet
<1>9. Good(R, h, g, Ad) /\ R \in EngineStates
  BY <1>1, <1>8, BatchGood DEF Good, Typed
<1>10. PICK K : K = TaskKill(R, t)
  OBVIOUS
<1>11. Quiet(R, K, t) BY <1>1, <1>9, <1>10, KillQuiet
<1>12. Good(K, h, g, Ad) /\ K \in EngineStates
  BY <1>1, <1>9, <1>11, QuietKeeps DEF Good, Typed
<1>13. T = EraseTask(K, t) BY <1>5, <1>10
<1>14. ErasedFrom(K, T, t) BY <1>1, <1>12, <1>13, EraseFacts
<1>15. Good(T, h, g, Ad) BY <1>1, <1>12, <1>14, EraseKeeps
<1>16. Parted(S, T, t, b, C)
  <2>1. K.tasks = S.tasks /\ K.batch = R.batch /\ R.batch[b] = B
        /\ \A d \in Batches : d # b => R.batch[d] = S.batch[d]
    BY <1>8, <1>11 DEF BatchChange, WorkSame, Quiet, TaskFrame
  <2>2. \A u \in Tasks : u # t => K.task[u] = S.task[u]
    BY <1>8, <1>11 DEF BatchChange, WorkSame, Quiet
  <2>3. Live(K) = Live(S) /\ IsInjective(K.tasks) BY <1>1, <2>1 DEF Live
  <2> QED BY <1>4, <1>14, <2>1, <2>2, <2>3 DEF ErasedFrom, Parted
<1>17. Known(T, States(T), {}, Ad) BY <1>1, <1>2, <1>3, <1>16, PartedKnown
<1> QED BY <1>15, <1>17 DEF Settled

-----------------------------------------------------------------------------
\* kill_task of a batch, task by task.
KillStep(S, t)  == EraseTask(TaskKill(S, t), t)
KillAll(S, s)   == ForEach(LAMBDA X, t : KillStep(X, t), S, s)
LEMMA KillStepKeeps ==
    ASSUME EngineAssumption, NEW S, NEW h, NEW g, NEW Ad, Good(S, h, g, Ad), NEW t \in Tasks,
           NEW T, T = KillStep(S, t)
    PROVE  /\ Good(T, h, g, Ad) /\ T.batch = S.batch
           /\ Live(T) = Live(S) \ {t} /\ (IsInjective(S.tasks) => IsInjective(T.tasks))
           /\ \A u \in Tasks : u # t => T.task[u].st = S.task[u].st
<1>1. S \in EngineStates BY DEF Good, Typed
<1>2. PICK K : K = TaskKill(S, t)
  OBVIOUS
<1>3. Quiet(S, K, t) BY <1>1, <1>2, KillQuiet
<1>4. Good(K, h, g, Ad) /\ K \in EngineStates
  BY <1>3, QuietKeeps DEF Good, Typed
<1>5. T = EraseTask(K, t) BY <1>2 DEF KillStep
<1>6. ErasedFrom(K, T, t) BY <1>4, <1>5, EraseFacts
<1>7. Good(T, h, g, Ad) BY <1>4, <1>6, EraseKeeps
<1>8. K.tasks = S.tasks /\ K.batch = S.batch /\ \A u \in Tasks : u # t => K.task[u].st = S.task[u].st
  BY <1>3 DEF Quiet, TaskFrame
<1>9. Live(K) = Live(S) BY <1>8 DEF Live
<1> QED BY <1>6, <1>7, <1>8, <1>9 DEF ErasedFrom

MayKill(S, h, g, Ad) == Good(S, h, g, Ad) /\ IsInjective(S.tasks)
Killed(T, s) == ToSet(s) \cap Live(T) = {}
AllOf(s, b) == \A i \in 1 .. Len(s) : BatchOf[s[i]] = b
\* The tasks of batch b may be gone, and nothing else of the tasks and batches.
Emptied(S, T, b) ==
    /\ T.batch = S.batch /\ IsInjective(T.tasks)
    /\ Live(T) \subseteq Live(S)
    /\ \A u \in Tasks : BatchOf[u] # b =>
         /\ u \in Live(S) => u \in Live(T)
         /\ T.task[u].st = S.task[u].st
LEMMA KillLoop ==
    ASSUME EngineAssumption, NEW S, NEW h, NEW g, NEW Ad, MayKill(S, h, g, Ad),
           NEW b, NEW s \in Seq(Tasks), AllOf(s, b), NEW T, T = KillAll(S, s)
    PROVE  Good(T, h, g, Ad) /\ Emptied(S, T, b) /\ Killed(T, s)
<1>a. PICK n : n = Len(s)
  OBVIOUS
<1>b. PICK G : G = {Y \in EngineStates : Good(Y, h, g, Ad) /\ Emptied(S, Y, b)}
  OBVIOUS
<1>1. n \in Nat /\ S \in G
  BY <1>a, <1>b DEF Good, Typed, Emptied, MayKill
<1>2. ASSUME NEW Y \in G, NEW i \in 1 .. n PROVE KillStep(Y, s[i]) \in G
  <2>0. PICK t : t = s[i]
    OBVIOUS
  <2>1. t \in Tasks /\ BatchOf[t] = b /\ Good(Y, h, g, Ad) /\ Emptied(S, Y, b)
    BY <1>a, <1>b, <2>0 DEF AllOf
  <2>2. PICK X : X = KillStep(Y, t)
    OBVIOUS
  <2>3. /\ Good(X, h, g, Ad) /\ X.batch = Y.batch
        /\ Live(X) = Live(Y) \ {t} /\ (IsInjective(Y.tasks) => IsInjective(X.tasks))
        /\ \A u \in Tasks : u # t => X.task[u].st = Y.task[u].st
    BY <2>1, <2>2, KillStepKeeps, SMTT(30)
  <2>4. Emptied(S, X, b)
    BY <2>1, <2>3 DEF Emptied
  <2>5. X \in EngineStates BY <2>3 DEF Good, Typed
  <2> QED BY <1>b, <2>0, <2>2, <2>3, <2>4, <2>5
<1>c. PICK turn : turn = [i \in 1 .. n |-> [Y \in G |-> KillStep(Y, s[i])]]
  OBVIOUS
<1>3. IsLoop(n, G, S, turn)
  BY <1>1, <1>2, <1>c DEF IsLoop
<1>d. PICK run : IsCourse(run, n, G, S, turn)
  BY <1>3, LoopRuns
<1>e. PICK after :
        after = CHOOSE f : f = [i \in 0 .. n |-> IF i = 0 THEN S ELSE KillStep(f[i - 1], s[i])]
  OBVIOUS
<1>4. run = [i \in 0 .. n |-> IF i = 0 THEN S ELSE KillStep(run[i - 1], s[i])]
  <2>1. /\ run \in [0 .. n -> G] /\ run[0] = S
        /\ \A i \in 1 .. n : run[i - 1] \in G /\ run[i] = turn[i][run[i - 1]]
    <3>1. ASSUME NEW i \in 1 .. n PROVE i - 1 \in 0 .. n BY <1>1
    <3> QED BY <1>d, <3>1 DEF IsCourse
  <2>2. ASSUME NEW i \in 1 .. n PROVE run[i] = KillStep(run[i - 1], s[i])
    <3>1. turn[i] = [Y \in G |-> KillStep(Y, s[i])] BY <1>c
    <3>2. run[i - 1] \in G /\ run[i] = turn[i][run[i - 1]] BY <2>1
    <3> QED BY <3>1, <3>2
  <2>3. ASSUME NEW i \in 0 .. n
        PROVE  run[i] = IF i = 0 THEN S ELSE KillStep(run[i - 1], s[i])
    <3>1. CASE i = 0 BY <2>1, <3>1
    <3>2. CASE i # 0
      <4>1. i \in 1 .. n BY <1>1, <3>2
      <4> QED BY <2>2, <3>2, <4>1
    <3> QED BY <3>1, <3>2
  <2> QED BY <2>1, <2>3
<1>5. after = [i \in 0 .. n |-> IF i = 0 THEN S ELSE KillStep(after[i - 1], s[i])]
  <2>1. \E f : f = [i \in 0 .. n |-> IF i = 0 THEN S ELSE KillStep(f[i - 1], s[i])]
    BY <1>4
  <2> QED BY <1>e, <2>1
<1>6. after[n] \in G
  <2>1. after[0] \in G BY <1>1, <1>5
  <2>2. ASSUME NEW i \in 1 .. n, after[i - 1] \in G PROVE after[i] \in G
    <3>1. after[i] = KillStep(after[i - 1], s[i]) BY <1>1, <1>5
    <3> QED BY <1>2, <2>2, <3>1
  <2> QED BY <1>1, <2>1, <2>2, LoopEnds
<1>7. T = after[n]
  BY <1>a, <1>e DEF ForEach, KillAll
<1>8. ASSUME NEW i \in 1 .. n PROVE after[i] = KillStep(after[i - 1], s[i])
  BY <1>1, <1>5
<1>9. ASSUME NEW i \in 0 .. n PROVE after[i] \in G
  <2>1. after[0] \in G BY <1>1, <1>5
  <2>2. ASSUME NEW j \in 1 .. i, after[j - 1] \in G PROVE after[j] \in G
    <3>1. j \in 1 .. n BY <1>1
    <3> QED BY <1>2, <1>8, <2>2, <3>1
  <2>3. i \in Nat OBVIOUS
  <2> QED BY <2>1, <2>2, <2>3, LoopEnds
<1>10. ASSUME NEW i \in 1 .. n PROVE Live(after[i]) = Live(after[i - 1]) \ {s[i]}
  <2>1. PICK Y, X, t : Y = after[i - 1] /\ X = after[i] /\ t = s[i]
    OBVIOUS
  <2>2. i - 1 \in 0 .. n BY <1>1
  <2>3. Good(Y, h, g, Ad) BY <1>9, <1>b, <2>1, <2>2
  <2>4. t \in Tasks /\ X = KillStep(Y, t) BY <1>8, <1>a, <2>1
  <2>5. Live(X) = Live(Y) \ {t} BY <2>3, <2>4, KillStepKeeps
  <2> QED BY <2>1, <2>5
<1>11. ASSUME NEW i \in 1 .. n PROVE s[i] \notin Live(after[n])
  <2>1. PICK H : H = {Y \in G : s[i] \notin Live(Y)}
    OBVIOUS
  <2>2. PICK m : m = n - i
    OBVIOUS
  <2>3. PICK f : f = [k \in 0 .. m |-> after[i + k]]
    OBVIOUS
  <2>4. m \in Nat /\ f[0] = after[i] /\ f[m] = after[n]
    <3>1. m \in Nat /\ 0 \in 0 .. m /\ m \in 0 .. m /\ i + 0 = i /\ i + m = n BY <1>1, <2>2
    <3> QED BY <2>3, <3>1
  <2>5. f[0] \in H
    <3>1. i \in 0 .. n BY <1>1
    <3>2. after[i] \in G BY <1>9, <3>1
    <3> QED BY <1>10, <2>1, <2>4, <3>2
  <2>6. ASSUME NEW k \in 1 .. m, f[k - 1] \in H PROVE f[k] \in H
    <3>1. PICK j : j = i + k
      OBVIOUS
    <3>2. j \in 1 .. n /\ j \in 0 .. n /\ j - 1 = i + (k - 1) /\ k - 1 \in 0 .. m /\ k \in 0 .. m
      BY <1>1, <2>2, <3>1
    <3>3. f[k - 1] = after[j - 1] /\ f[k] = after[j] BY <2>3, <3>1, <3>2
    <3>4. Live(after[j]) = Live(after[j - 1]) \ {s[j]} BY <1>10, <3>2
    <3>5. after[j] \in G BY <1>9, <3>2
    <3> QED BY <2>1, <2>6, <3>3, <3>4, <3>5
  <2>7. f[m] \in H BY <2>4, <2>5, <2>6, LoopEnds
  <2> QED BY <2>1, <2>4, <2>7
<1>12. ToSet(s) \cap Live(T) = {}
  <2>1. ToSet(s) = {s[i] : i \in 1 .. n} BY <1>a DEF ToSet
  <2> QED BY <1>7, <1>11, <2>1
<1> QED BY <1>b, <1>6, <1>7, <1>12 DEF Killed

LEMMA KillBatchKeeps ==
    ASSUME EngineAssumption, NEW S, NEW h, NEW g, NEW Ad, Settled(S, h, g, Ad), NEW b \in Batches,
           NEW mine, mine = Only(S.tasks, {t \in Tasks : BatchOf[t] = b}),
           NEW T, T = [KillAll(S, mine) EXCEPT !.batch[b] = NoBatch]
    PROVE  Settled(T, h, g, Ad)
<1>1. S \in EngineStates /\ Good(S, h, g, Ad) /\ Known(S, States(S), {}, Ad)
      /\ IsInjective(S.tasks) /\ S.tasks \in Seq(Tasks) /\ Live(S) \subseteq Tasks
  BY MineFacts DEF Settled, Good, Typed, Known, EngineStates
<1>2. PICK M : M = {t \in Tasks : BatchOf[t] = b}
  OBVIOUS
<1>3. mine \in Seq(Tasks) /\ Range(mine) = Range(S.tasks) \cap M
  BY <1>1, <1>2, OnlyFacts
<1>4. ToSet(mine) = Mine(S, b)
  <2>1. ToSet(mine) = Range(mine) BY <1>3, ContainsFacts
  <2>2. ToSet(S.tasks) = Range(S.tasks) BY <1>1, ContainsFacts
  <2>3. ToSet(mine) = Live(S) \cap M BY <1>3, <2>1, <2>2 DEF Live
  <2> QED BY <1>1, <1>2, <2>3 DEF Mine
<1>5. AllOf(mine, b)
  <2>1. \A i \in 1 .. Len(mine) : mine[i] \in ToSet(mine) BY <1>3, ContainsFacts, SMTT(30)
  <2> QED BY <1>4, <2>1 DEF Mine, AllOf
<1>6. PICK K : K = KillAll(S, mine)
  OBVIOUS
<1>7. Good(K, h, g, Ad) /\ Emptied(S, K, b) /\ Mine(S, b) \cap Live(K) = {}
  <2>1. MayKill(S, h, g, Ad) BY <1>1 DEF MayKill
  <2>2. mine \in Seq(Tasks) BY <1>3
  <2>3. Good(K, h, g, Ad) /\ Emptied(S, K, b) /\ Killed(K, mine)
    BY <2>1, <2>2, <1>5, <1>6, KillLoop
  <2> QED BY <1>4, <2>3 DEF Killed
<1>8. K \in EngineStates /\ NoBatch \in BatchRecords
  BY <1>7 DEF Good, Typed, NoBatch, BatchRecords, TaskStates
<1>9. T = [K EXCEPT !.batch[b] = NoBatch] BY <1>6
<1>10. BatchChange(K, T, b, NoBatch) BY <1>8, <1>9, BatchSet
<1>11. Good(T, h, g, Ad) BY <1>7, <1>10, BatchGood
<1>12. /\ Live(T) = Live(K) /\ T.tasks = K.tasks /\ T.batch[b] = NoBatch
       /\ \A d \in Batches : d # b => T.batch[d] = S.batch[d]
       /\ \A u \in Tasks : T.task[u] = K.task[u]
  BY <1>7, <1>10 DEF BatchChange, WorkSame, Emptied, Live
<1>13. ASSUME NEW u \in Live(T) PROVE BatchOf[u] # b /\ u \in Live(S) /\ u \in Tasks
  BY <1>1, <1>7, <1>12 DEF Emptied, Mine
<1>14. ASSUME NEW u \in Live(T) PROVE T.batch[BatchOf[u]].live
  <2>1. BatchOf[u] \in Batches BY <1>13 DEF EngineAssumption
  <2>2. S.batch[BatchOf[u]].live BY <1>1, <1>13 DEF Known
  <2> QED BY <1>12, <1>13, <2>1, <2>2
<1>15. ASSUME NEW d \in Batches
       PROVE  /\ ~T.batch[d].live => T.batch[d] = NoBatch
              /\ T.batch[d].live => d \in Ad /\ CountsAs(T.batch[d], Mine(T, d), States(T))
  <2>1. CASE d = b
    BY <1>12, <2>1 DEF NoBatch
  <2>2. CASE d # b
    <3>1. /\ ~S.batch[d].live => S.batch[d] = NoBatch
          /\ S.batch[d].live => d \in Ad /\ CountsAs(S.batch[d], Mine(S, d), States(S))
      BY <1>1 DEF Known
    <3>2. T.batch[d] = S.batch[d] BY <1>12, <2>2
    <3>3. Mine(T, d) = Mine(S, d) BY <1>1, <1>7, <1>12, <2>2 DEF Mine, Emptied
    <3>4. ASSUME NEW u \in Mine(S, d) PROVE States(T)[u] = States(S)[u]
      <4>1. u \in Tasks /\ BatchOf[u] # b BY <1>1, <2>2, <3>4 DEF Mine
      <4>2. T.task[u] = K.task[u] /\ K.task[u].st = S.task[u].st
        BY <1>7, <1>12, <4>1 DEF Emptied
      <4> QED BY <4>1, <4>2 DEF States
    <3>5. ASSUME NEW s PROVE {u \in Mine(S, d) : States(T)[u] = s} = {u \in Mine(S, d) : States(S)[u] = s}
      BY <3>4
    <3>6. ASSUME S.batch[d].live PROVE CountsAs(S.batch[d], Mine(S, d), States(T))
      BY <3>1, <3>5, <3>6 DEF CountsAs
    <3> QED BY <3>1, <3>2, <3>3, <3>6
  <2> QED BY <2>1, <2>2
<1>16. IsInjective(T.tasks) BY <1>7, <1>12 DEF Emptied
<1>17. Known(T, States(T), {}, Ad) BY <1>14, <1>15, <1>16 DEF Known
<1> QED BY <1>11, <1>17 DEF Settled

-----------------------------------------------------------------------------
(* start, move_task_up, tick, and the objects nobody holds any more. *)

\* The same tasks, in any order, having run or not.
TasksAlike(S, T) ==
    /\ T \in EngineStates
    /\ Live(T) = Live(S) /\ (IsInjective(S.tasks) => IsInjective(T.tasks))
    /\ \A t \in Tasks : /\ T.task[t].st = S.task[t].st
                        /\ T.task[t].articles = S.task[t].articles
                        /\ T.task[t].decoded = S.task[t].decoded
                        /\ T.task[t].missing = S.task[t].missing
                        /\ T.task[t].nact = S.task[t].nact
    /\ T.batch = S.batch /\ T.cmds = S.cmds /\ T.cl = S.cl
    /\ T.conns = S.conns /\ T.conn = S.conn
    /\ T.queue = S.queue /\ T.jobs = S.jobs /\ T.done = S.done
    /\ T.num_pending_actions = S.num_pending_actions
LEMMA AlikeKeeps ==
    ASSUME EngineAssumption, NEW S, NEW h, NEW g, NEW Ad, Settled(S, h, g, Ad),
           NEW T, TasksAlike(S, T)
    PROVE  Settled(T, h, g, Ad)
<1>1. S \in EngineStates /\ T \in EngineStates /\ Work(S, h, Ad) /\ Owned(S) /\ Linked(S, g)
      /\ IsFiniteSet(S.jobs) /\ IsFiniteSet(T.jobs) /\ Known(S, States(S), {}, Ad)
      /\ Live(S) \subseteq Tasks
  BY MineFacts DEF Settled, Good, Typed, TasksAlike
<1>2. \A f, P : Total(T, f, P) = Total(S, f, P)
  BY TotalSame DEF TasksAlike
<1>3. Eased(S, h, T, h)
  <2>1. \A u \in Live(T) : /\ T.task[u].articles = S.task[u].articles
                           /\ T.task[u].decoded = S.task[u].decoded
    BY <1>1 DEF TasksAlike
  <2>2. ASSUME NEW u \in Tasks
        PROVE  T.task[u].nact = IF u \in Live(S) \ Live(T) THEN 0 ELSE S.task[u].nact
    BY DEF TasksAlike
  <2>3. Live(T) = Live(S) /\ T.cl = S.cl /\ T.cmds = S.cmds
        /\ T.num_pending_actions = S.num_pending_actions
    BY DEF TasksAlike
  <2>4. \A P \in Watched : Total(T, h, P) = Total(S, h, P) BY <1>2
  <2>5. T.num_pending_actions - S.num_pending_actions = Total(T, h, Action) - Total(S, h, Action)
    <3>1. Total(T, h, Action) = Total(S, h, Action) BY <1>2
    <3>2. S.num_pending_actions \in Int BY <1>1 DEF EngineStates
    <3>3. Total(S, h, Action) = S.num_pending_actions BY <1>1 DEF Work, Counted
    <3> QED BY <2>3, <3>1, <3>2, <3>3
  <2> QED BY <2>1, <2>2, <2>3, <2>4, <2>5 DEF Eased
<1>4. Work(T, h, Ad) BY <1>1, <1>3, EasedKeeps
<1>5. Owned(T) BY <1>1 DEF Owned, TasksAlike
<1>6. Linked(T, g)
  <2>1. ASSUME Links(S, g) PROVE Links(T, g)
    <3>1. T.conns = S.conns /\ T.conn = S.conn /\ T.queue = S.queue /\ T.done = S.done
      BY DEF TasksAlike
    <3> QED BY <1>1, <2>1, <3>1, LinksSame
  <2> QED BY <1>1, <2>1 DEF Linked
<1>7. Known(T, States(T), {}, Ad)
  <2>1. States(T) = States(S) BY DEF TasksAlike, States
  <2>2. \A b : Mine(T, b) = Mine(S, b) BY DEF TasksAlike, Mine
  <2> QED BY <1>1, <2>1, <2>2 DEF TasksAlike, Known
<1> QED BY <1>1, <1>4, <1>5, <1>6, <1>7 DEF Settled, Good, Typed

LEMMA StartKeeps ==
    ASSUME EngineAssumption, NEW S, NEW h, NEW g, NEW Ad, Settled(S, h, g, Ad),
           NEW T, T = [S EXCEPT !.started = TRUE]
    PROVE  Settled(T, h, g, Ad)
<1>1. S \in EngineStates BY DEF Settled, Good, Typed
<1>2. Trimmed(S, T) BY <1>1 DEF Trimmed, WorkSame, EngineStates
<1> QED BY <1>2, TrimmedKeeps

LEMMA TickedKeeps ==
    ASSUME EngineAssumption, NEW S, NEW h, NEW g, NEW Ad, Settled(S, h, g, Ad),
           NEW T, T = Ticked(S)
    PROVE  Settled(T, h, g, Ad)
<1>1. S \in EngineStates /\ S.task \in [Tasks -> TaskRecords]
  BY DEF Settled, Good, Typed, EngineStates
<1>2. PICK q : q = [t \in Tasks |-> S.task[t].ran \/ (TaskAlive(S, t) /\ S.task[t].st = "active")]
  OBVIOUS
<1>3. PICK f : f = [t \in Tasks |-> [S.task[t] EXCEPT !.ran = q[t]]]
  OBVIOUS
<1>4. q \in [Tasks -> BOOLEAN] BY <1>2, Zenon
<1>5. T = [S EXCEPT !.task = f]
  <2>1. ASSUME NEW t \in Tasks
        PROVE  f[t] = [S.task[t] EXCEPT !.ran = S.task[t].ran \/ (TaskAlive(S, t) /\ S.task[t].st = "active")]
    <3>1. PICK z : z = q[t]
      OBVIOUS
    <3>2. f[t] = [S.task[t] EXCEPT !.ran = z] BY <1>3, <3>1
    <3>3. z = (S.task[t].ran \/ (TaskAlive(S, t) /\ S.task[t].st = "active"))
      BY <1>2, <3>1, Zenon
    <3> QED BY <3>2, <3>3, Zenon
  <2>2. PICK e : e = [t \in Tasks |-> [S.task[t] EXCEPT !.ran = S.task[t].ran \/ (TaskAlive(S, t) /\ S.task[t].st = "active")]]
    OBVIOUS
  <2>3. T = [S EXCEPT !.task = e] BY <2>2 DEF Ticked
  <2>4. ASSUME NEW t \in Tasks PROVE e[t] = f[t]
    <3>1. e[t] = [S.task[t] EXCEPT !.ran = S.task[t].ran \/ (TaskAlive(S, t) /\ S.task[t].st = "active")]
      BY <2>2, Zenon
    <3> QED BY <2>1, <3>1, Zenon
  <2>5. e = [t \in Tasks |-> e[t]] BY <2>2, Zenon
  <2>6. f = [t \in Tasks |-> f[t]] BY <1>3, Zenon
  <2>7. e = f BY <2>4, <2>5, <2>6
  <2> QED BY <2>3, <2>7
<1>6. ASSUME NEW t \in Tasks
      PROVE  /\ f[t] \in TaskRecords /\ f[t].st = S.task[t].st
             /\ f[t].articles = S.task[t].articles /\ f[t].decoded = S.task[t].decoded
             /\ f[t].missing = S.task[t].missing /\ f[t].nact = S.task[t].nact
  <2>1. PICK r, x : r = S.task[t] /\ x = q[t]
    OBVIOUS
  <2>2. f[t] = [r EXCEPT !.ran = x] /\ r \in TaskRecords /\ x \in BOOLEAN
    BY <1>1, <1>3, <1>4, <2>1
  <2> QED BY <2>1, <2>2 DEF TaskRecords
<1>7. f \in [Tasks -> TaskRecords] BY <1>3, <1>6
<1>8. T.task = f /\ T \in EngineStates BY <1>1, <1>5, <1>7 DEF EngineStates
<1>9. TasksAlike(S, T) BY <1>1, <1>5, <1>6, <1>8 DEF TasksAlike, EngineStates, Live
<1> QED BY <1>9, AlikeKeeps

MovedUp(S, i) == [S EXCEPT !.tasks[i] = S.tasks[i - 1], !.tasks[i - 1] = S.tasks[i]]
Swapped(S, i, x, y)     == [S EXCEPT !.tasks[i] = x, !.tasks[i - 1] = y]
SwappedList(s, i, x, y) == [[s EXCEPT ![i] = x] EXCEPT ![i - 1] = y]
WithTasks(S, s)         == [S EXCEPT !.tasks = s]
LEMMA SwappedIs ==
    ASSUME NEW S \in EngineStates, NEW i, NEW x, NEW y
    PROVE  Swapped(S, i, x, y) = WithTasks(S, SwappedList(S.tasks, i, x, y))
BY DEF EngineStates, Swapped, SwappedList, WithTasks
LEMMA MoveUpKeeps ==
    ASSUME EngineAssumption, NEW S, NEW h, NEW g, NEW Ad, Settled(S, h, g, Ad),
           NEW i \in 2 .. Len(S.tasks), NEW T, T = MovedUp(S, i)
    PROVE  Settled(T, h, g, Ad)
<1>1. S \in EngineStates /\ S.tasks \in Seq(Tasks)
  BY DEF Settled, Good, Typed, EngineStates
<1>2. PICK s : s = S.tasks
  OBVIOUS
<1>3. PICK x, y : x = s[i - 1] /\ y = s[i]
  OBVIOUS
<1>4. PICK u : u = [[s EXCEPT ![i] = x] EXCEPT ![i - 1] = y]
  OBVIOUS
<1>5. s \in Seq(Tasks) /\ i \in 2 .. Len(s) /\ x \in Tasks /\ y \in Tasks
  BY <1>1, <1>2, <1>3
<1>6. /\ u \in Seq(Tasks) /\ Len(u) = Len(s) /\ u[i] = s[i - 1] /\ u[i - 1] = s[i]
      /\ \A j \in 1 .. Len(s) : j # i /\ j # i - 1 => u[j] = s[j]
  BY <1>3, <1>4, <1>5
<1>7. T = [S EXCEPT !.tasks = u]
  <2>1. T = Swapped(S, i, x, y) BY <1>2, <1>3 DEF MovedUp, Swapped
  <2>2. Swapped(S, i, x, y) = WithTasks(S, SwappedList(S.tasks, i, x, y))
    BY <1>1, SwappedIs
  <2>3. u = SwappedList(S.tasks, i, x, y) BY <1>2, <1>4 DEF SwappedList
  <2> QED BY <2>1, <2>2, <2>3 DEF WithTasks
<1>8. T.tasks = u /\ T \in EngineStates BY <1>1, <1>6, <1>7, ZenonT(60) DEF EngineStates
<1>9. /\ ToSet(s) = {s[j] : j \in 1 .. Len(s)} /\ ToSet(u) = {u[j] : j \in 1 .. Len(s)}
      /\ DOMAIN s = 1 .. Len(s) /\ DOMAIN u = 1 .. Len(s)
  <2>1. ToSet(s) = {s[j] : j \in DOMAIN s} /\ ToSet(u) = {u[j] : j \in DOMAIN u} BY DEF ToSet
  <2>2. DOMAIN s = 1 .. Len(s) /\ DOMAIN u = 1 .. Len(u) BY <1>5, <1>6
  <2> QED BY <1>6, <2>1, <2>2
<1>10. ToSet(u) = ToSet(s)
  <2>1. ASSUME NEW j \in 1 .. Len(s) PROVE \E k \in 1 .. Len(s) : u[j] = s[k]
    <3>1. i \in 1 .. Len(s) /\ i - 1 \in 1 .. Len(s) BY <1>5
    <3> QED BY <1>6, <3>1
  <2>2. ASSUME NEW j \in 1 .. Len(s) PROVE \E k \in 1 .. Len(s) : s[j] = u[k]
    <3>1. i \in 1 .. Len(s) /\ i - 1 \in 1 .. Len(s) BY <1>5
    <3> QED BY <1>6, <3>1
  <2> QED BY <1>9, <2>1, <2>2
<1>11. ASSUME IsInjective(s) PROVE IsInjective(u)
  <2>1. \A j, k \in 1 .. Len(s) : s[j] = s[k] => j = k BY <1>9, <1>11 DEF IsInjective
  <2>2. ASSUME NEW j \in 1 .. Len(s), NEW k \in 1 .. Len(s), u[j] = u[k] PROVE j = k
    BY <1>5, <1>6, <2>1, <2>2
  <2> QED BY <1>9, <2>2 DEF IsInjective
<1>12. TasksAlike(S, T)
  BY <1>1, <1>2, <1>7, <1>8, <1>10, <1>11 DEF TasksAlike, EngineStates, Live
<1> QED BY <1>12, AlikeKeeps

-----------------------------------------------------------------------------
\* The objects nobody holds any more are forgotten.
Reaped(S, R) ==
    /\ R \in EngineStates
    /\ R.tasks = S.tasks /\ R.task = S.task /\ R.batch = S.batch /\ R.cmds = S.cmds
    /\ R.conns = S.conns /\ R.queue = S.queue /\ R.jobs = S.jobs /\ R.done = S.done
    /\ R.num_pending_actions = S.num_pending_actions
    /\ \A k \in CmdIds : R.cl[k] = IF k \in HeldCmds(S) THEN S.cl[k] ELSE NoCmdlist
    /\ \A c \in ConnIds : R.conn[c] = IF c \in HeldConns(S) THEN S.conn[c] ELSE NoConn
LEMMA NoneFacts ==
    /\ NoCmdlist \in CmdRecords /\ NoCmdlist.task = 0 /\ NoCmdlist.buffers = <<>>
    /\ NoCmdlist.commands = <<>> /\ NoConn \in ConnRecords
<1>1. NoCmdlist.buffers = <<>> /\ NoCmdlist.commands = <<>> /\ <<>> \in Seq(Nat) /\ <<>> \in Seq(Statuses)
  BY DEF NoCmdlist
<1>2. NoCmdlist \in CmdRecords BY <1>1 DEF NoCmdlist, CmdRecords
<1>3. "disconnected" \in ConnStates BY DEF ConnStates
<1>4. NoConn \in ConnRecords BY <1>3 DEF NoConn, ConnRecords
<1> QED BY <1>1, <1>2, <1>4 DEF NoCmdlist

LEMMA ReapFacts ==
    ASSUME NEW S \in EngineStates, NEW R, R = Reap(S)
    PROVE  Reaped(S, R)
<1>1. PICK f : f = [k \in CmdIds |-> IF k \in HeldCmds(S) THEN S.cl[k] ELSE NoCmdlist]
  OBVIOUS
<1>2. PICK e : e = [c \in ConnIds |-> IF c \in HeldConns(S) THEN S.conn[c] ELSE NoConn]
  OBVIOUS
<1>3. S.cl \in [CmdIds -> CmdRecords] /\ S.conn \in [ConnIds -> ConnRecords]
  BY DEF EngineStates
<1>4. f \in [CmdIds -> CmdRecords] BY <1>1, <1>3, NoneFacts
<1>5. e \in [ConnIds -> ConnRecords] BY <1>2, <1>3, NoneFacts
<1>6. R = [S EXCEPT !.cl = f, !.conn = e] BY <1>1, <1>2 DEF Reap
<1>7. R \in EngineStates /\ R.cl = f /\ R.conn = e
  BY <1>4, <1>5, <1>6 DEF EngineStates
<1>8. \A k \in CmdIds : R.cl[k] = IF k \in HeldCmds(S) THEN S.cl[k] ELSE NoCmdlist
  BY <1>1, <1>7
<1>9. \A c \in ConnIds : R.conn[c] = IF c \in HeldConns(S) THEN S.conn[c] ELSE NoConn
  BY <1>2, <1>7
<1> QED BY <1>6, <1>7, <1>8, <1>9 DEF Reaped, EngineStates

\* Who holds a cmdlist or a connection: the actions on a thread or done.
LEMMA HeldFacts ==
    ASSUME EngineAssumption, NEW S \in EngineStates
    PROVE  /\ \A k \in CmdIds : k \notin HeldCmds(S) =>
                k \notin ToSet(S.cmds) /\ UnderWay(S, Nothing) \cap Execs(k) = {}
           /\ \A c \in ConnIds : c \notin HeldConns(S) =>
                c \notin ToSet(S.conns) /\ UnderWay(S, Nothing) \cap OfConn(c) = {}
<1>1. /\ \A c \in ConnIds : Range(S.queue[c]) = {S.queue[c][i] : i \in DOMAIN S.queue[c]}
      /\ Range(S.done) = {S.done[i] : i \in DOMAIN S.done}
  BY DEF Range
<1>2. \A a \in S.jobs : a.kind # "execute" /\ a.conn = 0
  BY DEF EngineStates, JobActions, JobKinds
<1>3. Nothing.kind # "execute" /\ Nothing.conn = 0 BY DEF Nothing, ConnAction
<1>4. ASSUME NEW k \in CmdIds, k \notin HeldCmds(S)
      PROVE  k \notin ToSet(S.cmds) /\ UnderWay(S, Nothing) \cap Execs(k) = {}
  <2>1. k \notin ToSet(S.cmds) BY <1>4 DEF HeldCmds
  <2>2. \A i \in DOMAIN S.done : S.done[i].cl # k BY <1>4 DEF HeldCmds
  <2>3. \A c \in ConnIds : \A i \in DOMAIN S.queue[c] : S.queue[c][i].cl # k
    BY <1>4 DEF HeldCmds
  <2>4. ASSUME NEW a \in UnderWay(S, Nothing) PROVE a.kind # "execute" \/ a.cl # k
    <3>1. CASE a \in S.jobs BY <1>2, <3>1
    <3>2. CASE a \in Range(S.done) BY <1>1, <2>2, <3>2
    <3>3. CASE a = Nothing BY <1>3, <3>3
    <3>4. ASSUME NEW d \in ConnIds, a \in Range(S.queue[d]) PROVE a.cl # k
      <4>1. PICK i \in DOMAIN S.queue[d] : a = S.queue[d][i] BY <3>4 DEF Range
      <4> QED BY <2>3, <4>1
    <3> QED BY <3>1, <3>2, <3>3, <3>4 DEF UnderWay
  <2> QED BY <2>1, <2>4 DEF Execs
<1>5. ASSUME NEW c \in ConnIds, c \notin HeldConns(S)
      PROVE  c \notin ToSet(S.conns) /\ UnderWay(S, Nothing) \cap OfConn(c) = {}
  <2>0. c # 0 BY DEF EngineAssumption
  <2>1. c \notin ToSet(S.conns) BY <1>5 DEF HeldConns
  <2>2. \A i \in DOMAIN S.done : S.done[i].conn # c BY <1>5 DEF HeldConns
  <2>3. \A d \in ConnIds : \A i \in DOMAIN S.queue[d] : S.queue[d][i].conn # c
    <3> SUFFICES ASSUME NEW d \in ConnIds, NEW i \in DOMAIN S.queue[d], S.queue[d][i].conn = c
                 PROVE  c \in HeldConns(S)
      BY <1>5
    <3>1. c \in {S.queue[d][j].conn : j \in DOMAIN S.queue[d]} BY Zenon
    <3> QED BY ONLY <3>1, d \in ConnIds DEF HeldConns
  <2>4. ASSUME NEW a \in UnderWay(S, Nothing) PROVE a.conn # c
    <3>1. CASE a \in S.jobs BY <1>2, <2>0, <3>1
    <3>2. CASE a \in Range(S.done) BY <1>1, <2>2, <3>2
    <3>3. CASE a = Nothing BY <1>3, <2>0, <3>3
    <3>4. ASSUME NEW d \in ConnIds, a \in Range(S.queue[d]) PROVE a.conn # c
      <4>1. PICK i \in DOMAIN S.queue[d] : a = S.queue[d][i] BY <3>4 DEF Range
      <4> QED BY <2>3, <4>1
    <3> QED BY <3>1, <3>2, <3>3, <3>4 DEF UnderWay
  <2> QED BY <2>1, <2>4 DEF OfConn
<1> QED BY <1>4, <1>5

LEMMA ReapKeeps ==
    ASSUME EngineAssumption, NEW S, NEW Ad, Settled(S, Nothing, Nothing, Ad),
           NEW R, R = Reap(S)
    PROVE  Settled(R, Nothing, Nothing, Ad)
<1>1. S \in EngineStates /\ Work(S, Nothing, Ad) /\ Owned(S) /\ Linked(S, Nothing)
      /\ IsFiniteSet(S.jobs) /\ Known(S, States(S), {}, Ad) /\ Countable(S)
  BY DEF Settled, Good, Typed, Countable, EngineStates
<1>2. Reaped(S, R) BY <1>1, ReapFacts
<1>3. R \in EngineStates /\ IsFiniteSet(R.jobs) BY <1>1, <1>2 DEF Reaped
<1>4. \A f, P : Total(R, f, P) = Total(S, f, P) BY <1>2, TotalSame DEF Reaped
<1>5. ASSUME NEW k \in CmdIds, k \notin HeldCmds(S)
      PROVE  R.cl[k] = NoCmdlist /\ Total(R, Nothing, Execs(k)) = 0 /\ k \notin ToSet(R.cmds)
  <2>1. k \notin ToSet(S.cmds) /\ UnderWay(S, Nothing) \cap Execs(k) = {}
    BY <1>1, <1>5, HeldFacts
  <2>2. Total(S, Nothing, Execs(k)) = 0 BY <1>1, <2>1, TotalFacts
  <2> QED BY <1>2, <1>4, <1>5, <2>1, <2>2 DEF Reaped
<1>6. Eased(S, Nothing, R, Nothing)
  <2>1. R.tasks = S.tasks /\ R.task = S.task /\ R.cmds = S.cmds /\ Live(R) = Live(S)
        /\ R.num_pending_actions = S.num_pending_actions
    BY <1>2 DEF Reaped, Live
  <2>2. ASSUME NEW k \in CmdIds
        PROVE  \/ /\ R.cl[k].task = S.cl[k].task /\ R.cl[k].conn = S.cl[k].conn
                  /\ R.cl[k].commands = S.cl[k].commands
               \/ R.cl[k] = NoCmdlist /\ Total(R, Nothing, Execs(k)) = 0 /\ k \notin ToSet(R.cmds)
    <3>1. CASE k \in HeldCmds(S)
      <4>1. R.cl[k] = S.cl[k] BY <1>2, <3>1 DEF Reaped
      <4> QED BY <4>1
    <3>2. CASE k \notin HeldCmds(S) BY <1>5, <3>2
    <3> QED BY <3>1, <3>2
  <2>3. \A P \in Watched : Total(R, Nothing, P) = Total(S, Nothing, P) BY <1>4
  <2>4. R.num_pending_actions - S.num_pending_actions = Total(R, Nothing, Action) - Total(S, Nothing, Action)
    <3>1. Total(R, Nothing, Action) = Total(S, Nothing, Action) BY <1>4
    <3>2. S.num_pending_actions \in Int BY <1>1 DEF EngineStates
    <3>3. Total(S, Nothing, Action) = S.num_pending_actions BY <1>1 DEF Work, Counted
    <3> QED BY <2>1, <3>1, <3>2, <3>3
  <2> QED BY <2>1, <2>2, <2>3, <2>4 DEF Eased
<1>7. Work(R, Nothing, Ad) BY <1>1, <1>3, <1>6, EasedKeeps
<1>8. Owned(R)
  <2>1. ASSUME NEW k \in CmdIds
        PROVE  /\ Len(R.cl[k].buffers) <= Len(R.cl[k].commands)
               /\ R.cl[k].task # 0 => /\ R.cl[k].account # 0
                                      /\ ToSet(R.cl[k].commands) \subseteq Article(R.cl[k].task)
    <3>1. CASE k \in HeldCmds(S)
      <4>1. R.cl[k] = S.cl[k] BY <1>2, <3>1 DEF Reaped
      <4> QED BY <1>1, <4>1 DEF Owned
    <3>2. CASE k \notin HeldCmds(S)
      <4>1. R.cl[k] = NoCmdlist BY <1>5, <3>2
      <4> QED BY <4>1, NoneFacts
    <3> QED BY <3>1, <3>2
  <2> QED BY <1>1, <1>2, <2>1 DEF Owned, Reaped
<1>9. Linked(R, Nothing)
  <2>1. ASSUME Links(S, Nothing) PROVE Links(R, Nothing)
    <3>1. ASSUME NEW c \in ConnIds, c \in HeldConns(S) PROVE R.conn[c] = S.conn[c]
      BY <1>2, <3>1 DEF Reaped
    <3>2. ASSUME NEW c \in ToSet(R.conns) PROVE LinkedAt(R, Nothing, c)
      <4>1. c \in ToSet(S.conns) /\ c \in ConnIds
        BY <1>1, <1>2, ContainsFacts DEF Reaped, EngineStates
      <4>2. R.conn[c] = S.conn[c] BY <3>1, <4>1 DEF HeldConns
      <4>3. LinkedAt(S, Nothing, c) BY <2>1, <4>1 DEF Links
      <4>4. /\ Total(R, Nothing, OfConn(c)) = Total(S, Nothing, OfConn(c))
            /\ \A kind : Total(R, Nothing, KindOn(c, kind)) = Total(S, Nothing, KindOn(c, kind))
        BY <1>4
      <4> QED BY <4>2, <4>3, <4>4 DEF LinkedAt
    <3>3. ASSUME NEW c \in ConnIds, R.conn[c] = NoConn PROVE Total(R, Nothing, OfConn(c)) = 0
      <4>1. Total(R, Nothing, OfConn(c)) = Total(S, Nothing, OfConn(c)) BY <1>4
      <4>2. CASE c \in HeldConns(S)
        <5>1. S.conn[c] = NoConn BY <3>1, <3>3, <4>2
        <5> QED BY <2>1, <4>1, <5>1 DEF Links
      <4>3. CASE c \notin HeldConns(S)
        <5>1. UnderWay(S, Nothing) \cap OfConn(c) = {} BY <1>1, <4>3, HeldFacts
        <5> QED BY <1>1, <4>1, <5>1, TotalFacts
      <4> QED BY <4>2, <4>3
    <3>4. IsInjective(R.conns) BY <1>2, <2>1 DEF Reaped, Links
    <3> QED BY <3>2, <3>3, <3>4 DEF Links
  <2> QED BY <1>1, <2>1 DEF Linked
<1>10. Known(R, States(R), {}, Ad)
  <2>1. R.tasks = S.tasks /\ R.batch = S.batch /\ States(R) = States(S)
    BY <1>2 DEF Reaped, States
  <2> QED BY <1>1, <2>1, KnownSame
<1> QED BY <1>3, <1>7, <1>8, <1>9, <1>10 DEF Settled, Good, Typed

-----------------------------------------------------------------------------
(* download_files. *)

LEMMA SetToSeqFacts ==
    ASSUME NEW X, NEW M \in SUBSET X, IsFiniteSet(M), NEW s, s = SetToSeq(M)
    PROVE  s \in Seq(X) /\ IsInjective(s) /\ ToSet(s) = M
<1>1. PICK n : n = Cardinality(M)
  OBVIOUS
<1>2. n \in Nat /\ ExistsBijection(1 .. n, M) BY <1>1, FS_CardinalityType
<1>3. PICK f \in Bijection(1 .. n, M) : TRUE BY <1>2 DEF ExistsBijection
<1>4. f \in [1 .. n -> M] /\ \A i, j \in 1 .. n : f[i] = f[j] => i = j
  BY <1>3 DEF Bijection, Injection, IsInjective
<1>5. IsInjective(f) BY <1>4 DEF IsInjective
<1>6. s \in [1 .. n -> M] /\ IsInjective(s)
  <2>1. \E g \in [1 .. n -> M] : IsInjective(g) BY <1>4, <1>5
  <2>2. s = CHOOSE g \in [1 .. n -> M] : IsInjective(g) BY <1>1 DEF SetToSeq
  <2> QED BY <2>1, <2>2
<1>7. s \in Seq(X) /\ DOMAIN s = 1 .. n BY <1>2, <1>6
<1>8. \A i, j \in 1 .. n : s[i] = s[j] => i = j BY <1>6, <1>7 DEF IsInjective
<1>9. s \in Injection(1 .. n, M) BY <1>6, <1>8 DEF Injection
<1>10. Cardinality(1 .. n) = n
  <2>1. 1 \in Int /\ n \in Int BY <1>2
  <2> QED BY <1>2, <2>1, FS_Interval
<1>11. s \in Surjection(1 .. n, M) BY <1>1, <1>9, <1>10, FS_Injection
<1>12. ToSet(s) = M BY <1>6, <1>7, <1>11 DEF Surjection, ToSet
<1> QED BY <1>6, <1>7, <1>12

LEMMA ReverseFacts ==
    ASSUME NEW X, NEW s \in Seq(X), NEW r, r = Reverse(s)
    PROVE  /\ r \in Seq(X) /\ ToSet(r) = ToSet(s)
           /\ IsInjective(s) => IsInjective(r)
<1>1. PICK n : n = Len(s)
  OBVIOUS
<1>2. n \in Nat /\ DOMAIN s = 1 .. n BY <1>1
<1>3. r = [i \in 1 .. n |-> s[(n - i) + 1]] BY <1>1 DEF Reverse
<1>4. ASSUME NEW i \in 1 .. n PROVE (n - i) + 1 \in 1 .. n /\ r[i] = s[(n - i) + 1]
  BY <1>2, <1>3
<1>5. r \in Seq(X) /\ DOMAIN r = 1 .. n
  <2>1. \A i \in 1 .. n : r[i] \in X BY <1>1, <1>4
  <2> QED BY <1>2, <1>3, <2>1
<1>6. ToSet(r) = ToSet(s)
  <2>1. ASSUME NEW i \in 1 .. n PROVE \E j \in 1 .. n : s[i] = r[j]
    <3>1. (n - i) + 1 \in 1 .. n /\ (n - ((n - i) + 1)) + 1 = i BY <1>2
    <3> QED BY <1>4, <3>1
  <2>2. ASSUME NEW i \in 1 .. n PROVE \E j \in 1 .. n : r[i] = s[j]
    BY <1>4
  <2>3. ToSet(s) = {s[i] : i \in 1 .. n} /\ ToSet(r) = {r[i] : i \in 1 .. n}
    BY <1>2, <1>5 DEF ToSet
  <2> QED BY <2>1, <2>2, <2>3
<1>7. ASSUME IsInjective(s) PROVE IsInjective(r)
  <2>1. \A i, j \in 1 .. n : s[i] = s[j] => i = j BY <1>2, <1>7 DEF IsInjective
  <2>2. ASSUME NEW i \in 1 .. n, NEW j \in 1 .. n, r[i] = r[j] PROVE i = j
    <3>1. (n - i) + 1 = (n - j) + 1 BY <1>4, <2>1, <2>2
    <3> QED BY <1>2, <3>1
  <2> QED BY <1>5, <2>2 DEF IsInjective
<1> QED BY <1>5, <1>6, <1>7

\* A new task has everything still to be asked for.
LEMMA NewTaskFacts ==
    ASSUME EngineAssumption, NEW t \in Tasks, NEW r, r = NewTask(t)
    PROVE  /\ r \in TaskRecords /\ r.st = "queued" /\ r.nact = 0
           /\ r.decoded = {} /\ r.missing = {}
           /\ IsInjective(r.articles) /\ ToSet(r.articles) = Article(t)
<1>1. PICK a : a = [i \in Article(t) |-> i]
  OBVIOUS
<1>2. r = [NoTask EXCEPT !.articles = a] BY <1>1 DEF NewTask
<1>3. PICK n : n = NumArticles[t]
  OBVIOUS
<1>4. n \in Nat /\ Article(t) = 1 .. n BY <1>3 DEF EngineAssumption, Article
<1>5. a \in Seq(Nat) /\ DOMAIN a = 1 .. n /\ \A i \in 1 .. n : a[i] = i
  BY <1>1, <1>4
<1>6. IsInjective(a) /\ ToSet(a) = 1 .. n BY <1>5 DEF IsInjective, ToSet
<1>7. /\ r \in TaskRecords /\ r.st = NoTask.st /\ r.nact = NoTask.nact
      /\ r.decoded = NoTask.decoded /\ r.missing = NoTask.missing /\ r.articles = a
  <2>1. NoTask \in TaskRecords BY NoTaskType
  <2> QED BY <1>2, <1>5, <2>1 DEF TaskRecords
<1> QED BY <1>4, <1>6, <1>7, NoTaskType

\* A new batch has all its tasks, M, queued.
LEMMA NewBatchFacts ==
    ASSUME NEW M, IsFiniteSet(M), NEW kn, \A t \in M : kn[t] = "queued",
           NEW B, B = NewBatch(M)
    PROVE  B \in BatchRecords /\ B.live /\ CountsAs(B, M, kn)
<1>1. PICK n : n = Cardinality(M)
  OBVIOUS
<1>2. PICK f : f = [s \in TaskStates |-> 0]
  OBVIOUS
<1>3. PICK e : e = [f EXCEPT !["queued"] = n]
  OBVIOUS
<1>4. n \in Nat /\ "queued" \in TaskStates BY <1>1, FS_CardinalityType DEF TaskStates
<1>5. e \in [TaskStates -> Int] /\ \A s \in TaskStates : e[s] = IF s = "queued" THEN n ELSE 0
  BY <1>2, <1>3, <1>4
<1>6. B = [live |-> TRUE, st |-> "queued", num_tasks |-> n, statesets |-> e, told |-> 0]
  BY <1>1, <1>2, <1>3 DEF NewBatch, NoBatch
<1>7. B \in BatchRecords BY <1>4, <1>5, <1>6 DEF BatchRecords
<1>8. ASSUME NEW s \in TaskStates PROVE B.statesets[s] = Cardinality({t \in M : kn[t] = s})
  <2>1. CASE s = "queued"
    <3>1. {t \in M : kn[t] = s} = M BY <2>1
    <3> QED BY <1>1, <1>5, <1>6, <2>1, <3>1
  <2>2. CASE s # "queued"
    <3>1. {t \in M : kn[t] = s} = {} BY <2>2
    <3> QED BY <1>5, <1>6, <2>2, <3>1, FS_EmptySet
  <2> QED BY <2>1, <2>2
<1> QED BY <1>1, <1>6, <1>7, <1>8 DEF CountsAs

\* The user submits batch b.
WithBatchOf(S, b, priority) ==
    LET T == SetToSeq({t \in Tasks : BatchOf[t] = b})
    IN  [S EXCEPT
           !.tasks = IF priority THEN Reverse(T) \o @ ELSE @ \o T,
           !.task = [t \in Tasks |-> IF BatchOf[t] = b THEN NewTask(t) ELSE @[t]],
           !.batch[b] = NewBatch(ToSet(T)),
           !.num_pending_tasks = @ + Len(T)]
Enlarged(S, T, b) ==
    /\ T \in EngineStates
    /\ Live(T) = Live(S) \cup {t \in Tasks : BatchOf[t] = b}
    /\ IsInjective(S.tasks) /\ Mine(S, b) = {} => IsInjective(T.tasks)
    /\ \A t \in Tasks : T.task[t] = IF BatchOf[t] = b THEN NewTask(t) ELSE S.task[t]
    /\ T.batch[b] = NewBatch({t \in Tasks : BatchOf[t] = b})
    /\ \A d \in Batches : d # b => T.batch[d] = S.batch[d]
    /\ T.cmds = S.cmds /\ T.cl = S.cl /\ T.conns = S.conns /\ T.conn = S.conn
    /\ T.queue = S.queue /\ T.jobs = S.jobs /\ T.done = S.done
    /\ T.num_pending_actions = S.num_pending_actions
LEMMA EnlargedFacts ==
    ASSUME EngineAssumption, NEW S \in EngineStates, NEW b \in Batches, NEW priority \in BOOLEAN,
           NEW T, T = WithBatchOf(S, b, priority)
    PROVE  Enlarged(S, T, b)
<1>1. PICK M : M = {t \in Tasks : BatchOf[t] = b}
  OBVIOUS
<1>2. M \in SUBSET Tasks /\ IsFiniteSet(M) BY <1>1, FS_Subset DEF EngineAssumption
<1>3. PICK s : s = SetToSeq(M)
  OBVIOUS
<1>4. s \in Seq(Tasks) /\ IsInjective(s) /\ ToSet(s) = M BY <1>2, <1>3, SetToSeqFacts
<1>5. PICK r : r = Reverse(s)
  OBVIOUS
<1>6. r \in Seq(Tasks) /\ IsInjective(r) /\ ToSet(r) = M BY <1>4, <1>5, ReverseFacts
<1>7. PICK u : u = IF priority THEN r \o S.tasks ELSE S.tasks \o s
  OBVIOUS
<1>8. S.tasks \in Seq(Tasks) /\ S.task \in [Tasks -> TaskRecords] /\ S.batch \in [Batches -> BatchRecords]
      /\ S.num_pending_tasks \in Int
  BY DEF EngineStates
<1>9. /\ u \in Seq(Tasks) /\ ToSet(u) = Live(S) \cup M
      /\ IsInjective(S.tasks) /\ Live(S) \cap M = {} => IsInjective(u)
  <2>1. /\ \A x \in Seq(Tasks) : ToSet(x) = Range(x) BY ContainsFacts
  <2>2. CASE priority
    <3>1. u = r \o S.tasks BY <1>7, <2>2
    <3>2. /\ u \in Seq(Tasks) /\ Range(u) = Range(r) \cup Range(S.tasks)
          /\ IsInjective(u) <=> IsInjective(r) /\ IsInjective(S.tasks) /\ Range(r) \cap Range(S.tasks) = {}
      BY <1>6, <1>8, <3>1, ConcatFacts
    <3> QED BY <1>6, <1>8, <2>1, <3>2 DEF Live
  <2>3. CASE ~priority
    <3>1. u = S.tasks \o s BY <1>7, <2>3
    <3>2. /\ u \in Seq(Tasks) /\ Range(u) = Range(S.tasks) \cup Range(s)
          /\ IsInjective(u) <=> IsInjective(S.tasks) /\ IsInjective(s) /\ Range(S.tasks) \cap Range(s) = {}
      BY <1>4, <1>8, <3>1, ConcatFacts
    <3> QED BY <1>4, <1>8, <2>1, <3>2 DEF Live
  <2> QED BY <2>2, <2>3
<1>10. PICK f : f = [t \in Tasks |-> IF BatchOf[t] = b THEN NewTask(t) ELSE S.task[t]]
  OBVIOUS
<1>11. f \in [Tasks -> TaskRecords] BY <1>8, <1>10, NewTaskFacts
<1>12. PICK B : B = NewBatch(M)
  OBVIOUS
<1>13. B \in BatchRecords
  <2>1. PICK kn : kn = [t \in M |-> "queued"]
    OBVIOUS
  <2>2. \A t \in M : kn[t] = "queued" BY <2>1
  <2>3. B \in BatchRecords /\ B.live /\ CountsAs(B, M, kn) BY <1>2, <1>12, <2>2, NewBatchFacts
  <2> QED BY <2>3
<1>14. PICK e, n : e = [S.batch EXCEPT ![b] = B] /\ n = S.num_pending_tasks + Len(s)
  OBVIOUS
<1>15. e \in [Batches -> BatchRecords] /\ n \in Int /\ e[b] = B /\ \A d \in Batches : d # b => e[d] = S.batch[d]
  BY <1>4, <1>8, <1>13, <1>14
<1>16. T = [S EXCEPT !.tasks = u, !.task = f, !.batch = e, !.num_pending_tasks = n]
  BY <1>1, <1>3, <1>4, <1>5, <1>7, <1>10, <1>12, <1>14 DEF WithBatchOf, EngineStates
<1>17. T \in EngineStates /\ T.tasks = u /\ T.task = f /\ T.batch = e
  BY <1>9, <1>11, <1>15, <1>16, ZenonT(60) DEF EngineStates
<1>18. Live(T) = Live(S) \cup M BY <1>9, <1>17 DEF Live
<1>19. IsInjective(S.tasks) /\ Mine(S, b) = {} => IsInjective(T.tasks)
  <2>1. Mine(S, b) = Live(S) \cap M BY <1>1, MineFacts DEF Mine
  <2> QED BY <1>9, <1>17, <2>1
<1>20. \A t \in Tasks : T.task[t] = IF BatchOf[t] = b THEN NewTask(t) ELSE S.task[t]
  BY <1>10, <1>17
<1> QED BY <1>1, <1>12, <1>15, <1>16, <1>17, <1>18, <1>19, <1>20 DEF Enlarged, EngineStates

-----------------------------------------------------------------------------
LEMMA EnlargedKeeps ==
    ASSUME EngineAssumption, NEW S, NEW h, NEW g, NEW Ad, Settled(S, h, g, Ad),
           NEW b \in Batches, b \notin Ad, NEW T, Enlarged(S, T, b)
    PROVE  Settled(T, h, g, Ad \cup {b})
<1>1. S \in EngineStates /\ T \in EngineStates /\ Work(S, h, Ad) /\ Owned(S) /\ Linked(S, g)
      /\ IsFiniteSet(S.jobs) /\ IsFiniteSet(T.jobs) /\ Known(S, States(S), {}, Ad)
      /\ Live(S) \subseteq Tasks
  BY MineFacts DEF Settled, Good, Typed, Enlarged
<1>2. PICK M : M = {t \in Tasks : BatchOf[t] = b}
  OBVIOUS
<1>3. Live(T) = Live(S) \cup M /\ M \subseteq Tasks BY <1>2 DEF Enlarged
<1>4. ASSUME NEW t \in M
      PROVE  /\ t \in Tasks /\ t \notin Live(S) /\ Total(S, h, OfTask(t)) = 0
             /\ \A i \in Nat, w \in JobKinds : Total(S, h, JobsOf(t, i, w)) = 0
             /\ \A k \in CmdIds : S.cl[k].task # t
             /\ T.task[t] = NewTask(t)
  <2>1. t \in Tasks /\ BatchOf[t] = b BY <1>2
  <2>2. BatchOf[t] \notin Ad BY <2>1
  <2> QED BY <1>1, <2>1, <2>2 DEF Work, Unknown, Enlarged
<1>5. ASSUME NEW t \in Tasks, t \notin M PROVE T.task[t] = S.task[t]
  BY <1>2, <1>5 DEF Enlarged
<1>6. ASSUME NEW f, NEW P PROVE Total(T, f, P) = Total(S, f, P)
  <2>1. T.queue = S.queue /\ T.jobs = S.jobs /\ T.done = S.done BY DEF Enlarged
  <2> QED BY <2>1, TotalSame
<1>7. T.cl = S.cl /\ T.cmds = S.cmds /\ T.num_pending_actions = S.num_pending_actions
      /\ T.conns = S.conns /\ T.conn = S.conn /\ T.queue = S.queue /\ T.done = S.done
  BY DEF Enlarged
<1>8. ASSUME NEW t \in M
      PROVE  /\ T.task[t].st = "queued" /\ T.task[t].nact = 0
             /\ T.task[t].decoded = {} /\ T.task[t].missing = {}
             /\ IsInjective(T.task[t].articles) /\ ToSet(T.task[t].articles) = Article(t)
  <2>1. t \in Tasks /\ T.task[t] = NewTask(t) BY <1>4
  <2>2. PICK r : r = T.task[t]
    OBVIOUS
  <2>3. /\ r \in TaskRecords /\ r.st = "queued" /\ r.nact = 0
        /\ r.decoded = {} /\ r.missing = {}
        /\ IsInjective(r.articles) /\ ToSet(r.articles) = Article(t)
    BY <2>1, <2>2, NewTaskFacts
  <2> QED BY <2>2, <2>3
<1>9. Owned(T)
  <2>1. ASSUME NEW t \in Tasks
        PROVE  /\ ToSet(T.task[t].articles) \subseteq Article(t)
               /\ T.task[t].decoded \subseteq Article(t) /\ T.task[t].missing \subseteq Article(t)
    <3>1. CASE t \in M BY <1>8, <3>1
    <3>2. CASE t \notin M BY <1>1, <1>5, <3>2 DEF Owned
    <3> QED BY <3>1, <3>2
  <2> QED BY <1>1, <1>7, <2>1 DEF Owned
<1>10. Counted(T, h)
  <2>1. T.num_pending_actions = Total(T, h, Action)
    <3>1. S.num_pending_actions = Total(S, h, Action) BY <1>1 DEF Work, Counted
    <3> QED BY <1>6, <1>7, <3>1
  <2>2. ASSUME NEW t \in Live(T) PROVE T.task[t].nact = Total(T, h, OfTask(t))
    <3>0. Total(T, h, OfTask(t)) = Total(S, h, OfTask(t)) BY <1>6
    <3>1. CASE t \in M BY <1>4, <1>8, <3>0, <3>1
    <3>2. CASE t \notin M
      <4>1. t \in Live(S) /\ t \in Tasks BY <1>1, <1>3, <3>2
      <4>2. S.task[t].nact = Total(S, h, OfTask(t)) BY <1>1, <4>1 DEF Work, Counted
      <4> QED BY <1>5, <3>0, <3>2, <4>1, <4>2
    <3> QED BY <3>1, <3>2
  <2>3. ASSUME NEW t \in Tasks, t \notin Live(T) PROVE T.task[t].nact = 0
    <3>1. t \notin M /\ t \notin Live(S) BY <1>3, <2>3
    <3> QED BY <1>1, <1>5, <3>1 DEF Work, Counted
  <2> QED BY <2>1, <2>2, <2>3 DEF Counted
<1>11. DecodedOnce(T, h)
  <2>1. ASSUME NEW t \in Tasks, NEW i \in Nat, NEW w \in {"binary", "text"}
        PROVE  Total(T, h, JobsOf(t, i, "decode")) + Total(T, h, JobsOf(t, i, w)) <= 1
    <3>1. Total(S, h, JobsOf(t, i, "decode")) + Total(S, h, JobsOf(t, i, w)) <= 1
      BY <1>1 DEF Work, DecodedOnce
    <3>2. /\ Total(T, h, JobsOf(t, i, "decode")) = Total(S, h, JobsOf(t, i, "decode"))
          /\ Total(T, h, JobsOf(t, i, w)) = Total(S, h, JobsOf(t, i, w))
      BY <1>6
    <3> QED BY <3>1, <3>2
  <2>2. ASSUME NEW t \in Live(T), NEW i \in Nat, NEW w \in JobKinds, Total(T, h, JobsOf(t, i, w)) # 0
        PROVE  i \in T.task[t].decoded
    <3>1. Total(S, h, JobsOf(t, i, w)) # 0 BY <1>6, <2>2
    <3>2. t \notin M BY <1>4, <3>1
    <3>3. t \in Live(S) /\ t \in Tasks BY <1>1, <1>3, <3>2
    <3>4. i \in S.task[t].decoded BY <1>1, <3>1, <3>3 DEF Work, DecodedOnce
    <3> QED BY <1>5, <3>2, <3>3, <3>4
  <2> QED BY <2>1, <2>2 DEF DecodedOnce
<1>12. ExecutedOnce(T, h)
  <2>1. ASSUME NEW k \in CmdIds
        PROVE  /\ Total(T, h, Execs(k)) <= 1
               /\ Total(T, h, Execs(k)) # 0 => T.cl[k].conn # 0 /\ T.cl[k].task # 0
               /\ \A t \in Tasks : t # T.cl[k].task => Total(T, h, ExecsFor(k, t)) = 0
    <3>1. Total(T, h, Execs(k)) = Total(S, h, Execs(k)) BY <1>6
    <3>2. \A t \in Tasks : Total(T, h, ExecsFor(k, t)) = Total(S, h, ExecsFor(k, t)) BY <1>6
    <3> QED BY <1>1, <1>7, <3>1, <3>2 DEF Work, ExecutedOnce
  <2>2. \A k \in ToSet(T.cmds) : T.cl[k].task # 0 BY <1>1, <1>7 DEF Work, ExecutedOnce
  <2> QED BY <2>1, <2>2 DEF ExecutedOnce
<1>13. Claimed(T, h)
  <2>1. ASSUME NEW k \in Out(T, h)
        PROVE  k \in Out(S, h) /\ k \in CmdIds /\ S.cl[k].task \notin M
               /\ (T.cl[k].task \in Live(T) => S.cl[k].task \in Live(S) /\ S.cl[k].task \in Tasks)
    <3>1. k \in CmdIds BY DEF Out
    <3>2. Total(T, h, Execs(k)) = Total(S, h, Execs(k)) BY <1>6
    <3>3. k \in Out(S, h) BY <1>7, <3>1, <3>2 DEF Out
    <3>4. S.cl[k].task \notin M BY <1>4, <3>1
    <3> QED BY <1>1, <1>3, <1>7, <3>1, <3>3, <3>4
  <2>2. ASSUME NEW t \in Live(T)
        PROVE  /\ IsInjective(T.task[t].articles)
               /\ ToSet(T.task[t].articles) \cap T.task[t].decoded = {}
    <3>1. CASE t \in M BY <1>8, <3>1
    <3>2. CASE t \notin M
      <4>1. t \in Live(S) /\ t \in Tasks BY <1>1, <1>3, <3>2
      <4>2. /\ IsInjective(S.task[t].articles)
            /\ ToSet(S.task[t].articles) \cap S.task[t].decoded = {}
        BY <1>1, <4>1 DEF Work, Claimed
      <4> QED BY <1>5, <3>2, <4>1, <4>2
    <3> QED BY <3>1, <3>2
  <2>3. ASSUME NEW k \in Out(T, h) PROVE Claim(T, k)
    <3>1. Claim(S, k) BY <1>1, <2>1 DEF Work, Claimed
    <3>2. ASSUME T.cl[k].task \in Live(T)
          PROVE  S.cl[k].task \in Live(S) /\ T.task[S.cl[k].task] = S.task[S.cl[k].task]
      BY <1>5, <2>1, <3>2
    <3> QED BY <1>7, <3>1, <3>2 DEF Claim, Claims
  <2>4. ASSUME NEW k \in Out(T, h), NEW l \in Out(T, h), k # l PROVE Apart(T, k, l)
    <3>1. Apart(S, k, l) BY <1>1, <2>1, <2>4 DEF Work, Claimed
    <3> QED BY <1>7, <2>1, <3>1 DEF Apart, Claims
  <2> QED BY <2>2, <2>3, <2>4 DEF Claimed
<1>14. Unknown(T, h, Ad \cup {b})
  <2> SUFFICES ASSUME NEW t \in Tasks, BatchOf[t] \notin Ad \cup {b}
               PROVE  /\ t \notin Live(T)
                      /\ Total(T, h, OfTask(t)) = 0
                      /\ \A i \in Nat, w \in JobKinds : Total(T, h, JobsOf(t, i, w)) = 0
                      /\ \A k \in CmdIds : T.cl[k].task # t
    BY DEF Unknown
  <2>1. /\ t \notin Live(S) /\ Total(S, h, OfTask(t)) = 0
        /\ \A i \in Nat, w \in JobKinds : Total(S, h, JobsOf(t, i, w)) = 0
        /\ \A k \in CmdIds : S.cl[k].task # t
    BY <1>1 DEF Work, Unknown
  <2>2. t \notin M BY <1>2
  <2>3. Total(T, h, OfTask(t)) = 0 BY <1>6, <2>1
  <2>4. ASSUME NEW i \in Nat, NEW w \in JobKinds PROVE Total(T, h, JobsOf(t, i, w)) = 0
    BY <1>6, <2>1
  <2> QED BY <1>3, <1>7, <2>1, <2>2, <2>3, <2>4
<1>15. Linked(T, g)
  <2>1. ASSUME Links(S, g) PROVE Links(T, g) BY <1>1, <1>7, <2>1, LinksSame
  <2> QED BY <1>1, <2>1 DEF Linked
<1>16. Known(T, States(T), {}, Ad \cup {b})
  <2>1. Mine(S, b) = {}
    <3>1. ASSUME NEW t \in Live(S), BatchOf[t] = b PROVE FALSE
      <4>1. t \in Tasks BY <1>1, <3>1
      <4>2. t \in M BY <1>2, <3>1, <4>1
      <4> QED BY <1>4, <3>1, <4>2
    <3> QED BY <3>1 DEF Mine
  <2>2. IsInjective(T.tasks) BY <1>1, <2>1 DEF Enlarged, Known
  <2>3. T.batch[b].live /\ CountsAs(T.batch[b], M, States(T))
    <3>1. PICK B, kn : B = NewBatch(M) /\ kn = States(T)
      OBVIOUS
    <3>2. \A t \in M : kn[t] = "queued" BY <1>3, <1>8, <3>1 DEF States
    <3>3. IsFiniteSet(M) BY <1>3, FS_Subset DEF EngineAssumption
    <3>4. B \in BatchRecords /\ B.live /\ CountsAs(B, M, kn) BY <3>1, <3>2, <3>3, NewBatchFacts
    <3> QED BY <1>2, <3>1, <3>4 DEF Enlarged
  <2>4. Mine(T, b) = M BY <1>2, <1>3, <2>1 DEF Mine
  <2>5. ASSUME NEW d \in Batches, d # b
        PROVE  /\ T.batch[d] = S.batch[d] /\ Mine(T, d) = Mine(S, d)
               /\ \A t \in Mine(S, d) : States(T)[t] = States(S)[t]
    <3>1. T.batch[d] = S.batch[d] BY <2>5 DEF Enlarged
    <3>2. Mine(T, d) = Mine(S, d) BY <1>2, <1>3, <2>5 DEF Mine
    <3>3. ASSUME NEW t \in Mine(S, d) PROVE States(T)[t] = States(S)[t]
      <4>1. t \in Tasks /\ t \notin M BY <1>1, <1>2, <2>5, <3>3 DEF Mine
      <4> QED BY <1>5, <4>1 DEF States
    <3> QED BY <3>1, <3>2, <3>3
  <2>6. ASSUME NEW t \in Live(T) PROVE T.batch[BatchOf[t]].live
    <3>1. CASE t \in M BY <1>2, <2>3, <3>1
    <3>2. CASE t \notin M
      <4>1. t \in Live(S) /\ t \in Tasks BY <1>1, <1>3, <3>2
      <4>2. BatchOf[t] \in Batches /\ BatchOf[t] # b BY <1>2, <3>2, <4>1 DEF EngineAssumption
      <4>3. S.batch[BatchOf[t]].live BY <1>1, <4>1 DEF Known
      <4> QED BY <2>5, <4>2, <4>3
    <3> QED BY <3>1, <3>2
  <2>7. ASSUME NEW d \in Batches
        PROVE  /\ ~T.batch[d].live => T.batch[d] = NoBatch
               /\ T.batch[d].live => d \in Ad \cup {b} /\ CountsAs(T.batch[d], Mine(T, d), States(T))
    <3>1. CASE d = b BY <2>3, <2>4, <3>1
    <3>2. CASE d # b
      <4>1. /\ ~S.batch[d].live => S.batch[d] = NoBatch
            /\ S.batch[d].live => d \in Ad /\ CountsAs(S.batch[d], Mine(S, d), States(S))
        BY <1>1 DEF Known
      <4>2. /\ T.batch[d] = S.batch[d] /\ Mine(T, d) = Mine(S, d)
            /\ \A t \in Mine(S, d) : States(T)[t] = States(S)[t]
        BY <2>5, <3>2
      <4>3. ASSUME NEW s PROVE {t \in Mine(S, d) : States(T)[t] = s} = {t \in Mine(S, d) : States(S)[t] = s}
        BY <4>2
      <4>4. ASSUME S.batch[d].live PROVE CountsAs(S.batch[d], Mine(S, d), States(T))
        BY <4>1, <4>3, <4>4 DEF CountsAs
      <4> QED BY <4>1, <4>2, <4>4
    <3> QED BY <3>1, <3>2
  <2> QED BY <2>2, <2>6, <2>7 DEF Known
<1> QED BY <1>1, <1>9, <1>10, <1>11, <1>12, <1>13, <1>14, <1>15, <1>16 DEF Settled, Good, Typed, Work

-----------------------------------------------------------------------------
(* The threads. *)

\* All that the invariant counts.
Counts ==
    Watched \cup {Action} \cup {OfConn(c) : c \in ConnIds}
      \cup {KindOn(c, kind) : c \in ConnIds, kind \in ConnKinds}

LEMMA CountsFacts ==
    /\ Watched \subseteq Counts /\ Action \in Counts
    /\ \A c \in ConnIds : OfConn(c) \in Counts
    /\ \A c \in ConnIds : \A kind \in ConnKinds : KindOn(c, kind) \in Counts
BY DEF Counts

\* Only how far an action has come, and how it ended, differ.
Alters(a, e) ==
    /\ a \in Action /\ e \in Action
    /\ e.kind = a.kind /\ e.conn = a.conn /\ e.task = a.task /\ e.cl = a.cl
    /\ e.article = a.article

LEMMA AltersSame ==
    ASSUME NEW a, NEW e, Alters(a, e)
    PROVE  \A P \in Counts : (e \in P <=> a \in P) /\ One(e, P) = One(a, P)
<1>1. ASSUME NEW P \in Watched PROVE e \in P <=> a \in P
  BY <1>1 DEF Alters, Watched, Execs, ExecsFor, OfTask, JobsOf
<1>2. ASSUME NEW P \in Counts PROVE e \in P <=> a \in P
  BY <1>1, <1>2 DEF Alters, Counts, OfConn, KindOn
<1> QED BY <1>2 DEF One

Results == {"none", "network", "rejected", "reset", "failed"}

LEMMA EndedFacts ==
    ASSUME NEW exc \in Results
    PROVE  /\ \A a \in ConnActions : Alters(a, Ended(a, exc)) /\ Ended(a, exc) \in ConnActions
           /\ \A a \in JobActions : Alters(a, Ended(a, exc)) /\ Ended(a, exc) \in JobActions
<1>1. ASSUME NEW a \in Action PROVE Alters(a, Ended(a, exc))
  BY DEF Alters, Ended, Action, Results
<1> QED BY <1>1 DEF Alters, ConnActions, JobActions

\* What a thread does to a cmdlist.
Filled(C, D) ==
    /\ D.task = C.task /\ D.account = C.account /\ D.conn = C.conn
    /\ D.commands = C.commands
    /\ Len(C.buffers) <= Len(C.commands) => Len(D.buffers) <= Len(D.commands)

\* What a thread leaves alone, and pump taking an action in its hand.
ThreadFrame(S, T) ==
    /\ T.tasks = S.tasks /\ T.task = S.task /\ T.batch = S.batch /\ T.cmds = S.cmds
    /\ T.conns = S.conns /\ T.conn = S.conn
    /\ T.num_pending_actions = S.num_pending_actions
    /\ \A k \in CmdIds : Filled(S.cl[k], T.cl[k])
SameTotals(S, h, T, f) == \A P \in Counts : Total(T, f, P) = Total(S, h, P)

LEMMA MovedKeeps ==
    ASSUME EngineAssumption, NEW S, NEW h, NEW Ad, Settled(S, h, h, Ad), NEW f,
           NEW T \in EngineStates, IsFiniteSet(T.jobs), ThreadFrame(S, T), SameTotals(S, h, T, f)
    PROVE  Settled(T, f, f, Ad)
<1>1. S \in EngineStates /\ Work(S, h, Ad) /\ Owned(S) /\ Linked(S, h)
      /\ IsFiniteSet(S.jobs) /\ Known(S, States(S), {}, Ad)
  BY DEF Settled, Good, Typed
<1>2. Eased(S, h, T, f)
  <2>1. T.tasks = S.tasks /\ T.task = S.task /\ T.cmds = S.cmds /\ Live(T) = Live(S)
        /\ T.num_pending_actions = S.num_pending_actions
    BY DEF ThreadFrame, Live
  <2>2. \A k \in CmdIds : /\ T.cl[k].task = S.cl[k].task /\ T.cl[k].conn = S.cl[k].conn
                          /\ T.cl[k].commands = S.cl[k].commands
    BY DEF ThreadFrame, Filled
  <2>3. \A P \in Watched : Total(T, f, P) = Total(S, h, P)
    BY CountsFacts DEF SameTotals
  <2>4. T.num_pending_actions - S.num_pending_actions
          = Total(T, f, Action) - Total(S, h, Action)
    <3>1. Total(T, f, Action) = Total(S, h, Action) BY CountsFacts DEF SameTotals
    <3>2. S.num_pending_actions \in Int BY <1>1 DEF EngineStates
    <3>3. Total(S, h, Action) = S.num_pending_actions BY <1>1 DEF Work, Counted
    <3> QED BY <2>1, <3>1, <3>2, <3>3
  <2> QED BY <2>1, <2>2, <2>3, <2>4 DEF Eased
<1>3. Work(T, f, Ad) BY <1>1, <1>2, EasedKeeps
<1>4. Owned(T)
  <2>1. ASSUME NEW k \in CmdIds
        PROVE  /\ Len(T.cl[k].buffers) <= Len(T.cl[k].commands)
               /\ T.cl[k].task # 0 => /\ T.cl[k].account # 0
                                      /\ ToSet(T.cl[k].commands) \subseteq Article(T.cl[k].task)
    BY <1>1 DEF Owned, ThreadFrame, Filled
  <2> QED BY <1>1, <2>1 DEF Owned, ThreadFrame
<1>5. Linked(T, f)
  <2>1. ASSUME Links(S, h) PROVE Links(T, f)
    <3>1. ASSUME NEW c \in ConnIds
          PROVE  /\ Total(T, f, OfConn(c)) = Total(S, h, OfConn(c))
                 /\ \A kind \in ConnKinds :
                      Total(T, f, KindOn(c, kind)) = Total(S, h, KindOn(c, kind))
      BY CountsFacts DEF SameTotals
    <3>2. T.conns = S.conns /\ T.conn = S.conn BY DEF ThreadFrame
    <3>3. ASSUME NEW c \in ToSet(T.conns) PROVE LinkedAt(T, f, c)
      <4>1. c \in ToSet(S.conns) /\ c \in ConnIds
        BY <1>1, <3>2, ContainsFacts DEF EngineStates
      <4>2. LinkedAt(S, h, c) BY <2>1, <4>1 DEF Links
      <4> QED BY <3>1, <3>2, <4>1, <4>2 DEF LinkedAt
    <3> QED BY <2>1, <3>1, <3>2, <3>3 DEF Links
  <2> QED BY <1>1, <2>1 DEF Linked
<1>6. Known(T, States(T), {}, Ad)
  <2>1. T.tasks = S.tasks /\ T.batch = S.batch /\ States(T) = States(S)
    BY DEF ThreadFrame, States
  <2> QED BY <1>1, <2>1, KnownSame
<1> QED BY <1>3, <1>4, <1>5, <1>6 DEF Settled, Good, Typed

\* The action at the head of connection c's queue ends, or a job does.
ConnEnds(S, T, c, exc) ==
    /\ T.started = S.started /\ T.num_pending_tasks = S.num_pending_tasks
    /\ T.cl \in [CmdIds -> CmdRecords]
    /\ S.queue[c] # <<>> /\ T.queue = [S.queue EXCEPT ![c] = Tail(S.queue[c])]
    /\ T.jobs = S.jobs /\ T.done = Append(S.done, Ended(Head(S.queue[c]), exc))
JobEnds(S, T, a, exc) ==
    /\ T.started = S.started /\ T.num_pending_tasks = S.num_pending_tasks
    /\ T.cl = S.cl /\ T.queue = S.queue
    /\ T.jobs = S.jobs \ {a} /\ T.done = Append(S.done, Ended(a, exc))
\* An engine state has the fields it should.
Shaped(T) ==
    T = [started |-> T.started, tasks |-> T.tasks, task |-> T.task, batch |-> T.batch,
         cmds |-> T.cmds, cl |-> T.cl, conns |-> T.conns, conn |-> T.conn, queue |-> T.queue,
         jobs |-> T.jobs, done |-> T.done, num_pending_actions |-> T.num_pending_actions,
         num_pending_tasks |-> T.num_pending_tasks]

LEMMA ShapedType ==
    ASSUME NEW S \in EngineStates, NEW T, Shaped(T), ThreadFrame(S, T),
           T.started = S.started, T.num_pending_tasks = S.num_pending_tasks,
           T.cl \in [CmdIds -> CmdRecords], T.queue \in [ConnIds -> Seq(ConnActions)],
           T.jobs \in SUBSET JobActions, T.done \in Seq(ConnActions \cup JobActions)
    PROVE  T \in EngineStates
<1>1. /\ T.started \in BOOLEAN /\ T.tasks \in Seq(Tasks) /\ T.task \in [Tasks -> TaskRecords]
      /\ T.batch \in [Batches -> BatchRecords] /\ T.cmds \in Seq(CmdIds)
      /\ T.conns \in Seq(ConnIds) /\ T.conn \in [ConnIds -> ConnRecords]
      /\ T.num_pending_actions \in Int /\ T.num_pending_tasks \in Int
  BY DEF EngineStates, ThreadFrame
<1> QED BY <1>1 DEF EngineStates, Shaped

LEMMA ConnEndsKeeps ==
    ASSUME EngineAssumption, NEW S, NEW Ad, Settled(S, Nothing, Nothing, Ad), NEW c \in ConnIds,
           NEW exc \in Results, NEW T, Shaped(T), ThreadFrame(S, T), ConnEnds(S, T, c, exc)
    PROVE  Settled(T, Nothing, Nothing, Ad)
<1>1. S \in EngineStates /\ IsFiniteSet(S.jobs) /\ Countable(S)
  BY DEF Settled, Good, Typed, Countable, EngineStates
<1>2. PICK a, e : a = Head(S.queue[c]) /\ e = Ended(a, exc)
  OBVIOUS
<1>3. a \in ConnActions
  <2>1. S.queue[c] \in Seq(ConnActions) /\ S.queue[c] # <<>>
    BY <1>1 DEF ConnEnds, Countable
  <2> QED BY <1>2, <2>1
<1>4. Alters(a, e) /\ e \in ConnActions BY <1>2, <1>3, EndedFacts
<1>5. Ends(S, T, c, e)
  BY <1>2 DEF ConnEnds, Ends
<1>6. /\ Countable(T) /\ Head(S.queue[c]) \in ConnActions
      /\ \A h, P : One(e, P) = One(Head(S.queue[c]), P) => Total(T, h, P) = Total(S, h, P)
  BY <1>1, <1>4, <1>5, TotalEnds
<1>7. SameTotals(S, Nothing, T, Nothing)
  <2>1. ASSUME NEW P \in Counts PROVE Total(T, Nothing, P) = Total(S, Nothing, P)
    <3>1. One(e, P) = One(a, P) BY <1>4, AltersSame
    <3> QED BY <1>2, <1>6, <3>1
  <2> QED BY <2>1 DEF SameTotals
<1>8. T \in EngineStates BY <1>1, <1>6, ShapedType DEF Countable, ConnEnds
<1>9. IsFiniteSet(T.jobs) BY <1>6 DEF Countable
<1> QED BY <1>7, <1>8, <1>9, MovedKeeps

LEMMA JobEndsKeeps ==
    ASSUME EngineAssumption, NEW S, NEW Ad, Settled(S, Nothing, Nothing, Ad), NEW a \in S.jobs,
           NEW exc \in Results, NEW T, Shaped(T), ThreadFrame(S, T), JobEnds(S, T, a, exc)
    PROVE  Settled(T, Nothing, Nothing, Ad)
<1>1. S \in EngineStates /\ IsFiniteSet(S.jobs) /\ Countable(S)
  BY DEF Settled, Good, Typed, Countable, EngineStates
<1>2. PICK e : e = Ended(a, exc)
  OBVIOUS
<1>3. a \in JobActions BY <1>1 DEF Countable
<1>4. Alters(a, e) /\ e \in JobActions BY <1>2, <1>3, EndedFacts
<1>5. Finishes(S, T, a, e)
  BY <1>2 DEF JobEnds, Finishes
<1>6. /\ Countable(T)
      /\ \A h, P : One(e, P) = One(a, P) => Total(T, h, P) = Total(S, h, P)
  BY <1>1, <1>4, <1>5, TotalFinishes
<1>7. SameTotals(S, Nothing, T, Nothing)
  <2>1. ASSUME NEW P \in Counts PROVE Total(T, Nothing, P) = Total(S, Nothing, P)
    <3>1. One(e, P) = One(a, P) BY <1>4, AltersSame
    <3> QED BY <1>6, <3>1
  <2> QED BY <2>1 DEF SameTotals
<1>8. T.cl \in [CmdIds -> CmdRecords] BY <1>1 DEF EngineStates, JobEnds
<1>9. T \in EngineStates BY <1>1, <1>6, <1>8, ShapedType DEF Countable, JobEnds
<1>10. IsFiniteSet(T.jobs) BY <1>6 DEF Countable
<1> QED BY <1>7, <1>9, <1>10, MovedKeeps

\* An execute begins: its action is the first of connection c's queue.
Begun(Q, c) == [Q EXCEPT ![c][1].pc = "data"]

LEMMA BegunFacts ==
    ASSUME NEW Q \in [ConnIds -> Seq(ConnActions)], NEW c \in ConnIds, Q[c] # <<>>
    PROVE  /\ ChangesAt(Q, Begun(Q, c), c)
           /\ \A P \in Counts : Count(Begun(Q, c)[c], P) = Count(Q[c], P)
<1>1. PICK q, a, e, r : q = Q[c] /\ a = q[1] /\ e = [a EXCEPT !.pc = "data"]
                        /\ r = [q EXCEPT ![1] = e]
  OBVIOUS
<1>2. q \in Seq(ConnActions) /\ 1 \in 1 .. Len(q) /\ 1 \in DOMAIN q
  BY <1>1
<1>3. a \in ConnActions BY <1>1, <1>2
<1>4. e \in ConnActions /\ Alters(a, e)
  BY <1>1, <1>3 DEF Alters, ConnActions, Action
<1>5. r \in Seq(ConnActions) /\ Len(r) = Len(q) /\ DOMAIN r = DOMAIN q
      /\ r[1] = e /\ \A i \in DOMAIN q : i # 1 => r[i] = q[i]
  <2>0. Len(q) \in Nat /\ DOMAIN q = 1 .. Len(q) BY <1>2
  <2>1. r \in [1 .. Len(q) -> ConnActions] BY <1>1, <1>2, <1>4, <2>0
  <2>2. r \in Seq(ConnActions) /\ Len(r) = Len(q) BY ONLY <2>0, <2>1
  <2> QED BY <1>1, <1>2, <2>0, <2>1, <2>2
<1>6. Begun(Q, c) = [Q EXCEPT ![c] = r]
  BY <1>1 DEF Begun
<1>7. Begun(Q, c)[c] = r /\ \A d \in ConnIds : d # c => Begun(Q, c)[d] = Q[d]
  BY <1>6
<1>8. Begun(Q, c) \in [ConnIds -> Seq(ConnActions)]
  BY <1>5, <1>6
<1>9. ASSUME NEW P \in Counts PROVE Count(r, P) = Count(q, P)
  <2>1. e \in P <=> a \in P BY <1>4, AltersSame
  <2>2. \A i \in DOMAIN q : r[i] \in P <=> q[i] \in P BY <1>1, <1>5, <2>1
  <2>3. {i \in DOMAIN r : r[i] \in P} = {i \in DOMAIN q : q[i] \in P}
    BY <1>5, <2>2
  <2> QED BY <2>3 DEF Count
<1> QED BY <1>1, <1>7, <1>8, <1>9 DEF ChangesAt

\* Cmdlist k, which connection c executes, has other buffers or has failed.
Buffered(S, T, c) ==
    /\ T.started = S.started /\ T.num_pending_tasks = S.num_pending_tasks
    /\ T.cl \in [CmdIds -> CmdRecords]
    /\ T.queue \in {S.queue, Begun(S.queue, c)} /\ S.queue[c] # <<>>
    /\ T.jobs = S.jobs /\ T.done = S.done

LEMMA BufferedKeeps ==
    ASSUME EngineAssumption, NEW S, NEW Ad, Settled(S, Nothing, Nothing, Ad), NEW c \in ConnIds,
           NEW T, Shaped(T), ThreadFrame(S, T), Buffered(S, T, c)
    PROVE  Settled(T, Nothing, Nothing, Ad)
<1>1. S \in EngineStates /\ IsFiniteSet(S.jobs) /\ Countable(S)
  BY DEF Settled, Good, Typed, Countable, EngineStates
<1>2. PICK Q : Q = S.queue
  OBVIOUS
<1>3. Q \in [ConnIds -> Seq(ConnActions)] /\ Q[c] # <<>>
  BY <1>1, <1>2 DEF Countable, Buffered
<1>4. /\ ChangesAt(Q, Begun(Q, c), c)
      /\ \A P \in Counts : Count(Begun(Q, c)[c], P) = Count(Q[c], P)
  BY <1>3, BegunFacts
<1>5. PICK R : R = Begun(Q, c)
  OBVIOUS
<1>6. T.queue \in {Q, R} /\ T.jobs = S.jobs /\ T.done = S.done
      /\ T.queue \in [ConnIds -> Seq(ConnActions)]
  BY <1>2, <1>3, <1>4, <1>5 DEF Buffered, ChangesAt
<1>7. SameTotals(S, Nothing, T, Nothing)
  <2>1. ASSUME NEW P \in Counts PROVE Total(T, Nothing, P) = Total(S, Nothing, P)
    <3>1. Queues(R, P) = Queues(Q, P)
      <4>1. ChangesAt(Q, R, c) BY <1>4, <1>5
      <4>2. Queues(R, P) = Queues(Q, P) - Count(Q[c], P) + Count(R[c], P)
        BY <1>3, <4>1, QueuesChange
      <4>3. Count(R[c], P) = Count(Q[c], P) BY <1>4, <1>5
      <4>4. Count(Q[c], P) \in Nat
        <5>1. Q[c] \in Seq(ConnActions) BY <1>3
        <5> QED BY <5>1, CountFacts
      <4>5. Queues(Q, P) \in Nat BY <1>3, QueuesFacts
      <4> QED BY <4>2, <4>3, <4>4, <4>5
    <3>2. Queues(T.queue, P) = Queues(S.queue, P) BY <1>2, <1>6, <3>1
    <3> QED BY <1>6, <3>2 DEF Total
  <2> QED BY <2>1 DEF SameTotals
<1>8. T.jobs \in SUBSET JobActions /\ T.done \in Seq(ConnActions \cup JobActions)
  BY <1>1, <1>6 DEF Countable
<1>9. T \in EngineStates BY <1>1, <1>6, <1>8, ShapedType DEF Buffered
<1>10. IsFiniteSet(T.jobs) BY <1>1, <1>6
<1> QED BY <1>7, <1>9, <1>10, MovedKeeps

\* What a thread may make of a cmdlist's buffers.
LEMMA ClearedFacts ==
    ASSUME NEW b \in Seq(Statuses)
    PROVE  Cleared(b) \in Seq(Statuses) /\ Len(Cleared(b)) = Len(b)
<1>1. DOMAIN b = 1 .. Len(b) /\ Len(b) \in Nat
  OBVIOUS
<1>2. Cleared(b) \in [1 .. Len(b) -> Statuses]
  BY <1>1 DEF Cleared, Statuses
<1> QED BY <1>1, <1>2

LEMMA ReceivedFacts ==
    ASSUME NEW C \in CmdRecords, NEW status \in Statuses \ {"none"}, ~AllReceived(C),
           Len(C.buffers) <= Len(C.commands), NEW r, r = Received(C.buffers, status)
    PROVE  r \in Seq(Statuses) /\ Len(r) <= Len(C.commands)
<1>1. PICK b, empty : b = C.buffers /\ empty = {i \in DOMAIN b : b[i] = "none"}
  OBVIOUS
<1>2. b \in Seq(Statuses) /\ C.commands \in Seq(Nat) /\ DOMAIN b = 1 .. Len(b)
      /\ Len(b) \in Nat /\ Len(C.commands) \in Nat /\ Len(b) <= Len(C.commands)
  BY <1>1 DEF CmdRecords
<1>3. r = IF empty = {} THEN Append(b, status) ELSE [b EXCEPT ![Min(empty)] = status]
  BY <1>1 DEF Received
<1>4. CASE empty = {}
  <2>1. Len(b) # Len(C.commands)
    <3>1. \A i \in DOMAIN b : b[i] # "none" BY <1>1, <1>4
    <3> QED BY <1>1, <3>1 DEF AllReceived
  <2>2. r = Append(b, status) BY <1>3, <1>4
  <2> QED BY <1>2, <2>1, <2>2
<1>5. CASE empty # {}
  <2>1. PICK m : m = Min(empty)
    OBVIOUS
  <2>2. m \in empty
    <3>1. empty \in SUBSET Nat BY <1>1, <1>2
    <3> QED BY <1>5, <2>1, <3>1, MinFacts, Zenon
  <2>3. r = [b EXCEPT ![m] = status] /\ m \in 1 .. Len(b) BY <1>1, <1>2, <1>3, <1>5, <2>1, <2>2
  <2>4. r \in [1 .. Len(b) -> Statuses] BY <1>2, <2>3
  <2> QED BY <1>2, <2>4, SMTT(30)
<1> QED BY <1>4, <1>5

\* A thread's step in terms of the engine's states before and after.
FillsCmds ==
    /\ cl' \in [CmdIds -> CmdRecords]
    /\ \A k \in CmdIds : Filled(cl[k], cl'[k])

LEMMA ThreadShape ==
    ASSUME UNCHANGED threadUnchanged, FillsCmds, NEW S, S = Current, NEW T, T = Current'
    PROVE  /\ Shaped(T) /\ ThreadFrame(S, T)
           /\ T.started = S.started /\ T.num_pending_tasks = S.num_pending_tasks
           /\ T.cl = cl' /\ T.queue = queue' /\ T.jobs = jobs' /\ T.done = done'
           /\ S.cl = cl /\ S.queue = queue /\ S.jobs = jobs /\ S.done = done
<1>1. S = [started |-> started, tasks |-> tasks, task |-> task, batch |-> batch,
           cmds |-> cmds, cl |-> cl, conns |-> conns, conn |-> conn, queue |-> queue,
           jobs |-> jobs, done |-> done, num_pending_actions |-> num_pending_actions,
           num_pending_tasks |-> num_pending_tasks]
  BY DEF Current
<1>2. T = [started |-> started, tasks |-> tasks, task |-> task, batch |-> batch,
           cmds |-> cmds, cl |-> cl', conns |-> conns, conn |-> conn, queue |-> queue',
           jobs |-> jobs', done |-> done', num_pending_actions |-> num_pending_actions,
           num_pending_tasks |-> num_pending_tasks]
  BY DEF Current, threadUnchanged
<1>3. \A k \in CmdIds : Filled(cl[k], cl'[k]) BY DEF FillsCmds
<1>4. ThreadFrame(S, T) BY <1>1, <1>2, <1>3 DEF ThreadFrame
<1>5. Shaped(T) BY <1>2 DEF Shaped
<1> QED BY <1>1, <1>2, <1>4, <1>5

LEMMA IInvFacts ==
    ASSUME EngineAssumption, IInv, NEW S, S = Current
    PROVE  /\ Settled(S, Nothing, Nothing, added) /\ S \in EngineStates
           /\ added \in SUBSET Batches /\ ncommands \in Nat /\ nfaults \in Nat
           /\ cl \in [CmdIds -> CmdRecords] /\ conn \in [ConnIds -> ConnRecords]
           /\ queue \in [ConnIds -> Seq(ConnActions)] /\ jobs \in SUBSET JobActions
           /\ \A k \in CmdIds : Len(cl[k].buffers) <= Len(cl[k].commands)
<1>1. Settled(S, Nothing, Nothing, added) BY DEF IInv
<1>2. S \in EngineStates /\ Owned(S) BY <1>1 DEF Settled, Good, Typed
<1>3. /\ cl \in [CmdIds -> CmdRecords] /\ conn \in [ConnIds -> ConnRecords]
      /\ queue \in [ConnIds -> Seq(ConnActions)] /\ jobs \in SUBSET JobActions
  <2>1. /\ S.cl \in [CmdIds -> CmdRecords] /\ S.conn \in [ConnIds -> ConnRecords]
        /\ S.queue \in [ConnIds -> Seq(ConnActions)] /\ S.jobs \in SUBSET JobActions
    BY <1>2 DEF EngineStates
  <2> QED BY <2>1 DEF Current
<1>4. \A k \in CmdIds : Len(cl[k].buffers) <= Len(cl[k].commands)
  BY <1>2 DEF Owned, Current
<1> QED BY <1>1, <1>2, <1>3, <1>4 DEF IInv

\* An action of a connection ends.
LEMMA EndKeeps ==
    ASSUME EngineAssumption, IInv, NEW c \in ConnIds, NEW exc \in Results, queue[c] # <<>>,
           End(c, exc), FillsCmds, nfaults' \in Nat
    PROVE  IInv'
<1>1. PICK S, T : S = Current /\ T = Current'
  OBVIOUS
<1>2. /\ Settled(S, Nothing, Nothing, added)
      /\ added \in SUBSET Batches /\ ncommands \in Nat
  BY <1>1, IInvFacts
<1>3. UNCHANGED threadUnchanged /\ jobs' = jobs
      /\ done' = Append(done, Ended(Head(queue[c]), exc))
      /\ queue' = [queue EXCEPT ![c] = Tail(queue[c])]
  BY DEF End
<1>4. /\ Shaped(T) /\ ThreadFrame(S, T)
      /\ T.started = S.started /\ T.num_pending_tasks = S.num_pending_tasks
      /\ T.cl = cl' /\ T.queue = queue' /\ T.jobs = jobs' /\ T.done = done'
      /\ S.cl = cl /\ S.queue = queue /\ S.jobs = jobs /\ S.done = done
  BY <1>1, <1>3, ThreadShape
<1>5. cl' \in [CmdIds -> CmdRecords] BY DEF FillsCmds
<1>6. ConnEnds(S, T, c, exc) BY <1>3, <1>4, <1>5 DEF ConnEnds
<1>7. Settled(T, Nothing, Nothing, added) BY <1>2, <1>4, <1>6, ConnEndsKeeps
<1>8. added' = added /\ ncommands' = ncommands BY <1>3 DEF threadUnchanged
<1> QED BY <1>1, <1>2, <1>7, <1>8 DEF IInv

\* A cmdlist's execute begins, or an article of it arrives.
LEMMA BufferKeeps ==
    ASSUME EngineAssumption, IInv, NEW c \in ConnIds, queue[c] # <<>>,
           queue' \in {queue, Begun(queue, c)}, jobs' = jobs, done' = done,
           UNCHANGED threadUnchanged, FillsCmds, nfaults' \in Nat
    PROVE  IInv'
<1>1. PICK S, T : S = Current /\ T = Current'
  OBVIOUS
<1>2. /\ Settled(S, Nothing, Nothing, added)
      /\ added \in SUBSET Batches /\ ncommands \in Nat
  BY <1>1, IInvFacts
<1>4. /\ Shaped(T) /\ ThreadFrame(S, T)
      /\ T.started = S.started /\ T.num_pending_tasks = S.num_pending_tasks
      /\ T.cl = cl' /\ T.queue = queue' /\ T.jobs = jobs' /\ T.done = done'
      /\ S.cl = cl /\ S.queue = queue /\ S.jobs = jobs /\ S.done = done
  BY <1>1, ThreadShape
<1>5. cl' \in [CmdIds -> CmdRecords] BY DEF FillsCmds
<1>6. Buffered(S, T, c) BY <1>4, <1>5 DEF Buffered
<1>7. Settled(T, Nothing, Nothing, added) BY <1>2, <1>4, <1>6, BufferedKeeps
<1>8. added' = added /\ ncommands' = ncommands BY DEF threadUnchanged
<1> QED BY <1>1, <1>2, <1>7, <1>8 DEF IInv

\* A job ends.
LEMMA FinishKeeps ==
    ASSUME EngineAssumption, IInv, NEW a \in jobs, NEW exc \in Results,
           jobs' = jobs \ {a}, done' = Append(done, Ended(a, exc)), queue' = queue, cl' = cl,
           UNCHANGED threadUnchanged, nfaults' \in Nat
    PROVE  IInv'
<1>1. PICK S, T : S = Current /\ T = Current'
  OBVIOUS
<1>2. /\ Settled(S, Nothing, Nothing, added) /\ cl \in [CmdIds -> CmdRecords]
      /\ added \in SUBSET Batches /\ ncommands \in Nat
  BY <1>1, IInvFacts
<1>3. FillsCmds BY <1>2 DEF FillsCmds, Filled
<1>4. /\ Shaped(T) /\ ThreadFrame(S, T)
      /\ T.started = S.started /\ T.num_pending_tasks = S.num_pending_tasks
      /\ T.cl = cl' /\ T.queue = queue' /\ T.jobs = jobs' /\ T.done = done'
      /\ S.cl = cl /\ S.queue = queue /\ S.jobs = jobs /\ S.done = done
  BY <1>1, <1>3, ThreadShape
<1>5. JobEnds(S, T, a, exc) /\ a \in S.jobs BY <1>4 DEF JobEnds
<1>6. Settled(T, Nothing, Nothing, added) BY <1>2, <1>4, <1>5, JobEndsKeeps
<1>7. added' = added /\ ncommands' = ncommands BY DEF threadUnchanged
<1> QED BY <1>1, <1>2, <1>6, <1>7 DEF IInv

LEMMA CmdsKept ==
    ASSUME EngineAssumption, IInv, cl' = cl
    PROVE  FillsCmds
<1>1. cl \in [CmdIds -> CmdRecords]
  <2>1. PICK S : S = Current
    OBVIOUS
  <2> QED BY <2>1, IInvFacts
<1> QED BY <1>1 DEF FillsCmds, Filled
LEMMA CmdFilled ==
    ASSUME EngineAssumption, IInv, NEW k \in CmdIds, NEW D \in CmdRecords, Filled(cl[k], D),
           cl' = [cl EXCEPT ![k] = D]
    PROVE  FillsCmds
<1>1. cl \in [CmdIds -> CmdRecords]
  <2>1. PICK S : S = Current
    OBVIOUS
  <2> QED BY <2>1, IInvFacts
<1>2. cl'[k] = D /\ \A l \in CmdIds : l # k => cl'[l] = cl[l]
  BY <1>1
<1>3. cl' \in [CmdIds -> CmdRecords] BY <1>1
<1>4. \A l \in CmdIds : Filled(cl[l], cl[l]) BY DEF Filled
<1>5. ASSUME NEW l \in CmdIds PROVE Filled(cl[l], cl'[l])
  <2>1. CASE l = k BY <1>2, <2>1
  <2>2. CASE l # k BY <1>2, <1>4, <2>2
  <2> QED BY <2>1, <2>2
<1> QED BY <1>3, <1>5 DEF FillsCmds

LEMMA FaultFacts ==
    ASSUME nfaults \in Nat
    PROVE  /\ NoFault => nfaults' \in Nat
           /\ \A f : Fault(f) => nfaults' \in Nat
BY DEF NoFault, Fault

\* The cmdlist that connection c executes.
LEMMA ExecutingFacts ==
    ASSUME EngineAssumption, IInv, NEW c \in ConnIds, Executing(c), NEW k, k = TheCmdlist(c)
    PROVE  /\ queue[c] # <<>> /\ k \in CmdIds /\ cl[k] \in CmdRecords
           /\ Len(cl[k].buffers) <= Len(cl[k].commands)
           /\ cl[k].buffers \in Seq(Statuses)
<1>1. PICK S : S = Current
  OBVIOUS
<1>2. /\ cl \in [CmdIds -> CmdRecords] /\ queue \in [ConnIds -> Seq(ConnActions)]
      /\ \A l \in CmdIds : Len(cl[l].buffers) <= Len(cl[l].commands)
  BY <1>1, IInvFacts
<1>3. PICK a : a = Head(queue[c])
  OBVIOUS
<1>4. queue[c] # <<>> /\ a.kind = "execute" /\ k = a.cl BY <1>3 DEF Executing, TheCmdlist
<1>5. a \in ConnActions
  <2>1. queue[c] \in Seq(ConnActions) BY <1>2
  <2> QED BY <1>3, <1>4, <2>1
<1>6. k \in CmdIds BY <1>4, <1>5 DEF ConnActions
<1>7. cl[k] \in CmdRecords BY <1>2, <1>6
<1> QED BY <1>2, <1>4, <1>6, <1>7 DEF CmdRecords

LEMMA CutKeeps ==
    ASSUME EngineAssumption, IInv, NEW c \in ConnIds,
           Perform(c) \/ PerformFails(c) \/ ExecuteCut(c)
    PROVE  IInv'
<1>0. nfaults \in Nat BY DEF IInv
<1>1. cl' = cl BY DEF Perform, PerformFails, ExecuteCut
<1>2. FillsCmds BY <1>1, CmdsKept
<1>3. queue[c] # <<>> BY DEF Perform, PerformFails, ExecuteCut, Executing
<1>4. PICK exc \in Results : End(c, exc)
  <2>1. "none" \in Results /\ "network" \in Results /\ "rejected" \in Results BY DEF Results
  <2> QED BY <2>1 DEF Perform, PerformFails, ExecuteCut
<1>5. nfaults' \in Nat
  BY <1>0, FaultFacts DEF Perform, PerformFails, ExecuteCut
<1> QED BY <1>2, <1>3, <1>4, <1>5, EndKeeps

LEMMA NoGroupKeeps ==
    ASSUME EngineAssumption, IInv, NEW c \in ConnIds, ExecuteNoGroup(c)
    PROVE  IInv'
<1>1. PICK k, D : k = TheCmdlist(c) /\ D = [cl[k] EXCEPT !.failbit = TRUE]
  OBVIOUS
<1>2. Executing(c) /\ End(c, "none") /\ Fault("nogroup") BY DEF ExecuteNoGroup
<1>3. /\ queue[c] # <<>> /\ k \in CmdIds /\ cl[k] \in CmdRecords
      /\ Len(cl[k].buffers) <= Len(cl[k].commands)
  BY <1>1, <1>2, ExecutingFacts
<1>4. D \in CmdRecords /\ Filled(cl[k], D) BY <1>1, <1>3 DEF CmdRecords, Filled
<1>5. cl' = [cl EXCEPT ![k] = D] BY <1>1 DEF ExecuteNoGroup
<1>6. FillsCmds BY <1>3, <1>4, <1>5, CmdFilled
<1>7. nfaults' \in Nat
  <2>1. nfaults \in Nat BY DEF IInv
  <2> QED BY <1>2, <2>1, FaultFacts
<1>8. "none" \in Results BY DEF Results
<1> QED BY <1>2, <1>3, <1>6, <1>7, <1>8, EndKeeps

LEMMA ConfigureKeeps ==
    ASSUME EngineAssumption, IInv, NEW c \in ConnIds, ExecuteConfigure(c)
    PROVE  IInv'
<1>1. PICK k, b : k = TheCmdlist(c) /\ b = cl[k].buffers
  OBVIOUS
<1>2. PICK D : D = [cl[k] EXCEPT !.buffers = Cleared(b)]
  OBVIOUS
<1>3. Executing(c) BY DEF ExecuteConfigure
<1>4. /\ queue[c] # <<>> /\ k \in CmdIds /\ cl[k] \in CmdRecords
      /\ Len(cl[k].buffers) <= Len(cl[k].commands) /\ b \in Seq(Statuses)
  BY <1>1, <1>3, ExecutingFacts
<1>5. Cleared(b) \in Seq(Statuses) /\ Len(Cleared(b)) = Len(b) BY <1>4, ClearedFacts
<1>6. D \in CmdRecords /\ Filled(cl[k], D)
  BY <1>1, <1>2, <1>4, <1>5 DEF CmdRecords, Filled
<1>7. cl' = [cl EXCEPT ![k] = D] BY <1>1, <1>2 DEF ExecuteConfigure
<1>8. FillsCmds BY <1>4, <1>6, <1>7, CmdFilled
<1>9. queue' = Begun(queue, c) /\ jobs' = jobs /\ done' = done /\ UNCHANGED threadUnchanged
      /\ NoFault
  BY DEF ExecuteConfigure, Begun
<1>10. nfaults' \in Nat
  <2>1. nfaults \in Nat BY DEF IInv
  <2> QED BY <1>9, <2>1, FaultFacts
<1>11. queue' \in {queue, Begun(queue, c)} BY <1>9
<1> QED BY <1>4, <1>8, <1>9, <1>10, <1>11, BufferKeeps

LEMMA ReceiveKeeps ==
    ASSUME EngineAssumption, IInv, NEW c \in ConnIds, ExecuteReceive(c)
    PROVE  IInv'
<1>1. PICK status \in Statuses \ {"none"} : Receive(c, status) /\ nfaults' \in Nat
  <2>1. nfaults \in Nat BY DEF IInv
  <2>2. {"success", "unavailable", "error"} \subseteq Statuses \ {"none"} BY DEF Statuses
  <2> QED BY <2>1, <2>2, FaultFacts DEF ExecuteReceive
<1>2. PICK k, r : k = TheCmdlist(c) /\ r = Received(cl[k].buffers, status)
  OBVIOUS
<1>3. PICK D : D = [cl[k] EXCEPT !.buffers = r]
  OBVIOUS
<1>4. Executing(c) /\ ~AllReceived(cl[k]) BY <1>2 DEF ExecuteReceive
<1>5. /\ queue[c] # <<>> /\ k \in CmdIds /\ cl[k] \in CmdRecords
      /\ Len(cl[k].buffers) <= Len(cl[k].commands)
  BY <1>2, <1>4, ExecutingFacts
<1>6. r \in Seq(Statuses) /\ Len(r) <= Len(cl[k].commands)
  BY <1>2, <1>4, <1>5, ReceivedFacts
<1>7. D \in CmdRecords /\ Filled(cl[k], D) BY <1>3, <1>5, <1>6 DEF CmdRecords, Filled
<1>8. cl' = [cl EXCEPT ![k] = D] BY <1>1, <1>2, <1>3 DEF Receive
<1>9. FillsCmds BY <1>5, <1>7, <1>8, CmdFilled
<1>10. \/ \E exc \in Results : End(c, exc)
       \/ queue' = queue /\ jobs' = jobs /\ done' = done /\ UNCHANGED threadUnchanged
  <2>1. "none" \in Results /\ "reset" \in Results BY DEF Results
  <2>2. CASE D.cancelbit
    <3>1. End(c, IF Pipelining[conn[c].account] THEN "reset" ELSE "none")
      BY <1>1, <1>2, <1>3, <2>2 DEF Receive
    <3>2. (IF Pipelining[conn[c].account] THEN "reset" ELSE "none") \in Results BY <2>1
    <3> QED BY <3>1, <3>2
  <2>3. CASE ~D.cancelbit /\ AllReceived(D)
    <3>1. End(c, "none") BY <1>1, <1>2, <1>3, <2>3 DEF Receive
    <3> QED BY <2>1, <3>1
  <2>4. CASE ~D.cancelbit /\ ~AllReceived(D)
    <3>1. UNCHANGED <<queue, jobs, done>> /\ UNCHANGED threadUnchanged
      BY <1>1, <1>2, <1>3, <2>4 DEF Receive
    <3> QED BY <3>1
  <2> QED BY <2>2, <2>3, <2>4
<1>11. CASE \E exc \in Results : End(c, exc) BY <1>1, <1>5, <1>9, <1>11, EndKeeps
<1>12. CASE queue' = queue /\ jobs' = jobs /\ done' = done /\ UNCHANGED threadUnchanged
  <2>1. queue' \in {queue, Begun(queue, c)} BY <1>12
  <2> QED BY <1>1, <1>5, <1>9, <1>12, <2>1, BufferKeeps
<1> QED BY <1>10, <1>11, <1>12

LEMMA JobKeeps ==
    ASSUME EngineAssumption, IInv, NEW a \in jobs, PerformJob(a)
    PROVE  IInv'
<1>1. nfaults' \in Nat
  <2>1. nfaults \in Nat BY DEF IInv
  <2> QED BY <2>1, FaultFacts DEF PerformJob
<1>2. PICK exc \in Results : done' = Append(done, Ended(a, exc))
  BY DEF PerformJob, Results
<1>3. jobs' = jobs \ {a} /\ queue' = queue /\ cl' = cl /\ UNCHANGED threadUnchanged
  BY DEF PerformJob
<1> QED BY <1>1, <1>2, <1>3, FinishKeeps

LEMMA ThreadsKeep ==
    ASSUME EngineAssumption, IInv, Threads
    PROVE  IInv'
<1>1. ASSUME NEW c \in ConnIds, ConnStep(c) PROVE IInv'
  BY <1>1, CutKeeps, NoGroupKeeps, ConfigureKeeps, ReceiveKeeps DEF ConnStep
<1> QED BY <1>1, JobKeeps DEF Threads

-----------------------------------------------------------------------------
(* pump. *)

LEMMA CountsAreActions ==
    /\ \A P \in Counts : P \subseteq Action
    /\ Nothing \notin Action
<1>1. \A P \in Watched : P \subseteq Action
  BY DEF Watched, Execs, ExecsFor, OfTask, JobsOf
<1>2. Nothing \notin Action
  <2>1. Nothing.kind = "none" BY DEF Nothing, ConnAction
  <2>2. "none" \notin ActionKinds BY DEF ActionKinds
  <2> QED BY <2>1, <2>2 DEF Action
<1> QED BY <1>1, <1>2 DEF Counts, OfConn, KindOn

\* pump takes the first completed action.
LEMMA TakenSettled ==
    ASSUME EngineAssumption, NEW S, NEW Ad, Settled(S, Nothing, Nothing, Ad), S.done # <<>>,
           NEW a, a = Head(S.done), NEW T, T = [S EXCEPT !.done = Tail(S.done)]
    PROVE  Settled(T, a, a, Ad) /\ a \in ConnActions \cup JobActions
<1>1. S \in EngineStates /\ IsFiniteSet(S.jobs) /\ Countable(S)
  BY DEF Settled, Good, Typed, Countable, EngineStates
<1>2. /\ T.tasks = S.tasks /\ T.task = S.task /\ T.batch = S.batch /\ T.cmds = S.cmds
      /\ T.conns = S.conns /\ T.conn = S.conn /\ T.cl = S.cl
      /\ T.num_pending_actions = S.num_pending_actions
      /\ T.queue = S.queue /\ T.jobs = S.jobs /\ T.done = Tail(S.done)
  BY <1>1 DEF EngineStates
<1>3. Takes(S, T) BY <1>2 DEF Takes
<1>4. /\ Countable(T) /\ Head(S.done) \in ConnActions \cup JobActions
      /\ \A P : Nothing \notin P => Total(T, Head(S.done), P) = Total(S, Nothing, P)
  <2>1. ASSUME NEW h
        PROVE  /\ Countable(T) /\ Head(S.done) \in ConnActions \cup JobActions
               /\ \A P : h \notin P => Total(T, Head(S.done), P) = Total(S, h, P)
    BY ONLY EngineAssumption, <1>1, <1>3, TotalTakes
  <2> QED BY <2>1
<1>5. SameTotals(S, Nothing, T, a)
  <2>1. ASSUME NEW P \in Counts PROVE Total(T, a, P) = Total(S, Nothing, P)
    <3>1. Nothing \notin P BY CountsAreActions
    <3> QED BY <1>4, <3>1
  <2> QED BY <2>1 DEF SameTotals
<1>6. ThreadFrame(S, T) BY <1>2 DEF ThreadFrame, Filled
<1>7. T \in EngineStates
  <2>1. Tail(S.done) \in Seq(ConnActions \cup JobActions) BY <1>2, <1>4 DEF Countable
  <2> QED BY <1>1, <2>1 DEF EngineStates
<1>8. IsFiniteSet(T.jobs) BY <1>1, <1>2
<1>9. Settled(T, a, a, Ad) BY <1>5, <1>6, <1>7, <1>8, MovedKeeps
<1> QED BY <1>4, <1>9

\* As far as tasks and cmdlists go, the action of a connection is spent at
\* once; a cmdlist that was executed is then nobody's.
LEMMA HandSpends ==
    ASSUME EngineAssumption, NEW S, NEW Ad, NEW a \in ConnActions, Settled(S, a, a, Ad)
    PROVE  /\ Settled(S, Spent, a, Ad)
           /\ a.kind = "execute" => Back(S, Spent, a.task, a.cl) /\ a.task \in Tasks
<1>1. S \in EngineStates /\ IsFiniteSet(S.jobs) /\ Work(S, a, Ad) /\ Owned(S) /\ Linked(S, a)
      /\ Typed(S) /\ Known(S, States(S), {}, Ad)
  BY DEF Settled, Good, Typed
<1>2. CASE a.kind = "execute"
  <2>1. /\ Work(S, Spent, Ad) /\ Total(S, Spent, Execs(a.cl)) = 0
        /\ a.cl \in CmdIds /\ S.cl[a.cl].task = a.task /\ a.task \in Tasks
        /\ a.cl \notin Out(S, Spent)
        /\ Claim(S, a.cl)
        /\ \A l \in Out(S, Spent) : l # a.cl => Apart(S, a.cl, l) /\ Apart(S, l, a.cl)
    BY <1>1, <1>2, WorkSpends
  <2>2. S.cl[a.cl].task # 0 BY <2>1 DEF EngineAssumption
  <2>3. S.cl[a.cl].account # 0 BY <1>1, <2>1, <2>2 DEF Owned
  <2>4. Back(S, Spent, a.task, a.cl) BY <2>1, <2>2, <2>3 DEF Back, Spare
  <2> QED BY <1>1, <2>1, <2>4 DEF Settled, Good
<1>3. CASE a.kind # "execute"
  <2>1. \A P \in Watched : One(a, P) = 0
    <3>1. a.conn # 0 BY DEF ConnActions, EngineAssumption
    <3> QED BY <1>3, <3>1, ChoreUnwatched
  <2>2. \A P \in Watched : One(Spent, P) = 0 BY HandsFacts
  <2>3. Countable(S) BY <1>1 DEF Countable, EngineStates
  <2>4. \A P : Total(S, Spent, P) = Total(S, a, P) - One(a, P) + One(Spent, P)
    BY <2>3, TotalSwaps
  <2>5. \A P : Total(S, a, P) \in Nat BY <2>3, TotalFacts
  <2>6. Eased(S, a, S, Spent)
    <3>1. \A P \in Watched : Total(S, Spent, P) = Total(S, a, P) BY <2>1, <2>2, <2>4, <2>5
    <3>2. Total(S, Spent, Action) = Total(S, a, Action)
      <4>1. One(Spent, Action) = 1 BY HandsFacts
      <4>2. One(a, Action) = 1 BY DEF One, ConnActions
      <4>3. Total(S, Spent, Action) = Total(S, a, Action) - One(a, Action) + One(Spent, Action)
        BY <2>4
      <4>4. Total(S, a, Action) \in Nat BY <2>5
      <4> QED BY <4>1, <4>2, <4>3, <4>4
    <3>3. S.num_pending_actions \in Int /\ Total(S, a, Action) = S.num_pending_actions
      BY <1>1 DEF EngineStates, Work, Counted
    <3> QED BY <3>1, <3>2, <3>3 DEF Eased
  <2>7. Work(S, Spent, Ad) BY <1>1, <2>6, EasedKeeps
  <2> QED BY <1>1, <1>3, <2>7 DEF Settled, Good
<1> QED BY <1>2, <1>3

\* The tasks and batches are as they were.
LEMMA SameSettled ==
    ASSUME NEW S, NEW h, NEW g, NEW f, NEW Ad, Settled(S, h, g, Ad), NEW T, TasksSame(S, T),
           Good(T, h, f, Ad)
    PROVE  Settled(T, h, f, Ad)
<1>1. Known(S, States(S), {}, Ad) BY DEF Settled
<1>2. T.tasks = S.tasks /\ T.batch = S.batch /\ States(T) = States(S)
  BY DEF TasksSame, States
<1>3. Known(T, States(T), {}, Ad) BY <1>1, <1>2, KnownSame
<1> QED BY <1>3 DEF Settled

\* The first part of pump's turn.
LEMMA PumpExecuteKeeps ==
    ASSUME EngineAssumption, NEW S, NEW Ad, NEW a \in ConnActions, Settled(S, a, a, Ad),
           NEW T, T = PumpExecute(S, a)
    PROVE  Settled(T, Spent, a, Ad)
<1>1. /\ Settled(S, Spent, a, Ad)
      /\ a.kind = "execute" => Back(S, Spent, a.task, a.cl) /\ a.task \in Tasks
  BY HandSpends
<1>2. Good(S, Spent, a, Ad) /\ S \in EngineStates /\ Known(S, States(S), {}, Ad)
      /\ S.tasks \in Seq(Tasks)
  BY <1>1 DEF Settled, Good, Typed, EngineStates
<1>3. CASE a.kind # "execute" \/ ~TaskAlive(S, a.task)
  BY <1>1, <1>3 DEF PumpExecute
<1>4. CASE a.kind = "execute" /\ TaskAlive(S, a.task)
  <2>1. PICK t, k : t = a.task /\ k = a.cl
    OBVIOUS
  <2>2. Back(S, Spent, t, k) /\ t \in Tasks BY <1>1, <1>4, <2>1
  <2>3. t \in Live(S)
    <3>1. Contains(S.tasks, t) BY <1>4, <2>1 DEF TaskAlive
    <3> QED BY <1>2, <3>1, ContainsFacts DEF Live
  <2>4. CASE a.exc # "none"
    <3>1. T = Enqueue(S, k) BY <1>4, <2>1, <2>4 DEF PumpExecute
    <3>2. k \in CmdIds /\ Spare(S, Spent, k) BY <2>2 DEF Back
    <3>3. Good(T, Spent, a, Ad) /\ TasksSame(S, T) BY <1>2, <3>1, <3>2, EnqueueKeeps
    <3> QED BY <1>1, <3>3, SameSettled
  <2>5. CASE a.exc = "none"
    <3>1. PICK E : E = [S EXCEPT !.cmds = RemoveFirst(@, k)]
      OBVIOUS
    <3>2. T = Settle(E, TaskComplete(E, t, k), t)
      BY <1>4, <2>1, <2>5, <3>1 DEF PumpExecute
    <3>3. Quiet(S, E, t) BY <1>2, <2>2, <3>1, EraseFirstQuiet
    <3>4. Good(E, Spent, a, Ad)
      <4>1. /\ Good(E, Spent, a, Ad)
            /\ \A f, P : Total(E, f, P) = Total(S, f, P)
            /\ Out(E, Spent) \subseteq Out(S, Spent)
            /\ \A l \in CmdIds : Spare(S, Spent, l) => Spare(E, Spent, l)
        BY <1>2, <2>2, <3>3, QuietKeeps
      <4> QED BY <4>1
    <3>5. Back(E, Spent, t, k) BY <1>2, <2>2, <3>3, QuietBack
    <3>6. E.tasks = S.tasks /\ E.task = S.task /\ E.batch = S.batch
      BY <1>2, <3>1 DEF EngineStates
    <3>7. Known(E, States(E), {}, Ad) /\ t \in Live(E) /\ E \in EngineStates
      <4>1. States(E) = States(S) BY <3>6 DEF States
      <4>2. Known(E, States(E), {}, Ad) /\ Live(E) = Live(S) BY <1>2, <3>6, <4>1, KnownSame
      <4> QED BY <2>3, <3>4, <4>2 DEF Good, Typed
    <3>8. PICK C : C = TaskComplete(E, t, k)
      OBVIOUS
    <3>9. Steps(E, C, t, Spent, a, Ad) BY <3>4, <3>5, <3>7, <3>8, TaskCompleteKeeps
    <3>10. T = Settle(E, C, t) BY <3>2, <3>8
    <3>11. Settled(T, Spent, a, Ad) /\ T.tasks = E.tasks BY <3>7, <3>9, <3>10, SettleKeeps
    <3> QED BY <3>11
  <2> QED BY <2>4, <2>5
<1> QED BY <1>3, <1>4

\* A ready connection takes a waiting cmdlist or runs a task.
LEMMA PickWorkKeeps ==
    ASSUME EngineAssumption, NEW S, NEW h, NEW g, NEW Ad, Settled(S, h, g, Ad),
           NEW c \in ToSet(S.conns), NEW T, T = PickWork(S, c)
    PROVE  Settled(T, h, g, Ad)
<1>1. /\ S \in EngineStates /\ Good(S, h, g, Ad) /\ Work(S, h, Ad) /\ Owned(S)
      /\ S.tasks \in Seq(Tasks) /\ S.cmds \in Seq(CmdIds) /\ S.conns \in Seq(ConnIds)
  BY DEF Settled, Good, Typed, EngineStates
<1>2. CASE IsReady(S, c) /\ Waiting(S, c) # {}
  <2>1. PICK m : m = Min(Waiting(S, c))
    OBVIOUS
  <2>2. m \in Waiting(S, c)
    <3>1. Waiting(S, c) \in SUBSET Nat BY <1>1 DEF Waiting
    <3> QED BY <1>2, <2>1, <3>1, MinFacts, Zenon
  <2>3. PICK k : k = S.cmds[m]
    OBVIOUS
  <2>4. /\ m \in DOMAIN S.cmds /\ S.cl[k].conn = 0
    BY <2>2, <2>3 DEF Waiting
  <2>5. k \in ToSet(S.cmds) /\ k \in CmdIds
    BY <1>1, <2>3, <2>4, ContainsFacts
  <2>6. ExecutedOnce(S, h) /\ Claimed(S, h) BY <1>1 DEF Work
  <2>7. S.cl[k].task # 0 BY <2>5, <2>6 DEF ExecutedOnce
  <2>8. Total(S, h, Execs(k)) = 0 BY <2>4, <2>5, <2>6 DEF ExecutedOnce
  <2>9. k \in Out(S, h) BY <2>4, <2>5 DEF Out
  <2>10. S.cl[k].account # 0 BY <1>1, <2>5, <2>7 DEF Owned
  <2>11. Claim(S, k) /\ \A l \in Out(S, h) : l # k => Apart(S, k, l) /\ Apart(S, l, k)
    BY <2>6, <2>9 DEF Claimed
  <2>12. Spare(S, h, k) BY <2>7, <2>8, <2>10, <2>11 DEF Spare
  <2>13. T = WithConn(ConnExecute(S, c, k), k, c)
    BY <1>2, <2>1, <2>3 DEF PickWork, WithConn
  <2>14. c \in ConnIds BY <1>1, ContainsFacts
  <2>15. T \in EngineStates /\ ExecutedBy(S, T, c, k)
    BY <1>1, <2>5, <2>7, <2>13, <2>14, ExecuteBefore
  <2>16. S.conn[c].st = "connected" BY <1>2 DEF IsReady
  <2>17. Good(T, h, g, Ad) BY <1>1, <2>5, <2>12, <2>15, <2>16, ExecutedKeeps
  <2>18. TasksSame(S, T) BY <2>15 DEF ExecutedBy
  <2> QED BY <2>17, <2>18, SameSettled
<1>3. CASE IsReady(S, c) /\ Waiting(S, c) = {} /\ Runnable(S, c) # {}
  <2>1. PICK m : m = Min(Runnable(S, c))
    OBVIOUS
  <2>2. m \in Runnable(S, c)
    <3>1. Runnable(S, c) \in SUBSET Nat BY <1>1 DEF Runnable
    <3> QED BY <1>3, <2>1, <3>1, MinFacts, Zenon
  <2>3. PICK t : t = S.tasks[m]
    OBVIOUS
  <2>4. m \in DOMAIN S.tasks BY <2>2 DEF Runnable
  <2>5. t \in Live(S)
    BY <1>1, <2>3, <2>4, ContainsFacts DEF Live
  <2>6. T = RunAndSettle(S, t) BY <1>3, <2>1, <2>3 DEF PickWork
  <2>7. Settled(T, h, g, Ad) /\ T.tasks = S.tasks BY <2>5, <2>6, RunKeeps
  <2> QED BY <2>7
<1>4. CASE ~IsReady(S, c) \/ (Waiting(S, c) = {} /\ Runnable(S, c) = {})
  <2>1. T = S BY <1>4 DEF PickWork
  <2> QED BY <2>1
<1> QED BY <1>2, <1>3, <1>4

\* The second part of pump's turn, for the action of a connection and for a
\* task's.
LEMMA PumpConnKeeps ==
    ASSUME EngineAssumption, NEW S, NEW Ad, NEW a \in ConnActions, Settled(S, Spent, a, Ad),
           NEW contents, NEW T, T = PumpOwner(S, a, contents)
    PROVE  Settled(T, Spent, Spent, Ad)
<1>1. /\ S \in EngineStates /\ Typed(S) /\ Work(S, Spent, Ad) /\ Linked(S, a)
      /\ S.conns \in Seq(ConnIds) /\ Known(S, States(S), {}, Ad) /\ IsFiniteSet(S.jobs)
  BY DEF Settled, Good, Typed, EngineStates
<1>2. PICK c : c = a.conn
  OBVIOUS
<1>3. c \in ConnIds /\ c # 0 BY <1>2 DEF ConnActions, EngineAssumption
<1>4. Contains(S.conns, c) <=> c \in ToSet(S.conns) BY <1>1, ContainsFacts
<1>5. CASE c \in ToSet(S.conns)
  <2>1. PICK R : R = ConnOnAction(S, c, a)
    OBVIOUS
  <2>2. T = PickWork(R, c)
    <3>1. Contains(S.conns, a.conn) /\ a.conn # 0 BY <1>2, <1>3, <1>4, <1>5
    <3>2. T = PickWork(ConnOnAction(S, a.conn, a), a.conn) BY <3>1 DEF PumpOwner
    <3> QED BY <1>2, <2>1, <3>2
  <2>3. /\ Good(R, Spent, Spent, Ad) /\ CmdsSame(S, R) /\ R.conns = S.conns
        /\ "ping" \notin Faults /\ R.conn[c].st = "connected" => Total(R, Spent, OfConn(c)) = 0
    BY <1>1, <1>2, <1>5, <2>1, OnActionKeeps
  <2>4. TasksSame(S, R) BY <2>3 DEF CmdsSame
  <2>5. Settled(R, Spent, Spent, Ad) BY <2>3, <2>4, SameSettled
  <2>6. c \in ToSet(R.conns) BY <1>5, <2>3
  <2> QED BY <2>2, <2>5, <2>6, PickWorkKeeps
<1>6. CASE c \notin ToSet(S.conns)
  <2>1. T = Execute(S) BY <1>2, <1>3, <1>4, <1>6 DEF PumpOwner
  <2>2. Linked(S, Spent)
    <3>1. ASSUME Links(S, a) PROVE Links(S, Spent)
      <4>1. a.conn \notin ToSet(S.conns) BY <1>2, <1>6
      <4> QED BY <1>1, <3>1, <4>1, LinksDrop
    <3> QED BY <1>1, <3>1 DEF Linked
  <2>3. Settled(S, Spent, Spent, Ad) BY <1>1, <2>2 DEF Settled, Good
  <2>4. Settled(T, Spent, Spent, Ad) /\ T.tasks = S.tasks BY <2>1, <2>3, ExecuteKeeps
  <2> QED BY <2>4
<1> QED BY <1>5, <1>6

LEMMA PumpJobKeeps ==
    ASSUME EngineAssumption, NEW S, NEW Ad, NEW a \in JobActions, Settled(S, a, a, Ad),
           NEW contents \in SUBSET {"binary", "text"}, NEW T, T = PumpOwner(S, a, contents)
    PROVE  Settled(T, Spent, Spent, Ad)
<1>1. /\ S \in EngineStates /\ Good(S, a, a, Ad) /\ S.tasks \in Seq(Tasks)
      /\ S.conns \in Seq(ConnIds) /\ Known(S, States(S), {}, Ad)
  BY DEF Settled, Good, Typed, EngineStates
<1>2. PICK t : t = a.task
  OBVIOUS
<1>3. t \in Tasks /\ a.conn = 0 BY <1>2 DEF JobActions
<1>4. ~Contains(S.conns, a.conn)
  <2>1. 0 \notin ConnIds BY DEF EngineAssumption
  <2> QED BY <1>1, <1>3, <2>1, ContainsFacts
<1>5. TaskAlive(S, t) <=> t \in Live(S)
  BY <1>1, ContainsFacts DEF TaskAlive, Live
<1>6. CASE t \in Live(S)
  <2>1. PICK R, U : R = TaskOnAction(S, t, a, contents) /\ U = Settle(S, R, t)
    OBVIOUS
  <2>2. T = Execute(U) BY <1>2, <1>3, <1>4, <1>5, <1>6, <2>1 DEF PumpOwner
  <2>3. Steps(S, R, t, Spent, Spent, Ad) BY <1>1, <1>2, <1>6, <2>1, TaskOnActionKeeps
  <2>4. Settled(U, Spent, Spent, Ad) /\ U.tasks = S.tasks
    BY <1>1, <1>6, <2>1, <2>3, SettleKeeps
  <2>5. Settled(T, Spent, Spent, Ad) /\ T.tasks = U.tasks BY <2>2, <2>4, ExecuteKeeps
  <2> QED BY <2>5
<1>7. CASE t \notin Live(S)
  <2>1. T = Execute(S) BY <1>2, <1>3, <1>4, <1>5, <1>7 DEF PumpOwner
  <2>2. JobSpent(S, S, a.task) BY <1>2, <1>7 DEF JobSpent
  <2>3. /\ Steps(S, S, a.task, Spent, Spent, Ad)
        /\ a.task \in Live(S) /\ a.kind = "decode" => JobOver(S, a)
    BY <1>1, <2>2, JobSpends
  <2>4. Settled(S, Spent, Spent, Ad) BY <1>1, <2>3 DEF Steps, Settled
  <2>5. Settled(T, Spent, Spent, Ad) /\ T.tasks = S.tasks BY <2>1, <2>4, ExecuteKeeps
  <2> QED BY <2>5
<1> QED BY <1>6, <1>7

\* The action is no longer pending.
LEMMA EmptiesHand ==
    ASSUME EngineAssumption, NEW S, NEW Ad, Settled(S, Spent, Spent, Ad),
           NEW T, T = [S EXCEPT !.num_pending_actions = @ - 1]
    PROVE  Settled(T, Nothing, Nothing, Ad)
<1>1. /\ S \in EngineStates /\ IsFiniteSet(S.jobs) /\ Countable(S) /\ Work(S, Spent, Ad)
      /\ Owned(S) /\ Linked(S, Spent) /\ Known(S, States(S), {}, Ad)
      /\ S.num_pending_actions \in Int
  BY DEF Settled, Good, Typed, Countable, EngineStates
<1>2. /\ T \in EngineStates
      /\ T.tasks = S.tasks /\ T.task = S.task /\ T.batch = S.batch /\ T.cmds = S.cmds
      /\ T.conns = S.conns /\ T.conn = S.conn /\ T.cl = S.cl
      /\ T.num_pending_actions = S.num_pending_actions - 1
      /\ T.queue = S.queue /\ T.jobs = S.jobs /\ T.done = S.done
  <2>1. PICK n : n = S.num_pending_actions - 1
    OBVIOUS
  <2>2. n \in Int /\ T = [S EXCEPT !.num_pending_actions = n] BY <1>1, <2>1
  <2> QED BY ONLY <1>1, <2>1, <2>2 DEF EngineStates
<1>3. ASSUME NEW P PROVE /\ Total(T, Nothing, P) = Total(S, Spent, P) - One(Spent, P) + One(Nothing, P)
                         /\ Total(S, Spent, P) \in Nat
  <2>1. Total(S, Nothing, P) = Total(S, Spent, P) - One(Spent, P) + One(Nothing, P)
    BY <1>1, TotalSwaps
  <2>2. Total(T, Nothing, P) = Total(S, Nothing, P)
    BY ONLY <1>2, TotalSame
  <2>3. Total(S, Spent, P) \in Nat BY <1>1, TotalFacts
  <2> QED BY <2>1, <2>2, <2>3
<1>4. Eased(S, Spent, T, Nothing)
  <2>1. \A P \in Watched : Total(T, Nothing, P) = Total(S, Spent, P)
    <3>1. \A P \in Watched : One(Nothing, P) = 0 /\ One(Spent, P) = 0 BY HandsFacts
    <3> QED BY <1>3, <3>1
  <2>2. Total(T, Nothing, Action) = Total(S, Spent, Action) - 1
    <3>1. One(Nothing, Action) = 0 /\ One(Spent, Action) = 1 BY HandsFacts
    <3> QED BY <1>3, <3>1
  <2>3. Total(S, Spent, Action) = S.num_pending_actions BY <1>1 DEF Work, Counted
  <2>4. T.num_pending_actions - S.num_pending_actions
          = Total(T, Nothing, Action) - Total(S, Spent, Action)
    BY <1>1, <1>2, <2>2, <2>3
  <2>5. Live(T) = Live(S) BY <1>2 DEF Live
  <2> QED BY <1>2, <2>1, <2>4, <2>5 DEF Eased
<1>5. Work(T, Nothing, Ad)
  <2>1. IsFiniteSet(T.jobs) BY <1>1, <1>2
  <2> QED BY <1>1, <1>2, <1>4, <2>1, EasedKeeps
<1>6. Owned(T) BY <1>1, <1>2 DEF Owned
<1>7. Linked(T, Nothing)
  <2>1. ASSUME Links(S, Spent) PROVE Links(T, Nothing)
    <3>1. Alike(Nothing, Spent) BY HandsFacts DEF Alike
    <3>2. Links(S, Nothing) BY <1>1, <2>1, <3>1, LinksHand
    <3> QED BY <1>1, <1>2, <3>2, LinksSame
  <2> QED BY <1>1, <2>1 DEF Linked
<1>8. Known(T, States(T), {}, Ad)
  <2>1. States(T) = States(S) BY <1>2 DEF States
  <2>2. Known(T, States(S), {}, Ad) /\ Live(T) = Live(S) BY ONLY <1>1, <1>2, KnownSame
  <2> QED BY <2>1, <2>2
<1>9. IsFiniteSet(T.jobs) BY <1>1, <1>2
<1> QED BY <1>2, <1>5, <1>6, <1>7, <1>8, <1>9 DEF Settled, Good, Typed

-----------------------------------------------------------------------------
(* Every step keeps the invariant. *)

LEMMA BecomesKeeps ==
    ASSUME EngineAssumption, NEW S, NEW Ad \in SUBSET Batches, Settled(S, Nothing, Nothing, Ad),
           Becomes(S), added' = Ad, ncommands' \in Nat, nfaults' \in Nat
    PROVE  IInv'
<1>1. PICK R, T : R = Reap(S) /\ T = Current'
  OBVIOUS
<1>2. Settled(R, Nothing, Nothing, Ad) BY <1>1, ReapKeeps
<1>3. R \in EngineStates BY <1>2 DEF Settled, Good, Typed
<1>4. /\ T.started = R.started /\ T.tasks = R.tasks /\ T.task = R.task
      /\ T.batch = R.batch /\ T.cmds = R.cmds /\ T.cl = R.cl
      /\ T.conns = R.conns /\ T.conn = R.conn /\ T.queue = R.queue
      /\ T.jobs = R.jobs /\ T.done = R.done
      /\ T.num_pending_actions = R.num_pending_actions
      /\ T.num_pending_tasks = R.num_pending_tasks
  BY <1>1 DEF Becomes, Current
<1>5. Shaped(T) BY <1>1 DEF Shaped, Current
<1>6. Shaped(R) BY <1>3 DEF Shaped, EngineStates
<1>7. T = R BY ONLY <1>4, <1>5, <1>6 DEF Shaped
<1> QED BY <1>1, <1>2, <1>7 DEF IInv

LEMMA CommandKeeps ==
    ASSUME EngineAssumption, IInv, NEW name, NEW S, Settled(S, Nothing, Nothing, added),
           Command(name, S)
    PROVE  IInv'
<1>1. Becomes(S) /\ added' = added /\ nfaults' = nfaults /\ ncommands' = ncommands + 1
  BY DEF Command
<1>2. added \in SUBSET Batches /\ ncommands \in Nat /\ nfaults \in Nat BY DEF IInv
<1>3. ncommands' \in Nat /\ nfaults' \in Nat BY <1>1, <1>2
<1> QED BY <1>1, <1>2, <1>3, BecomesKeeps

LEMMA CalmBecomes ==
    ASSUME EngineAssumption, IInv, NEW S, Settled(S, Nothing, Nothing, added), Becomes(S),
           UNCHANGED <<added, ncommands, nfaults>>
    PROVE  IInv'
<1>1. added \in SUBSET Batches /\ ncommands \in Nat /\ nfaults \in Nat BY DEF IInv
<1>2. ncommands' \in Nat /\ nfaults' \in Nat BY <1>1
<1> QED BY <1>1, <1>2, BecomesKeeps

\* A turn of pump.
LEMMA TurnKeeps ==
    ASSUME EngineAssumption, NEW S, NEW Ad, Settled(S, Nothing, Nothing, Ad), S.done # <<>>,
           NEW a, a = Head(S.done), NEW R, R = [S EXCEPT !.done = Tail(S.done)],
           NEW contents \in SUBSET {"binary", "text"},
           NEW T, T = PumpOwner(PumpExecute(R, a), a, contents)
    PROVE  Settled(T, Spent, Spent, Ad)
<1>1. Settled(R, a, a, Ad) /\ a \in ConnActions \cup JobActions BY TakenSettled
<1>2. PICK X : X = PumpExecute(R, a)
  OBVIOUS
<1>3. T = PumpOwner(X, a, contents) BY <1>2
<1>4. CASE a \in ConnActions
  <2>1. Settled(X, Spent, a, Ad) BY ONLY EngineAssumption, <1>1, <1>2, <1>4, PumpExecuteKeeps
  <2> QED BY ONLY EngineAssumption, <1>3, <1>4, <2>1, PumpConnKeeps
<1>5. CASE a \in JobActions
  <2>1. a.kind # "execute" BY <1>5 DEF JobActions, JobKinds
  <2>2. X = R BY <1>2, <2>1 DEF PumpExecute
  <2>3. Settled(X, a, a, Ad) BY ONLY <1>1, <2>2
  <2>4. contents \in SUBSET {"binary", "text"}
    OBVIOUS
  <2> QED BY ONLY EngineAssumption, <1>3, <1>5, <2>3, <2>4, PumpJobKeeps
<1> QED BY <1>1, <1>4, <1>5

LEMMA PumpKeeps ==
    ASSUME EngineAssumption, IInv, Pump
    PROVE  IInv'
<1>1. PICK S, a : S = Current /\ a = Head(S.done)
  OBVIOUS
<1>2. Settled(S, Nothing, Nothing, added) /\ S \in EngineStates BY <1>1, IInvFacts
<1>3. S.done # <<>> /\ S.done = done BY <1>1 DEF Pump, Current
<1>4. PICK contents \in Contents : Becomes(PumpOne(Head(done), contents))
  BY DEF Pump
<1>5. contents \in SUBSET {"binary", "text"} BY <1>4 DEF EngineAssumption
<1>6. PICK R : R = [S EXCEPT !.done = Tail(S.done)]
  OBVIOUS
<1>7. PICK T : T = PumpOwner(PumpExecute(R, a), a, contents)
  OBVIOUS
<1>8. Settled(T, Spent, Spent, added)
  BY <1>1, <1>2, <1>3, <1>5, <1>6, <1>7, TurnKeeps
<1>9. PICK U : U = [T EXCEPT !.num_pending_actions = @ - 1]
  OBVIOUS
<1>10. Settled(U, Nothing, Nothing, added) BY <1>8, <1>9, EmptiesHand
<1>11. PumpOne(Head(done), contents) = U
  <2>1. [Current EXCEPT !.done = Tail(@)] = R BY <1>1, <1>2, <1>6 DEF EngineStates
  <2> QED BY <1>1, <1>3, <1>7, <1>9, <2>1 DEF PumpOne
<1>12. UNCHANGED <<added, ncommands, nfaults>> BY DEF Pump
<1> QED BY <1>4, <1>10, <1>11, <1>12, CalmBecomes

LEMMA TimerKeeps ==
    ASSUME EngineAssumption, IInv, Timer
    PROVE  IInv'
<1>1. PICK S : S = Current
  OBVIOUS
<1>2. Settled(S, Nothing, Nothing, added) /\ S \in EngineStates BY <1>1, IInvFacts
<1>3. S.conns = conns /\ S.conn = conn /\ S.conns \in Seq(ConnIds)
  BY <1>1, <1>2 DEF Current, EngineStates
<1>4. ASSUME NEW R, Settled(R, Nothing, Nothing, added), Becomes(Ticked(R)),
             UNCHANGED <<added, ncommands, nfaults>>
      PROVE  IInv'
  <2>1. PICK T : T = Ticked(R)
    OBVIOUS
  <2>2. Settled(T, Nothing, Nothing, added) BY <1>4, <2>1, TickedKeeps
  <2> QED BY <1>4, <2>1, <2>2, CalmBecomes
<1>5. CASE Tick BY <1>1, <1>2, <1>4, <1>5 DEF Tick
<1>6. ASSUME NEW c \in ConnIds, TickPing(c) PROVE IInv'
  <2>1. PICK R : R = ConnPing(S, c)
    OBVIOUS
  <2>2. "ping" \in Faults /\ S.conn[c].st = "connected" BY <1>3, <1>6 DEF TickPing
  <2>3. Settled(R, Nothing, Nothing, added) /\ R.tasks = S.tasks
    BY <1>2, <2>1, <2>2, PingKeeps
  <2> QED BY <1>1, <1>4, <1>6, <2>1, <2>3 DEF TickPing
<1>7. ASSUME NEW c \in ConnIds, TickReconnect(c) PROVE IInv'
  <2>1. PICK R : R = ConnReconnect(S, c)
    OBVIOUS
  <2>2. Contains(conns, c) /\ S.conn[c].st = "error" BY <1>3, <1>7 DEF TickReconnect, MayReconnect
  <2>3. c \in ToSet(S.conns) BY <1>3, <2>2, ContainsFacts
  <2>4. Settled(R, Nothing, Nothing, added) /\ R.tasks = S.tasks
    BY <1>2, <2>1, <2>2, <2>3, ReconnectKeeps
  <2> QED BY <1>1, <1>4, <1>7, <2>1, <2>4 DEF TickReconnect
<1> QED BY <1>5, <1>6, <1>7 DEF Timer

LEMMA DownloadKeeps ==
    ASSUME EngineAssumption, IInv, NEW b \in Batches, NEW priority \in BOOLEAN,
           DownloadFiles(b, priority)
    PROVE  IInv'
<1>1. PICK S, R : S = Current /\ R = WithBatchOf(S, b, priority)
  OBVIOUS
<1>2. Settled(S, Nothing, Nothing, added) /\ S \in EngineStates /\ added \in SUBSET Batches
      /\ ncommands \in Nat /\ nfaults \in Nat
  BY <1>1, IInvFacts
<1>3. /\ b \notin added /\ added' = added \cup {b} /\ UNCHANGED <<ncommands, nfaults>>
      /\ Becomes(Execute(R))
  BY <1>1 DEF DownloadFiles, WithBatchOf
<1>4. Enlarged(S, R, b) BY <1>1, <1>2, EnlargedFacts
<1>5. PICK Ad : Ad = added \cup {b}
  OBVIOUS
<1>6. Settled(R, Nothing, Nothing, Ad)
  <2>1. Settled(R, Nothing, Nothing, added \cup {b}) BY <1>2, <1>3, <1>4, EnlargedKeeps
  <2> QED BY <1>5, <2>1
<1>7. PICK T : T = Execute(R)
  OBVIOUS
<1>8. Settled(T, Nothing, Nothing, Ad) /\ T.tasks = R.tasks BY <1>6, <1>7, ExecuteKeeps
<1>9. Ad \in SUBSET Batches /\ added' = Ad /\ ncommands' \in Nat /\ nfaults' \in Nat
  BY <1>2, <1>3, <1>5
<1> QED BY <1>3, <1>7, <1>8, <1>9, BecomesKeeps

LEMMA StartKept ==
    ASSUME EngineAssumption, IInv
    PROVE  Settled(StartEngine, Nothing, Nothing, added)
<1>1. PICK S, R : S = Current /\ R = [S EXCEPT !.started = TRUE]
  OBVIOUS
<1>2. Settled(S, Nothing, Nothing, added) BY <1>1, IInvFacts
<1>3. Settled(R, Nothing, Nothing, added) BY <1>1, <1>2, StartKeeps
<1>4. PICK T : T = Execute(R)
  OBVIOUS
<1>5. Settled(T, Nothing, Nothing, added) /\ T.tasks = R.tasks BY <1>3, <1>4, ExecuteKeeps
<1> QED BY <1>1, <1>4, <1>5 DEF StartEngine

LEMMA StopKept ==
    ASSUME EngineAssumption, IInv
    PROVE  Settled(StopEngine, Nothing, Nothing, added)
<1>1. PICK S, T : S = Current /\ T = Stopped(S)
  OBVIOUS
<1>2. Settled(S, Nothing, Nothing, added) BY <1>1, IInvFacts
<1>3. Settled(T, Nothing, Nothing, added) /\ T.tasks = S.tasks BY <1>1, <1>2, StoppedKeeps
<1>4. StopEngine = T
  <2>1. S.conns = conns BY <1>1 DEF Current
  <2> QED BY <1>1, <2>1 DEF StopEngine, Stopped, StopAll
<1> QED BY <1>3, <1>4

LEMMA ConnCommandsKeep ==
    ASSUME EngineAssumption, IInv, NEW i \in DOMAIN conns, KillConnection(i) \/ CloneConnection(i)
    PROVE  IInv'
<1>1. PICK S : S = Current
  OBVIOUS
<1>2. Settled(S, Nothing, Nothing, added) BY <1>1, IInvFacts
<1>3. S.conns = conns /\ S.conn = conn /\ i \in DOMAIN S.conns BY <1>1 DEF Current
<1>4. CASE KillConnection(i)
  <2>1. PICK T : T = ConnKilled(S, i)
    OBVIOUS
  <2>2. Settled(T, Nothing, Nothing, added) /\ T.tasks = S.tasks
    BY <1>2, <1>3, <2>1, ConnKilledKeeps
  <2>3. Command("kill_connection", T)
    BY <1>1, <1>3, <1>4, <2>1 DEF KillConnection, ConnKilled
  <2> QED BY <2>2, <2>3, CommandKeeps
<1>5. CASE CloneConnection(i)
  <2>1. PICK T : T = ConnCreate(S, S.conn[S.conns[i]].account)
    OBVIOUS
  <2>2. Settled(T, Nothing, Nothing, added) /\ T.tasks = S.tasks
    BY <1>2, <1>3, <2>1, CloneKeeps
  <2>3. Command("clone_connection", T)
    BY <1>1, <1>3, <1>5, <2>1 DEF CloneConnection
  <2> QED BY <2>2, <2>3, CommandKeeps
<1> QED BY <1>4, <1>5

LEMMA TaskCommandsKeep ==
    ASSUME EngineAssumption, IInv, NEW t \in ToSet(tasks),
           PauseTask(t) \/ ResumeTask(t) \/ KillTask(t)
    PROVE  IInv'
<1>1. PICK S : S = Current
  OBVIOUS
<1>2. Settled(S, Nothing, Nothing, added) BY <1>1, IInvFacts
<1>3. t \in Live(S) BY <1>1 DEF Current, Live
<1>4. CASE PauseTask(t)
  <2>1. PICK T : T = Settle(S, TaskPause(S, t), t)
    OBVIOUS
  <2>2. Settled(T, Nothing, Nothing, added) /\ T.tasks = S.tasks
    BY <1>2, <1>3, <2>1, PauseTaskKeeps
  <2>3. Command("pause", T) BY <1>1, <1>4, <2>1 DEF PauseTask
  <2> QED BY <2>2, <2>3, CommandKeeps
<1>5. CASE ResumeTask(t)
  <2>1. PICK R : R = Settle(S, TaskResume(S, t), t)
    OBVIOUS
  <2>2. Settled(R, Nothing, Nothing, added) /\ R.tasks = S.tasks
    BY <1>2, <1>3, <2>1, ResumeTaskKeeps
  <2>3. PICK T : T = Execute(R)
    OBVIOUS
  <2>4. Settled(T, Nothing, Nothing, added) /\ T.tasks = R.tasks BY <2>2, <2>3, ExecuteKeeps
  <2>5. Command("resume", T) BY <1>1, <1>5, <2>1, <2>3 DEF ResumeTask
  <2> QED BY <2>4, <2>5, CommandKeeps
<1>6. CASE KillTask(t)
  <2>1. PICK T : T = EraseTask(TaskKill(BatchRemove(S, t), t), t)
    OBVIOUS
  <2>2. Settled(T, Nothing, Nothing, added) BY <1>2, <1>3, <2>1, KillTaskKeeps
  <2>3. Command("kill", T) BY <1>1, <1>6, <2>1 DEF KillTask
  <2> QED BY <2>2, <2>3, CommandKeeps
<1> QED BY <1>4, <1>5, <1>6

LEMMA BatchCommandsKeep ==
    ASSUME EngineAssumption, IInv, NEW b \in Batches, batch[b].live,
           PauseBatch(b) \/ ResumeBatch(b) \/ KillBatch(b)
    PROVE  IInv'
<1>1. PICK S : S = Current
  OBVIOUS
<1>2. Settled(S, Nothing, Nothing, added) BY <1>1, IInvFacts
<1>3. S.batch[b].live /\ S.tasks = tasks BY <1>1 DEF Current
<1>4. CASE PauseBatch(b)
  <2>1. PICK T : T = BatchPause(S, b)
    OBVIOUS
  <2>2. Settled(T, Nothing, Nothing, added) /\ T.tasks = S.tasks
    BY <1>2, <1>3, <2>1, BatchPauseKeeps
  <2>3. Command("pause_batch", T) BY <1>1, <1>4, <2>1 DEF PauseBatch
  <2> QED BY <2>2, <2>3, CommandKeeps
<1>5. CASE ResumeBatch(b)
  <2>1. PICK R : R = BatchResume(S, b)
    OBVIOUS
  <2>2. Settled(R, Nothing, Nothing, added) /\ R.tasks = S.tasks
    BY <1>2, <1>3, <2>1, BatchResumeKeeps
  <2>3. PICK T : T = Execute(R)
    OBVIOUS
  <2>4. Settled(T, Nothing, Nothing, added) /\ T.tasks = R.tasks BY <2>2, <2>3, ExecuteKeeps
  <2>5. Command("resume_batch", T) BY <1>1, <1>5, <2>1, <2>3 DEF ResumeBatch
  <2> QED BY <2>4, <2>5, CommandKeeps
<1>6. CASE KillBatch(b)
  <2>1. PICK mine : mine = Only(S.tasks, {t \in Tasks : BatchOf[t] = b})
    OBVIOUS
  <2>2. PICK T : T = [KillAll(S, mine) EXCEPT !.batch[b] = NoBatch]
    OBVIOUS
  <2>3. Settled(T, Nothing, Nothing, added) BY <1>2, <2>1, <2>2, KillBatchKeeps
  <2>4. Command("kill_batch", T)
    BY <1>1, <1>3, <1>6, <2>1, <2>2 DEF KillBatch, KillAll, KillStep
  <2> QED BY <2>3, <2>4, CommandKeeps
<1> QED BY <1>4, <1>5, <1>6

LEMMA MoveUpKept ==
    ASSUME EngineAssumption, IInv, NEW i \in 2 .. Len(tasks), MoveTaskUp(i)
    PROVE  IInv'
<1>1. PICK S, T : S = Current /\ T = MovedUp(S, i)
  OBVIOUS
<1>2. Settled(S, Nothing, Nothing, added) BY <1>1, IInvFacts
<1>3. S.tasks = tasks /\ i \in 2 .. Len(S.tasks) BY <1>1 DEF Current
<1>4. Settled(T, Nothing, Nothing, added) BY <1>1, <1>2, <1>3, MoveUpKeeps
<1>5. Command("move_up", T) BY <1>1, <1>3 DEF MoveTaskUp, MovedUp
<1> QED BY <1>4, <1>5, CommandKeeps

LEMMA UserKeeps ==
    ASSUME EngineAssumption, IInv, User
    PROVE  IInv'
<1>1. CASE FirstStart BY <1>1, StartKept, CalmBecomes DEF FirstStart
<1>2. CASE Start BY <1>2, StartKept, CommandKeeps DEF Start
<1>3. CASE Stop BY <1>3, StopKept, CommandKeeps DEF Stop
<1> QED
  BY <1>1, <1>2, <1>3, DownloadKeeps, ConnCommandsKeep, TaskCommandsKeep, BatchCommandsKeep,
     MoveUpKept DEF User

-----------------------------------------------------------------------------
(* The engine as it starts, and always.                                    *)

\* Nothing is under way in the engine as it is created.
Idle(S) ==
    /\ S.tasks = <<>> /\ S.task = [t \in Tasks |-> NoTask]
    /\ S.batch = [b \in Batches |-> NoBatch]
    /\ S.cmds = <<>> /\ S.cl = [k \in CmdIds |-> NoCmdlist]
    /\ S.conns = <<>> /\ S.conn = [c \in ConnIds |-> NoConn]
    /\ S.queue = [c \in ConnIds |-> <<>>] /\ S.jobs = {} /\ S.done = <<>>
    /\ S.num_pending_actions = 0

LEMMA IdleTyped ==
    ASSUME EngineAssumption, Init, NEW S, S = Current
    PROVE  /\ Idle(S) /\ Typed(S)
<1>1. Idle(S) BY DEF Init, Current, Idle
<1>2. NoTask \in TaskRecords
  BY DEF NoTask, TaskRecords, TaskStates
<1>3. NoBatch \in BatchRecords
  BY DEF NoBatch, BatchRecords, TaskStates
<1>4. NoCmdlist \in CmdRecords
  BY DEF NoCmdlist, CmdRecords
<1>5. NoConn \in ConnRecords
  BY DEF NoConn, ConnRecords, ConnStates
<1>6. /\ <<>> \in Seq(Tasks) /\ <<>> \in Seq(CmdIds) /\ <<>> \in Seq(ConnIds)
      /\ <<>> \in Seq(ConnActions) /\ <<>> \in Seq(ConnActions \cup JobActions)
      /\ {} \in SUBSET JobActions /\ 0 \in Int /\ FALSE \in BOOLEAN
  OBVIOUS
<1>7. S \in EngineStates
  BY <1>2, <1>3, <1>4, <1>5, <1>6 DEF Init, Current, EngineStates
<1>8. IsFiniteSet(S.jobs) BY <1>1, FS_EmptySet DEF Idle
<1>9. Owned(S)
  BY <1>1 DEF Idle, Owned, NoTask, NoCmdlist, ToSet
<1> QED BY <1>1, <1>7, <1>8, <1>9 DEF Typed

LEMMA IdleCounts ==
    ASSUME EngineAssumption, NEW S, Typed(S), Idle(S)
    PROVE  \A P \in SUBSET Action : Total(S, Nothing, P) = 0
<1>1. Countable(S) BY DEF Typed, EngineStates, Countable
<1>2. Range(<<>>) = {} BY DEF Range
<1>3. \A c \in ConnIds : Range(S.queue[c]) = {} BY <1>2 DEF Idle
<1>4. UnderWay(S, Nothing) = {Nothing} BY <1>2, <1>3 DEF UnderWay, Idle
<1>5. Nothing \notin Action BY DEF Nothing, ConnAction, Action, ActionKinds
<1>6. SUFFICES ASSUME NEW P \in SUBSET Action
               PROVE  Total(S, Nothing, P) = 0
  OBVIOUS
<1>7. UnderWay(S, Nothing) \cap P = {} BY <1>4, <1>5
<1> QED BY <1>1, <1>7, TotalFacts

LEMMA IdleSettled ==
    ASSUME EngineAssumption, NEW S, Typed(S), Idle(S)
    PROVE  Settled(S, Nothing, Nothing, {})
<1>1. /\ \A t \in Tasks : Total(S, Nothing, OfTask(t)) = 0
      /\ \A k \in CmdIds : Total(S, Nothing, Execs(k)) = 0
      /\ \A k \in CmdIds, t \in Tasks : Total(S, Nothing, ExecsFor(k, t)) = 0
      /\ \A t \in Tasks, i \in Nat, w \in {"decode", "binary", "text"} :
           Total(S, Nothing, JobsOf(t, i, w)) = 0
      /\ \A c \in ConnIds : Total(S, Nothing, OfConn(c)) = 0
      /\ Total(S, Nothing, Action) = 0
  <2>1. /\ \A t \in Tasks : OfTask(t) \in SUBSET Action
        /\ \A k \in CmdIds : Execs(k) \in SUBSET Action
        /\ \A k \in CmdIds, t \in Tasks : ExecsFor(k, t) \in SUBSET Action
        /\ \A t \in Tasks, i \in Nat, w \in {"decode", "binary", "text"} :
             JobsOf(t, i, w) \in SUBSET Action
        /\ \A c \in ConnIds : OfConn(c) \in SUBSET Action
        /\ Action \in SUBSET Action
    BY DEF OfTask, Execs, ExecsFor, JobsOf, OfConn
  <2>2. PICK Zero : Zero = [P \in SUBSET Action |-> Total(S, Nothing, P)]
    OBVIOUS
  <2>3. \A P \in SUBSET Action : Total(S, Nothing, P) = 0 BY IdleCounts
  <2> QED BY ONLY <2>1, <2>3
<1>2. Live(S) = {} /\ ToSet(S.cmds) = {} /\ ToSet(S.conns) = {}
  BY DEF Idle, Live, ToSet
<1>3. Counted(S, Nothing) BY <1>1, <1>2 DEF Counted, Idle, NoTask
<1>4. DecodedOnce(S, Nothing) BY <1>1, <1>2 DEF DecodedOnce, JobKinds
<1>5. ExecutedOnce(S, Nothing) BY <1>1, <1>2 DEF ExecutedOnce
<1>6. Out(S, Nothing) = {} BY <1>1, <1>2 DEF Out
<1>7. Claimed(S, Nothing) BY <1>2, <1>6 DEF Claimed
<1>8. \A k \in CmdIds, t \in Tasks : S.cl[k].task # t
  BY DEF Idle, NoCmdlist, EngineAssumption
<1>9. Unknown(S, Nothing, {}) BY <1>1, <1>2, <1>8 DEF Unknown, JobKinds
<1>10. Links(S, Nothing)
  BY <1>1, <1>2 DEF Links, IsInjective, Idle
<1>11. Known(S, States(S), {}, {})
  BY <1>2 DEF Known, Idle, IsInjective, NoBatch
<1> QED BY <1>3, <1>4, <1>5, <1>7, <1>9, <1>10, <1>11 DEF Settled, Good, Work, Linked

LEMMA InitInvariant ==
    ASSUME EngineAssumption, Init
    PROVE  IInv
<1>1. PICK S : S = Current
  OBVIOUS
<1>2. Settled(S, Nothing, Nothing, {}) BY <1>1, IdleTyped, IdleSettled
<1>3. added = {} /\ ncommands = 0 /\ nfaults = 0 BY DEF Init
<1>4. Settled(Current, Nothing, Nothing, added) BY <1>1, <1>2, <1>3
<1> QED BY <1>3, <1>4 DEF IInv

\* The counters, the lists and the cmdlists of the engine agree with one
\* another in every state, whatever the user, the threads and the network do.
THEOREM EngineInvariant == Spec => []IInv
<1>1. Init => IInv BY EngineAssumption, InitInvariant
<1>2. IInv /\ [Next]_vars => IInv'
  <2> SUFFICES ASSUME IInv, [Next]_vars PROVE IInv'
    OBVIOUS
  <2>1. CASE User BY <2>1, EngineAssumption, UserKeeps
  <2>2. CASE Pump BY <2>2, EngineAssumption, PumpKeeps
  <2>3. CASE Timer BY <2>3, EngineAssumption, TimerKeeps
  <2>4. CASE Threads BY <2>4, EngineAssumption, ThreadsKeep
  <2>5. CASE UNCHANGED vars
    <3>1. Current' = Current /\ added' = added /\ ncommands' = ncommands /\ nfaults' = nfaults
      BY <2>5 DEF vars, Current
    <3> QED BY <3>1 DEF IInv
  <2> QED BY <2>1, <2>2, <2>3, <2>4, <2>5 DEF Next
<1> QED BY <1>1, <1>2, PTL DEF Spec

-----------------------------------------------------------------------------
(* What the invariant says of the properties.                              *)

\* The counts over the threads' queues, the jobs and the ended actions.
LEMMA CurrentFacts ==
    ASSUME EngineAssumption, IInv
    PROVE  /\ Typed(Current) /\ Countable(Current)
           /\ queue \in [ConnIds -> Seq(ConnActions)]
           /\ jobs \in SUBSET JobActions /\ IsFiniteSet(jobs)
           /\ done \in Seq(ConnActions \cup JobActions)
           /\ Counted(Current, Nothing) /\ ExecutedOnce(Current, Nothing)
           /\ Linked(Current, Nothing) /\ Known(Current, States(Current), {}, added)
           /\ Live(Current) = ToSet(tasks) /\ ToSet(tasks) \subseteq Tasks
<1>1. Typed(Current) BY DEF IInv, Settled, Good
<1>2. Current.tasks = tasks /\ tasks \in Seq(Tasks)
  BY <1>1 DEF Typed, EngineStates, Current
<1>3. Live(Current) = ToSet(tasks) /\ ToSet(tasks) \subseteq Tasks
  BY <1>2, ContainsFacts DEF Live
<1>4. Countable(Current) BY <1>1 DEF Typed, EngineStates, Countable
<1>5. /\ queue \in [ConnIds -> Seq(ConnActions)]
      /\ jobs \in SUBSET JobActions /\ IsFiniteSet(jobs)
      /\ done \in Seq(ConnActions \cup JobActions)
  BY <1>4 DEF Countable, Current
<1> QED BY <1>1, <1>3, <1>4, <1>5 DEF IInv, Settled, Good, Work

\* OnTheWay, of the actions of a connection, counts what Total does.
LEMMA OnTheWayIsTotal ==
    ASSUME EngineAssumption, IInv, NEW P \in SUBSET Action,
           \A a \in JobActions : a \notin P
    PROVE  Total(Current, Nothing, P) = Queues(queue, P) + Count(done, P)
<1>1. jobs \cap P = {} BY CurrentFacts
<1>2. One(Nothing, P) = 0
  <2>1. Nothing \notin Action BY DEF Nothing, ConnAction, Action, ActionKinds
  <2> QED BY <2>1 DEF One
<1>3. Cardinality(jobs \cap P) = 0 BY <1>1, FS_EmptySet
<1>4. Queues(queue, P) \in Nat /\ Count(done, P) \in Nat
  <2>1. PICK S : S = Current
    OBVIOUS
  <2>2. Queues(S.queue, P) \in Nat /\ Count(S.done, P) \in Nat BY <2>1, CurrentFacts, TotalFacts
  <2> QED BY <2>1, <2>2 DEF Current
<1>5. /\ Current.queue = queue /\ Current.jobs = jobs /\ Current.done = done
  BY DEF Current
<1> QED BY <1>2, <1>3, <1>4, <1>5 DEF Total

LEMMA EngineTyped ==
    ASSUME EngineAssumption, IInv
    PROVE  TypeOK
<1>1. Typed(Current) /\ Counted(Current, Nothing) /\ Countable(Current)
  BY CurrentFacts
<1>2. \A P : Total(Current, Nothing, P) \in Nat BY <1>1, TotalFacts
<1>3. /\ started \in BOOLEAN /\ tasks \in Seq(Tasks) /\ task \in [Tasks -> TaskRecords]
      /\ batch \in [Batches -> BatchRecords] /\ cmds \in Seq(CmdIds)
      /\ cl \in [CmdIds -> CmdRecords] /\ conns \in Seq(ConnIds)
      /\ conn \in [ConnIds -> ConnRecords] /\ queue \in [ConnIds -> Seq(ConnActions)]
      /\ jobs \in SUBSET JobActions /\ done \in Seq(ConnActions \cup JobActions)
      /\ num_pending_tasks \in Int
  BY <1>1 DEF Typed, EngineStates, Current
<1>4. /\ \A t \in Tasks : /\ ToSet(task[t].articles) \subseteq Article(t)
                          /\ task[t].decoded \subseteq Article(t)
                          /\ task[t].missing \subseteq Article(t)
      /\ \A k \in CmdIds : Len(cl[k].buffers) <= Len(cl[k].commands)
  BY <1>1 DEF Typed, Owned, Current
<1>5. num_pending_actions \in Nat
  BY <1>1, <1>2 DEF Counted, Current
<1>6. \A t \in Tasks : task[t].nact \in Nat
  <2> SUFFICES ASSUME NEW t \in Tasks PROVE task[t].nact \in Nat
    OBVIOUS
  <2>1. Current.task = task BY DEF Current
  <2>2. CASE t \in Live(Current) BY <1>1, <1>2, <2>1, <2>2 DEF Counted
  <2>3. CASE t \notin Live(Current) BY <1>1, <2>1, <2>3 DEF Counted
  <2> QED BY <2>2, <2>3
<1>7. \A b \in Batches : /\ batch[b].num_tasks \in Nat
                         /\ batch[b].statesets \in [TaskStates -> Nat]
  <2> SUFFICES ASSUME NEW b \in Batches
               PROVE  batch[b].num_tasks \in Nat /\ batch[b].statesets \in [TaskStates -> Nat]
    OBVIOUS
  <2>1. Known(Current, States(Current), {}, added) BY CurrentFacts
  <2>2. Current.batch = batch BY DEF Current
  <2>3. CASE ~batch[b].live
    <3>1. batch[b] = NoBatch BY <2>1, <2>2, <2>3 DEF Known
    <3> QED BY <3>1 DEF NoBatch
  <2>4. CASE batch[b].live
    <3>1. PICK M, kn : M = Mine(Current, b) /\ kn = States(Current)
      OBVIOUS
    <3>2. CountsAs(batch[b], M, kn) BY <2>1, <2>2, <2>4, <3>1 DEF Known
    <3>3. M \subseteq Tasks BY <3>1, CurrentFacts DEF Mine
    <3>4. IsFiniteSet(Tasks) BY DEF EngineAssumption
    <3>5. \A A \in SUBSET Tasks : Cardinality(A) \in Nat
      BY <3>4, FS_Subset, FS_CardinalityType
    <3>7. \A s \in TaskStates : batch[b].statesets[s] \in Nat
      <4> SUFFICES ASSUME NEW s \in TaskStates PROVE batch[b].statesets[s] \in Nat
        OBVIOUS
      <4>1. PICK A : A = {t \in M : kn[t] = s}
        OBVIOUS
      <4>2. A \in SUBSET Tasks BY <3>3, <4>1
      <4>3. batch[b].statesets[s] = Cardinality(A) BY <3>2, <4>1 DEF CountsAs
      <4> QED BY <3>5, <4>2, <4>3
    <3>8. batch[b].num_tasks \in Nat BY <3>2, <3>3, <3>5 DEF CountsAs
    <3>9. batch[b].statesets \in [TaskStates -> Int] BY <1>3 DEF BatchRecords
    <3> QED BY <3>7, <3>8, <3>9
  <2> QED BY <2>3, <2>4
<1>8. /\ queue \in [ConnIds -> Seq(Action)] /\ jobs \subseteq Action /\ done \in Seq(Action)
  <2>1. ConnActions \subseteq Action /\ JobActions \subseteq Action
    BY DEF ConnActions, JobActions
  <2>2. \A q \in Seq(ConnActions) : q \in Seq(Action) BY <2>1
  <2>3. \A q \in Seq(ConnActions \cup JobActions) : q \in Seq(Action) BY <2>1
  <2> QED BY <1>3, <2>1, <2>2, <2>3
<1>9. \A t \in Tasks :
        /\ task[t].st \in TaskStates /\ task[t].ncl \in Int /\ task[t].nact \in Nat
        /\ ToSet(task[t].articles) \subseteq Article(t)
        /\ task[t].ran \in BOOLEAN /\ task[t].incomplete \in BOOLEAN
        /\ task[t].decoded \subseteq Article(t) /\ task[t].missing \subseteq Article(t)
  BY <1>3, <1>4, <1>6 DEF TaskRecords
<1>10. \A b \in Batches :
         /\ batch[b].live \in BOOLEAN /\ batch[b].st \in TaskStates
         /\ batch[b].num_tasks \in Nat /\ batch[b].statesets \in [TaskStates -> Nat]
  BY <1>3, <1>7 DEF BatchRecords
<1>11. \A k \in CmdIds :
         /\ cl[k].task \in Tasks \cup {0} /\ cl[k].account \in Accounts \cup {0}
         /\ cl[k].conn \in ConnIds \cup {0}
         /\ cl[k].cancelbit \in BOOLEAN /\ cl[k].failbit \in BOOLEAN
         /\ cl[k].commands \in Seq(Nat) /\ cl[k].buffers \in Seq(Statuses)
         /\ Len(cl[k].buffers) <= Len(cl[k].commands)
  BY <1>3, <1>4 DEF CmdRecords
<1> QED BY <1>3, <1>5, <1>8, <1>9, <1>10, <1>11 DEF TypeOK, ConnRecords

\* Sums over the threads' queues, and what a queue or done holds of P.
LEMMA QueuesIsSum ==
    ASSUME NEW P, NEW f, f = [c \in ConnIds |-> f[c]],
           \A c \in ConnIds : f[c] = Count(queue[c], P)
    PROVE  SumFunctionOnSet(f, ConnIds) = Queues(queue, P)
<1>1. f = [c \in ConnIds |-> Count(queue[c], P)] OBVIOUS
<1> QED BY <1>1 DEF Queues

LEMMA PendingCounted ==
    ASSUME EngineAssumption, IInv
    PROVE  PendingActions
<1>1. PICK S : S = Current
  OBVIOUS
<1>2. Countable(S) BY <1>1, CurrentFacts
<1>3. num_pending_actions = Total(S, Nothing, Action)
  BY <1>1, CurrentFacts DEF Counted, Current
<1>4. S.queue = queue /\ S.jobs = jobs /\ S.done = done BY <1>1 DEF Current
<1>5. ConnActions \subseteq Action /\ JobActions \subseteq Action
  BY DEF ConnActions, JobActions
<1>6. One(Nothing, Action) = 0 BY HandsFacts
<1>7. jobs \cap Action = jobs BY <1>5, CurrentFacts
<1>8. Count(done, Action) = Len(done)
  <2>1. ConnActions \cup JobActions \subseteq Action BY <1>5
  <2> QED BY <2>1, CurrentFacts, CountFacts
<1>9. \A c \in ConnIds : Count(queue[c], Action) = Len(queue[c])
  BY <1>5, CurrentFacts, CountFacts, SMTT(30)
<1>10. PICK f : f = [c \in ConnIds |-> Len(queue[c])]
  OBVIOUS
<1>11. SumFunctionOnSet(f, ConnIds) = Queues(queue, Action)
  <2>1. f = [c \in ConnIds |-> f[c]] /\ \A c \in ConnIds : f[c] = Count(queue[c], Action)
    BY <1>9, <1>10
  <2> QED BY <2>1, QueuesIsSum
<1>12. /\ Queues(queue, Action) \in Nat /\ Cardinality(jobs) \in Nat /\ Len(done) \in Nat
  <2>1. /\ Queues(S.queue, Action) \in Nat /\ Cardinality(S.jobs \cap Action) \in Nat
        /\ Count(S.done, Action) \in Nat
    BY <1>2, TotalFacts
  <2> QED BY <1>4, <1>7, <1>8, <2>1
<1>13. num_pending_actions = Queues(queue, Action) + Cardinality(jobs) + Len(done)
  <2>1. /\ Queues(S.queue, Action) = Queues(queue, Action)
        /\ Cardinality(S.jobs \cap Action) = Cardinality(jobs)
        /\ Count(S.done, Action) = Len(done)
    BY <1>4, <1>7, <1>8
  <2>2. Total(S, Nothing, Action) = Queues(S.queue, Action)
          + Cardinality(S.jobs \cap Action) + Count(S.done, Action) + One(Nothing, Action)
    BY ONLY DEF Total
  <2> QED BY ONLY <1>3, <1>6, <1>12, <2>1, <2>2
<1>14. num_pending_actions = SumFunctionOnSet(f, ConnIds) + Cardinality(jobs) + Len(done)
  BY <1>11, <1>13
<1> QED BY <1>10, <1>14, Zenon DEF PendingActions

LEMMA ActiveCounted ==
    ASSUME EngineAssumption, IInv
    PROVE  ActiveActions
<1> SUFFICES ASSUME NEW t \in ToSet(tasks)
             PROVE  task[t].nact = Cardinality({a \in jobs : a.task = t})
                      + Cardinality({i \in DOMAIN done : done[i].task = t /\ done[i].conn = 0})
  BY DEF ActiveActions, DoneWith
<1>1. PICK S, P : S = Current /\ P = OfTask(t)
  OBVIOUS
<1>2. Countable(S) BY <1>1, CurrentFacts
<1>3. task[t].nact = Total(S, Nothing, P)
  BY <1>1, CurrentFacts DEF Counted, Current
<1>4. S.queue = queue /\ S.jobs = jobs /\ S.done = done BY <1>1 DEF Current
<1>5. ConnActions \subseteq Action /\ JobActions \subseteq Action
  BY DEF ConnActions, JobActions
<1>6. One(Nothing, P) = 0
  <2>1. Nothing \notin Action BY DEF Nothing, ConnAction, Action, ActionKinds
  <2> QED BY <1>1, <2>1 DEF One, OfTask
<1>7. jobs \cap P = {a \in jobs : a.task = t}
  <2>1. \A a \in jobs : a \in Action /\ a.conn = 0 BY CurrentFacts DEF JobActions
  <2> QED BY <1>1, <2>1 DEF OfTask
<1>8. {i \in DOMAIN done : done[i] \in P}
        = {i \in DOMAIN done : done[i].task = t /\ done[i].conn = 0}
  <2>1. \A i \in DOMAIN done : done[i] \in Action BY <1>5, CurrentFacts
  <2> QED BY <1>1, <2>1 DEF OfTask
<1>9. Queues(queue, P) = 0
  <2>1. \A a \in ConnActions : a \notin P
    BY <1>1 DEF ConnActions, OfTask, EngineAssumption
  <2>2. \A c \in ConnIds : Range(queue[c]) \subseteq ConnActions
    BY CurrentFacts DEF Range
  <2>3. \A c \in ConnIds : Range(queue[c]) \cap P = {} BY <2>1, <2>2
  <2>4. queue \in [ConnIds -> Seq(ConnActions)] BY CurrentFacts
  <2> QED BY <2>3, <2>4, QueuesFacts
<1>10. Cardinality(jobs \cap P) \in Nat /\ Count(done, P) \in Nat
  <2>1. Cardinality(S.jobs \cap P) \in Nat /\ Count(S.done, P) \in Nat BY <1>2, TotalFacts
  <2> QED BY <1>4, <2>1
<1>11. Total(S, Nothing, P) = Cardinality(jobs \cap P) + Count(done, P)
  BY <1>4, <1>6, <1>9, <1>10 DEF Total
<1> QED BY <1>3, <1>7, <1>8, <1>11 DEF Count

LEMMA BatchesCounted ==
    ASSUME EngineAssumption, IInv
    PROVE  BatchCounts
<1> SUFFICES ASSUME NEW b \in Batches, batch[b].live
             PROVE  /\ \A s \in TaskStates : batch[b].statesets[s]
                         = Cardinality({t \in ToSet(tasks) : BatchOf[t] = b /\ task[t].st = s})
                    /\ batch[b].num_tasks = Cardinality({t \in ToSet(tasks) : BatchOf[t] = b})
  BY DEF BatchCounts
<1>1. PICK M, kn : M = Mine(Current, b) /\ kn = States(Current)
  OBVIOUS
<1>2. CountsAs(batch[b], M, kn)
  <2>1. Current.batch = batch BY DEF Current
  <2> QED BY <1>1, <2>1, CurrentFacts DEF Known
<1>3. M = {t \in ToSet(tasks) : BatchOf[t] = b} /\ M \subseteq Tasks
  BY <1>1, CurrentFacts DEF Mine
<1>4. \A s : {t \in M : kn[t] = s} = {t \in ToSet(tasks) : BatchOf[t] = b /\ task[t].st = s}
  <2>1. \A t \in M : kn[t] = task[t].st BY <1>1, <1>3 DEF States, Current
  <2> QED BY <1>3, <2>1
<1> QED BY <1>2, <1>3, <1>4 DEF CountsAs

\* The count that OnTheWay takes of the actions P of connections.
LEMMA OnTheWayCounted ==
    ASSUME EngineAssumption, IInv, NEW P \in SUBSET Action, \A a \in JobActions : a \notin P,
           NEW f, f = [c \in ConnIds |-> Cardinality({i \in DOMAIN queue[c] : queue[c][i] \in P})]
    PROVE  SumFunctionOnSet(f, ConnIds) + Cardinality({i \in DOMAIN done : done[i] \in P})
             = Total(Current, Nothing, P)
<1>1. f = [c \in ConnIds |-> f[c]] /\ \A c \in ConnIds : f[c] = Count(queue[c], P)
  BY DEF Count
<1>2. SumFunctionOnSet(f, ConnIds) = Queues(queue, P) BY <1>1, QueuesIsSum
<1>3. Total(Current, Nothing, P) = Queues(queue, P) + Count(done, P) BY OnTheWayIsTotal
<1> QED BY <1>2, <1>3 DEF Count

\* What stands on the queues and in done is an action.
LEMMA OnTheWayActions ==
    ASSUME EngineAssumption, IInv
    PROVE  /\ \A c \in ConnIds : \A i \in DOMAIN queue[c] : queue[c][i] \in Action
           /\ \A i \in DOMAIN done : done[i] \in Action
<1>1. ConnActions \subseteq Action /\ JobActions \subseteq Action
  BY DEF ConnActions, JobActions
<1> QED BY <1>1, CurrentFacts

LEMMA ExecutedByOne ==
    ASSUME EngineAssumption, IInv
    PROVE  OneConnectionPerCmdlist
<1> SUFFICES ASSUME NEW k \in CmdIds
             PROVE  SumFunctionOnSet([c \in ConnIds |->
                        Cardinality({i \in DOMAIN queue[c] :
                                       queue[c][i].kind = "execute" /\ queue[c][i].cl = k})], ConnIds)
                      + Cardinality({i \in DOMAIN done :
                                       done[i].kind = "execute" /\ done[i].cl = k}) <= 1
  BY DEF OneConnectionPerCmdlist, OnTheWay, QueuedOf, DoneWith
<1>1. PICK P : P = Execs(k)
  OBVIOUS
<1>2. P \in SUBSET Action /\ \A a \in JobActions : a \notin P
  BY <1>1 DEF Execs, JobActions, JobKinds
<1>3. Total(Current, Nothing, P) <= 1 BY <1>1, CurrentFacts DEF ExecutedOnce
<1>4. /\ \A c \in ConnIds : {i \in DOMAIN queue[c] : queue[c][i].kind = "execute" /\ queue[c][i].cl = k}
                              = {i \in DOMAIN queue[c] : queue[c][i] \in P}
      /\ {i \in DOMAIN done : done[i].kind = "execute" /\ done[i].cl = k}
           = {i \in DOMAIN done : done[i] \in P}
  BY <1>1, OnTheWayActions DEF Execs
<1>5. PICK f : f = [c \in ConnIds |-> Cardinality({i \in DOMAIN queue[c] : queue[c][i] \in P})]
  OBVIOUS
<1>6. SumFunctionOnSet(f, ConnIds) + Cardinality({i \in DOMAIN done : done[i] \in P}) <= 1
  BY <1>2, <1>3, <1>5, OnTheWayCounted
<1>7. f = [c \in ConnIds |-> Cardinality({i \in DOMAIN queue[c] :
                                   queue[c][i].kind = "execute" /\ queue[c][i].cl = k})]
  <2>1. \A c \in ConnIds : Cardinality({i \in DOMAIN queue[c] :
                             queue[c][i].kind = "execute" /\ queue[c][i].cl = k})
                             = Cardinality({i \in DOMAIN queue[c] : queue[c][i] \in P})
    BY <1>4
  <2> QED BY ONLY <1>5, <2>1, Zenon
<1> QED BY <1>4, <1>6, <1>7, Zenon

LEMMA ConnectionsCounted ==
    ASSUME EngineAssumption, IInv, "ping" \notin Faults
    PROVE  OneActionPerConnection
<1> SUFFICES ASSUME NEW d \in ToSet(conns)
             PROVE  /\ SumFunctionOnSet([c \in ConnIds |->
                           Cardinality({i \in DOMAIN queue[c] : queue[c][i].conn = d})], ConnIds)
                         + Cardinality({i \in DOMAIN done : done[i].conn = d})
                         = IF conn[d].st \in {"connected", "error"} THEN 0 ELSE 1
                    /\ SumFunctionOnSet([c \in ConnIds |->
                           Cardinality({i \in DOMAIN queue[c] :
                             queue[c][i].kind = "execute" /\ queue[c][i].conn = d})], ConnIds)
                         + Cardinality({i \in DOMAIN done :
                             done[i].kind = "execute" /\ done[i].conn = d})
                         = IF conn[d].st = "active" THEN 1 ELSE 0
  BY DEF OneActionPerConnection, OnTheWay, QueuedOf, DoneWith
<1>1. d \in ConnIds
  <2>1. conns \in Seq(ConnIds) BY CurrentFacts DEF Typed, EngineStates, Current
  <2> QED BY <2>1, ContainsFacts
<1>2. LinkedAt(Current, Nothing, d)
  <2>1. Current.conns = conns BY DEF Current
  <2> QED BY <2>1, CurrentFacts DEF Linked, Links
<1>3. PICK P, E : P = OfConn(d) /\ E = KindOn(d, "execute")
  OBVIOUS
<1>4. /\ P \in SUBSET Action /\ \A a \in JobActions : a \notin P
      /\ E \in SUBSET Action /\ \A a \in JobActions : a \notin E
  BY <1>1, <1>3 DEF OfConn, KindOn, JobActions, JobKinds, EngineAssumption
<1>5. /\ Total(Current, Nothing, P) = IF conn[d].st \in {"connected", "error"} THEN 0 ELSE 1
      /\ Total(Current, Nothing, E) = IF conn[d].st = "active" THEN 1 ELSE 0
  <2>1. Current.conn = conn BY DEF Current
  <2>2. "execute" \in ConnKinds /\ During("execute") = "active"
    BY DEF ConnKinds, During, StateDuring
  <2> QED BY <1>2, <1>3, <2>1, <2>2 DEF LinkedAt
<1>6. /\ \A c \in ConnIds : {i \in DOMAIN queue[c] : queue[c][i].conn = d}
                              = {i \in DOMAIN queue[c] : queue[c][i] \in P}
      /\ {i \in DOMAIN done : done[i].conn = d} = {i \in DOMAIN done : done[i] \in P}
  BY <1>3, OnTheWayActions DEF OfConn
<1>7. /\ \A c \in ConnIds : {i \in DOMAIN queue[c] : queue[c][i].kind = "execute" /\ queue[c][i].conn = d}
                              = {i \in DOMAIN queue[c] : queue[c][i] \in E}
      /\ {i \in DOMAIN done : done[i].kind = "execute" /\ done[i].conn = d}
           = {i \in DOMAIN done : done[i] \in E}
  BY <1>3, OnTheWayActions DEF KindOn
<1>8. PICK f : f = [c \in ConnIds |-> Cardinality({i \in DOMAIN queue[c] : queue[c][i] \in P})]
  OBVIOUS
<1>9. SumFunctionOnSet(f, ConnIds) + Cardinality({i \in DOMAIN done : done[i] \in P})
        = IF conn[d].st \in {"connected", "error"} THEN 0 ELSE 1
  BY <1>4, <1>5, <1>8, OnTheWayCounted
<1>10. PICK g : g = [c \in ConnIds |-> Cardinality({i \in DOMAIN queue[c] : queue[c][i] \in E})]
  OBVIOUS
<1>11. SumFunctionOnSet(g, ConnIds) + Cardinality({i \in DOMAIN done : done[i] \in E})
        = IF conn[d].st = "active" THEN 1 ELSE 0
  BY <1>4, <1>5, <1>10, OnTheWayCounted
<1>12. f = [c \in ConnIds |-> Cardinality({i \in DOMAIN queue[c] : queue[c][i].conn = d})]
  BY <1>6, <1>8, SMTT(30)
<1>13. g = [c \in ConnIds |-> Cardinality({i \in DOMAIN queue[c] :
                                   queue[c][i].kind = "execute" /\ queue[c][i].conn = d})]
  <2>1. \A c \in ConnIds : Cardinality({i \in DOMAIN queue[c] :
                             queue[c][i].kind = "execute" /\ queue[c][i].conn = d})
                             = Cardinality({i \in DOMAIN queue[c] : queue[c][i] \in E})
    BY <1>7
  <2> QED BY ONLY <1>10, <2>1, Zenon
<1> QED BY <1>6, <1>7, <1>9, <1>11, <1>12, <1>13, Zenon

\* Every variable keeps its type: the indices of articles are the task's own,
\* no more articles are received than were asked for, and a task never hears of
\* the end of a decode or write that it did not count.
THEOREM EngineTypeOK == Spec => []TypeOK
<1>1. IInv => TypeOK BY EngineAssumption, EngineTyped
<1> QED BY <1>1, EngineInvariant, PTL

\* The counts of pending actions, of a task's decodes and writes and of a
\* batch's tasks per state are exact after every call: state::submit,
\* pump, task::do_action and on_action, batch::update, pause, resume, kill.
THEOREM EngineActionCounters == Spec => []ActionCounters
<1>1. IInv => ActionCounters
  BY EngineAssumption, PendingCounted, ActiveCounted, BatchesCounted DEF ActionCounters
<1> QED BY <1>1, EngineInvariant, PTL

\* No cmdlist is given to two connections or twice to one, by enqueue, pump or
\* execute, pings and reconnects included.
THEOREM EngineExecutesOnce == Spec => []OneConnectionPerCmdlist
<1>1. IInv => OneConnectionPerCmdlist BY EngineAssumption, ExecutedByOne
<1> QED BY <1>1, EngineInvariant, PTL

\* A cmdlist that somebody works on is one that Out has.
LEMMA OutstandingIsOut ==
    ASSUME EngineAssumption, IInv, NEW t \in ToSet(tasks), NEW k \in Outstanding(t)
    PROVE  k \in Out(Current, Nothing) /\ cl[k].task = t
<1>1. PICK S, P : S = Current /\ P = Execs(k)
  OBVIOUS
<1>2. /\ S.queue = queue /\ S.jobs = jobs /\ S.done = done /\ S.cmds = cmds /\ S.cl = cl
  BY <1>1 DEF Current
<1>3. /\ k \in CmdIds /\ cl[k].task = t
      /\ InFlight(k) \/ WaitsForConn(k)
  BY DEF Outstanding
<1>4. CASE InFlight(k)
  <2>1. PICK a : a \in UnderWay(S, Nothing) /\ a \in Action /\ a.kind = "execute" /\ a.cl = k
    <3>1. CASE \E c \in ConnIds : \E i \in DOMAIN queue[c] :
                 queue[c][i].kind = "execute" /\ queue[c][i].cl = k
      <4>1. PICK c \in ConnIds : \E i \in DOMAIN queue[c] :
                 queue[c][i].kind = "execute" /\ queue[c][i].cl = k
        BY <3>1
      <4>2. PICK i \in DOMAIN queue[c] : queue[c][i].kind = "execute" /\ queue[c][i].cl = k
        BY <4>1
      <4>3. queue[c][i] \in Range(S.queue[c]) BY <1>2 DEF Range
      <4>4. queue[c][i] \in UnderWay(S, Nothing) BY <4>3 DEF UnderWay
      <4> QED BY <4>2, <4>4, OnTheWayActions
    <3>2. CASE \E i \in DOMAIN done : done[i].kind = "execute" /\ done[i].cl = k
      <4>1. PICK i \in DOMAIN done : done[i].kind = "execute" /\ done[i].cl = k
        BY <3>2
      <4>2. done[i] \in Range(S.done) BY <1>2 DEF Range
      <4>3. done[i] \in UnderWay(S, Nothing) BY <4>2 DEF UnderWay
      <4> QED BY <4>1, <4>3, OnTheWayActions
    <3> QED BY <1>4, <3>1, <3>2 DEF InFlight
  <2>2. UnderWay(S, Nothing) \cap P # {} BY <1>1, <2>1 DEF Execs
  <2>3. Countable(S) BY <1>1, CurrentFacts
  <2>4. Total(S, Nothing, P) # 0 BY <2>2, <2>3, TotalFacts
  <2>5. Total(Current, Nothing, Execs(k)) # 0 BY <1>1, <2>4
  <2> QED BY <1>3, <2>5 DEF Out
<1>5. CASE WaitsForConn(k)
  <2>1. cmds \in Seq(CmdIds) BY CurrentFacts DEF Typed, EngineStates, Current
  <2>2. k \in ToSet(cmds) BY <1>5, <2>1, ContainsFacts DEF WaitsForConn
  <2>3. k \in ToSet(Current.cmds) /\ Current.cl[k].conn = 0
    BY <1>5, <2>2 DEF WaitsForConn, Current
  <2> QED BY <1>3, <2>3 DEF Out
<1> QED BY <1>3, <1>4, <1>5

LEMMA ArticlesApart ==
    ASSUME EngineAssumption, IInv
    PROVE  OneCmdlistPerArticle
<1> SUFFICES ASSUME NEW t \in ToSet(tasks)
             PROVE  /\ IsInjective(task[t].articles)
                    /\ ToSet(task[t].articles) \cap task[t].decoded = {}
                    /\ \A k \in Outstanding(t) :
                         /\ IsInjective(cl[k].commands)
                         /\ ToSet(cl[k].commands)
                              \cap (ToSet(task[t].articles) \cup task[t].decoded) = {}
                         /\ \A l \in Outstanding(t) \ {k} :
                              ToSet(cl[k].commands) \cap ToSet(cl[l].commands) = {}
  BY DEF OneCmdlistPerArticle
<1>1. Claimed(Current, Nothing) BY DEF IInv, Settled, Good, Work
<1>2. t \in Live(Current) BY CurrentFacts
<1>3. Current.task = task /\ Current.cl = cl BY DEF Current
<1>4. IsInjective(task[t].articles) /\ ToSet(task[t].articles) \cap task[t].decoded = {}
  BY <1>1, <1>2, <1>3 DEF Claimed
<1>5. ASSUME NEW k \in Outstanding(t)
      PROVE  /\ IsInjective(cl[k].commands)
             /\ ToSet(cl[k].commands) \cap (ToSet(task[t].articles) \cup task[t].decoded) = {}
  <2>1. k \in Out(Current, Nothing) /\ cl[k].task = t BY OutstandingIsOut
  <2>2. Claim(Current, k) BY <1>1, <2>1 DEF Claimed
  <2> QED BY <1>2, <1>3, <2>1, <2>2 DEF Claim, Claims
<1>6. ASSUME NEW k \in Outstanding(t), NEW l \in Outstanding(t) \ {k}
      PROVE  ToSet(cl[k].commands) \cap ToSet(cl[l].commands) = {}
  <2>1. /\ k \in Out(Current, Nothing) /\ cl[k].task = t
        /\ l \in Out(Current, Nothing) /\ cl[l].task = t
    BY OutstandingIsOut
  <2>2. Apart(Current, k, l) BY <1>1, <2>1 DEF Claimed
  <2> QED BY <1>2, <1>3, <2>1, <2>2 DEF Apart, Claims
<1> QED BY <1>4, <1>5, <1>6

\* No article is asked for by two cmdlists, or again once it was decoded,
\* although cmdlists are refilled, cut short, taken back and executed again
\* (task::complete, download::complete, state::enqueue).
THEOREM EngineAsksOnce == Spec => []OneCmdlistPerArticle
<1>1. IInv => OneCmdlistPerArticle BY EngineAssumption, ArticlesApart
<1> QED BY <1>1, EngineInvariant, PTL

\* While no ping is sent, a connection works on one action at a time and its
\* state tells which, a cmdlist is executed by one connection and an article is
\* asked for by one cmdlist; with pings the first is not so (conn::on_action).
THEOREM EngineConnectionsSound ==
    ASSUME "ping" \notin Faults
    PROVE  Spec => []ConnectionsSound
<1>1. IInv => ConnectionsSound
  BY EngineAssumption, ExecutedByOne, ConnectionsCounted, ArticlesApart DEF ConnectionsSound
<1> QED BY <1>1, EngineInvariant, PTL
=============================================================================
