--------------------------- MODULE DownloadProofs ---------------------------
(***************************************************************************)
(* Proofs about Download: the variables keep their types, the stash has a  *)
(* slot for every part that comes, and a task that is killed leaves no     *)
(* file behind; for any postings, any number of connections, commands and  *)
(* faults, and cmdlists of any size.  A download that is not uuencoded     *)
(* loses and doubles no article: each is in one place on its way from the  *)
(* server into the files, and a complete one is whole and in order.        *)
(*                                                                         *)
(* And about Throttle, which the connections that bring the articles obey: *)
(* a second takes no more than its quota and what the connections had from *)
(* the second before, for any number of connections, any quotas and any    *)
(* size of accum_. The two share no variable, and Throttle's definitions   *)
(* are named Throttle... where a name is Download's.                       *)
(***************************************************************************)
EXTENDS Download, Throttle, CollectionFacts

-----------------------------------------------------------------------------
(* The inductive invariant.  A is the set of articles.                     *)

TaskSet(A) == [st : States, articles : Seq(A), yenc : BOOLEAN, ncl : Int, slots : Nat,
               stash : Seq(A \cup {0}), named : BOOLEAN, missing : SUBSET A]
FileSet(A) == [listed : BOOLEAN, open : BOOLEAN, discard : BOOLEAN, exists : BOOLEAN,
               pos : Nat \ {0}, data : Seq(A \cup {0})]
ListSet(A) == [arts : Seq(A), run : BOOLEAN, canceled : BOOLEAN, entries : Nat]
ActionSet(A, n, kinds) == [kind : kinds, article : A, offset : 0 .. n, failed : BOOLEAN]
AnyKind == {"decode"} \cup Kinds

GoodTask(A, T) == T \in TaskSet(A) /\ Len(T.stash) \in {0, T.slots}

\* The text file has no gaps, so that what it holds are articles.
Solid(A, F) == F.data \in Seq(A) /\ F.pos <= Len(F.data) + 1
GoodFiles(A, FS) ==
    /\ FS \in [Kinds -> FileSet(A)]
    /\ \A k \in Kinds : FS[k].open \/ FS[k].listed => FS[k].exists
    /\ Solid(A, FS["text"])
GoodLists(A, ls) ==
    /\ ls \subseteq ListSet(A) /\ IsFiniteSet(ls)
    /\ \A l \in ls : l.arts # <<>>
GoodQueue(A, n, q) ==
    /\ q \in Seq(ActionSet(A, n, AnyKind))
    /\ \A i \in 1 .. Len(q) : q[i].kind = "text" => q[i].offset = 0

Types ==
    /\ posting \in Postings
    /\ GoodTask(Articles, task) /\ GoodFiles(Articles, files) /\ GoodLists(Articles, lists)
    /\ stale \in Nat
    /\ any \subseteq ActionSet(Articles, Len(posting), {"decode"})
    /\ GoodQueue(Articles, Len(posting), fifo) /\ GoodQueue(Articles, Len(posting), ready)
    /\ running \in BOOLEAN /\ lost \subseteq Articles
    /\ ncommands \in Nat /\ nfaults \in Nat

\* A task without slots, which a session without articles makes, does nothing.
Room ==
    /\ overrun \subseteq {1}
    /\ task.slots = 0 => lists = {} /\ Idle /\ task.articles = <<>>

\* The task lists every file that is open until it is killed; then only the
\* writes under way hold what will be discarded.
Kept(FS) == \A k \in Kinds : FS[k].open => FS[k].listed
Held(FS, held) ==
    \A k \in Kinds : ~FS[k].listed /\ (FS[k].open => FS[k].discard /\ k \in held)
Fates ==
    /\ task.st \notin {"killed", "crashed"} => Kept(files)
    /\ task.st = "killed" => Held(files, HeldBy(fifo, ready))

IInv == Types /\ Room /\ Fates

-----------------------------------------------------------------------------
(* Numbers and sequences.                                                  *)

LEMMA MaxOfTwo ==
    ASSUME NEW a \in Int, NEW b \in Int
    PROVE  Max({a, b}) \in {a, b} /\ Max({a, b}) >= a /\ Max({a, b}) >= b
<1>1. \E x \in {a, b} : \A y \in {a, b} : x >= y
  <2>1. CASE a >= b BY <2>1
  <2>2. CASE ~(a >= b) BY <2>2
  <2> QED BY <2>1, <2>2
<1>2. Max({a, b}) \in {a, b} /\ \A y \in {a, b} : Max({a, b}) >= y
  BY <1>1 DEF Max
<1> QED BY <1>2

LEMMA ArticleNumbers ==
    ASSUME PostingAssumption, posting \in Postings
    PROVE  /\ Articles = 1 .. Len(posting) /\ Len(posting) \in Nat
           /\ Articles \subseteq Nat \ {0}
           /\ IsFiniteSet(Articles)
<1>1. posting \in Seq(Content)
  OBVIOUS
<1>2. Articles = 1 .. Len(posting) /\ Len(posting) \in Nat
  BY <1>1 DEF Articles
<1>3. IsFiniteSet(1 .. Len(posting))
  BY <1>2, FS_Interval
<1>4. 1 .. Len(posting) \subseteq Nat \ {0}
  BY <1>2
<1> QED BY <1>2, <1>3, <1>4

\* What SubSeq keeps of a sequence.
LEMMA SubSeqFacts ==
    ASSUME NEW A, NEW s \in Seq(A), NEW m \in Nat \ {0}, NEW n \in 0 .. Len(s)
    PROVE  /\ SubSeq(s, m, n) \in Seq(A)
           /\ m <= n => SubSeq(s, m, n) # <<>>
<1>1. Len(s) \in Nat OBVIOUS
<1>2. SubSeq(s, m, n) \in Seq(A) OBVIOUS
<1>3. ASSUME m <= n PROVE SubSeq(s, m, n) # <<>>
  <2>1. Len(SubSeq(s, m, n)) = n - m + 1 BY <1>3, <1>1
  <2> QED BY <2>1, <1>3, <1>1
<1> QED BY <1>2, <1>3

-----------------------------------------------------------------------------
(* Files.                                                                  *)

LEMMA WrittenFile ==
    ASSUME NEW A, 0 \notin A, NEW F \in FileSet(A), NEW s \in Seq(A)
    PROVE  /\ PutAll(F, s) \in FileSet(A)
           /\ PutAll(F, s).listed = F.listed /\ PutAll(F, s).open = F.open
           /\ PutAll(F, s).discard = F.discard /\ PutAll(F, s).exists = F.exists
           /\ Solid(A, F) => Solid(A, PutAll(F, s))
<1> DEFINE end == F.pos + Len(s)
           m   == Max({Len(F.data), end - 1})
           d   == [i \in 1 .. m |-> IF i \in F.pos .. end - 1 THEN s[i - F.pos + 1]
                                    ELSE IF i <= Len(F.data) THEN F.data[i] ELSE 0]
<1>1. /\ F.pos \in Nat \ {0} /\ F.data \in Seq(A \cup {0}) /\ Len(F.data) \in Nat
      /\ Len(s) \in Nat
  BY DEF FileSet
<1>2. end \in Nat \ {0} /\ end - 1 \in Nat /\ end = F.pos + Len(s)
  BY <1>1
<1> HIDE DEF end
<1>3. m \in Nat /\ m >= Len(F.data) /\ m >= end - 1 /\ m \in {Len(F.data), end - 1}
  <2>1. Len(F.data) \in Int /\ end - 1 \in Int BY <1>1, <1>2
  <2>2. m \in {Len(F.data), end - 1} /\ m >= Len(F.data) /\ m >= end - 1
    BY <2>1, MaxOfTwo
  <2> QED BY <2>2, <1>1, <1>2
<1> HIDE DEF m
<1>4. PutAll(F, s) = [F EXCEPT !.pos = end, !.data = d]
  BY <1>1 DEF PutAll, FileSet, end, m
<1>5. \A i \in 1 .. m : d[i] \in A \cup {0}
  <2> TAKE i \in 1 .. m
  <2>1. CASE i \in F.pos .. end - 1
    <3>1. i - F.pos + 1 \in 1 .. Len(s) BY <2>1, <1>1, <1>2
    <3>2. s[i - F.pos + 1] \in A BY <3>1
    <3> QED BY <3>2, <2>1
  <2>2. CASE i \notin F.pos .. end - 1 /\ i <= Len(F.data)
    BY <2>2, <1>1
  <2>3. CASE i \notin F.pos .. end - 1 /\ ~(i <= Len(F.data))
    BY <2>3
  <2> QED BY <2>1, <2>2, <2>3
<1>6. d \in Seq(A \cup {0}) /\ Len(d) = m
  BY <1>3, <1>5
<1>7. ASSUME Solid(A, F) PROVE Solid(A, PutAll(F, s))
  <2>1. F.data \in Seq(A) /\ F.pos <= Len(F.data) + 1 BY <1>7 DEF Solid
  <2>2. \A i \in 1 .. m : d[i] \in A
    <3> TAKE i \in 1 .. m
    <3>1. CASE i \in F.pos .. end - 1
      <4>1. i - F.pos + 1 \in 1 .. Len(s) BY <3>1, <1>1, <1>2
      <4>2. s[i - F.pos + 1] \in A BY <4>1
      <4> QED BY <4>2, <3>1
    <3>2. CASE i \notin F.pos .. end - 1
      <4>1. i <= Len(F.data)
        BY <3>2, <2>1, <1>1, <1>2, <1>3
      <4>2. i \in 1 .. Len(F.data) BY <4>1, <1>1, <1>3
      <4>3. F.data[i] \in A BY <4>2, <2>1
      <4> QED BY <4>1, <4>3, <3>2
    <3> QED BY <3>1, <3>2
  <2>3. d \in Seq(A) BY <1>3, <2>2
  <2>4. PutAll(F, s).data = d /\ PutAll(F, s).pos = end
    BY <1>4 DEF FileSet
  <2>5. end <= m + 1 BY <1>2, <1>3
  <2> HIDE DEF d
  <2> QED BY <2>3, <2>4, <2>5, <1>6 DEF Solid
<1> HIDE DEF d
<1>8. PutAll(F, s) \in FileSet(A)
  BY <1>4, <1>6, <1>2 DEF FileSet
<1>9. /\ PutAll(F, s).listed = F.listed /\ PutAll(F, s).open = F.open
      /\ PutAll(F, s).discard = F.discard /\ PutAll(F, s).exists = F.exists
  BY <1>4 DEF FileSet
<1> QED BY <1>7, <1>8, <1>9

LEMMA EmptyFile ==
    ASSUME NEW A, NEW n \in Nat
    PROVE  /\ [i \in 1 .. n |-> 0] \in Seq(A \cup {0})
           /\ [i \in 1 .. 0 |-> 0] \in Seq(A)
           /\ Len([i \in 1 .. 0 |-> 0]) = 0
  OBVIOUS

LEMMA CreatedFile ==
    ASSUME NEW A, NEW FS, GoodFiles(A, FS), NEW k \in Kinds, NEW n \in Nat,
           k = "text" => n = 0
    PROVE  /\ GoodFiles(A, CreateFile(FS, k, n))
           /\ Kept(FS) => Kept(CreateFile(FS, k, n))
<1> DEFINE d == [i \in 1 .. n |-> 0]
           N == [listed |-> TRUE, open |-> TRUE, discard |-> FALSE, exists |-> TRUE,
                 pos |-> 1, data |-> d]
<1>1. d \in Seq(A \cup {0}) /\ (k = "text" => d \in Seq(A) /\ Len(d) = 0)
  <2>1. CASE k = "text"
    <3>1. n = 0 BY <2>1
    <3> QED BY <3>1, EmptyFile
  <2>2. CASE k # "text" BY <2>2, EmptyFile
  <2> QED BY <2>1, <2>2
<1> HIDE DEF d
<1>2. /\ N \in FileSet(A) /\ N.open /\ N.listed /\ N.exists
      /\ k = "text" => Solid(A, N)
  BY <1>1 DEF FileSet, Solid
<1> HIDE DEF N
<1>3. CASE FS[k].listed
  BY <1>3 DEF CreateFile
<1>4. CASE ~FS[k].listed
  <2>1. CreateFile(FS, k, n) = [FS EXCEPT ![k] = N]
    BY <1>4 DEF CreateFile, N, d
  <2> QED BY <2>1, <1>2 DEF GoodFiles, Kinds, Kept
<1> QED BY <1>3, <1>4

LEMMA ClosedAll ==
    ASSUME NEW A, NEW FS, GoodFiles(A, FS)
    PROVE  GoodFiles(A, ClosedFiles(FS)) /\ Kept(ClosedFiles(FS))
  BY DEF ClosedFiles, GoodFiles, Kept, Kinds, FileSet, Solid

LEMMA ErasedAll ==
    ASSUME NEW A, NEW FS, GoodFiles(A, FS), NEW held
    PROVE  /\ GoodFiles(A, Erased(FS, held))
           /\ Kept(FS) => Kept(Erased(FS, held))
           /\ \A h : Held(FS, h) => Held(Erased(FS, held), h \cap held)
<1>1. Erased(FS, held) \in [Kinds -> FileSet(A)]
  BY DEF Erased, GoodFiles, FileSet
<1>2. GoodFiles(A, Erased(FS, held))
  BY <1>1 DEF Erased, GoodFiles, FileSet, Kinds, Solid
<1>3. Kept(FS) => Kept(Erased(FS, held))
  BY DEF Erased, GoodFiles, FileSet, Kept
<1>4. ASSUME NEW h, Held(FS, h) PROVE Held(Erased(FS, held), h \cap held)
  BY <1>4 DEF Erased, GoodFiles, FileSet, Held
<1> QED BY <1>2, <1>3, <1>4

\* The files of a task to be discarded, and those of a loaded session.
LEMMA DiscardedAll ==
    ASSUME NEW A, NEW FS, GoodFiles(A, FS), Kept(FS), NEW held
    PROVE  /\ GoodFiles(A, Erased(DiscardedFiles(FS), held))
           /\ Held(Erased(DiscardedFiles(FS), held), held)
<1>1. GoodFiles(A, DiscardedFiles(FS))
  BY DEF DiscardedFiles, GoodFiles, FileSet, Kinds, Solid
<1>2. Held(DiscardedFiles(FS), Kinds)
  BY DEF DiscardedFiles, GoodFiles, FileSet, Kinds, Held, Kept
<1>3. Held(Erased(DiscardedFiles(FS), held), Kinds \cap held)
  BY <1>1, <1>2, ErasedAll
<1> QED BY <1>1, <1>3, ErasedAll DEF Held

LEMMA ReopenedAll ==
    ASSUME NEW A, NEW FS, GoodFiles(A, FS), Kept(FS)
    PROVE  /\ GoodFiles(A, [k \in Kinds |-> Reopened(FS[k])])
           /\ Kept([k \in Kinds |-> Reopened(FS[k])])
<1> DEFINE G == [k \in Kinds |-> Reopened(FS[k])]
<1>1. ASSUME NEW k \in Kinds
      PROVE  /\ G[k] \in FileSet(A)
             /\ G[k].open \/ G[k].listed => G[k].exists
             /\ G[k].open => G[k].listed
             /\ G[k].data = FS[k].data /\ G[k].pos \in {1, FS[k].pos}
  <2> DEFINE F == FS[k]
  <2>1. F \in FileSet(A) /\ (F.open \/ F.listed => F.exists) /\ (F.open => F.listed)
    BY DEF GoodFiles, Kept
  <2>2. G[k] = Reopened(F) OBVIOUS
  <2> HIDE DEF F, G
  <2>3. CASE F.listed
    <3>1. G[k] = [F EXCEPT !.pos = 1, !.open = TRUE]
      BY <2>2, <2>3 DEF Reopened
    <3>2. G[k].data = F.data /\ G[k].pos = 1 BY <3>1, <2>1 DEF FileSet
    <3>3. G[k] \in FileSet(A)
      <4>1. /\ F = [listed |-> F.listed, open |-> F.open, discard |-> F.discard,
                    exists |-> F.exists, pos |-> F.pos, data |-> F.data]
            /\ F.listed \in BOOLEAN /\ F.discard \in BOOLEAN /\ F.exists \in BOOLEAN
            /\ F.data \in Seq(A \cup {0})
        BY <2>1 DEF FileSet
      <4>2. G[k] = [listed |-> F.listed, open |-> TRUE, discard |-> F.discard,
                    exists |-> F.exists, pos |-> 1, data |-> F.data]
        BY <3>1, <4>1
      <4> QED BY <4>1, <4>2 DEF FileSet
    <3>4. G[k].listed = F.listed /\ G[k].exists = F.exists BY <3>1, <2>1 DEF FileSet
    <3> QED BY <3>2, <3>3, <3>4, <2>1, <2>3 DEF F
  <2>4. CASE ~F.listed
    <3>1. G[k] = F BY <2>2, <2>4 DEF Reopened
    <3> QED BY <3>1, <2>1 DEF F
  <2> QED BY <2>3, <2>4
<1>2. Solid(A, G["text"])
  <2>1. FS["text"].data \in Seq(A) /\ FS["text"].pos <= Len(FS["text"].data) + 1
    BY DEF GoodFiles, Solid
  <2>2. Len(FS["text"].data) \in Nat BY <2>1
  <2>3. 1 <= Len(FS["text"].data) + 1 BY <2>2
  <2> QED BY <2>1, <2>3, <1>1 DEF Solid, Kinds
<1>3. \A k \in Kinds : G[k].open \/ G[k].listed => G[k].exists
  BY <1>1
<1>4. G \in [Kinds -> FileSet(A)]
  BY <1>1
<1>5. Kept(G)
  BY <1>1 DEF Kept
<1> HIDE DEF G
<1>6. GoodFiles(A, G)
  BY <1>2, <1>3, <1>4 DEF GoodFiles
<1> QED BY <1>5, <1>6 DEF G

-----------------------------------------------------------------------------
(* The end of a task.                                                      *)

LEMMA StashedParts ==
    ASSUME NEW A, 0 \notin A, NEW s \in Seq(A \cup {0})
    PROVE  Parts(s) \in Seq(A)
<1> DEFINE t == Without(s, {0})
<1>1. t \in Seq(A \cup {0}) /\ Range(t) = Range(s) \ {0}
  BY WithoutFacts
<1> HIDE DEF t
<1>2. \A i \in 1 .. Len(t) : t[i] \in A
  <2>1. Range(s) \subseteq A \cup {0} BY RangeFacts
  <2>2. Range(t) \subseteq A BY <2>1, <1>1
  <2> QED BY <2>2, <1>1 DEF Range
<1>3. t \in Seq(A) BY <1>1, <1>2
<1> QED BY <1>3 DEF Parts, t

\* What a decision about a task may do to it and to its files.
Ends(A, T, S) ==
    /\ DOMAIN S = {"task", "files", "idle", "full"}
    /\ GoodTask(A, S.task) /\ GoodFiles(A, S.files) /\ Kept(S.files)
    /\ S.task.slots = T.slots /\ S.task.articles = T.articles
    /\ S.task.st \in {T.st, "queued", "waiting", "complete", "error", "crashed"}

Decision(T, FS, i, f) == [task |-> T, files |-> FS, idle |-> i, full |-> f]

LEMMA TaskWith ==
    ASSUME NEW A, NEW T, GoodTask(A, T), NEW st \in States
    PROVE  /\ GoodTask(A, [T EXCEPT !.st = st])
           /\ [T EXCEPT !.st = st].slots = T.slots
           /\ [T EXCEPT !.st = st].articles = T.articles
           /\ [T EXCEPT !.st = st].st = st
  BY DEF GoodTask, TaskSet

Emptied(T, st) == [T EXCEPT !.stash = <<>>, !.st = st]

LEMMA TaskWithout ==
    ASSUME NEW A, NEW T, GoodTask(A, T), NEW st \in States
    PROVE  /\ GoodTask(A, Emptied(T, st))
           /\ Emptied(T, st).slots = T.slots
           /\ Emptied(T, st).articles = T.articles
           /\ Emptied(T, st).st = st
<1>1. T \in TaskSet(A) BY DEF GoodTask
<1>2. <<>> \in Seq(A \cup {0}) OBVIOUS
<1>3. /\ Emptied(T, st) \in TaskSet(A) /\ Emptied(T, st).stash = <<>>
      /\ Emptied(T, st).slots = T.slots
      /\ Emptied(T, st).articles = T.articles /\ Emptied(T, st).st = st
  BY <1>1, <1>2 DEF TaskSet, Emptied
<1>4. Len(Emptied(T, st).stash) = 0 BY <1>3
<1>5. GoodTask(A, Emptied(T, st)) BY <1>3, <1>4 DEF GoodTask
<1> QED BY <1>3, <1>5

LEMMA CommitEnds ==
    ASSUME NEW A, 0 \notin A, NEW T, NEW FS, NEW i, NEW f,
           GoodTask(A, T), GoodFiles(A, FS), Kept(FS)
    PROVE  Ends(A, T, Commit(Decision(T, FS, i, f)))
<1> DEFINE S == Decision(T, FS, i, f)
           Made == CreateFile(FS, "binary", 0)
           Filled == [Made EXCEPT !["binary"] = PutAll(@, Parts(T.stash))]
<1>1. S.task = T /\ S.files = FS /\ S.full = f
      /\ DOMAIN S = {"task", "files", "idle", "full"}
  BY DEF Decision
<1>2. GoodFiles(A, Made) /\ Kept(Made)
  BY CreatedFile DEF Kinds
<1>3. Parts(T.stash) \in Seq(A)
  BY StashedParts DEF GoodTask, TaskSet
<1>4. GoodFiles(A, Filled) /\ Kept(Filled)
  <2> HIDE DEF Made
  <2> DEFINE F == PutAll(Made["binary"], Parts(T.stash))
  <2>1. Made["binary"] \in FileSet(A) BY <1>2 DEF GoodFiles, Kinds
  <2>2. F \in FileSet(A) /\ F.listed = Made["binary"].listed
        /\ F.open = Made["binary"].open /\ F.exists = Made["binary"].exists
    BY <2>1, <1>3, WrittenFile
  <2>3. Filled = [Made EXCEPT !["binary"] = F] OBVIOUS
  <2> HIDE DEF F, Filled
  <2> QED BY <2>2, <2>3, <1>2 DEF GoodFiles, Kept, Kinds
<1>5. \A G : GoodFiles(A, G) => GoodFiles(A, ClosedFiles(G)) /\ Kept(ClosedFiles(G))
  BY ClosedAll
<1>7. CASE T.stash = <<>>
  <2>1. Commit(S) = [S EXCEPT !.files = ClosedFiles(FS), !.task.st = "complete"]
    BY <1>7, <1>1 DEF Commit
  <2>2. /\ Commit(S).files = ClosedFiles(FS)
        /\ Commit(S).task = [T EXCEPT !.st = "complete"]
        /\ DOMAIN Commit(S) = DOMAIN S
    BY <2>1, <1>1 DEF Decision
  <2>3. "complete" \in States BY DEF States
  <2>4. GoodTask(A, Commit(S).task) /\ Commit(S).task.slots = T.slots
        /\ Commit(S).task.articles = T.articles /\ Commit(S).task.st = "complete"
    BY <2>2, <2>3, TaskWith
  <2> QED BY <1>1, <2>2, <2>4, <1>5 DEF Ends
<1>8. CASE T.stash # <<>> /\ (~T.named \/ f)
  <2>1. Commit(S) = [S EXCEPT !.task.st = "error"]
    BY <1>8, <1>1 DEF Commit
  <2>2. /\ Commit(S).files = FS
        /\ Commit(S).task = [T EXCEPT !.st = "error"]
        /\ DOMAIN Commit(S) = DOMAIN S
    BY <2>1, <1>1 DEF Decision
  <2>3. "error" \in States BY DEF States
  <2>4. GoodTask(A, Commit(S).task) /\ Commit(S).task.slots = T.slots
        /\ Commit(S).task.articles = T.articles /\ Commit(S).task.st = "error"
    BY <2>2, <2>3, TaskWith
  <2> QED BY <1>1, <2>2, <2>4 DEF Ends
<1>9. CASE T.stash # <<>> /\ T.named /\ ~f /\ ~Made["binary"].open
  <2>1. Commit(S) = [S EXCEPT !.task.st = "crashed"]
    BY <1>9, <1>1 DEF Commit
  <2>2. /\ Commit(S).files = FS
        /\ Commit(S).task = [T EXCEPT !.st = "crashed"]
        /\ DOMAIN Commit(S) = DOMAIN S
    BY <2>1, <1>1 DEF Decision
  <2>3. "crashed" \in States BY DEF States
  <2>4. GoodTask(A, Commit(S).task) /\ Commit(S).task.slots = T.slots
        /\ Commit(S).task.articles = T.articles /\ Commit(S).task.st = "crashed"
    BY <2>2, <2>3, TaskWith
  <2> QED BY <1>1, <2>2, <2>4 DEF Ends
<1>10. CASE T.stash # <<>> /\ T.named /\ ~f /\ Made["binary"].open
  <2>1. Commit(S) = [S EXCEPT !.files = ClosedFiles(Filled),
                              !.task.stash = <<>>, !.task.st = "complete"]
    BY <1>10, <1>1 DEF Commit
  <2>2. /\ Commit(S).files = ClosedFiles(Filled)
        /\ Commit(S).task = [T EXCEPT !.stash = <<>>, !.st = "complete"]
        /\ DOMAIN Commit(S) = DOMAIN S
    BY <2>1, <1>1 DEF Decision
  <2>3. "complete" \in States BY DEF States
  <2>4. GoodTask(A, Commit(S).task) /\ Commit(S).task.slots = T.slots
        /\ Commit(S).task.articles = T.articles /\ Commit(S).task.st = "complete"
    <3>1. /\ GoodTask(A, Emptied(T, "complete"))
          /\ Emptied(T, "complete").slots = T.slots
          /\ Emptied(T, "complete").articles = T.articles
          /\ Emptied(T, "complete").st = "complete"
      BY <2>3, TaskWithout
    <3>2. Commit(S).task = Emptied(T, "complete") BY <2>2 DEF Emptied
    <3> QED BY <3>1, <3>2
  <2>5. GoodFiles(A, ClosedFiles(Filled)) /\ Kept(ClosedFiles(Filled))
    BY <1>4, <1>5
  <2>6. GoodFiles(A, Commit(S).files) /\ Kept(Commit(S).files)
    BY <2>2, <2>5
  <2> QED BY <1>1, <2>2, <2>4, <2>6 DEF Ends
<1> QED BY <1>7, <1>8, <1>9, <1>10

LEMMA UpdateEnds ==
    ASSUME NEW A, 0 \notin A, NEW T, NEW FS, NEW i, NEW f,
           GoodTask(A, T), GoodFiles(A, FS), Kept(FS)
    PROVE  Ends(A, T, UpdateCompletion(Decision(T, FS, i, f)))
<1> DEFINE S == Decision(T, FS, i, f)
<1>1. S.task = T /\ S.files = FS /\ S.idle = i
      /\ DOMAIN S = {"task", "files", "idle", "full"}
  BY DEF Decision
<1>3. Ends(A, T, S)
  BY <1>1 DEF Ends
<1>4. CASE UpdateCompletion(S) = S
  BY <1>3, <1>4
<1>5. CASE UpdateCompletion(S) = [S EXCEPT !.task.st = "waiting"]
  <2>1. /\ UpdateCompletion(S).files = FS
        /\ UpdateCompletion(S).task = [T EXCEPT !.st = "waiting"]
        /\ DOMAIN UpdateCompletion(S) = DOMAIN S
    BY <1>5, <1>1 DEF Decision
  <2>2. "waiting" \in States BY DEF States
  <2>3. LET U == UpdateCompletion(S).task
        IN  GoodTask(A, U) /\ U.slots = T.slots /\ U.articles = T.articles /\ U.st = "waiting"
    BY <2>1, <2>2, TaskWith
  <2> QED BY <1>1, <2>1, <2>3 DEF Ends
<1>6. CASE UpdateCompletion(S) = Commit(S)
  BY <1>6, CommitEnds
<1>7. \/ UpdateCompletion(S) = S
      \/ UpdateCompletion(S) = [S EXCEPT !.task.st = "waiting"]
      \/ UpdateCompletion(S) = Commit(S)
  <2> HIDE DEF S
  <2> QED BY DEF UpdateCompletion
<1> QED BY <1>4, <1>5, <1>6, <1>7

-----------------------------------------------------------------------------
(* A decode that has ended.                                                *)

LEMMA QueueAppended ==
    ASSUME NEW A, NEW n, NEW q, GoodQueue(A, n, q), NEW x \in ActionSet(A, n, AnyKind),
           x.kind = "text" => x.offset = 0
    PROVE  GoodQueue(A, n, Append(q, x))
<1>1. q \in Seq(ActionSet(A, n, AnyKind))
  BY DEF GoodQueue
<1>2. Append(q, x) \in Seq(ActionSet(A, n, AnyKind))
  BY <1>1
<1>3. /\ Len(Append(q, x)) = Len(q) + 1 /\ Len(q) \in Nat
      /\ \A i \in 1 .. Len(q) : Append(q, x)[i] = q[i]
      /\ Append(q, x)[Len(q) + 1] = x
  BY <1>1
<1>4. ASSUME NEW i \in 1 .. Len(Append(q, x))
      PROVE  Append(q, x)[i].kind = "text" => Append(q, x)[i].offset = 0
  <2>1. i \in 1 .. Len(q) \/ i = Len(q) + 1 BY <1>3
  <2>2. CASE i \in 1 .. Len(q) BY <2>2, <1>3 DEF GoodQueue
  <2>3. CASE i = Len(q) + 1 BY <2>3, <1>3
  <2> QED BY <2>1, <2>2, <2>3
<1> QED BY <1>2, <1>4 DEF GoodQueue

LEMMA QueuesJoined ==
    ASSUME NEW A, NEW n, NEW q, NEW r, GoodQueue(A, n, q), GoodQueue(A, n, r)
    PROVE  GoodQueue(A, n, q \o r)
<1> DEFINE X == ActionSet(A, n, AnyKind)
<1>1. q \in Seq(X) /\ r \in Seq(X)
  BY DEF GoodQueue
<1> HIDE DEF X
<1>2. q \o r \in Seq(X)
  BY <1>1
<1>3. /\ Len(q \o r) = Len(q) + Len(r) /\ Len(q) \in Nat /\ Len(r) \in Nat
      /\ \A i \in 1 .. Len(q) + Len(r) :
           (q \o r)[i] = IF i <= Len(q) THEN q[i] ELSE r[i - Len(q)]
  BY <1>1
<1>4. ASSUME NEW i \in 1 .. Len(q \o r)
      PROVE  (q \o r)[i].kind = "text" => (q \o r)[i].offset = 0
  <2>1. CASE i <= Len(q)
    <3>1. (q \o r)[i] = q[i] /\ i \in 1 .. Len(q) BY <2>1, <1>3
    <3> QED BY <3>1 DEF GoodQueue
  <2>2. CASE ~(i <= Len(q))
    <3>1. (q \o r)[i] = r[i - Len(q)] /\ i - Len(q) \in 1 .. Len(r) BY <2>2, <1>3
    <3> QED BY <3>1 DEF GoodQueue
  <2> QED BY <2>1, <2>2
<1> QED BY <1>2, <1>4 DEF GoodQueue, X

LEMMA QueueTail ==
    ASSUME NEW A, NEW n, NEW q, GoodQueue(A, n, q), q # <<>>
    PROVE  /\ GoodQueue(A, n, Tail(q))
           /\ Head(q) \in ActionSet(A, n, AnyKind)
           /\ Head(q).kind = "text" => Head(q).offset = 0
           /\ ToSet(q) = {Head(q)} \cup ToSet(Tail(q))
<1> DEFINE X == ActionSet(A, n, AnyKind)
<1>1. q \in Seq(X)
  BY DEF GoodQueue
<1> HIDE DEF X
<1>2. /\ Tail(q) \in Seq(X) /\ Len(Tail(q)) = Len(q) - 1 /\ Len(q) \in Nat \ {0}
      /\ \A i \in 1 .. Len(q) - 1 : Tail(q)[i] = q[i + 1]
      /\ Head(q) = q[1] /\ Head(q) \in X
  BY <1>1
<1>3. \A i \in 1 .. Len(Tail(q)) : Tail(q)[i].kind = "text" => Tail(q)[i].offset = 0
  <2> TAKE i \in 1 .. Len(Tail(q))
  <2>1. i + 1 \in 1 .. Len(q) /\ Tail(q)[i] = q[i + 1] BY <1>2
  <2> QED BY <2>1 DEF GoodQueue
<1>4. 1 \in 1 .. Len(q) BY <1>2
<1>5. DOMAIN q = 1 .. Len(q) /\ DOMAIN Tail(q) = 1 .. Len(q) - 1
  BY <1>1, <1>2
<1>6. ToSet(q) = {Head(q)} \cup ToSet(Tail(q))
  <2>1. ASSUME NEW i \in DOMAIN q PROVE q[i] \in {Head(q)} \cup ToSet(Tail(q))
    <3>1. CASE i = 1 BY <3>1, <1>2
    <3>2. CASE i # 1
      <4>1. i - 1 \in 1 .. Len(q) - 1 /\ (i - 1) + 1 = i BY <3>2, <1>5, <1>2
      <4>2. Tail(q)[i - 1] = q[i] BY <4>1, <1>2
      <4> QED BY <4>1, <4>2, <1>5 DEF ToSet
    <3> QED BY <3>1, <3>2
  <2>2. ASSUME NEW i \in DOMAIN Tail(q) PROVE Tail(q)[i] \in ToSet(q)
    <3>1. i + 1 \in DOMAIN q /\ Tail(q)[i] = q[i + 1] BY <1>5, <1>2
    <3> QED BY <3>1 DEF ToSet
  <2>3. Head(q) \in ToSet(q) BY <1>2, <1>4, <1>5 DEF ToSet
  <2> QED BY <2>1, <2>2, <2>3 DEF ToSet
<1> QED BY <1>2, <1>3, <1>4, <1>6 DEF GoodQueue, X

\* What a decode makes of its task: T before, S after it.
Handled(T, S) ==
    /\ DOMAIN S = {"task", "files", "next", "overrun"}
    /\ GoodTask(Articles, S.task) /\ GoodFiles(Articles, S.files) /\ Kept(S.files)
    /\ S.task.slots = T.slots /\ S.task.articles = T.articles /\ S.task.st = T.st
    /\ GoodQueue(Articles, Len(posting), S.next) /\ S.overrun \subseteq {1}

\* The first free slot for a middle part is one of the stash.
LEMMA MiddleSlotFits ==
    ASSUME NEW s, NEW n \in Nat \ {0}, Len(s) = n
    PROVE  MiddleSlot(s) \in Nat /\ (n # 1 => MiddleSlot(s) \in 1 .. n)
<1> DEFINE Free == {i \in 2 .. Len(s) - 1 : s[i] = 0} \cup {Max({2, Len(s)})}
<1>1. Max({2, Len(s)}) \in {2, n} /\ Max({2, Len(s)}) >= 2
  <2>1. 2 \in Int /\ Len(s) \in Int OBVIOUS
  <2> QED BY <2>1, MaxOfTwo
<1>2. Free \in SUBSET Nat /\ Free # {}
  BY <1>1
<1>3. \A i \in Free : n # 1 => i \in 1 .. n
  BY <1>1
<1>4. MiddleSlot(s) = Min(Free)
  BY DEF MiddleSlot
<1> HIDE DEF Free
<1>5. MiddleSlot(s) \in Free
  BY <1>2, <1>4, MinFacts
<1> QED BY <1>2, <1>3, <1>5

LEMMA SlotFits ==
    ASSUME NEW A, NEW s \in Seq(A), s # <<>>, NEW p \in Stashable
    PROVE  Slot(p, s) \in DOMAIN s \/ Len(s) = 1
<1>1. Len(s) \in Nat \ {0} /\ DOMAIN s = 1 .. Len(s)
  <2>1. Len(s) \in Nat /\ DOMAIN s = 1 .. Len(s) OBVIOUS
  <2>2. Len(s) # 0 OBVIOUS
  <2> QED BY <2>1, <2>2
<1>2. CASE p = "first" BY <1>2, <1>1 DEF Slot
<1>3. CASE p = "last" BY <1>3, <1>1 DEF Slot
<1>4. CASE p = "middle"
  <2>1. Slot(p, s) = MiddleSlot(s) BY <1>4 DEF Slot
  <2> QED BY <2>1, <1>1, MiddleSlotFits
<1> QED BY <1>2, <1>3, <1>4 DEF Stashable

Item(T, FS) == [task |-> T, files |-> FS, next |-> <<>>, overrun |-> {}]

LEMMA BinaryHandled ==
    ASSUME PostingAssumption, posting \in Postings, NEW T, NEW FS, NEW a \in Articles,
           GoodTask(Articles, T), T.slots # 0, GoodFiles(Articles, FS), Kept(FS)
    PROVE  Handled(T, Binary(Item(T, FS), a))
<1> DEFINE S == Item(T, FS)
           A == Articles
           parts == posting[a] \cap Stashable
           stash == IF T.stash = <<>> THEN [i \in 1 .. T.slots |-> 0] ELSE T.stash
           slot == Slot(CHOOSE p \in parts : TRUE, stash)
           Into(size, offset) == [S EXCEPT !.files = CreateFile(FS, "binary", size),
                                           !.next = Append(<<>>, Write("binary", a, offset))]
<1>1. A = 1 .. Len(posting) /\ Len(posting) \in Nat /\ 0 \notin A
  BY ArticleNumbers
<1>2. T \in TaskSet(A) /\ Len(T.stash) \in {0, T.slots} /\ T.slots \in Nat \ {0}
  BY DEF GoodTask, TaskSet
<1>3. stash \in Seq(A \cup {0}) /\ Len(stash) = T.slots /\ stash # <<>>
  <2>1. CASE T.stash = <<>>
    <3>1. [i \in 1 .. T.slots |-> 0] \in Seq(A \cup {0})
      BY <1>2
    <3>2. Len([i \in 1 .. T.slots |-> 0]) = T.slots BY <1>2
    <3> QED BY <3>1, <3>2, <2>1, <1>2
  <2>2. CASE T.stash # <<>>
    <3>1. T.stash \in Seq(A \cup {0}) BY <1>2 DEF TaskSet
    <3>2. Len(T.stash) # 0 BY <3>1, <2>2
    <3> QED BY <3>1, <3>2, <2>2, <1>2
  <2> QED BY <2>1, <2>2
<1> HIDE DEF stash
<1>4. /\ S.task = T /\ S.files = FS /\ S.next = <<>> /\ S.overrun = {}
      /\ DOMAIN S = {"task", "files", "next", "overrun"}
  BY DEF Item
<1>5. GoodQueue(A, Len(posting), <<>>)
  BY DEF GoodQueue
<1>6. ASSUME NEW size \in Nat, NEW offset \in 0 .. Len(posting)
      PROVE  Handled(T, Into(size, offset))
  <2> DEFINE W == Write("binary", a, offset)
             FC == CreateFile(FS, "binary", size)
  <2>1. W \in ActionSet(A, Len(posting), AnyKind) /\ W.kind = "binary"
    BY <1>1 DEF Write, ActionSet, AnyKind, Kinds
  <2>2. GoodFiles(A, FC) /\ Kept(FC)
    BY CreatedFile DEF Kinds
  <2> HIDE DEF W, FC
  <2>3. GoodQueue(A, Len(posting), Append(<<>>, W))
    BY <2>1, <1>5, QueueAppended
  <2>4. Into(size, offset) = [S EXCEPT !.files = FC, !.next = Append(<<>>, W)]
    BY DEF W, FC
  <2>5. /\ Into(size, offset).task = T /\ Into(size, offset).files = FC
        /\ Into(size, offset).next = Append(<<>>, W) /\ Into(size, offset).overrun = {}
        /\ DOMAIN Into(size, offset) = DOMAIN S
    BY <2>4 DEF Item
  <2> QED BY <1>4, <2>2, <2>3, <2>5 DEF Handled
<1>7. Binary(S, a) =
        CASE "yenc" \in posting[a] -> Into(Len(posting), a)
          [] "whole" \in posting[a] -> Into(0, 0)
          [] parts # {} /\ slot \in DOMAIN stash ->
               [S EXCEPT !.task.stash = [stash EXCEPT ![slot] = a],
                         !.task.named = @ \/ "first" \in parts]
          [] parts # {} /\ slot \notin DOMAIN stash ->
               [S EXCEPT !.task.stash = stash, !.overrun = {Len(stash)}]
          [] OTHER -> S
  BY <1>4 DEF Binary, stash
<1> HIDE DEF Into
<1>15. /\ "yenc" \in posting[a] => parts = {} /\ "whole" \notin posting[a]
       /\ "whole" \in posting[a] => parts = {}
  <2>1. posting[a] \in Content
    <3>1. posting \in Seq(Content) OBVIOUS
    <3> QED BY <3>1 DEF Articles
  <2> QED BY <2>1 DEF Content, Stashable
<1>8. CASE "yenc" \in posting[a]
  <2>1. Binary(S, a) = Into(Len(posting), a)
    <3> HIDE DEF parts, slot
    <3> QED BY <1>7, <1>8, <1>15
  <2> QED BY <2>1, <1>1, <1>6
<1>9. CASE "yenc" \notin posting[a] /\ "whole" \in posting[a]
  <2>1. Binary(S, a) = Into(0, 0)
    <3> HIDE DEF parts, slot
    <3> QED BY <1>7, <1>9, <1>15
  <2>2. 0 \in Nat /\ 0 \in 0 .. Len(posting) BY <1>1
  <2> QED BY <2>1, <2>2, <1>6
<1>10. CASE /\ "yenc" \notin posting[a] /\ "whole" \notin posting[a]
            /\ parts # {} /\ slot \in DOMAIN stash
  <2> DEFINE st == [stash EXCEPT ![slot] = a]
             nm == T.named \/ "first" \in parts
             U  == [T EXCEPT !.stash = st, !.named = nm]
  <2>1. Binary(S, a) = [S EXCEPT !.task.stash = st, !.task.named = nm]
    BY <1>7, <1>10, <1>4
  <2>2. st \in Seq(A \cup {0}) /\ Len(st) = T.slots
    BY <1>3, <1>10
  <2>3. nm \in BOOLEAN OBVIOUS
  <2> HIDE DEF st, nm
  <2>4. U \in TaskSet(A) /\ U.stash = st /\ U.slots = T.slots /\ U.articles = T.articles
        /\ U.st = T.st
    BY <2>2, <2>3, <1>2 DEF TaskSet
  <2>5. /\ Binary(S, a).task = U /\ Binary(S, a).files = FS
        /\ Binary(S, a).next = <<>> /\ Binary(S, a).overrun = {}
        /\ DOMAIN Binary(S, a) = DOMAIN S
    BY <2>1 DEF Item
  <2>6. GoodTask(A, U) BY <2>2, <2>4 DEF GoodTask
  <2> QED BY <1>4, <2>4, <2>5, <2>6, <1>5 DEF Handled
<1>11. CASE /\ "yenc" \notin posting[a] /\ "whole" \notin posting[a]
            /\ parts # {} /\ slot \notin DOMAIN stash
  <2> DEFINE p == CHOOSE p \in parts : TRUE
             U == [T EXCEPT !.stash = stash]
  <2>1. Binary(S, a) = [S EXCEPT !.task.stash = stash, !.overrun = {Len(stash)}]
    BY <1>7, <1>11
  <2>2. p \in Stashable BY <1>11
  <2>3. slot = Slot(p, stash) OBVIOUS
  <2> HIDE DEF p, slot
  <2>4. Len(stash) = 1
    BY <2>2, <2>3, <1>3, <1>11, SlotFits
  <2>5. U \in TaskSet(A) /\ U.stash = stash /\ U.slots = T.slots /\ U.articles = T.articles
        /\ U.st = T.st
    BY <1>2, <1>3 DEF TaskSet
  <2>6. /\ Binary(S, a).task = U /\ Binary(S, a).files = FS
        /\ Binary(S, a).next = <<>> /\ Binary(S, a).overrun = {1}
        /\ DOMAIN Binary(S, a) = DOMAIN S
    BY <2>1, <2>4 DEF Item
  <2>7. GoodTask(A, U) BY <2>5, <1>3 DEF GoodTask
  <2> QED BY <1>4, <2>5, <2>6, <2>7, <1>5 DEF Handled
<1>12. CASE "yenc" \notin posting[a] /\ "whole" \notin posting[a] /\ parts = {}
  <2>1. Binary(S, a) = S
    <3> HIDE DEF parts, slot
    <3> QED BY <1>7, <1>12
  <2> QED BY <2>1, <1>4, <1>5 DEF Handled, Item
<1>13. \/ "yenc" \in posting[a]
       \/ "yenc" \notin posting[a] /\ "whole" \in posting[a]
       \/ /\ "yenc" \notin posting[a] /\ "whole" \notin posting[a]
          /\ parts # {} /\ slot \in DOMAIN stash
       \/ /\ "yenc" \notin posting[a] /\ "whole" \notin posting[a]
          /\ parts # {} /\ slot \notin DOMAIN stash
       \/ "yenc" \notin posting[a] /\ "whole" \notin posting[a] /\ parts = {}
  <2> HIDE DEF parts, slot
  <2> QED OBVIOUS
<1> HIDE DEF parts, slot
<1> QED BY <1>8, <1>9, <1>10, <1>11, <1>12, <1>13

LEMMA TextHandled ==
    ASSUME PostingAssumption, posting \in Postings, NEW T, NEW S, Handled(T, S),
           NEW a \in Articles
    PROVE  Handled(T, Text(S, a))
<1> DEFINE W  == Write("text", a, 0)
           FC == CreateFile(S.files, "text", 0)
           U  == [S EXCEPT !.files = FC, !.next = Append(S.next, W)]
<1>1. CASE "text" \notin posting[a]
  BY <1>1 DEF Text
<1>2. CASE "text" \in posting[a]
  <2>1. W \in ActionSet(Articles, Len(posting), AnyKind) /\ W.offset = 0
    <3>1. 0 \in 0 .. Len(posting) BY ArticleNumbers
    <3> QED BY <3>1 DEF Write, ActionSet, AnyKind, Kinds
  <2>2. GoodFiles(Articles, FC) /\ Kept(FC)
    BY CreatedFile DEF Handled, Kinds
  <2>3. GoodQueue(Articles, Len(posting), Append(S.next, W))
    <3>1. GoodQueue(Articles, Len(posting), S.next) BY DEF Handled
    <3> HIDE DEF W
    <3> QED BY <3>1, <2>1, QueueAppended
  <2>4. Text(S, a) = U
    BY <1>2 DEF Text
  <2> HIDE DEF W, FC
  <2>5. /\ U.task = S.task /\ U.files = FC /\ U.next = Append(S.next, W)
        /\ U.overrun = S.overrun /\ DOMAIN U = DOMAIN S
    <3>1. DOMAIN S = {"task", "files", "next", "overrun"} BY DEF Handled
    <3> QED BY <3>1
  <2> HIDE DEF U
  <2> QED BY <2>2, <2>3, <2>4, <2>5 DEF Handled
<1> QED BY <1>1, <1>2

-----------------------------------------------------------------------------
(* What each step must show of the next state.                             *)

TypesAfter ==
    /\ posting' = posting
    /\ GoodTask(Articles, task') /\ GoodFiles(Articles, files') /\ GoodLists(Articles, lists')
    /\ stale' \in Nat
    /\ any' \subseteq ActionSet(Articles, Len(posting), {"decode"})
    /\ GoodQueue(Articles, Len(posting), fifo') /\ GoodQueue(Articles, Len(posting), ready')
    /\ running' \in BOOLEAN /\ lost' \subseteq Articles
    /\ ncommands' \in Nat /\ nfaults' \in Nat
RoomAfter ==
    /\ overrun' \subseteq {1}
    /\ task'.slots = 0 => /\ lists' = {} /\ any' = {} /\ fifo' = <<>> /\ ready' = <<>>
                          /\ task'.articles = <<>>
FatesAfter ==
    /\ task'.st \notin {"killed", "crashed"} => Kept(files')
    /\ task'.st = "killed" => Held(files', HeldBy(fifo', ready'))

LEMMA InvAfter ==
    ASSUME IInv, TypesAfter, RoomAfter, FatesAfter
    PROVE  IInv'
<1>1. posting' = posting /\ Articles' = Articles
  BY DEF TypesAfter, Articles
<1>2. Types'
  BY <1>1 DEF IInv, Types, TypesAfter, GoodTask, GoodFiles, GoodLists, GoodQueue, Solid,
              TaskSet, FileSet, ListSet, ActionSet, AnyKind
<1>3. Room'
  BY DEF RoomAfter, Room, Idle
<1>4. Fates'
  BY DEF FatesAfter, Fates, Kept, Held, HeldBy
<1> QED BY <1>2, <1>3, <1>4 DEF IInv

\* Most steps leave the slots as they are, and happen only if there are some.
LEMMA RoomStays ==
    ASSUME Room, overrun' = overrun, task'.slots = task.slots, task.slots # 0
    PROVE  RoomAfter
  BY DEF Room, RoomAfter

LEMMA SlotsWithWork ==
    ASSUME Room
    PROVE  /\ \A l \in lists : task.slots # 0
           /\ \A a \in any : task.slots # 0
           /\ fifo # <<>> => task.slots # 0
           /\ ready # <<>> => task.slots # 0
           /\ task.articles # <<>> => task.slots # 0
  BY DEF Room, Idle

\* A step that keeps the files, and the state as far as they go.
LEMMA FatesStay ==
    ASSUME Fates, files' = files, task'.st = task.st,
           HeldBy(fifo', ready') = HeldBy(fifo, ready)
    PROVE  FatesAfter
  BY DEF Fates, FatesAfter

LEMMA FatesAlive ==
    ASSUME Fates, files' = files, task.st \notin {"killed", "crashed"}, task'.st # "killed"
    PROVE  FatesAfter
  BY DEF Fates, FatesAfter

-----------------------------------------------------------------------------
(* Cmdlists.                                                               *)

LEMMA FiniteImage ==
    ASSUME NEW S, IsFiniteSet(S), NEW f
    PROVE  IsFiniteSet({f[x] : x \in S})
<1> DEFINE T == {f[x] : x \in S}
           g == [x \in S |-> f[x]]
<1>1. g \in Surjection(S, T)
  BY DEF Surjection
<1> QED BY <1>1, FS_Surjection

LEMMA ListsCanceled ==
    ASSUME NEW A, NEW ls, GoodLists(A, ls)
    PROVE  /\ GoodLists(A, Canceled(ls))
           /\ \A st : GoodLists(A, WithLists(st, ls))
<1> DEFINE c(l) == [l EXCEPT !.canceled = @ \/ l.entries > 0]
<1>1. Canceled(ls) = {c(l) : l \in ls}
  BY DEF Canceled
<1>2. \A l \in ls : c(l) \in ListSet(A) /\ c(l).arts = l.arts
  BY DEF GoodLists, ListSet
<1>3. IsFiniteSet({c(l) : l \in ls})
  <2> DEFINE f == [l \in ls |-> c(l)]
  <2>1. \A l \in ls : f[l] = c(l) OBVIOUS
  <2> HIDE DEF c, f
  <2>2. {c(l) : l \in ls} = {f[l] : l \in ls} BY <2>1
  <2>3. IsFiniteSet({f[l] : l \in ls}) BY FiniteImage DEF GoodLists
  <2> QED BY <2>2, <2>3
<1> HIDE DEF c
<1>4. GoodLists(A, Canceled(ls))
  BY <1>1, <1>2, <1>3 DEF GoodLists
<1> QED BY <1>4 DEF WithLists

LEMMA ListsErased ==
    ASSUME GoodLists(Articles, lists)
    PROVE  GoodLists(Articles, ErasedLists)
<1> DEFINE e(l) == [l EXCEPT !.canceled = TRUE, !.entries = 0]
           R == {k \in Listed(lists) : k.run}
           K == {l \in lists : l.run /\ l.entries = 0}
<1>1. ErasedLists = K \cup {e(l) : l \in R}
  BY DEF ErasedLists
<1>2. R \subseteq lists /\ K \subseteq lists
  BY DEF Listed
<1>3. \A l \in lists : e(l) \in ListSet(Articles) /\ e(l).arts = l.arts
  BY DEF GoodLists, ListSet
<1> HIDE DEF e, R, K
<1>4. IsFiniteSet(R) /\ IsFiniteSet(K)
  BY <1>2, FS_Subset DEF GoodLists
<1>5. IsFiniteSet({e(l) : l \in R})
  <2> DEFINE f == [l \in R |-> e(l)]
  <2>1. \A l \in R : f[l] = e(l) OBVIOUS
  <2> HIDE DEF f
  <2>2. {e(l) : l \in R} = {f[l] : l \in R} BY <2>1
  <2>3. IsFiniteSet({f[l] : l \in R}) BY <1>4, FiniteImage
  <2> QED BY <2>2, <2>3
<1>6. IsFiniteSet(ErasedLists)
  BY <1>1, <1>4, <1>5, FS_Union
<1> QED BY <1>1, <1>2, <1>3, <1>6 DEF GoodLists

\* A cmdlist is taken out, and another put in.
LEMMA ListsChanged ==
    ASSUME NEW A, NEW ls, GoodLists(A, ls), NEW l, NEW k \in ListSet(A), k.arts # <<>>
    PROVE  /\ GoodLists(A, ls \ {l}) /\ GoodLists(A, ls \cup {k})
           /\ GoodLists(A, (ls \ {l}) \cup {k})
<1>1. IsFiniteSet(ls \ {l}) BY FS_RemoveElement DEF GoodLists
<1>2. IsFiniteSet(ls \cup {k}) BY FS_AddElement DEF GoodLists
<1>3. IsFiniteSet((ls \ {l}) \cup {k}) BY <1>1, FS_AddElement
<1> QED BY <1>1, <1>2, <1>3 DEF GoodLists

\* The articles of cmdlists are articles, and finitely many.
LEMMA ListArticles ==
    ASSUME NEW A, NEW ls, GoodLists(A, ls)
    PROVE  /\ \A l \in ls : ToSet(l.arts) \subseteq A
           /\ UNION {ToSet(l.arts) : l \in ls} \subseteq A
<1>1. \A l \in ls : l.arts \in Seq(A)
  BY DEF GoodLists, ListSet
<1>2. \A l \in ls : ToSet(l.arts) \subseteq A
  BY <1>1 DEF ToSet
<1> QED BY <1>2

Requeued(l, b, e) == [l EXCEPT !.run = b, !.entries = e]

LEMMA ListRequeued ==
    ASSUME NEW A, NEW l \in ListSet(A), NEW b \in BOOLEAN, NEW e \in Nat
    PROVE  Requeued(l, b, e) \in ListSet(A) /\ Requeued(l, b, e).arts = l.arts
  BY DEF ListSet, Requeued

\* Tasks: with its articles, counter and state changed, and with what is
\* missing.  A change that is none gives the old value.
Changed(T, s, n, st) == [T EXCEPT !.articles = s, !.ncl = n, !.st = st]
Missing(T, m) == [T EXCEPT !.missing = m]

LEMMA TaskChanged ==
    ASSUME NEW A, NEW T, GoodTask(A, T), NEW s \in Seq(A), NEW n \in Int, NEW st \in States
    PROVE  /\ GoodTask(A, Changed(T, s, n, st))
           /\ Changed(T, s, n, st).slots = T.slots
           /\ Changed(T, s, n, st).st = st
           /\ Changed(T, s, n, st).articles = s
<1> DEFINE U == Changed(T, s, n, st)
<1>1. T \in TaskSet(A) /\ Len(T.stash) \in {0, T.slots}
  BY DEF GoodTask
<1>2. U \in TaskSet(A) /\ U.stash = T.stash /\ U.slots = T.slots /\ U.st = st
      /\ U.articles = s
  BY <1>1 DEF TaskSet, Changed
<1> HIDE DEF U
<1>3. GoodTask(A, U) BY <1>1, <1>2 DEF GoodTask
<1> QED BY <1>2, <1>3 DEF U

LEMMA TaskMissing ==
    ASSUME NEW A, NEW T, GoodTask(A, T), NEW m \in SUBSET A
    PROVE  /\ GoodTask(A, Missing(T, m))
           /\ Missing(T, m).slots = T.slots /\ Missing(T, m).st = T.st
           /\ Missing(T, m).articles = T.articles
<1> DEFINE U == Missing(T, m)
<1>1. T \in TaskSet(A) /\ Len(T.stash) \in {0, T.slots}
  BY DEF GoodTask
<1>2. U \in TaskSet(A) /\ U.stash = T.stash /\ U.slots = T.slots /\ U.st = T.st
      /\ U.articles = T.articles
  BY <1>1 DEF TaskSet, Missing
<1> HIDE DEF U
<1>3. GoodTask(A, U) BY <1>1, <1>2 DEF GoodTask
<1> QED BY <1>2, <1>3 DEF U

LEMMA RunKeeps ==
    ASSUME PostingAssumption, BoundAssumption, IInv, Run
    PROVE  IInv'
<1> DEFINE n == Min({Len(task.articles), ArticlesPerCmdlist})
           k == [arts |-> SubSeq(task.articles, 1, n), run |-> TRUE, canceled |-> FALSE,
                 entries |-> 1]
           T == [task EXCEPT !.articles = SubSeq(@, n + 1, Len(@)), !.ncl = @ + 1,
                             !.st = "active"]
<1>1. Types /\ Room /\ Fates /\ GoodTask(Articles, task)
  BY DEF IInv, Types
<1>2. task.articles \in Seq(Articles) /\ Len(task.articles) \in Nat
  BY <1>1 DEF GoodTask, TaskSet
<1>3. /\ n > 0 /\ task.st \in {"queued", "waiting", "active"} /\ lists' = lists \cup {k}
      /\ task' = T
      /\ UNCHANGED <<posting, stale, any, fifo, ready, files, running,
                     ncommands, nfaults, lost, overrun>>
  BY DEF Run
<1>4. n \in {Len(task.articles), ArticlesPerCmdlist} /\ n <= Len(task.articles) /\ n \in Nat
  <2>1. {Len(task.articles), ArticlesPerCmdlist} \in SUBSET Nat
    BY <1>2 DEF BoundAssumption
  <2> QED BY <2>1, MinFacts
<1> HIDE DEF n
<1>5. task.articles # <<>>
  BY <1>2, <1>3, <1>4
<1>6. k \in ListSet(Articles) /\ k.arts # <<>>
  BY <1>2, <1>3, <1>4, SubSeqFacts DEF ListSet
<1>7. SubSeq(task.articles, n + 1, Len(task.articles)) \in Seq(Articles)
  BY <1>2, <1>4, SubSeqFacts
<1>8. GoodTask(Articles, T) /\ T.slots = task.slots /\ T.st = "active"
  <2> DEFINE s == SubSeq(task.articles, n + 1, Len(task.articles))
  <2>1. s \in Seq(Articles) /\ task.ncl + 1 \in Int
    BY <1>1, <1>7 DEF GoodTask, TaskSet
  <2> HIDE DEF s
  <2>2. T = Changed(task, s, task.ncl + 1, "active")
    BY DEF s, Changed
  <2>3. "active" \in States BY DEF States
  <2> QED BY <2>1, <2>2, <2>3, <1>1, TaskChanged
<1>9. GoodLists(Articles, lists \cup {k})
  <2> HIDE DEF k
  <2> QED BY <1>1, <1>6, ListsChanged DEF Types
<1> HIDE DEF k, T
<1>10. TypesAfter
  BY <1>1, <1>3, <1>8, <1>9 DEF TypesAfter, Types
<1>11. RoomAfter
  BY <1>1, <1>3, <1>5, <1>8, RoomStays, SlotsWithWork
<1>12. FatesAfter
  BY <1>1, <1>3, <1>8, FatesAlive
<1> QED BY <1>10, <1>11, <1>12, InvAfter

LEMMA TakeKeeps ==
    ASSUME IInv, NEW l \in lists, Take(l)
    PROVE  IInv'
<1> DEFINE k == [l EXCEPT !.run = TRUE]
<1>1. Types /\ Room /\ Fates /\ GoodLists(Articles, lists)
  BY DEF IInv, Types
<1>2. /\ lists' = (lists \ {l}) \cup {k}
      /\ UNCHANGED <<posting, task, stale, any, fifo, ready, files, running,
                     ncommands, nfaults, lost, overrun>>
  BY DEF Take
<1>3. k \in ListSet(Articles) /\ k.arts # <<>>
  BY <1>1 DEF GoodLists, ListSet
<1> HIDE DEF k
<1>4. TypesAfter
  BY <1>1, <1>2, <1>3, ListsChanged DEF TypesAfter, Types
<1>5. RoomAfter
  BY <1>1, <1>2, RoomStays, SlotsWithWork
<1>6. FatesAfter
  BY <1>1, <1>2, FatesStay
<1> QED BY <1>4, <1>5, <1>6, InvAfter

LEMMA BrokenKeeps ==
    ASSUME IInv, NEW l \in lists, Broken(l)
    PROVE  IInv'
<1>1. Types /\ Room /\ Fates /\ GoodLists(Articles, lists) /\ nfaults \in Nat
  BY DEF IInv, Types
<1>2. PICK again \in BOOLEAN :
        /\ lists' \in {lists \ {l},
                       (lists \ {l}) \cup {[l EXCEPT !.run = again, !.entries = @ + 1]}}
        /\ lost' \in {lost, lost \cup ToSet(l.arts)}
        /\ nfaults' = nfaults + 1
        /\ UNCHANGED <<posting, task, stale, any, fifo, ready, files, running,
                       ncommands, overrun>>
  BY DEF Broken, Fault
<1> DEFINE k == [l EXCEPT !.run = again, !.entries = @ + 1]
<1>3. k \in ListSet(Articles) /\ k.arts # <<>>
  <2>1. l \in ListSet(Articles) /\ l.arts # <<>> BY <1>1 DEF GoodLists
  <2>2. l.entries + 1 \in Nat BY <2>1 DEF ListSet
  <2>3. k = Requeued(l, again, l.entries + 1) BY DEF Requeued
  <2> HIDE DEF k
  <2> QED BY <2>1, <2>2, <2>3, ListRequeued
<1>4. GoodLists(Articles, lists')
  <2>1. lists' \in {lists \ {l}, (lists \ {l}) \cup {k}} BY <1>2
  <2> HIDE DEF k
  <2>2. CASE lists' = lists \ {l} BY <2>2, <1>1, <1>3, ListsChanged
  <2>3. CASE lists' = (lists \ {l}) \cup {k} BY <2>3, <1>1, <1>3, ListsChanged
  <2> QED BY <2>1, <2>2, <2>3
<1>5. lost' \subseteq Articles
  BY <1>1, <1>2, ListArticles DEF Types
<1>6. TypesAfter
  BY <1>1, <1>2, <1>4, <1>5 DEF TypesAfter, Types
<1>7. RoomAfter
  BY <1>1, <1>2, RoomStays, SlotsWithWork
<1>8. FatesAfter
  BY <1>1, <1>2, FatesStay
<1> QED BY <1>6, <1>7, <1>8, InvAfter

LEMMA LeftEntries ==
    ASSUME stale \in Nat, NEW l \in ListSet(Articles)
    PROVE  Left(l) \in Nat
<1>1. l.entries \in Nat BY DEF ListSet
<1>2. l.entries - 1 \in Int /\ 0 \in Int BY <1>1
<1>3. Max({l.entries - 1, 0}) \in {l.entries - 1, 0} /\ Max({l.entries - 1, 0}) >= 0
  BY <1>2, MaxOfTwo
<1>4. Max({l.entries - 1, 0}) \in Nat
  BY <1>3, <1>1
<1> QED BY <1>4 DEF Left

\* The decodes that download::complete submits.
LEMMA DecodesSubmitted ==
    ASSUME PostingAssumption, Types, NEW s \in Seq(Articles), Submitted(s)
    PROVE  /\ any' \subseteq ActionSet(Articles, Len(posting), {"decode"})
           /\ GoodQueue(Articles, Len(posting), fifo')
<1> DEFINE acts == [i \in DOMAIN s |-> Decode(s[i])]
           X == ActionSet(Articles, Len(posting), {"decode"})
<1>1. 0 \in 0 .. Len(posting)
  BY ArticleNumbers DEF Types
<1>2. DOMAIN s = 1 .. Len(s) /\ Len(s) \in Nat
  OBVIOUS
<1>3. \A i \in DOMAIN s : acts[i] \in X /\ acts[i].offset = 0
  BY <1>1 DEF Decode, ActionSet
<1>4. acts \in Seq(X) /\ Len(acts) = Len(s)
  <2> HIDE DEF X
  <2> QED BY <1>2, <1>3
<1>5. ToSet(acts) \subseteq X
  BY <1>2, <1>3 DEF ToSet
<1>6. X \subseteq ActionSet(Articles, Len(posting), AnyKind)
  BY DEF ActionSet, AnyKind
<1>7. GoodQueue(Articles, Len(posting), acts)
  <2>1. acts \in Seq(ActionSet(Articles, Len(posting), AnyKind))
    <3> HIDE DEF X, acts
    <3> QED BY <1>4, <1>6
  <2>2. \A i \in 1 .. Len(acts) : acts[i].offset = 0
    BY <1>2, <1>3, <1>4
  <2> HIDE DEF acts
  <2> QED BY <2>1, <2>2 DEF GoodQueue
<1>8. GoodQueue(Articles, Len(posting), <<>>)
  BY DEF GoodQueue
<1>9. /\ any' = any \cup IF task.yenc THEN ToSet(acts) ELSE {}
      /\ fifo' = fifo \o IF task.yenc THEN <<>> ELSE acts
  BY DEF Submitted
<1>10. any \subseteq X /\ GoodQueue(Articles, Len(posting), fifo)
  BY DEF Types
<1> HIDE DEF acts, X
<1>11. any' \subseteq X
  BY <1>5, <1>9, <1>10
<1>12. GoodQueue(Articles, Len(posting), fifo')
  <2>1. CASE task.yenc BY <2>1, <1>8, <1>9, <1>10, QueuesJoined
  <2>2. CASE ~task.yenc BY <2>2, <1>7, <1>9, <1>10, QueuesJoined
  <2> QED BY <2>1, <2>2
<1> QED BY <1>11, <1>12 DEF X

\* Becomes, for a decision that update_completion has made.
LEMMA BecomesGood ==
    ASSUME Types, NEW T, NEW S, Ends(Articles, T, S), NEW ls, GoodLists(Articles, ls),
           NEW out, out \subseteq Articles, Becomes(S, ls, out)
    PROVE  /\ GoodTask(Articles, task') /\ GoodFiles(Articles, files') /\ Kept(files')
           /\ task'.slots = T.slots /\ task'.st \in {T.st, "queued", "waiting", "complete", "error", "crashed"}
           /\ lost' \subseteq Articles
<1>1. lost \subseteq Articles BY DEF Types
<1>2. UNION {ToSet(l.arts) : l \in ls} \subseteq Articles
  BY ListArticles
<1>3. lost' \subseteq Articles
  BY <1>1, <1>2 DEF Becomes
<1> QED BY <1>3 DEF Becomes, Ends

HandedIn(T, c, m, s) == [[T EXCEPT !.ncl = c] EXCEPT !.missing = m, !.articles = s]

LEMMA TaskReturned ==
    ASSUME NEW A, NEW T, GoodTask(A, T), NEW c \in Int, NEW m \in SUBSET A, NEW s \in Seq(A)
    PROVE  /\ GoodTask(A, HandedIn(T, c, m, s))
           /\ HandedIn(T, c, m, s).slots = T.slots /\ HandedIn(T, c, m, s).st = T.st
<1> DEFINE U == HandedIn(T, c, m, s)
<1>1. T \in TaskSet(A) /\ Len(T.stash) \in {0, T.slots}
  BY DEF GoodTask
<1>2. U \in TaskSet(A) /\ U.stash = T.stash /\ U.slots = T.slots /\ U.st = T.st
  BY <1>1 DEF TaskSet, HandedIn
<1> HIDE DEF U
<1>3. GoodTask(A, U) BY <1>1, <1>2 DEF GoodTask
<1> QED BY <1>2, <1>3 DEF U

LEMMA CompleteKeeps ==
    ASSUME PostingAssumption, BoundAssumption, IInv, Live, NEW l \in lists,
           NEW n \in 0 .. Len(l.arts), NEW gone \in SUBSET ToSet(l.arts),
           Complete(l, n, gone), stale' = Left(l),
           UNCHANGED <<posting, ready, running, ncommands, overrun>>
    PROVE  IInv'
<1> DEFINE A == Articles
           c == IF l.canceled THEN task.ncl ELSE task.ncl - 1
           s == PutBack(task.articles, l, n)
           m == task.missing \cup gone
           T == HandedIn(task, c, m, s)
           kept == Without(SubSeq(l.arts, 1, n), gone)
           i == Idle /\ kept = <<>>
<1>1. Types /\ Room /\ Fates /\ GoodLists(A, lists) /\ GoodTask(A, task) /\ GoodFiles(A, files)
  BY DEF IInv, Types
<1>2. /\ l \in ListSet(A) /\ l.arts \in Seq(A) /\ Len(l.arts) \in Nat
      /\ 0 \notin A /\ IsFiniteSet(A)
  BY <1>1, ArticleNumbers DEF GoodLists, ListSet, Types
<1>3. task.articles \in Seq(A) /\ task.ncl \in Int /\ task.missing \subseteq A
  BY <1>1 DEF GoodTask, TaskSet
<1>4. gone \subseteq A
  BY <1>2 DEF ToSet
<1>5. s \in Seq(A)
  <2> DEFINE t == SubSeq(l.arts, n + 1, Len(l.arts))
  <2>1. n + 1 \in Nat \ {0} /\ Len(l.arts) \in 0 .. Len(l.arts) BY <1>2
  <2>2. t \in Seq(A) BY <1>2, <2>1, SubSeqFacts
  <2> HIDE DEF t
  <2>3. task.articles \o t \in Seq(A) BY <1>3, <2>2
  <2> QED BY <2>3 DEF PutBack, t
<1>6. kept \in Seq(A)
  <2> DEFINE t == SubSeq(l.arts, 1, n)
  <2>1. t \in Seq(A) BY <1>2, SubSeqFacts
  <2> HIDE DEF t
  <2>2. Without(t, gone) \in Seq(A) BY <2>1, WithoutFacts
  <2> QED BY <2>2 DEF t
<1>7. PICK full \in BOOLEAN :
        LET S == UpdateCompletion(Decision(T, files, i, full))
        IN  /\ Becomes(S, lists \ {l}, {}) /\ Submitted(kept)
            /\ lists' = WithLists(S.task.st, lists \ {l})
            /\ nfaults' = nfaults + Cardinality(gone) + IF full THEN 1 ELSE 0
  BY DEF Complete, Decision, HandedIn
<1> DEFINE S == UpdateCompletion(Decision(T, files, i, full))
<1>8. c \in Int /\ m \in SUBSET A
  BY <1>3, <1>4
<1> HIDE DEF c, m, s, kept
<1>9. GoodTask(A, T) /\ T.slots = task.slots /\ T.st = task.st
  BY <1>1, <1>5, <1>8, TaskReturned
<1> HIDE DEF T, i
<1>10. task.st \notin {"killed", "removed", "crashed"} /\ Kept(files)
  BY <1>1 DEF Live, Fates
<1>11. Ends(A, T, S)
  BY <1>1, <1>2, <1>9, <1>10, UpdateEnds
<1>12. /\ Becomes(S, lists \ {l}, {}) /\ Submitted(kept)
       /\ lists' = WithLists(S.task.st, lists \ {l})
       /\ nfaults' = nfaults + Cardinality(gone) + IF full THEN 1 ELSE 0
  BY <1>7
<1> HIDE DEF S
<1>13. GoodLists(A, lists \ {l})
  <2>1. IsFiniteSet(lists \ {l}) BY <1>1, FS_RemoveElement DEF GoodLists
  <2> QED BY <1>1, <2>1 DEF GoodLists
<1>14. /\ GoodTask(A, task') /\ GoodFiles(A, files') /\ Kept(files')
       /\ task'.slots = T.slots
       /\ task'.st \in {T.st, "queued", "waiting", "complete", "error", "crashed"} /\ lost' \subseteq A
  BY <1>1, <1>11, <1>12, <1>13, BecomesGood
<1>15. GoodLists(A, lists')
  BY <1>12, <1>13, ListsCanceled
<1>16. /\ any' \subseteq ActionSet(A, Len(posting), {"decode"})
       /\ GoodQueue(A, Len(posting), fifo')
  BY <1>1, <1>6, <1>12, DecodesSubmitted
<1>17. nfaults' \in Nat
  <2>1. Cardinality(gone) \in Nat
    BY <1>2, <1>4, FS_Subset, FS_CardinalityType
  <2>2. nfaults \in Nat BY <1>1 DEF Types
  <2> QED BY <2>1, <2>2, <1>12
<1>18. stale' \in Nat
  BY <1>1, <1>2, LeftEntries DEF Types
<1>19. TypesAfter
  BY <1>1, <1>14, <1>15, <1>16, <1>17, <1>18 DEF TypesAfter, Types
<1>20. RoomAfter
  <2>1. task.slots # 0 BY <1>1, SlotsWithWork
  <2> QED BY <1>1, <1>9, <1>14, <2>1, RoomStays
<1>21. FatesAfter
  BY <1>9, <1>10, <1>14 DEF FatesAfter
<1> QED BY <1>19, <1>20, <1>21, InvAfter

LEMMA ReturnKeeps ==
    ASSUME PostingAssumption, BoundAssumption, IInv, NEW l \in lists, Return(l)
    PROVE  IInv'
<1>1. Types /\ Room /\ Fates /\ GoodLists(Articles, lists) /\ l \in ListSet(Articles)
  BY DEF IInv, Types, GoodLists
<1>2. CASE /\ Live /\ task.st # "error"
           /\ \E n \in 0 .. Len(l.arts), gone \in SUBSET ToSet(l.arts) : Complete(l, n, gone)
  <2>1. PICK n \in 0 .. Len(l.arts), gone \in SUBSET ToSet(l.arts) : Complete(l, n, gone)
    BY <1>2
  <2>2. stale' = Left(l) /\ UNCHANGED <<posting, ready, running, ncommands, overrun>> /\ Live
    BY <1>2 DEF Return
  <2> QED BY <2>1, <2>2, CompleteKeeps
<1>3. CASE /\ lists' = lists \ {l}
           /\ NoFault /\ UNCHANGED <<task, files, any, fifo, lost>>
  <2>1. /\ stale' \in {stale, Left(l)}
        /\ UNCHANGED <<posting, ready, running, ncommands, overrun>>
    BY DEF Return
  <2>2. stale' \in Nat BY <2>1, <1>1, LeftEntries DEF Types
  <2>3. GoodLists(Articles, lists \ {l})
    <3>1. IsFiniteSet(lists \ {l}) BY <1>1, FS_RemoveElement DEF GoodLists
    <3> QED BY <1>1, <3>1 DEF GoodLists
  <2>4. TypesAfter
    BY <1>1, <1>3, <2>1, <2>2, <2>3 DEF TypesAfter, Types, NoFault
  <2>5. RoomAfter
    BY <1>1, <1>3, <2>1, RoomStays, SlotsWithWork
  <2>6. FatesAfter
    BY <1>1, <1>3, <2>1, FatesStay
  <2> QED BY <2>4, <2>5, <2>6, InvAfter
<1> QED BY <1>2, <1>3 DEF Return

LEMMA RefusedKeeps ==
    ASSUME IInv, NEW l \in lists, Refused(l)
    PROVE  IInv'
<1> DEFINE c == IF l.canceled THEN task.ncl ELSE task.ncl - 1
           T == [task EXCEPT !.ncl = c]
<1>1. Types /\ Room /\ Fates /\ GoodLists(Articles, lists) /\ l \in ListSet(Articles)
      /\ GoodTask(Articles, task)
  BY DEF IInv, Types, GoodLists
<1>2. /\ nfaults' = nfaults + 1 /\ stale' = Left(l)
      /\ task.st \notin {"killed", "removed", "crashed"}
      /\ \/ /\ task' = [T EXCEPT !.missing = @ \cup ToSet(l.arts)]
            /\ lists' = lists \ {l}
         \/ /\ task' = [T EXCEPT !.st = "error"]
            /\ lists' = Canceled(lists \ {l})
      /\ UNCHANGED <<posting, any, fifo, ready, files, running, ncommands, lost, overrun>>
  BY DEF Refused, Fault, Live
<1>3. c \in Int /\ task \in TaskSet(Articles) /\ Len(task.stash) \in {0, task.slots}
  BY <1>1 DEF GoodTask, TaskSet
<1> HIDE DEF c
<1>4. T \in TaskSet(Articles) /\ T.stash = task.stash /\ T.slots = task.slots /\ T.st = task.st
  BY <1>3 DEF TaskSet
<1> HIDE DEF T
<1>5. GoodTask(Articles, T)
  BY <1>3, <1>4 DEF GoodTask
<1>6. ToSet(l.arts) \subseteq Articles
  BY <1>1, ListArticles
<1>7. GoodLists(Articles, lists \ {l})
  <2>1. IsFiniteSet(lists \ {l}) BY <1>1, FS_RemoveElement DEF GoodLists
  <2> QED BY <1>1, <2>1 DEF GoodLists
<1>8. GoodLists(Articles, lists')
  BY <1>2, <1>7, ListsCanceled
<1>9. /\ GoodTask(Articles, task') /\ task'.slots = task.slots
      /\ task'.st \in {task.st, "error"}
  <2>1. CASE task' = [T EXCEPT !.missing = @ \cup ToSet(l.arts)]
    <3>1. T.missing \cup ToSet(l.arts) \in SUBSET Articles BY <1>4, <1>6 DEF TaskSet
    <3>2. task' = Missing(T, T.missing \cup ToSet(l.arts)) BY <2>1 DEF Missing
    <3> QED BY <3>1, <3>2, <1>4, <1>5, TaskMissing
  <2>2. CASE task' = [T EXCEPT !.st = "error"]
    <3>1. "error" \in States BY DEF States
    <3>2. GoodTask(Articles, task') /\ task'.slots = T.slots /\ task'.st = "error"
      BY <2>2, <3>1, <1>5, TaskWith
    <3> QED BY <3>2, <1>4
  <2> QED BY <2>1, <2>2, <1>2
<1>10. TypesAfter
  <2>1. stale' \in Nat BY <1>1, <1>2, LeftEntries DEF Types
  <2> QED BY <1>1, <1>2, <1>8, <1>9, <2>1 DEF TypesAfter, Types
<1>11. RoomAfter
  BY <1>1, <1>2, <1>9, RoomStays, SlotsWithWork
<1>12. FatesAfter
  BY <1>1, <1>2, <1>9, FatesAlive
<1> QED BY <1>10, <1>11, <1>12, InvAfter

-----------------------------------------------------------------------------
(* Actions.                                                                *)

LEMMA HeldByParts ==
    ASSUME NEW A, NEW n, NEW f, NEW r, GoodQueue(A, n, f), GoodQueue(A, n, r)
    PROVE  /\ r # <<>> => HeldBy(f, r) \subseteq HeldBy(f, Tail(r)) \cup {Head(r).kind}
           /\ r # <<>> => HeldBy(f, Tail(r)) \subseteq HeldBy(f, r)
           /\ f # <<>> => HeldBy(f, r) \subseteq HeldBy(Tail(f), r) \cup {Head(f).kind}
<1>1. r # <<>> => ToSet(r) = {Head(r)} \cup ToSet(Tail(r))
  BY QueueTail
<1>2. f # <<>> => ToSet(f) = {Head(f)} \cup ToSet(Tail(f))
  BY QueueTail
<1>3. HeldBy(f, r) = {a.kind : a \in ToSet(f) \cup ToSet(r)} \cap Kinds
  BY DEF HeldBy
<1>4. HeldBy(f, Tail(r)) = {a.kind : a \in ToSet(f) \cup ToSet(Tail(r))} \cap Kinds
  BY DEF HeldBy
<1>5. HeldBy(Tail(f), r) = {a.kind : a \in ToSet(Tail(f)) \cup ToSet(r)} \cap Kinds
  BY DEF HeldBy
<1>6. ASSUME r # <<>> PROVE /\ HeldBy(f, r) \subseteq HeldBy(f, Tail(r)) \cup {Head(r).kind}
                            /\ HeldBy(f, Tail(r)) \subseteq HeldBy(f, r)
  BY <1>1, <1>3, <1>4, <1>6
<1>7. ASSUME f # <<>> PROVE HeldBy(f, r) \subseteq HeldBy(Tail(f), r) \cup {Head(f).kind}
  BY <1>2, <1>3, <1>5, <1>7
<1> QED BY <1>6, <1>7

LEMMA HeldByAppended ==
    ASSUME NEW A, NEW n, NEW f, NEW r, GoodQueue(A, n, r), NEW x
    PROVE  HeldBy(f, Append(r, x)) = HeldBy(f, r) \cup ({x.kind} \cap Kinds)
<1>1. r \in Seq(ActionSet(A, n, AnyKind))
  BY DEF GoodQueue
<1>2. ToSet(Append(r, x)) = ToSet(r) \cup {x}
  <2>1. /\ DOMAIN Append(r, x) = 1 .. Len(r) + 1 /\ DOMAIN r = 1 .. Len(r) /\ Len(r) \in Nat
        /\ \A i \in 1 .. Len(r) : Append(r, x)[i] = r[i]
        /\ Append(r, x)[Len(r) + 1] = x
    BY <1>1
  <2>2. 1 .. Len(r) + 1 = (1 .. Len(r)) \cup {Len(r) + 1} BY <2>1
  <2> QED BY <2>1, <2>2 DEF ToSet
<1> QED BY <1>2 DEF HeldBy

\* An action that is performed: it is taken from one of the two places, and
\* what it has become goes to ready.
LEMMA PerformGood ==
    ASSUME Types, NEW a, Perform(a), NEW b \in BOOLEAN
    PROVE  /\ a \in ActionSet(Articles, Len(posting), AnyKind)
           /\ a.kind = "text" => a.offset = 0
           /\ any' \subseteq ActionSet(Articles, Len(posting), {"decode"})
           /\ GoodQueue(Articles, Len(posting), fifo')
           /\ Room => task.slots # 0
           /\ \A x : x.kind = a.kind =>
                HeldBy(fifo, ready) \subseteq HeldBy(fifo', Append(ready, x))
           /\ task.st # "crashed"
           /\ UNCHANGED <<posting, lists, stale, running, ncommands, lost, overrun>>
<1> DEFINE X == ActionSet(Articles, Len(posting), AnyKind)
<1>1. /\ any \subseteq ActionSet(Articles, Len(posting), {"decode"})
      /\ GoodQueue(Articles, Len(posting), fifo) /\ GoodQueue(Articles, Len(posting), ready)
  BY DEF Types
<1>2. /\ task.st # "crashed"
      /\ UNCHANGED <<posting, lists, stale, running, ncommands, lost, overrun>>
  BY DEF Perform, Up
<1>3. CASE a \in any /\ any' = any \ {a} /\ fifo' = fifo
  <2>1. a \in X /\ a.kind = "decode"
    BY <1>1, <1>3 DEF ActionSet, AnyKind
  <2>2. \A x : HeldBy(fifo, ready) \subseteq HeldBy(fifo', Append(ready, x))
    BY <1>1, <1>3, HeldByAppended
  <2>3. Room => task.slots # 0 BY <1>3, SlotsWithWork
  <2> QED BY <1>1, <1>2, <1>3, <2>1, <2>2, <2>3
<1>4. CASE fifo # <<>> /\ a = Head(fifo) /\ fifo' = Tail(fifo) /\ any' = any
  <2>1. /\ a \in X /\ (a.kind = "text" => a.offset = 0)
        /\ GoodQueue(Articles, Len(posting), Tail(fifo))
    BY <1>1, <1>4, QueueTail
  <2>2. ASSUME NEW x, x.kind = a.kind
        PROVE  HeldBy(fifo, ready) \subseteq HeldBy(Tail(fifo), Append(ready, x))
    <3>1. HeldBy(fifo, ready) \subseteq HeldBy(Tail(fifo), ready) \cup {a.kind}
      BY <1>1, <1>4, HeldByParts
    <3>2. HeldBy(Tail(fifo), Append(ready, x)) = HeldBy(Tail(fifo), ready) \cup ({a.kind} \cap Kinds)
      <4>1. HeldBy(Tail(fifo), Append(ready, x)) = HeldBy(Tail(fifo), ready) \cup ({x.kind} \cap Kinds)
        BY <1>1, HeldByAppended
      <4> QED BY <4>1, <2>2
    <3>3. HeldBy(fifo, ready) \subseteq Kinds BY DEF HeldBy
    <3> QED BY <3>1, <3>2, <3>3
  <2>3. Room => task.slots # 0 BY <1>4, SlotsWithWork
  <2> QED BY <1>1, <1>2, <1>4, <2>1, <2>2, <2>3
<1> QED BY <1>3, <1>4 DEF Perform

Failed(a, b) == [a EXCEPT !.failed = b]

LEMMA ActionFailed ==
    ASSUME NEW A, NEW n, NEW a \in ActionSet(A, n, AnyKind), NEW b \in BOOLEAN
    PROVE  /\ Failed(a, b) \in ActionSet(A, n, AnyKind)
           /\ Failed(a, b).kind = a.kind /\ Failed(a, b).offset = a.offset
  BY DEF ActionSet, Failed

\* What is common to every way an action ends: x is what has become of it.
LEMMA PerformedKeeps ==
    ASSUME IInv, NEW a, Perform(a), NEW x \in ActionSet(Articles, Len(posting), AnyKind),
           x.kind = a.kind, x.offset = a.offset, ready' = Append(ready, x),
           task' = task, nfaults' \in {nfaults, nfaults + 1},
           GoodFiles(Articles, files'),
           Kept(files) => Kept(files'),
           \A h : Held(files, h) => Held(files', h)
    PROVE  IInv'
<1>1. Types /\ Room /\ Fates
  BY DEF IInv
<1>2. /\ a.kind = "text" => a.offset = 0
      /\ any' \subseteq ActionSet(Articles, Len(posting), {"decode"})
      /\ GoodQueue(Articles, Len(posting), fifo')
      /\ task.slots # 0
      /\ HeldBy(fifo, ready) \subseteq HeldBy(fifo', ready')
      /\ UNCHANGED <<posting, lists, stale, running, ncommands, lost, overrun>>
  BY <1>1, PerformGood
<1>3. GoodQueue(Articles, Len(posting), ready')
  BY <1>1, <1>2, QueueAppended DEF Types
<1>4. nfaults' \in Nat
  BY <1>1 DEF Types
<1>5. TypesAfter
  BY <1>1, <1>2, <1>3, <1>4 DEF TypesAfter, Types
<1>6. RoomAfter
  BY <1>1, <1>2, RoomStays
<1>7. FatesAfter
  BY <1>1, <1>2 DEF Fates, FatesAfter, Held
<1> QED BY <1>5, <1>6, <1>7, InvAfter

LEMMA PerformDecodeKeeps ==
    ASSUME IInv, NEW a, PerformDecode(a)
    PROVE  IInv'
<1>1. PICK b \in BOOLEAN : /\ ready' = Append(ready, Failed(a, b))
                           /\ nfaults' \in {nfaults, nfaults + 1}
                           /\ Perform(a) /\ UNCHANGED <<task, files>>
  BY DEF PerformDecode, Fault, NoFault, Failed
<1>2. a \in ActionSet(Articles, Len(posting), AnyKind) /\ GoodFiles(Articles, files)
  BY <1>1, PerformGood DEF IInv, Types
<1>3. /\ Failed(a, b) \in ActionSet(Articles, Len(posting), AnyKind)
      /\ Failed(a, b).kind = a.kind /\ Failed(a, b).offset = a.offset
  BY <1>2, ActionFailed
<1> QED BY <1>1, <1>2, <1>3, PerformedKeeps

LEMMA WriteGood ==
    ASSUME NEW A, NEW n \in Nat, A = 1 .. n, NEW F \in FileSet(A), NEW a \in ActionSet(A, n, AnyKind)
    PROVE  /\ WriteAt(F, a) \in FileSet(A)
           /\ WriteAt(F, a).listed = F.listed /\ WriteAt(F, a).open = F.open
           /\ WriteAt(F, a).discard = F.discard /\ WriteAt(F, a).exists = F.exists
           /\ a.offset = 0 /\ Solid(A, F) => Solid(A, WriteAt(F, a))
<1> DEFINE G == IF a.offset = 0 THEN F ELSE [F EXCEPT !.pos = a.offset]
           s == <<a.article>>
<1>1. a.offset \in 0 .. n /\ a.article \in A
  BY DEF ActionSet
<1>2. s \in Seq(A) /\ 0 \notin A
  BY <1>1
<1>3. /\ G \in FileSet(A)
      /\ G.listed = F.listed /\ G.open = F.open /\ G.discard = F.discard /\ G.exists = F.exists
      /\ a.offset = 0 => G = F
  BY <1>1 DEF FileSet
<1> HIDE DEF G, s
<1>4. WriteAt(F, a) = PutAll(G, s)
  BY DEF WriteAt, G, s
<1> QED BY <1>2, <1>3, <1>4, WrittenFile

LEMMA PerformWriteKeeps ==
    ASSUME PostingAssumption, IInv, NEW a, PerformWrite(a)
    PROVE  IInv'
<1> DEFINE F == files[a.kind]
           A == Articles
<1>1. Types /\ Room /\ Fates /\ GoodFiles(A, files) /\ Perform(a) /\ a.kind \in Kinds
  BY DEF IInv, Types, PerformWrite
<1>2. /\ a \in ActionSet(A, Len(posting), AnyKind)
      /\ a.kind = "text" => a.offset = 0
  BY <1>1, PerformGood
<1>3. A = 1 .. Len(posting) /\ Len(posting) \in Nat /\ F \in FileSet(A)
  BY <1>1, ArticleNumbers DEF Types, GoodFiles
<1>4. CASE /\ ~F.discard /\ F.open
           /\ files' = [files EXCEPT ![a.kind] = WriteAt(F, a)]
           /\ ready' = Append(ready, a)
           /\ nfaults' = nfaults /\ task' = task
  <2> DEFINE G == WriteAt(F, a)
  <2>1. /\ G \in FileSet(A)
        /\ G.listed = F.listed /\ G.open = F.open
        /\ G.discard = F.discard /\ G.exists = F.exists
        /\ a.offset = 0 /\ Solid(A, F) => Solid(A, G)
    BY <1>2, <1>3, WriteGood
  <2>2. files' = [files EXCEPT ![a.kind] = G]
    BY <1>4
  <2> HIDE DEF G
  <2>3. GoodFiles(A, files')
    BY <2>1, <2>2, <1>1, <1>2 DEF GoodFiles, Kinds
  <2>4. Kept(files) => Kept(files')
    BY <2>1, <2>2, <1>1 DEF Kept, GoodFiles
  <2>5. \A h : Held(files, h) => Held(files', h)
    BY <2>1, <2>2, <1>1 DEF Held, GoodFiles
  <2> QED BY <2>3, <2>4, <2>5, <1>1, <1>2, <1>4, PerformedKeeps
<1>5. CASE /\ ready' = Append(ready, Failed(a, TRUE)) /\ nfaults' = nfaults + 1
           /\ UNCHANGED <<task, files>>
  <2>1. /\ Failed(a, TRUE) \in ActionSet(A, Len(posting), AnyKind)
        /\ Failed(a, TRUE).kind = a.kind /\ Failed(a, TRUE).offset = a.offset
    BY <1>2, ActionFailed
  <2> QED BY <2>1, <1>1, <1>5, PerformedKeeps
<1>6. CASE ready' = Append(ready, a) /\ nfaults' = nfaults /\ UNCHANGED <<task, files>>
  BY <1>1, <1>2, <1>6, PerformedKeeps
<1>7. CASE /\ task' = [task EXCEPT !.st = "crashed"]
           /\ nfaults' = nfaults /\ UNCHANGED <<files, ready>>
  <2>1. /\ any' \subseteq ActionSet(A, Len(posting), {"decode"})
        /\ GoodQueue(A, Len(posting), fifo')
        /\ task.slots # 0
        /\ UNCHANGED <<posting, lists, stale, running, ncommands, lost, overrun>>
    BY <1>1, PerformGood
  <2>2. "crashed" \in States BY DEF States
  <2>3. GoodTask(A, task') /\ task'.slots = task.slots /\ task'.st = "crashed"
    BY <1>1, <1>7, <2>2, TaskWith DEF Types
  <2>4. TypesAfter
    BY <1>1, <1>7, <2>1, <2>3 DEF TypesAfter, Types
  <2>5. RoomAfter BY <1>1, <2>1, <2>3, RoomStays
  <2>6. FatesAfter BY <2>3 DEF FatesAfter
  <2> QED BY <2>4, <2>5, <2>6, InvAfter
<1> QED BY <1>4, <1>5, <1>6, <1>7 DEF PerformWrite, Fault, NoFault, Failed

\* The state S of Pump's decode, as Handled says.
LEMMA DecodeHandled ==
    ASSUME PostingAssumption, posting \in Postings, NEW a \in Articles,
           GoodTask(Articles, task), task.slots # 0, GoodFiles(Articles, files), Kept(files)
    PROVE  Handled(task, Text(Binary(Item(task, files), a), a))
<1> DEFINE S == Binary(Item(task, files), a)
<1>1. Handled(task, S)
  BY BinaryHandled
<1> HIDE DEF S
<1>2. Handled(task, Text(S, a))
  BY <1>1, TextHandled
<1> QED BY <1>2 DEF S

LEMMA ItemHandled ==
    ASSUME GoodTask(Articles, task), GoodFiles(Articles, files), Kept(files)
    PROVE  Handled(task, Item(task, files))
  BY DEF Handled, Item, GoodQueue

LEMMA PumpHandledKeeps ==
    ASSUME PostingAssumption, IInv, ready # <<>>, Live, task.st # "error",
           NEW H, Handled(task, H), NEW idle, NEW full,
           LET S == UpdateCompletion(Decision(H.task, H.files, idle, full))
           IN  /\ Becomes(S, lists, IF H.overrun = {} THEN {} ELSE {Head(ready).article})
               /\ lists' = WithLists(S.task.st, lists),
           fifo' = fifo \o H.next, ready' = Tail(ready),
           nfaults' \in {nfaults, nfaults + 1}, overrun' = overrun \cup H.overrun,
           UNCHANGED <<posting, stale, any, running, ncommands>>
    PROVE  IInv'
<1> DEFINE A == Articles
           S == UpdateCompletion(Decision(H.task, H.files, idle, full))
           out == IF H.overrun = {} THEN {} ELSE {Head(ready).article}
<1>1. /\ Types /\ Room /\ Fates /\ GoodLists(A, lists)
      /\ GoodQueue(A, Len(posting), fifo) /\ GoodQueue(A, Len(posting), ready)
      /\ posting \in Postings
  BY DEF IInv, Types
<1>2. 0 \notin A
  BY <1>1, ArticleNumbers
<1>3. /\ GoodTask(A, H.task) /\ GoodFiles(A, H.files) /\ Kept(H.files)
      /\ H.task.slots = task.slots /\ H.task.st = task.st
      /\ GoodQueue(A, Len(posting), H.next) /\ H.overrun \subseteq {1}
  BY DEF Handled
<1>4. Ends(A, H.task, S)
  BY <1>2, <1>3, UpdateEnds
<1>5. Becomes(S, lists, out) /\ lists' = WithLists(S.task.st, lists)
  OBVIOUS
<1> HIDE DEF S
<1>6. /\ GoodQueue(A, Len(posting), Tail(ready)) /\ Head(ready).article \in A
  <2>1. Head(ready) \in ActionSet(A, Len(posting), AnyKind) BY <1>1, QueueTail
  <2> QED BY <1>1, <2>1, QueueTail DEF ActionSet
<1>7. out \subseteq A
  BY <1>6
<1> HIDE DEF out
<1>8. /\ GoodTask(A, task') /\ GoodFiles(A, files') /\ Kept(files')
      /\ task'.slots = task.slots
      /\ task'.st \in {task.st, "queued", "waiting", "complete", "error", "crashed"} /\ lost' \subseteq A
  BY <1>1, <1>3, <1>4, <1>5, <1>7, BecomesGood
<1>9. GoodLists(A, lists')
  BY <1>1, <1>5, ListsCanceled
<1>10. GoodQueue(A, Len(posting), fifo')
  BY <1>1, <1>3, QueuesJoined
<1>11. nfaults' \in Nat
  BY <1>1 DEF Types
<1>12. TypesAfter
  BY <1>1, <1>6, <1>8, <1>9, <1>10, <1>11 DEF TypesAfter, Types
<1>13. RoomAfter
  <2>1. task.slots # 0 BY <1>1, SlotsWithWork
  <2>2. overrun' \subseteq {1} BY <1>1, <1>3 DEF Room
  <2> QED BY <1>8, <2>1, <2>2 DEF RoomAfter
<1>14. FatesAfter
  BY <1>8 DEF FatesAfter, Live
<1> QED BY <1>12, <1>13, <1>14, InvAfter

LEMMA PumpKeeps ==
    ASSUME PostingAssumption, IInv, Pump
    PROVE  IInv'
<1> DEFINE A == Articles
           a == Head(ready)
           H == IF a.kind = "decode" THEN Text(Binary(Item(task, files), a.article), a.article)
                ELSE Item(task, files)
<1>1. /\ Types /\ Room /\ Fates /\ GoodLists(A, lists)
      /\ GoodQueue(A, Len(posting), fifo) /\ GoodQueue(A, Len(posting), ready)
      /\ posting \in Postings /\ GoodTask(A, task) /\ GoodFiles(A, files)
  BY DEF IInv, Types
<1>2. /\ ready # <<>> /\ ready' = Tail(ready) /\ task.st # "crashed"
      /\ UNCHANGED <<posting, stale, any, running, ncommands>>
  BY DEF Pump, Up
<1>3. task.slots # 0
  BY <1>1, <1>2, SlotsWithWork
<1>4. GoodQueue(A, Len(posting), Tail(ready)) /\ a.article \in A
  <2>1. a \in ActionSet(A, Len(posting), AnyKind) BY <1>1, <1>2, QueueTail
  <2> QED BY <1>1, <1>2, <2>1, QueueTail DEF ActionSet
<1>5. \/ /\ ~Live \/ task.st = "error"
         /\ files' = Erased(files, HeldBy(fifo, Tail(ready)))
         /\ nfaults' = nfaults /\ UNCHANGED <<task, lists, fifo, lost, overrun>>
      \/ /\ Live /\ task' = [task EXCEPT !.st = "error"]
         /\ lists' = Canceled(lists)
         /\ nfaults' = nfaults /\ UNCHANGED <<files, fifo, lost, overrun>>
      \/ /\ Live /\ task.st # "error"
         /\ \E full \in BOOLEAN :
              LET S == UpdateCompletion(
                         Decision(H.task, H.files, any = {} /\ fifo \o H.next \o Tail(ready) = <<>>, full))
              IN  /\ Becomes(S, lists, IF H.overrun = {} THEN {} ELSE {a.article})
                  /\ fifo' = fifo \o H.next
                  /\ lists' = WithLists(S.task.st, lists)
                  /\ nfaults' \in {nfaults, nfaults + 1}
         /\ overrun' = overrun \cup H.overrun
      \/ /\ Live /\ task' = [task EXCEPT !.st = "crashed"]
         /\ overrun' = overrun \cup H.overrun
         /\ nfaults' = nfaults /\ UNCHANGED <<lists, files, fifo, lost>>
  BY DEF Pump, Decision, Item, NoFault, Fault
<1>6. ASSUME Live PROVE Kept(files)
  BY <1>1, <1>6 DEF Fates, Live
<1>7. ASSUME Live PROVE Handled(task, H)
  BY <1>1, <1>3, <1>4, <1>6, <1>7, DecodeHandled, ItemHandled
<1> HIDE DEF H
<1>8. CASE /\ ~Live \/ task.st = "error"
           /\ files' = Erased(files, HeldBy(fifo, Tail(ready)))
           /\ nfaults' = nfaults /\ UNCHANGED <<task, lists, fifo, lost, overrun>>
  <2>1. /\ GoodFiles(A, files') /\ (Kept(files) => Kept(files'))
        /\ \A h : Held(files, h) => Held(files', h \cap HeldBy(fifo, Tail(ready)))
    BY <1>1, <1>8, ErasedAll
  <2>2. TypesAfter BY <1>1, <1>2, <1>4, <1>8, <2>1 DEF TypesAfter, Types
  <2>3. RoomAfter BY <1>1, <1>3, <1>8, RoomStays
  <2>4. HeldBy(fifo', ready') = HeldBy(fifo, Tail(ready)) BY <1>2, <1>8
  <2>5. FatesAfter
    BY <1>1, <1>8, <2>1, <2>4 DEF Fates, FatesAfter, Held
  <2> QED BY <2>2, <2>3, <2>5, InvAfter
<1>9. CASE /\ Live /\ task' = [task EXCEPT !.st = "error"]
           /\ lists' = Canceled(lists)
           /\ nfaults' = nfaults /\ UNCHANGED <<files, fifo, lost, overrun>>
  <2>1. "error" \in States BY DEF States
  <2>2. GoodTask(A, task') /\ task'.slots = task.slots /\ task'.st = "error"
    BY <1>1, <1>9, <2>1, TaskWith
  <2>3. GoodLists(A, lists') BY <1>1, <1>9, ListsCanceled
  <2>4. TypesAfter BY <1>1, <1>2, <1>4, <1>9, <2>2, <2>3 DEF TypesAfter, Types
  <2>5. RoomAfter BY <1>1, <1>3, <1>9, <2>2, RoomStays
  <2>6. FatesAfter BY <1>6, <1>9, <2>2 DEF FatesAfter
  <2> QED BY <2>4, <2>5, <2>6, InvAfter
<1>10. CASE /\ Live /\ task.st # "error"
            /\ \E full \in BOOLEAN :
                 LET S == UpdateCompletion(
                            Decision(H.task, H.files, any = {} /\ fifo \o H.next \o Tail(ready) = <<>>, full))
                 IN  /\ Becomes(S, lists, IF H.overrun = {} THEN {} ELSE {a.article})
                     /\ fifo' = fifo \o H.next
                     /\ lists' = WithLists(S.task.st, lists)
                     /\ nfaults' \in {nfaults, nfaults + 1}
            /\ overrun' = overrun \cup H.overrun
  <2> DEFINE idle == any = {} /\ fifo \o H.next \o Tail(ready) = <<>>
  <2>1. PICK full \in BOOLEAN :
          /\ LET S == UpdateCompletion(Decision(H.task, H.files, idle, full))
             IN  /\ Becomes(S, lists, IF H.overrun = {} THEN {} ELSE {a.article})
                 /\ lists' = WithLists(S.task.st, lists)
          /\ fifo' = fifo \o H.next
          /\ nfaults' \in {nfaults, nfaults + 1}
    BY <1>10
  <2>2. Handled(task, H) BY <1>7, <1>10
  <2> HIDE DEF idle
  <2> QED BY <1>2, <1>10, <2>1, <2>2, PumpHandledKeeps
<1>11. CASE /\ Live /\ task' = [task EXCEPT !.st = "crashed"]
            /\ overrun' = overrun \cup H.overrun
            /\ nfaults' = nfaults /\ UNCHANGED <<lists, files, fifo, lost>>
  <2>1. "crashed" \in States BY DEF States
  <2>2. GoodTask(A, task') /\ task'.slots = task.slots /\ task'.st = "crashed"
    BY <1>1, <1>11, <2>1, TaskWith
  <2>3. overrun' \subseteq {1} BY <1>1, <1>7, <1>11 DEF Room, Handled
  <2>4. TypesAfter BY <1>1, <1>2, <1>4, <1>11, <2>2 DEF TypesAfter, Types
  <2>5. RoomAfter BY <1>3, <2>2, <2>3 DEF RoomAfter
  <2>6. FatesAfter BY <2>2 DEF FatesAfter
  <2> QED BY <2>4, <2>5, <2>6, InvAfter
<1> QED BY <1>5, <1>8, <1>9, <1>10, <1>11

-----------------------------------------------------------------------------
(* The user.                                                               *)

LEMMA EntriesCounted ==
    ASSUME Types
    PROVE  Entries \in Int
<1> DEFINE f == [l \in lists |-> l.entries]
<1>1. IsFiniteSet(lists) /\ \A l \in lists : f[l] \in Int
  BY DEF Types, GoodLists, ListSet
<1>2. SumFunctionOnSet(f, lists) \in Int
  <2> HIDE DEF f
  <2> QED BY <1>1, SumFacts
<1>3. stale \in Nat BY DEF Types
<1> QED BY <1>2, <1>3 DEF Entries

LEMMA PauseKeeps ==
    ASSUME IInv, Pause
    PROVE  IInv'
<1> DEFINE e == task.ncl - Entries
<1>1. Types /\ Room /\ Fates /\ GoodLists(Articles, lists)
      /\ GoodTask(Articles, task)
  BY DEF IInv, Types
<1>2. /\ task.st \in {"queued", "waiting", "active"}
      /\ task' = [task EXCEPT !.ncl = e, !.st = "paused"]
      /\ lists' = ErasedLists /\ stale' = 0 /\ ncommands' = ncommands + 1
      /\ lost' = lost \cup UNION {ToSet(l.arts) : l \in {k \in Listed(lists) : ~k.run}}
      /\ UNCHANGED <<posting, any, fifo, ready, files, running, nfaults, overrun>>
  BY DEF Pause, Command
<1>3. e \in Int
  BY <1>1, EntriesCounted DEF GoodTask, TaskSet
<1> HIDE DEF e
<1>4. task \in TaskSet(Articles) /\ Len(task.stash) \in {0, task.slots}
  BY <1>1 DEF GoodTask
<1>5. /\ task' \in TaskSet(Articles) /\ task'.stash = task.stash /\ task'.slots = task.slots
      /\ task'.st = "paused" /\ task'.articles = task.articles
  BY <1>2, <1>3, <1>4 DEF TaskSet, States
<1>6. GoodTask(Articles, task')
  BY <1>4, <1>5 DEF GoodTask
<1>7. lost' \subseteq Articles
  <2>1. \A l \in lists : ToSet(l.arts) \subseteq Articles BY <1>1, ListArticles
  <2>2. lost \subseteq Articles BY <1>1 DEF Types
  <2> QED BY <2>1, <2>2, <1>2 DEF Listed
<1>8. TypesAfter
  BY <1>1, <1>2, <1>6, <1>7, ListsErased DEF TypesAfter, Types
<1>9. RoomAfter
  <2>1. lists = {} => ErasedLists = {} BY DEF ErasedLists, Listed
  <2> QED BY <1>1, <1>2, <1>5, <2>1 DEF Room, RoomAfter, Idle
<1>10. FatesAfter
  BY <1>1, <1>2, <1>5, FatesAlive
<1> QED BY <1>8, <1>9, <1>10, InvAfter

LEMMA ResumeKeeps ==
    ASSUME PostingAssumption, IInv, Resume
    PROVE  IInv'
<1>1. Types /\ Room /\ Fates /\ GoodTask(Articles, task) /\ GoodFiles(Articles, files)
      /\ GoodLists(Articles, lists)
  BY DEF IInv, Types
<1>2. /\ task.st = "paused" /\ ncommands' = ncommands + 1
      /\ UNCHANGED <<posting, lists, stale, any, fifo, ready, running, overrun>>
  BY DEF Resume, Command
<1>3. PICK full \in BOOLEAN :
        LET S == UpdateCompletion(Decision(task, files, Idle, full))
            st == CASE S.task.st = "paused" -> "queued"
                    [] S.task.st = "error" -> "crashed"
                    [] OTHER -> S.task.st
        IN  /\ Becomes([S EXCEPT !.task.st = st], lists, {})
            /\ nfaults' \in {nfaults, nfaults + 1}
  BY DEF Resume, Decision, Fault, NoFault
<1> DEFINE S == UpdateCompletion(Decision(task, files, Idle, full))
           st == CASE S.task.st = "paused" -> "queued"
                   [] S.task.st = "error" -> "crashed"
                   [] OTHER -> S.task.st
           U == [S EXCEPT !.task.st = st]
<1>4. Becomes(U, lists, {}) /\ nfaults' \in {nfaults, nfaults + 1}
  BY <1>3
<1>5. 0 \notin Articles /\ Kept(files)
  BY <1>1, <1>2, ArticleNumbers DEF Types, Fates
<1>6. Ends(Articles, task, S)
  BY <1>1, <1>5, UpdateEnds
<1> HIDE DEF S
<1>7. st \in {"queued", "waiting", "complete", "error", "crashed"}
  BY <1>2, <1>6 DEF Ends
<1> HIDE DEF st
<1>8. U.task = [S.task EXCEPT !.st = st] /\ U.files = S.files /\ DOMAIN U = DOMAIN S
  BY <1>6 DEF Ends
<1>9. Ends(Articles, task, U)
  <2>1. st \in States BY <1>7 DEF States
  <2>2. GoodTask(Articles, S.task) BY <1>6 DEF Ends
  <2>3. /\ GoodTask(Articles, U.task) /\ U.task.slots = S.task.slots
        /\ U.task.articles = S.task.articles /\ U.task.st = st
    <3> DEFINE V == [S.task EXCEPT !.st = st]
    <3>1. GoodTask(Articles, V) /\ V.slots = S.task.slots
          /\ V.articles = S.task.articles /\ V.st = st
      BY <2>1, <2>2, TaskWith
    <3>2. U.task = V BY <1>8
    <3> HIDE DEF U, V
    <3> QED BY <3>1, <3>2
  <2> HIDE DEF U
  <2> QED BY <1>6, <1>7, <1>8, <2>3 DEF Ends
<1>10. U.task.articles = task.articles /\ task' = U.task
  BY <1>4, <1>9 DEF Ends, Becomes
<1> HIDE DEF U
<1>11. /\ GoodTask(Articles, task') /\ GoodFiles(Articles, files') /\ Kept(files')
       /\ task'.slots = task.slots
       /\ task'.st \in {task.st, "queued", "waiting", "complete", "error", "crashed"}
       /\ lost' \subseteq Articles
  BY <1>1, <1>4, <1>9, BecomesGood
<1>12. nfaults' \in Nat /\ ncommands' \in Nat
  BY <1>1, <1>2, <1>4 DEF Types
<1>13. TypesAfter
  BY <1>1, <1>2, <1>11, <1>12 DEF TypesAfter, Types
<1>14. RoomAfter
  BY <1>1, <1>2, <1>10, <1>11 DEF Room, RoomAfter, Idle
<1>15. FatesAfter
  BY <1>2, <1>11 DEF FatesAfter
<1> QED BY <1>13, <1>14, <1>15, InvAfter

LEMMA KillKeeps ==
    ASSUME IInv, Kill
    PROVE  IInv'
<1>1. Types /\ Room /\ Fates /\ GoodTask(Articles, task) /\ GoodFiles(Articles, files)
      /\ GoodLists(Articles, lists)
  BY DEF IInv, Types
<1>2. /\ Live /\ ncommands' = ncommands + 1
      /\ UNCHANGED <<posting, any, fifo, ready, running, nfaults, lost, overrun>>
  BY DEF Kill, Command
<1>3. Kept(files)
  BY <1>1, <1>2 DEF Fates, Live
<1>4. CASE /\ task' = [task EXCEPT !.st = "removed"]
           /\ UNCHANGED <<lists, stale, files>>
  <2>1. "removed" \in States BY DEF States
  <2>2. /\ GoodTask(Articles, task') /\ task'.slots = task.slots
        /\ task'.articles = task.articles /\ task'.st = "removed"
    BY <1>1, <1>4, <2>1, TaskWith
  <2>3. TypesAfter BY <1>1, <1>2, <1>4, <2>2 DEF TypesAfter, Types
  <2>4. RoomAfter BY <1>1, <1>2, <1>4, <2>2 DEF Room, RoomAfter, Idle
  <2>5. FatesAfter BY <1>3, <1>4, <2>2 DEF FatesAfter
  <2> QED BY <2>3, <2>4, <2>5, InvAfter
<1>5. CASE /\ task' = [task EXCEPT !.st = "killed"]
           /\ lists' = ErasedLists /\ stale' = 0
           /\ files' = Erased(DiscardedFiles(files), HeldBy(fifo, ready))
  <2>1. "killed" \in States BY DEF States
  <2>2. /\ GoodTask(Articles, task') /\ task'.slots = task.slots
        /\ task'.articles = task.articles /\ task'.st = "killed"
    BY <1>1, <1>5, <2>1, TaskWith
  <2>3. GoodFiles(Articles, files') /\ Held(files', HeldBy(fifo, ready))
    BY <1>1, <1>3, <1>5, DiscardedAll
  <2>4. TypesAfter BY <1>1, <1>2, <1>5, <2>2, <2>3, ListsErased DEF TypesAfter, Types
  <2>5. RoomAfter
    <3>1. lists = {} => ErasedLists = {} BY DEF ErasedLists, Listed
    <3> QED BY <1>1, <1>2, <1>5, <2>2, <3>1 DEF Room, RoomAfter, Idle
  <2>6. FatesAfter BY <1>2, <2>2, <2>3 DEF FatesAfter
  <2> QED BY <2>4, <2>5, <2>6, InvAfter
<1> QED BY <1>4, <1>5 DEF Kill

LEMMA ShutdownKeeps ==
    ASSUME IInv, Shutdown
    PROVE  IInv'
<1>1. Types /\ Room /\ Fates
  BY DEF IInv
<1>2. /\ running' = FALSE /\ ncommands' = ncommands + 1
      /\ UNCHANGED <<posting, task, lists, stale, any, fifo, ready, files, nfaults,
                     lost, overrun>>
  BY DEF Shutdown, Command
<1>6. running' \in BOOLEAN BY <1>2, Zenon
<1>7. ncommands' \in Nat BY <1>1, <1>2 DEF Types
<1>3. TypesAfter BY <1>1, <1>2, <1>6, <1>7 DEF TypesAfter, Types
<1>4. RoomAfter BY <1>1, <1>2 DEF Room, RoomAfter, Idle
<1>5. FatesAfter BY <1>1, <1>2, FatesStay
<1> QED BY <1>3, <1>4, <1>5, InvAfter

LEMMA TaskNew ==
    ASSUME NEW A, NEW s \in Seq(A), NEW y \in BOOLEAN, NEW m \in SUBSET A
    PROVE  LET T == NewTask(s, y, m)
           IN  GoodTask(A, T) /\ T.st = "queued" /\ T.slots = Len(s) /\ T.articles = s
<1> DEFINE T == NewTask(s, y, m)
<1>1. <<>> \in Seq(A \cup {0}) /\ Len(<<>>) = 0 /\ Len(s) \in Nat
  OBVIOUS
<1>2. /\ T.st = "queued" /\ T.articles = s /\ T.yenc = y /\ T.ncl = 0 /\ T.slots = Len(s)
      /\ T.stash = <<>> /\ T.named = FALSE /\ T.missing = m
  BY DEF NewTask
<1>3. T \in TaskSet(A)
  BY <1>1 DEF NewTask, TaskSet, States
<1> HIDE DEF T
<1>4. GoodTask(A, T) BY <1>1, <1>2, <1>3 DEF GoodTask
<1> QED BY <1>2, <1>4 DEF T

LEMMA RestartKeeps ==
    ASSUME IInv, Restart
    PROVE  IInv'
<1> DEFINE T == NewTask(task.articles, task.yenc, task.missing)
<1>1. Types /\ Room /\ Fates /\ GoodTask(Articles, task) /\ GoodFiles(Articles, files)
      /\ GoodLists(Articles, lists)
  BY DEF IInv, Types
<1>2. /\ Idle /\ task.st \in {"queued", "waiting", "active", "paused"}
      /\ running' = TRUE /\ task' = T /\ lists' = {} /\ stale' = 0
      /\ files' = [k \in Kinds |-> Reopened(files[k])]
      /\ UNCHANGED <<posting, any, fifo, ready, ncommands, nfaults, overrun>>
  BY DEF Restart
<1>3. /\ task.articles \in Seq(Articles) /\ task.yenc \in BOOLEAN
      /\ task.missing \in SUBSET Articles
  BY <1>1 DEF GoodTask, TaskSet
<1>4. GoodTask(Articles, T) /\ T.st = "queued" /\ T.slots = Len(task.articles)
      /\ T.articles = task.articles
  BY <1>3, TaskNew
<1> HIDE DEF T
<1>5. Kept(files)
  BY <1>1, <1>2 DEF Fates
<1>6. GoodFiles(Articles, files') /\ Kept(files')
  BY <1>1, <1>2, <1>5, ReopenedAll
<1>7. lost' \subseteq Articles
  <2>1. ToSet(files["text"].data) \subseteq Articles
    <3>1. files["text"].data \in Seq(Articles) BY <1>1 DEF GoodFiles, Solid
    <3> QED BY <3>1 DEF ToSet
  <2>2. UNION {ToSet(l.arts) : l \in lists} \subseteq Articles BY <1>1, ListArticles
  <2>3. lost \subseteq Articles BY <1>1 DEF Types
  <2>4. Unsaved \subseteq Articles
    BY DEF Articles, Unsaved
  <2> DEFINE b == UNION {ToSet(l.arts) : l \in lists}
             a == ToSet(files["text"].data)
  <2>5. lost' = lost \cup b \cup Unsaved \cup a BY DEF Restart
  <2> HIDE DEF a, b
  <2>6. a \subseteq Articles /\ b \subseteq Articles BY <2>1, <2>2 DEF a, b
  <2> QED BY <2>3, <2>4, <2>5, <2>6
<1>8. GoodLists(Articles, {})
  BY FS_EmptySet DEF GoodLists
<1>9. TypesAfter
  BY <1>1, <1>2, <1>4, <1>6, <1>7, <1>8 DEF TypesAfter, Types
<1>10. RoomAfter
  <2>1. Len(task.articles) = 0 => task.articles = <<>> BY <1>3
  <2> QED BY <1>1, <1>2, <1>4, <2>1 DEF Room, RoomAfter, Idle
<1>11. FatesAfter
  BY <1>2, <1>4, <1>6 DEF FatesAfter
<1> QED BY <1>9, <1>10, <1>11, InvAfter

-----------------------------------------------------------------------------
(* The theorems.                                                           *)

LEMMA InitInv ==
    ASSUME PostingAssumption, Init
    PROVE  IInv
<1>1. PICK y \in BOOLEAN : task = NewTask([i \in DOMAIN posting |-> i], y, {})
  BY DEF Init
<1> DEFINE s == [i \in DOMAIN posting |-> i]
<1>2. /\ posting \in Postings /\ lists = {} /\ stale = 0
      /\ any = {} /\ fifo = <<>> /\ ready = <<>>
      /\ files = [k \in Kinds |-> NoFile]
      /\ running = TRUE /\ ncommands = 0 /\ nfaults = 0 /\ lost = {} /\ overrun = {}
  BY DEF Init
<1>3. Articles = 1 .. Len(posting) /\ Len(posting) \in Nat /\ Articles = DOMAIN posting
  BY <1>2, ArticleNumbers DEF Articles
<1>4. s \in Seq(Articles) /\ Len(s) = Len(posting)
  BY <1>3
<1>5. Len(posting) # 0
  <2>1. posting \in Seq(Content) /\ posting # <<>> BY <1>2
  <2> QED BY <2>1
<1> HIDE DEF s
<1>6. task = NewTask(s, y, {}) BY <1>1 DEF s
<1>7. GoodTask(Articles, task) /\ task.st = "queued" /\ task.slots = Len(posting)
  <2>1. {} \in SUBSET Articles OBVIOUS
  <2> QED BY <1>4, <1>6, <2>1, TaskNew
<1>8. GoodFiles(Articles, files) /\ Kept(files)
  <2>1. <<>> \in Seq(Articles \cup {0}) /\ <<>> \in Seq(Articles) /\ Len(<<>>) = 0 OBVIOUS
  <2>2. NoFile \in FileSet(Articles) /\ Solid(Articles, NoFile)
    BY <2>1 DEF NoFile, FileSet, Solid
  <2>3. ~NoFile.open /\ ~NoFile.listed BY DEF NoFile
  <2> QED BY <1>2, <2>2, <2>3 DEF GoodFiles, Kept, Kinds
<1>9. GoodLists(Articles, lists)
  BY <1>2, FS_EmptySet DEF GoodLists
<1>10. GoodQueue(Articles, Len(posting), <<>>)
  BY DEF GoodQueue
<1>11. Types
  BY <1>2, <1>7, <1>8, <1>9, <1>10 DEF Types
<1>12. Room
  BY <1>2, <1>5, <1>7 DEF Room
<1>13. Fates
  BY <1>7, <1>8 DEF Fates
<1> QED BY <1>11, <1>12, <1>13 DEF IInv

LEMMA NextInv ==
    ASSUME PostingAssumption, BoundAssumption, IInv, [Next]_vars
    PROVE  IInv'
<1>1. CASE Run BY <1>1, RunKeeps
<1>2. CASE \E l \in lists : Take(l) \/ Broken(l) \/ Return(l) \/ Refused(l)
  BY <1>2, TakeKeeps, BrokenKeeps, ReturnKeeps, RefusedKeeps
<1>3. CASE \E a \in any \cup ToSet(fifo) : PerformDecode(a) \/ PerformWrite(a)
  BY <1>3, PerformDecodeKeeps, PerformWriteKeeps
<1>4. CASE Pump BY <1>4, PumpKeeps
<1>5. CASE Pause BY <1>5, PauseKeeps
<1>6. CASE Resume BY <1>6, ResumeKeeps
<1>7. CASE Kill BY <1>7, KillKeeps
<1>8. CASE Shutdown BY <1>8, ShutdownKeeps
<1>9. CASE Restart BY <1>9, RestartKeeps
<1>10. CASE UNCHANGED vars
  <2>1. Types /\ Room /\ Fates BY DEF IInv
  <2>2. UNCHANGED <<posting, task, lists, stale, any, fifo, ready, files, running,
                    ncommands, nfaults, lost, overrun>>
    BY <1>10 DEF vars
  <2>3. TypesAfter BY <2>1, <2>2 DEF TypesAfter, Types
  <2>4. RoomAfter BY <2>1, <2>2 DEF Room, RoomAfter, Idle
  <2>5. FatesAfter BY <2>1, <2>2, FatesStay
  <2> QED BY <2>3, <2>4, <2>5, InvAfter
<1> QED BY <1>1, <1>2, <1>3, <1>4, <1>5, <1>6, <1>7, <1>8, <1>9, <1>10 DEF Next

\* The invariant of a download holds, whatever is downloaded, whatever the
\* servers and the disk do, and whenever it is paused, killed or restarted.
THEOREM DownloadInvariant == Spec => []IInv
<1>1. PostingAssumption /\ BoundAssumption
  BY PostingAssumption, BoundAssumption
<1>2. Init => IInv BY <1>1, InitInv
<1>3. IInv /\ [Next]_vars => IInv' BY <1>1, NextInv
<1> QED BY <1>2, <1>3, PTL DEF Spec

\* The variables keep their types and a part that comes finds its slot in the
\* stash, unless the stash has but one (download.cpp:176-197).
THEOREM StashIsLargeEnough == Spec => []StashFits
<1>1. IInv => StashFits
  <2> SUFFICES ASSUME IInv PROVE StashFits OBVIOUS
  <2>1. Types /\ overrun \subseteq {1} BY DEF IInv, Room
  <2>2. SlotsSuffice /\ overrun \subseteq Nat BY <2>1 DEF SlotsSuffice
  <2>3. /\ fifo \in Seq(Actions({"decode"} \cup Kinds))
        /\ ready \in Seq(Actions({"decode"} \cup Kinds))
        /\ any \subseteq Actions({"decode"})
    BY <2>1 DEF Types, GoodQueue, ActionSet, AnyKind, Actions
  <2>4. /\ task \in [st : States, articles : Seq(Articles), yenc : BOOLEAN, ncl : Int,
                     slots : Nat, stash : Seq(Articles \cup {0}), named : BOOLEAN,
                     missing : SUBSET Articles]
        /\ Len(task.stash) \in {0, task.slots}
    BY <2>1 DEF Types, GoodTask, TaskSet
  <2>5. /\ IsFiniteSet(lists)
        /\ lists \subseteq [arts : Seq(Articles), run : BOOLEAN, canceled : BOOLEAN,
                            entries : Nat]
        /\ \A l \in lists : l.arts # <<>>
    BY <2>1 DEF Types, GoodLists, ListSet
  <2>6. /\ files \in [Kinds -> [listed : BOOLEAN, open : BOOLEAN, discard : BOOLEAN,
                                exists : BOOLEAN, pos : Nat \ {0},
                                data : Seq(Articles \cup {0})]]
        /\ \A k \in Kinds : files[k].open => files[k].exists
    BY <2>1 DEF Types, GoodFiles, FileSet
  <2>7. /\ posting \in Postings /\ stale \in Nat /\ running \in BOOLEAN
        /\ lost \subseteq Articles /\ ncommands \in Nat /\ nfaults \in Nat
    BY <2>1 DEF Types
  <2>8. TypeOK
    BY <2>2, <2>3, <2>4, <2>5, <2>6, <2>7 DEF TypeOK
  <2> QED BY <2>2, <2>8 DEF StashFits
<1> QED BY <1>1, DownloadInvariant, PTL

\* A killed download leaves no file behind that it had not closed, once the
\* writes under way have come to nothing (download::cancel, ~datafile).
THEOREM KillIsClean == Spec => []KilledLeavesNothing
<1>1. IInv => KilledLeavesNothing
  BY DEF IInv, Fates, Held, KilledLeavesNothing
<1> QED BY <1>1, DownloadInvariant, PTL

-----------------------------------------------------------------------------
(* Where the articles of a download are that is not uuencoded.             *)

\* The articles of cmdlists, of decodes for any thread, and of the actions of
\* some kinds in a queue.
ListedArticles(ls) == UNION {ToSet(l.arts) : l \in ls}
AnyArticles(Y) == {x.article : x \in Y}
Of(q, K) == {i \in 1 .. Len(q) : q[i].kind \in K}
Named(q, K) == {q[i].article : i \in Of(q, K)}
Single(q, K) == \A i, j \in Of(q, K) : q[i].article = q[j].article => i = j

\* What the text file got since its position was last set back, and what it
\* has from before that.
Written(F) == {F.data[i] : i \in 1 .. F.pos - 1}
Distinct(F) == \A i, j \in 1 .. F.pos - 1 : F.data[i] = F.data[j] => i = j
Rest(F) == {F.data[i] : i \in F.pos .. Len(F.data)}

Apart(A, B, C, D, E, F) ==
    /\ A \cap (B \cup C \cup D \cup E \cup F) = {}
    /\ B \cap (C \cup D \cup E \cup F) = {}
    /\ C \cap (D \cup E \cup F) = {}
    /\ D \cap (E \cup F) = {}
    /\ E \cap F = {}

ListsApart(ls) ==
    /\ \A l \in ls : IsInjective(l.arts)
    /\ \A l, m \in ls : ToSet(l.arts) \cap ToSet(m.arts) # {} => l = m

OneEach(Y) == \A x, y \in Y : x.article = y.article => x = y

\* Each article is in one place.
Division(W, ls, Y, f, r, F) ==
    /\ IsInjective(W) /\ ListsApart(ls) /\ OneEach(Y)
    /\ Single(f, {"decode", "text"}) /\ Single(r, {"decode"}) /\ Distinct(F)
    /\ Apart(ToSet(W), ListedArticles(ls), AnyArticles(Y), Named(f, {"decode", "text"}),
             Named(r, {"decode"}), Written(F))

\* An article is still to be decoded, or has been.
Awaited(W, ls, Y, f, r) ==
    ToSet(W) \cup ListedArticles(ls) \cup AnyArticles(Y)
      \cup Named(f, {"decode"}) \cup Named(r, {"decode"})
InPlace(a, F) == a \in 1 .. Len(F.data) /\ F.data[a] = a
Done(a, f, FS) ==
    /\ "text" \in posting[a] => a \in Written(FS["text"]) \cup Named(f, {"text"})
    /\ "yenc" \in posting[a] => a \in Named(f, {"binary"}) \/ InPlace(a, FS["binary"])
SomeFailed(r) == \E i \in 1 .. Len(r) : r[i].failed
Covered(T, ls, Y, f, r, FS, lo) ==
    ~SomeFailed(r) =>
      \A a \in Articles \ (T.missing \cup lo) :
        a \in Awaited(T.articles, ls, Y, f, r) \/ Done(a, f, FS)

\* A file that the task does not list is new.
Fresh(FS) ==
    \A k \in Kinds : /\ ~FS[k].discard
                     /\ ~FS[k].listed => FS[k].data = <<>> /\ FS[k].pos = 1
Over(T, ls, lo) == T.st = "complete" => ToSet(T.articles) \cup ListedArticles(ls) \subseteq lo

\* A cmdlist that no connection executes is in the list of those that wait.
Enqueued(ls) == \A l \in ls : ~l.run => l.entries # 0

Going(T) == T.st \in {"queued", "waiting", "active", "paused", "complete"}
Sound(T, ls, Y, f, r, FS, lo) ==
    /\ Fresh(FS) /\ Enqueued(ls)
    /\ Division(T.articles, ls, Y, f, r, FS["text"])
    /\ Rest(FS["text"]) \subseteq lo
    /\ Covered(T, ls, Y, f, r, FS, lo)
    /\ Over(T, ls, lo)

\* The binary has each part where its offset says.
PlainFile(F) ==
    /\ F.exists => Len(F.data) = Len(posting)
    /\ \A i \in 1 .. Len(F.data) : F.data[i] \in {0, i}
Straight(q) == \A i \in 1 .. Len(q) : q[i].kind = "binary" => q[i].offset = q[i].article
Plain(T, FS, f, r) ==
    T.stash = <<>> /\ PlainFile(FS["binary"]) /\ Straight(f) /\ Straight(r)

PInv == /\ Plain(task, files, fifo, ready)
        /\ Going(task) => Sound(task, lists, any, fifo, ready, files, lost)
WInv == IInv /\ (~Uuencoded(posting) => PInv)

-----------------------------------------------------------------------------
(* Queues. *)

LEMMA QueueTaken ==
    ASSUME NEW A, NEW n, NEW q, GoodQueue(A, n, q), q # <<>>, NEW K
    PROVE  /\ Named(q, K) = Named(Tail(q), K) \cup {x.article : x \in {y \in {Head(q)} : y.kind \in K}}
           /\ Single(q, K) => /\ Single(Tail(q), K)
                              /\ Head(q).kind \in K => Head(q).article \notin Named(Tail(q), K)
<1> DEFINE t == Tail(q)
           h == Head(q)
<1>1. /\ Len(q) \in Nat \ {0} /\ h = q[1] /\ Len(t) = Len(q) - 1
      /\ \A i \in 1 .. Len(t) : t[i] = q[i + 1]
  BY DEF GoodQueue
<1> HIDE DEF t, h
<1>2. \A i \in 1 .. Len(q) : i = 1 \/ (i - 1 \in 1 .. Len(t) /\ q[i] = t[i - 1])
  BY <1>1
<1>3. \A i \in 1 .. Len(t) : i + 1 \in 1 .. Len(q) /\ t[i] = q[i + 1] /\ i + 1 # 1
  BY <1>1
<1>4. 1 \in 1 .. Len(q) /\ q[1] = h
  BY <1>1
<1>5. Named(q, K) \subseteq Named(t, K) \cup {x.article : x \in {y \in {h} : y.kind \in K}}
  BY <1>2, <1>4 DEF Named, Of
<1>6. Named(t, K) \subseteq Named(q, K)
  BY <1>3 DEF Named, Of
<1>7. h.kind \in K => h.article \in Named(q, K)
  BY <1>4 DEF Named, Of
<1>8. Single(q, K) => Single(t, K)
  <2> SUFFICES ASSUME Single(q, K), NEW i \in Of(t, K), NEW j \in Of(t, K), t[i].article = t[j].article
               PROVE  i = j
    BY DEF Single
  <2>1. i + 1 \in Of(q, K) /\ j + 1 \in Of(q, K) BY <1>3 DEF Of
  <2>2. q[i + 1].article = q[j + 1].article BY <1>3 DEF Of
  <2>3. i + 1 = j + 1 BY <2>1, <2>2 DEF Single
  <2> QED BY <2>3 DEF Of
<1>9. Single(q, K) /\ h.kind \in K => h.article \notin Named(t, K)
  <2> SUFFICES ASSUME Single(q, K), h.kind \in K, NEW i \in Of(t, K), h.article = t[i].article
               PROVE  FALSE
    BY DEF Named
  <2>1. i + 1 \in Of(q, K) /\ 1 \in Of(q, K) /\ i + 1 # 1 BY <1>3, <1>4 DEF Of
  <2>2. q[i + 1].article = q[1].article BY <1>3, <1>4 DEF Of
  <2> QED BY <2>1, <2>2 DEF Single
<1> QED BY <1>5, <1>6, <1>7, <1>8, <1>9 DEF t, h

LEMMA StraightTaken ==
    ASSUME NEW A, NEW n, NEW q, GoodQueue(A, n, q), q # <<>>
    PROVE  /\ Straight(q) => /\ Straight(Tail(q))
                             /\ Head(q).kind = "binary" => Head(q).offset = Head(q).article
           /\ SomeFailed(q) => SomeFailed(Tail(q)) \/ Head(q).failed
<1> DEFINE t == Tail(q)
           h == Head(q)
<1>1. /\ Len(q) \in Nat \ {0} /\ h = q[1] /\ Len(t) = Len(q) - 1
      /\ \A i \in 1 .. Len(t) : t[i] = q[i + 1]
  BY DEF GoodQueue
<1> HIDE DEF t, h
<1>2. \A i \in 1 .. Len(q) : i = 1 \/ (i - 1 \in 1 .. Len(t) /\ q[i] = t[i - 1])
  BY <1>1
<1>3. \A i \in 1 .. Len(t) : i + 1 \in 1 .. Len(q) /\ t[i] = q[i + 1] /\ i + 1 # 1
  BY <1>1
<1>4. 1 \in 1 .. Len(q) /\ q[1] = h
  BY <1>1
<1>5. Straight(q) => Straight(t) /\ (h.kind = "binary" => h.offset = h.article)
  BY <1>3, <1>4 DEF Straight
<1>6. SomeFailed(q) => SomeFailed(t) \/ h.failed
  BY <1>2, <1>4 DEF SomeFailed
<1> QED BY <1>5, <1>6 DEF t, h

LEMMA QueueGiven ==
    ASSUME NEW A, NEW n, NEW q, GoodQueue(A, n, q), NEW x, NEW K
    PROVE  /\ Named(Append(q, x), K) = Named(q, K) \cup {y.article : y \in {z \in {x} : z.kind \in K}}
           /\ Single(q, K) /\ (x.kind \in K => x.article \notin Named(q, K)) => Single(Append(q, x), K)
<1> DEFINE t == Append(q, x)
           m == Len(q) + 1
<1>1. /\ Len(q) \in Nat /\ Len(t) = m /\ t[m] = x
      /\ \A i \in 1 .. Len(q) : t[i] = q[i]
  BY DEF GoodQueue
<1> HIDE DEF t
<1>2. \A i \in 1 .. Len(t) : i = m \/ i \in 1 .. Len(q)
  BY <1>1
<1>3. m \in 1 .. Len(t) /\ (\A i \in 1 .. Len(q) : i \in 1 .. Len(t) /\ i # m)
  BY <1>1
<1> HIDE DEF m
<1>4. Named(t, K) = Named(q, K) \cup {y.article : y \in {z \in {x} : z.kind \in K}}
  <2>1. Named(t, K) \subseteq Named(q, K) \cup {y.article : y \in {z \in {x} : z.kind \in K}}
    BY <1>1, <1>2 DEF Named, Of
  <2>2. Named(q, K) \subseteq Named(t, K)
    BY <1>1, <1>3 DEF Named, Of
  <2>3. x.kind \in K => x.article \in Named(t, K)
    BY <1>1, <1>3 DEF Named, Of
  <2> QED BY <2>1, <2>2, <2>3
<1>5. ASSUME Single(q, K), x.kind \in K => x.article \notin Named(q, K) PROVE Single(t, K)
  <2> SUFFICES ASSUME NEW i \in Of(t, K), NEW j \in Of(t, K), t[i].article = t[j].article
               PROVE  i = j
    BY DEF Single
  <2>1. \A k \in Of(t, K) : (k = m /\ x.kind \in K /\ t[k] = x) \/ (k \in Of(q, K) /\ t[k] = q[k])
    BY <1>1, <1>2 DEF Of
  <2>2. \A k \in Of(q, K) : q[k].article \in Named(q, K)
    BY DEF Named
  <2> QED BY <1>5, <2>1, <2>2 DEF Single
<1> QED BY <1>4, <1>5 DEF t

LEMMA StraightGiven ==
    ASSUME NEW A, NEW n, NEW q, GoodQueue(A, n, q), NEW x
    PROVE  /\ Straight(q) /\ (x.kind = "binary" => x.offset = x.article) => Straight(Append(q, x))
           /\ SomeFailed(Append(q, x)) <=> SomeFailed(q) \/ x.failed
<1> DEFINE t == Append(q, x)
           m == Len(q) + 1
<1>1. /\ Len(q) \in Nat /\ Len(t) = m /\ t[m] = x
      /\ \A i \in 1 .. Len(q) : t[i] = q[i]
  BY DEF GoodQueue
<1> HIDE DEF t
<1>2. \A i \in 1 .. Len(t) : i = m \/ i \in 1 .. Len(q)
  BY <1>1
<1>3. m \in 1 .. Len(t) /\ (\A i \in 1 .. Len(q) : i \in 1 .. Len(t) /\ i # m)
  BY <1>1
<1> HIDE DEF m
<1>4. ASSUME Straight(q), x.kind = "binary" => x.offset = x.article PROVE Straight(t)
  BY <1>1, <1>2, <1>4 DEF Straight
<1>5. SomeFailed(t) <=> SomeFailed(q) \/ x.failed
  BY <1>1, <1>2, <1>3 DEF SomeFailed
<1> QED BY <1>4, <1>5 DEF t

LEMMA QueueJoined ==
    ASSUME NEW A, NEW n, NEW q, GoodQueue(A, n, q), NEW u, GoodQueue(A, n, u), NEW K
    PROVE  /\ Named(q \o u, K) = Named(q, K) \cup Named(u, K)
           /\ Single(q, K) /\ Single(u, K) /\ Named(q, K) \cap Named(u, K) = {} => Single(q \o u, K)
<1> DEFINE t == q \o u
           m == Len(q)
<1>1. /\ m \in Nat /\ Len(u) \in Nat /\ Len(t) = m + Len(u)
      /\ \A i \in 1 .. m + Len(u) : t[i] = IF i <= m THEN q[i] ELSE u[i - m]
  BY DEF GoodQueue
<1> HIDE DEF t
<1>2. \A i \in 1 .. Len(t) : (i \in 1 .. m /\ t[i] = q[i]) \/ (i - m \in 1 .. Len(u) /\ t[i] = u[i - m])
  BY <1>1
<1>3. /\ \A i \in 1 .. m : i \in 1 .. Len(t) /\ t[i] = q[i]
      /\ \A i \in 1 .. Len(u) : i + m \in 1 .. Len(t) /\ t[i + m] = u[i]
  BY <1>1
<1>4. Named(t, K) = Named(q, K) \cup Named(u, K)
  <2>1. Named(t, K) \subseteq Named(q, K) \cup Named(u, K)
    BY <1>2 DEF Named, Of
  <2>2. Named(q, K) \subseteq Named(t, K)
    BY <1>3 DEF Named, Of
  <2>3. Named(u, K) \subseteq Named(t, K)
    BY <1>3 DEF Named, Of
  <2> QED BY <2>1, <2>2, <2>3
<1>5. ASSUME Single(q, K), Single(u, K), Named(q, K) \cap Named(u, K) = {} PROVE Single(t, K)
  <2> SUFFICES ASSUME NEW i \in Of(t, K), NEW j \in Of(t, K), t[i].article = t[j].article
               PROVE  i = j
    BY DEF Single
  <2>1. \A k \in Of(t, K) : \/ k \in Of(q, K) /\ t[k] = q[k] /\ t[k].article \in Named(q, K)
                            \/ k - m \in Of(u, K) /\ t[k] = u[k - m] /\ t[k].article \in Named(u, K)
    BY <1>2 DEF Of, Named
  <2>2. i \in Int /\ j \in Int BY DEF Of
  <2>3. CASE i \in Of(q, K) /\ t[i] = q[i] /\ t[i].article \in Named(q, K)
    <3>1. j \in Of(q, K) /\ t[j] = q[j] BY <1>5, <2>1, <2>3
    <3> QED BY <1>5, <2>3, <3>1 DEF Single
  <2>4. CASE i - m \in Of(u, K) /\ t[i] = u[i - m] /\ t[i].article \in Named(u, K)
    <3>1. j - m \in Of(u, K) /\ t[j] = u[j - m] BY <1>5, <2>1, <2>4
    <3>2. i - m = j - m BY <1>5, <2>4, <3>1 DEF Single
    <3> QED BY <2>2, <3>2, <1>1
  <2> QED BY <2>1, <2>3, <2>4
<1> QED BY <1>4, <1>5 DEF t

LEMMA StraightJoined ==
    ASSUME NEW A, NEW n, NEW q, GoodQueue(A, n, q), NEW u, GoodQueue(A, n, u),
           Straight(q), Straight(u)
    PROVE  Straight(q \o u)
<1> DEFINE t == q \o u
           m == Len(q)
<1>1. /\ m \in Nat /\ Len(u) \in Nat /\ Len(t) = m + Len(u)
      /\ \A i \in 1 .. m + Len(u) : t[i] = IF i <= m THEN q[i] ELSE u[i - m]
  BY DEF GoodQueue
<1> HIDE DEF t
<1>2. \A i \in 1 .. Len(t) : (i \in 1 .. m /\ t[i] = q[i]) \/ (i - m \in 1 .. Len(u) /\ t[i] = u[i - m])
  BY <1>1
<1>3. Straight(t)
  <2> SUFFICES ASSUME NEW i \in 1 .. Len(t), t[i].kind = "binary" PROVE t[i].offset = t[i].article
    BY DEF Straight
  <2> QED BY <1>2 DEF Straight
<1> QED BY <1>3 DEF t

-----------------------------------------------------------------------------
(* Files. *)

\* One article is written at the position of a file.
PutOne(F, a, G) ==
    /\ G.listed = F.listed /\ G.exists = F.exists /\ G.discard = F.discard
    /\ G.pos = F.pos + 1
    /\ Len(G.data) = IF F.pos <= Len(F.data) THEN Len(F.data) ELSE F.pos
    /\ \A i \in 1 .. Len(G.data) :
         G.data[i] = IF i = F.pos THEN a ELSE IF i <= Len(F.data) THEN F.data[i] ELSE 0

LEMMA OnePut ==
    ASSUME NEW A, NEW F \in FileSet(A), NEW a
    PROVE  PutOne(F, a, PutAll(F, <<a>>))
<1> DEFINE m == Max({Len(F.data), F.pos})
           e == F.pos + 1
           d == [i \in 1 .. m |-> IF i \in F.pos .. e - 1 THEN <<a>>[i - F.pos + 1]
                                  ELSE IF i <= Len(F.data) THEN F.data[i] ELSE 0]
<1>1. /\ F.pos \in Nat \ {0} /\ Len(F.data) \in Nat /\ Len(<<a>>) = 1
      /\ e - 1 = F.pos
  BY DEF FileSet
<1>2. m = IF F.pos <= Len(F.data) THEN Len(F.data) ELSE F.pos
  <2>1. F.pos \in Int /\ Len(F.data) \in Int BY <1>1
  <2>2. m \in {Len(F.data), F.pos} /\ m >= Len(F.data) /\ m >= F.pos BY <2>1, MaxOfTwo
  <2> QED BY <2>1, <2>2
<1>3. PutAll(F, <<a>>) = [F EXCEPT !.pos = e, !.data = d]
  BY <1>1 DEF PutAll, FileSet
<1> HIDE DEF m, e
<1>4. \A i \in 1 .. m : d[i] = IF i = F.pos THEN a ELSE IF i <= Len(F.data) THEN F.data[i] ELSE 0
  <2> TAKE i \in 1 .. m
  <2>1. m \in Nat BY <1>1, <1>2
  <2>2. i \in F.pos .. e - 1 <=> i = F.pos BY <1>1, <2>1
  <2>3. i = F.pos => <<a>>[i - F.pos + 1] = a
    <3>1. i = F.pos => i - F.pos + 1 = 1 BY <1>1
    <3>2. <<a>>[1] = a OBVIOUS
    <3> HIDE DEF d
    <3> QED BY <3>1, <3>2
  <2>4. d[i] = IF i \in F.pos .. e - 1 THEN <<a>>[i - F.pos + 1]
               ELSE IF i <= Len(F.data) THEN F.data[i] ELSE 0
    OBVIOUS
  <2> HIDE DEF d
  <2> QED BY <2>2, <2>3, <2>4
<1>5. Len(d) = m
  <2>1. m \in Nat BY <1>1, <1>2
  <2> QED BY <2>1
<1> HIDE DEF d
<1>6. /\ PutAll(F, <<a>>).pos = e /\ PutAll(F, <<a>>).data = d
      /\ PutAll(F, <<a>>).listed = F.listed /\ PutAll(F, <<a>>).exists = F.exists
      /\ PutAll(F, <<a>>).discard = F.discard
  BY <1>3 DEF FileSet
<1>7. e = F.pos + 1 BY DEF e
<1> QED BY <1>2, <1>4, <1>5, <1>6, <1>7 DEF PutOne

\* A text goes to the end of what has been written, and over what was there.
LEMMA TextWritten ==
    ASSUME NEW A, NEW F \in FileSet(A), Solid(A, F), NEW x, x.offset = 0
    PROVE  LET G == WriteAt(F, x)
           IN  /\ Written(G) = Written(F) \cup {x.article}
               /\ Distinct(F) /\ x.article \notin Written(F) => Distinct(G)
               /\ Rest(G) \subseteq Rest(F)
               /\ G.listed = F.listed /\ G.discard = F.discard
<1> DEFINE G == WriteAt(F, x)
<1>1. PutOne(F, x.article, G)
  BY OnePut DEF WriteAt
<1> HIDE DEF G
<1>2. F.pos \in Nat \ {0} /\ F.pos <= Len(F.data) + 1 /\ Len(F.data) \in Nat
  BY DEF FileSet, Solid
<1>3. /\ G.pos - 1 = F.pos /\ F.pos <= Len(G.data) /\ Len(F.data) <= Len(G.data)
      /\ Len(G.data) \in Nat
      /\ G.data[F.pos] = x.article
      /\ \A i \in 1 .. F.pos - 1 : G.data[i] = F.data[i]
      /\ \A i \in G.pos .. Len(G.data) : i \in F.pos .. Len(F.data) /\ G.data[i] = F.data[i]
  <2>1. G.pos = F.pos + 1 /\ G.pos - 1 = F.pos BY <1>1, <1>2 DEF PutOne
  <2>2. Len(G.data) = IF F.pos <= Len(F.data) THEN Len(F.data) ELSE F.pos BY <1>1 DEF PutOne
  <2>3. F.pos <= Len(G.data) /\ Len(F.data) <= Len(G.data) /\ Len(G.data) \in Nat
    BY <1>2, <2>2
  <2>4. \A i \in 1 .. Len(G.data) :
          G.data[i] = IF i = F.pos THEN x.article ELSE IF i <= Len(F.data) THEN F.data[i] ELSE 0
    BY <1>1 DEF PutOne
  <2>5. F.pos \in 1 .. Len(G.data) BY <1>2, <2>3
  <2>6. ASSUME NEW i \in 1 .. F.pos - 1 PROVE G.data[i] = F.data[i]
    <3>1. i \in 1 .. Len(G.data) /\ i # F.pos /\ i <= Len(F.data) BY <1>2, <2>3
    <3> QED BY <2>4, <3>1
  <2>7. ASSUME NEW i \in G.pos .. Len(G.data)
        PROVE  i \in F.pos .. Len(F.data) /\ G.data[i] = F.data[i]
    <3>1. i \in 1 .. Len(G.data) /\ i # F.pos /\ i <= Len(F.data) /\ i \in F.pos .. Len(F.data)
      BY <1>2, <2>1, <2>2, <2>3
    <3> QED BY <2>4, <3>1
  <2> QED BY <2>1, <2>3, <2>4, <2>5, <2>6, <2>7
<1>4. 1 .. G.pos - 1 = (1 .. F.pos - 1) \cup {F.pos} /\ F.pos \notin 1 .. F.pos - 1
  BY <1>2, <1>3
<1>5. Written(G) = Written(F) \cup {x.article}
  BY <1>3, <1>4 DEF Written
<1>6. Distinct(F) /\ x.article \notin Written(F) => Distinct(G)
  BY <1>3, <1>4 DEF Written, Distinct
<1>7. Rest(G) \subseteq Rest(F)
  BY <1>3 DEF Rest
<1> QED BY <1>1, <1>5, <1>6, <1>7 DEF G, PutOne

\* A part of a binary goes where its offset says, and nothing else changes.
LEMMA PartWritten ==
    ASSUME NEW n \in Nat, NEW F \in FileSet(1 .. n), n = Len(posting), F.exists, PlainFile(F),
           NEW x, x.article \in 1 .. n, x.offset = x.article
    PROVE  LET G == WriteAt(F, x)
           IN  /\ PlainFile(G) /\ InPlace(x.article, G)
               /\ \A a : InPlace(a, F) => InPlace(a, G)
               /\ G.listed = F.listed /\ G.discard = F.discard
<1> DEFINE E == [F EXCEPT !.pos = x.offset]
           G == WriteAt(F, x)
<1>1. x.offset \in Nat \ {0} /\ x.offset <= n /\ Len(F.data) = n
  BY DEF PlainFile
<1>2. /\ E \in FileSet(1 .. n) /\ E.pos = x.offset /\ E.data = F.data
      /\ E.listed = F.listed /\ E.exists = F.exists /\ E.discard = F.discard
  BY <1>1 DEF FileSet
<1>3. G = PutAll(E, <<x.article>>)
  BY <1>1 DEF WriteAt
<1> HIDE DEF E, G
<1>4. PutOne(E, x.article, G)
  BY <1>2, <1>3, OnePut
<1>5. Len(G.data) = n /\ \A i \in 1 .. n : G.data[i] = IF i = x.article THEN i ELSE F.data[i]
  BY <1>1, <1>2, <1>4 DEF PutOne
<1>6. PlainFile(G)
  BY <1>1, <1>5 DEF PlainFile
<1>7. InPlace(x.article, G) /\ \A a : InPlace(a, F) => InPlace(a, G)
  BY <1>1, <1>5 DEF InPlace
<1> QED BY <1>2, <1>4, <1>6, <1>7 DEF G, PutOne

\* What a task does to its files when nothing is written.
Preserves(FS, GS) ==
    /\ PlainFile(FS["binary"]) => PlainFile(GS["binary"])
    /\ Fresh(FS) =>
         /\ Fresh(GS)
         /\ Written(GS["text"]) = Written(FS["text"])
         /\ Distinct(FS["text"]) => Distinct(GS["text"])
         /\ Rest(GS["text"]) \subseteq Rest(FS["text"])
         /\ \A a : InPlace(a, FS["binary"]) => InPlace(a, GS["binary"])

LEMMA PreservesAll ==
    ASSUME NEW FS, NEW GS, NEW HS, Preserves(FS, GS), Preserves(GS, HS)
    PROVE  Preserves(FS, HS)
  BY DEF Preserves

LEMMA SamePreserved ==
    ASSUME NEW FS
    PROVE  Preserves(FS, FS)
  BY DEF Preserves

LEMMA ClosedPreserved ==
    ASSUME NEW A, NEW FS, GoodFiles(A, FS)
    PROVE  Preserves(FS, ClosedFiles(FS))
<1> DEFINE GS == ClosedFiles(FS)
<1>1. \A k \in Kinds : /\ GS[k].data = FS[k].data /\ GS[k].pos = FS[k].pos
                       /\ GS[k].listed = FS[k].listed /\ GS[k].discard = FS[k].discard
                       /\ GS[k].exists = FS[k].exists
  BY DEF ClosedFiles, GoodFiles, FileSet
<1> HIDE DEF GS
<1>2. "text" \in Kinds /\ "binary" \in Kinds BY DEF Kinds
<1>3. Preserves(FS, GS)
  BY <1>1, <1>2 DEF Preserves, PlainFile, Fresh, Written, Distinct, Rest, InPlace
<1> QED BY <1>3 DEF GS

LEMMA CreatedPreserved ==
    ASSUME NEW A, NEW FS, GoodFiles(A, FS), NEW k \in Kinds, NEW n \in Nat,
           Len(posting) \in Nat,
           n = IF k = "binary" THEN Len(posting) ELSE 0
    PROVE  Preserves(FS, CreateFile(FS, k, n))
<1> DEFINE d == [i \in 1 .. n |-> 0]
           N == [listed |-> TRUE, open |-> TRUE, discard |-> FALSE, exists |-> TRUE,
                 pos |-> 1, data |-> d]
           GS == CreateFile(FS, k, n)
<1>1. CASE FS[k].listed
  <2>1. GS = FS BY <1>1 DEF CreateFile
  <2> QED BY <2>1, SamePreserved
<1>2. CASE ~FS[k].listed
  <2>1. GS = [FS EXCEPT ![k] = N] BY <1>2 DEF CreateFile
  <2>2. Len(d) = n /\ \A i \in 1 .. n : d[i] = 0
    OBVIOUS
  <2> HIDE DEF d
  <2>3. N.data = d /\ N.pos = 1 /\ N.listed = TRUE /\ N.discard = FALSE /\ N.exists = TRUE
    OBVIOUS
  <2> HIDE DEF N, GS
  <2>4. GS[k] = N /\ \A j \in Kinds : j # k => GS[j] = FS[j]
    BY <2>1 DEF GoodFiles
  <2>5. PlainFile(FS["binary"]) => PlainFile(GS["binary"])
    <3>1. CASE k = "binary"
      BY <3>1, <2>2, <2>3, <2>4 DEF PlainFile
    <3>2. CASE k # "binary"
      BY <3>2, <2>4 DEF Kinds
    <3> QED BY <3>1, <3>2
  <2>6. ASSUME Fresh(FS)
        PROVE  /\ Fresh(GS)
               /\ Written(GS["text"]) = Written(FS["text"])
               /\ Distinct(FS["text"]) => Distinct(GS["text"])
               /\ Rest(GS["text"]) \subseteq Rest(FS["text"])
               /\ \A a : InPlace(a, FS["binary"]) => InPlace(a, GS["binary"])
    <3>1. FS[k].data = <<>> /\ FS[k].pos = 1
      BY <1>2, <2>6 DEF Fresh
    <3>2. Fresh(GS)
      BY <2>3, <2>4, <2>6 DEF Fresh
    <3>3. CASE k = "binary"
      <4>1. GS["text"] = FS["text"] BY <3>3, <2>4 DEF Kinds
      <4>2. \A a : ~InPlace(a, FS["binary"])
        <5>1. Len(<<>>) = 0 /\ 1 .. 0 = {} OBVIOUS
        <5> QED BY <3>1, <3>3, <5>1 DEF InPlace
      <4> QED BY <3>2, <4>1, <4>2
    <3>4. CASE k = "text"
      <4>1. GS["binary"] = FS["binary"] BY <3>4, <2>4 DEF Kinds
      <4>2. GS["text"] = N BY <3>4, <2>4
      <4>3. 1 .. 1 - 1 = {} /\ 1 .. 0 = {} OBVIOUS
      <4>4. Written(GS["text"]) = {} /\ Written(FS["text"]) = {} /\ Distinct(GS["text"])
        BY <3>1, <3>4, <4>2, <4>3, <2>3 DEF Written, Distinct
      <4>5. Rest(GS["text"]) = {}
        <5>1. Len(d) = 0 BY <2>2, <3>4
        <5> QED BY <4>2, <4>3, <5>1, <2>3 DEF Rest
      <4> QED BY <3>2, <4>1, <4>4, <4>5
    <3> QED BY <3>3, <3>4 DEF Kinds
  <2>7. Preserves(FS, GS) BY <2>5, <2>6 DEF Preserves
  <2> QED BY <2>7 DEF GS
<1> QED BY <1>1, <1>2

-----------------------------------------------------------------------------
(* Cmdlists. *)

LEMMA ListOut ==
    ASSUME NEW ls, ListsApart(ls), Enqueued(ls), NEW l \in ls
    PROVE  /\ ListsApart(ls \ {l}) /\ Enqueued(ls \ {l}) /\ IsInjective(l.arts)
           /\ ListedArticles(ls) = ListedArticles(ls \ {l}) \cup ToSet(l.arts)
           /\ ListedArticles(ls \ {l}) \cap ToSet(l.arts) = {}
<1>1. ListsApart(ls \ {l}) /\ Enqueued(ls \ {l}) /\ IsInjective(l.arts)
  BY DEF ListsApart, Enqueued
<1>2. ListedArticles(ls) = ListedArticles(ls \ {l}) \cup ToSet(l.arts)
  BY DEF ListedArticles
<1>3. \A m \in ls \ {l} : ToSet(m.arts) \cap ToSet(l.arts) = {}
  BY DEF ListsApart
<1>4. ListedArticles(ls \ {l}) \cap ToSet(l.arts) = {}
  BY <1>3 DEF ListedArticles
<1> QED BY <1>1, <1>2, <1>4

LEMMA ListIn ==
    ASSUME NEW ls, ListsApart(ls), Enqueued(ls), NEW k, IsInjective(k.arts),
           ~k.run => k.entries # 0, ListedArticles(ls) \cap ToSet(k.arts) = {}
    PROVE  /\ ListsApart(ls \cup {k}) /\ Enqueued(ls \cup {k})
           /\ ListedArticles(ls \cup {k}) = ListedArticles(ls) \cup ToSet(k.arts)
<1>1. Enqueued(ls \cup {k})
  BY DEF Enqueued
<1>2. ListedArticles(ls \cup {k}) = ListedArticles(ls) \cup ToSet(k.arts)
  BY DEF ListedArticles
<1>3. \A m \in ls : ToSet(m.arts) \cap ToSet(k.arts) = {}
  BY DEF ListedArticles
<1>4. ListsApart(ls \cup {k})
  BY <1>3 DEF ListsApart
<1> QED BY <1>1, <1>2, <1>4

\* Cmdlists of which some remain, changed but for their articles.
LEMMA ListsRemain ==
    ASSUME NEW ls, ListsApart(ls), NEW g, NEW ms, ms \subseteq {g[l] : l \in ls},
           \A l \in ls : g[l].arts = l.arts
    PROVE  ListsApart(ms) /\ ListedArticles(ms) \subseteq ListedArticles(ls)
<1>1. \A m \in ms : \E l \in ls : m = g[l] /\ m.arts = l.arts
  OBVIOUS
<1>2. \A m \in ms : IsInjective(m.arts)
  BY <1>1 DEF ListsApart
<1>3. ASSUME NEW m \in ms, NEW n \in ms, ToSet(m.arts) \cap ToSet(n.arts) # {} PROVE m = n
  <2>1. PICK l \in ls : m = g[l] /\ m.arts = l.arts BY <1>1
  <2>2. PICK k \in ls : n = g[k] /\ n.arts = k.arts BY <1>1
  <2>3. ToSet(l.arts) \cap ToSet(k.arts) # {} BY <1>3, <2>1, <2>2
  <2>4. l = k BY <2>3 DEF ListsApart
  <2> QED BY <2>1, <2>2, <2>4
<1>4. ListedArticles(ms) \subseteq ListedArticles(ls)
  BY <1>1 DEF ListedArticles
<1> QED BY <1>2, <1>3, <1>4 DEF ListsApart

-----------------------------------------------------------------------------
(* The end of a task that has no stash, and a decode that has no part for it. *)

LEMMA PlainUpdate ==
    ASSUME NEW A, NEW T, GoodTask(A, T), T.stash = <<>>, NEW FS, GoodFiles(A, FS), NEW i, NEW f
    PROVE  LET S == UpdateCompletion(Decision(T, FS, i, f))
           IN  /\ S.task.articles = T.articles /\ S.task.missing = T.missing
               /\ S.task.stash = <<>>
               /\ \/ S.task.st = T.st
                  \/ S.task.st = "waiting" /\ T.st = "active"
                  \/ S.task.st = "complete" /\ T.articles = <<>>
               /\ Preserves(FS, S.files)
<1> DEFINE S == Decision(T, FS, i, f)
           U == UpdateCompletion(S)
<1>1. S.task = T /\ S.files = FS /\ S.idle = i /\ DOMAIN S = {"task", "files", "idle", "full"}
  BY DEF Decision
<1>2. T \in TaskSet(A) BY DEF GoodTask
<1>3. \/ U = S
      \/ U = [S EXCEPT !.task.st = "waiting"] /\ T.st = "active"
      \/ U = [S EXCEPT !.files = ClosedFiles(@), !.task.st = "complete"] /\ T.articles = <<>>
  <2>1. Commit(S) = [S EXCEPT !.files = ClosedFiles(@), !.task.st = "complete"]
    BY <1>1 DEF Commit
  <2> HIDE DEF S
  <2> QED BY <2>1, <1>1 DEF UpdateCompletion
<1>4. CASE U = S
  BY <1>1, <1>4, SamePreserved
<1>5. CASE U = [S EXCEPT !.task.st = "waiting"] /\ T.st = "active"
  <2>1. U.task = [T EXCEPT !.st = "waiting"] /\ U.files = FS
    BY <1>1, <1>5 DEF Decision
  <2>2. /\ U.task.articles = T.articles /\ U.task.missing = T.missing
        /\ U.task.stash = <<>> /\ U.task.st = "waiting"
    BY <2>1, <1>2 DEF TaskSet
  <2> QED BY <2>1, <2>2, <1>5, SamePreserved
<1>6. CASE U = [S EXCEPT !.files = ClosedFiles(@), !.task.st = "complete"] /\ T.articles = <<>>
  <2>1. U.task = [T EXCEPT !.st = "complete"] /\ U.files = ClosedFiles(FS)
    BY <1>1, <1>6 DEF Decision
  <2>2. /\ U.task.articles = T.articles /\ U.task.missing = T.missing
        /\ U.task.stash = <<>> /\ U.task.st = "complete"
    BY <2>1, <1>2 DEF TaskSet
  <2> QED BY <2>1, <2>2, <1>6, ClosedPreserved
<1> QED BY <1>3, <1>4, <1>5, <1>6

\* What a decode of article a makes of a task that is not uuencoded.
PlainlyHandled(T, FS, H, a) ==
    /\ H.task = T /\ H.overrun = {} /\ Preserves(FS, H.files)
    /\ Straight(H.next) /\ Single(H.next, {"decode", "text"})
    /\ Named(H.next, {"decode"}) = {}
    /\ Named(H.next, {"decode", "text"}) = IF "text" \in posting[a] THEN {a} ELSE {}
    /\ Named(H.next, {"text"}) = IF "text" \in posting[a] THEN {a} ELSE {}
    /\ Named(H.next, {"binary"}) = IF "yenc" \in posting[a] THEN {a} ELSE {}

LEMMA NothingNamed ==
    \A K : Named(<<>>, K) = {} /\ Single(<<>>, K) /\ Straight(<<>>) /\ ~SomeFailed(<<>>)
<1>1. 1 .. Len(<<>>) = {} OBVIOUS
<1> QED BY <1>1 DEF Named, Of, Single, Straight, SomeFailed

LEMMA PlainDecode ==
    ASSUME PostingAssumption, posting \in Postings, ~Uuencoded(posting), NEW a \in Articles,
           NEW T, NEW FS, GoodFiles(Articles, FS), Kept(FS), GoodTask(Articles, T), T.slots # 0
    PROVE  PlainlyHandled(T, FS, Text(Binary(Item(T, FS), a), a), a)
<1> DEFINE S == Item(T, FS)
           BC == CreateFile(FS, "binary", Len(posting))
           B == [S EXCEPT !.files = BC, !.next = Append(<<>>, Write("binary", a, a))]
           R == Binary(S, a)
           H == Text(R, a)
           Texts == {"decode", "text"}
<1>1. Articles = 1 .. Len(posting) /\ Len(posting) \in Nat
  BY ArticleNumbers
<1>2. /\ S.task = T /\ S.files = FS /\ S.next = <<>> /\ S.overrun = {}
      /\ DOMAIN S = {"task", "files", "next", "overrun"}
  BY DEF Item
<1>3. posting[a] \cap Stashable = {} /\ "whole" \notin posting[a]
  <2>1. posting[a] \cap (Stashable \cup {"whole"}) = {} BY DEF Uuencoded, Articles
  <2> QED BY <2>1
<1>4. "yenc" \in posting[a] => R = B
  BY <1>2, <1>3 DEF Binary
<1>5. "yenc" \notin posting[a] => R = S
  BY <1>2, <1>3 DEF Binary
<1>6. /\ B.task = T /\ B.files = BC /\ B.next = Append(<<>>, Write("binary", a, a))
      /\ B.overrun = {}
  BY DEF Item
<1>7. Handled(T, R)
  BY BinaryHandled
<1> HIDE DEF S, B, BC, R
<1>8. /\ R.task = T /\ R.overrun = {} /\ Preserves(FS, R.files)
      /\ Straight(R.next) /\ GoodQueue(Articles, Len(posting), R.next)
      /\ Named(R.next, {"decode"}) = {} /\ Named(R.next, Texts) = {} /\ Named(R.next, {"text"}) = {}
      /\ Named(R.next, {"binary"}) = IF "yenc" \in posting[a] THEN {a} ELSE {}
      /\ GoodFiles(Articles, R.files)
  <2>1. GoodQueue(Articles, Len(posting), R.next) /\ GoodFiles(Articles, R.files)
    BY <1>7 DEF Handled
  <2>2. CASE "yenc" \notin posting[a]
    BY <2>1, <2>2, <1>2, <1>5, NothingNamed, SamePreserved
  <2>3. CASE "yenc" \in posting[a]
    <3> DEFINE W == Write("binary", a, a)
    <3>1. W.kind = "binary" /\ W.article = a /\ W.offset = a BY DEF Write
    <3> HIDE DEF W
    <3>0. PICK e : e = <<>> OBVIOUS
    <3>2. R.next = Append(e, W) /\ R.task = T /\ R.overrun = {} /\ R.files = BC
      BY <3>0, <2>3, <1>4, <1>6 DEF W
    <3>3. GoodQueue(Articles, Len(posting), e) BY <3>0 DEF GoodQueue
    <3>4. Straight(R.next)
      BY <3>0, <3>1, <3>2, <3>3, NothingNamed, StraightGiven
    <3>9. \A K : Named(e, K) = {}
      BY <3>0, NothingNamed
    <3>5. \A K : Named(R.next, K) = Named(e, K) \cup {y.article : y \in {z \in {W} : z.kind \in K}}
      BY <3>2, <3>3, QueueGiven
    <3>6. \A K : Named(R.next, K) = IF "binary" \in K THEN {a} ELSE {}
      <4> TAKE K
      <4>1. {y.article : y \in {z \in {W} : z.kind \in K}} = IF "binary" \in K THEN {a} ELSE {}
        BY <3>1
      <4>2. Named(e, K) = {} BY <3>9
      <4>3. Named(R.next, K) = Named(e, K) \cup {y.article : y \in {z \in {W} : z.kind \in K}}
        BY <3>5
      <4> QED BY <4>1, <4>2, <4>3
    <3>7. Preserves(FS, R.files)
      <4>1. "binary" \in Kinds BY DEF Kinds
      <4> QED BY <4>1, <3>2, <1>1, CreatedPreserved DEF BC
    <3> QED BY <2>1, <2>3, <3>2, <3>4, <3>6, <3>7
  <2> QED BY <2>2, <2>3
<1>9. CASE "text" \notin posting[a]
  <2>1. H = R BY <1>9 DEF Text
  <2>2. Single(R.next, Texts)
    BY <1>8 DEF Single, Named
  <2> HIDE DEF H
  <2>3. PlainlyHandled(T, FS, H, a)
    BY <2>1, <2>2, <1>8, <1>9 DEF PlainlyHandled
  <2> QED BY <2>3 DEF H, R, S
<1>10. CASE "text" \in posting[a]
  <2> DEFINE W == Write("text", a, 0)
             FC == CreateFile(R.files, "text", 0)
  <2>1. W.kind = "text" /\ W.article = a /\ W.offset = 0 BY DEF Write
  <2>2. H = [R EXCEPT !.files = FC, !.next = Append(@, W)]
    BY <1>10 DEF Text
  <2>3. DOMAIN R = {"task", "files", "next", "overrun"} BY <1>7 DEF Handled
  <2> HIDE DEF W, FC
  <2>4. /\ H.task = R.task /\ H.overrun = R.overrun /\ H.files = FC
        /\ H.next = Append(R.next, W)
    BY <2>2, <2>3
  <2> HIDE DEF H
  <2>5. Preserves(FS, FC)
    <3>1. "text" \in Kinds /\ 0 = IF "text" = "binary" THEN Len(posting) ELSE 0 BY DEF Kinds
    <3>2. Preserves(R.files, FC) BY <3>1, <1>1, <1>8, CreatedPreserved DEF FC
    <3> QED BY <3>2, <1>8, PreservesAll
  <2>6. Straight(H.next)
    BY <2>1, <2>4, <1>8, StraightGiven
  <2>7. \A K : Named(H.next, K) = Named(R.next, K) \cup {y.article : y \in {z \in {W} : z.kind \in K}}
    BY <2>4, <1>8, QueueGiven
  <2>8. \A K : Named(H.next, K) = Named(R.next, K) \cup IF "text" \in K THEN {a} ELSE {}
    BY <2>1, <2>7
  <2>9. Single(H.next, Texts)
    <3>1. Single(R.next, Texts) /\ a \notin Named(R.next, Texts)
      BY <1>8 DEF Single, Named
    <3> QED BY <2>1, <2>4, <1>8, <3>1, QueueGiven
  <2>10. PlainlyHandled(T, FS, H, a)
    BY <2>4, <2>5, <2>6, <2>8, <2>9, <1>8, <1>10 DEF PlainlyHandled
  <2> QED BY <2>10 DEF H, R, S
<1> QED BY <1>9, <1>10

-----------------------------------------------------------------------------
(* The steps: the next state, in terms of the posting. *)

PAfter == /\ Plain(task', files', fifo', ready')
          /\ Going(task') => Sound(task', lists', any', fifo', ready', files', lost')

LEMMA WInvAfter ==
    ASSUME IInv', posting' = posting, ~Uuencoded(posting) => PAfter
    PROVE  WInv'
<1>1. CASE Uuencoded(posting)
  <2>1. Uuencoded(posting') BY <1>1
  <2> QED BY <2>1 DEF WInv
<1>2. CASE ~Uuencoded(posting)
  <2>1. PInv'
    BY <1>2 DEF PAfter, PInv, Plain, PlainFile, Sound, Covered, Done, Articles
  <2> QED BY <2>1 DEF WInv
<1> QED BY <1>1, <1>2

LEMMA GoodRange ==
    ASSUME NEW A, NEW s \in Seq(A)
    PROVE  ToSet(s) = {s[i] : i \in 1 .. Len(s)} /\ ToSet(s) \subseteq A
  BY DEF ToSet

LEMMA RangeIs ==
    ASSUME NEW s
    PROVE  Range(s) = ToSet(s)
  BY DEF Range, ToSet

LEMMA CutFacts ==
    ASSUME NEW A, NEW s \in Seq(A), NEW n \in 0 .. Len(s)
    PROVE  LET p == SubSeq(s, 1, n)
               q == SubSeq(s, n + 1, Len(s))
           IN  /\ p \in Seq(A) /\ q \in Seq(A)
               /\ ToSet(s) = ToSet(p) \cup ToSet(q)
               /\ IsInjective(s) => /\ IsInjective(p) /\ IsInjective(q)
                                    /\ ToSet(p) \cap ToSet(q) = {}
<1> DEFINE p == SubSeq(s, 1, n)
           q == SubSeq(s, n + 1, Len(s))
           m == Len(s)
<1>1. /\ m \in Nat /\ p \in Seq(A) /\ q \in Seq(A) /\ Len(p) = n /\ Len(q) = m - n
      /\ \A i \in 1 .. n : p[i] = s[i]
      /\ \A i \in 1 .. m - n : q[i] = s[i + n]
  OBVIOUS
<1> HIDE DEF p, q
<1>2. /\ ToSet(s) = {s[i] : i \in 1 .. m} /\ ToSet(p) = {p[i] : i \in 1 .. n}
      /\ ToSet(q) = {q[i] : i \in 1 .. m - n}
  BY <1>1, GoodRange
<1>3. /\ \A i \in 1 .. n : i \in 1 .. m
      /\ \A i \in 1 .. m - n : i + n \in 1 .. m
      /\ \A i \in 1 .. m : i \in 1 .. n \/ (i - n \in 1 .. m - n /\ s[i] = q[i - n])
  BY <1>1
<1>4. ToSet(s) = ToSet(p) \cup ToSet(q)
  <2>1. ToSet(s) \subseteq ToSet(p) \cup ToSet(q) BY <1>1, <1>2, <1>3
  <2>2. ToSet(p) \subseteq ToSet(s) BY <1>1, <1>2, <1>3
  <2>3. ToSet(q) \subseteq ToSet(s) BY <1>1, <1>2, <1>3
  <2> QED BY <2>1, <2>2, <2>3
<1>5. ASSUME IsInjective(s) PROVE IsInjective(p) /\ IsInjective(q) /\ ToSet(p) \cap ToSet(q) = {}
  <2>1. \A i, j \in 1 .. m : s[i] = s[j] => i = j
    BY <1>5 DEF IsInjective
  <2>2. IsInjective(p)
    <3> SUFFICES ASSUME NEW i \in 1 .. n, NEW j \in 1 .. n, p[i] = p[j] PROVE i = j
      BY <1>1 DEF IsInjective
    <3>1. s[i] = s[j] /\ i \in 1 .. m /\ j \in 1 .. m BY <1>1, <1>3
    <3> QED BY <2>1, <3>1
  <2>3. IsInjective(q)
    <3> SUFFICES ASSUME NEW i \in 1 .. m - n, NEW j \in 1 .. m - n, q[i] = q[j] PROVE i = j
      BY <1>1 DEF IsInjective
    <3>1. s[i + n] = s[j + n] /\ i + n \in 1 .. m /\ j + n \in 1 .. m BY <1>1, <1>3
    <3>2. i + n = j + n BY <2>1, <3>1
    <3> QED BY <3>2, <1>1
  <2>4. ToSet(p) \cap ToSet(q) = {}
    <3> SUFFICES ASSUME NEW i \in 1 .. n, NEW j \in 1 .. m - n, p[i] = q[j] PROVE FALSE
      BY <1>2
    <3>1. s[i] = s[j + n] /\ i \in 1 .. m /\ j + n \in 1 .. m /\ i # j + n BY <1>1, <1>3
    <3> QED BY <2>1, <3>1
  <2> QED BY <2>2, <2>3, <2>4
<1> QED BY <1>1, <1>4, <1>5 DEF p, q

LEMMA RunWhole ==
    ASSUME BoundAssumption, IInv, PInv, Run
    PROVE  PAfter
<1> DEFINE n == Min({Len(task.articles), ArticlesPerCmdlist})
           k == [arts |-> SubSeq(task.articles, 1, n), run |-> TRUE, canceled |-> FALSE,
                 entries |-> 1]
           W == task.articles
           V == SubSeq(task.articles, n + 1, Len(task.articles))
<1>1. GoodTask(Articles, task) /\ task \in TaskSet(Articles) /\ W \in Seq(Articles) /\ Len(W) \in Nat
  BY DEF IInv, Types, GoodTask, TaskSet
<1>2. /\ task.st \in {"queued", "waiting", "active"} /\ lists' = lists \cup {k}
      /\ task' = [task EXCEPT !.articles = V, !.ncl = @ + 1, !.st = "active"]
      /\ UNCHANGED <<posting, any, fifo, ready, files, lost>>
  BY DEF Run
<1>3. n \in 0 .. Len(W)
  <2>1. {Len(W), ArticlesPerCmdlist} \in SUBSET Nat BY <1>1 DEF BoundAssumption
  <2>2. n \in {Len(W), ArticlesPerCmdlist} /\ n <= Len(W) BY <2>1, MinFacts
  <2> QED BY <1>1, <2>1, <2>2
<1>4. k.arts = SubSeq(W, 1, n) /\ k.run /\ k.entries = 1 OBVIOUS
<1>5. /\ ToSet(W) = ToSet(k.arts) \cup ToSet(V)
      /\ IsInjective(W) => IsInjective(k.arts) /\ IsInjective(V) /\ ToSet(k.arts) \cap ToSet(V) = {}
  <2> HIDE DEF n, k
  <2>1. /\ ToSet(W) = ToSet(SubSeq(W, 1, n)) \cup ToSet(V)
        /\ IsInjective(W) => /\ IsInjective(SubSeq(W, 1, n)) /\ IsInjective(V)
                             /\ ToSet(SubSeq(W, 1, n)) \cap ToSet(V) = {}
    BY <1>1, <1>3, CutFacts
  <2> QED BY <2>1, <1>4
<1> HIDE DEF n, k, V
<1>6. /\ task'.articles = V /\ task'.st = "active" /\ task'.missing = task.missing
      /\ task'.stash = task.stash
  BY <1>1, <1>2 DEF TaskSet
<1>7. Plain(task', files', fifo', ready')
  BY <1>2, <1>6 DEF PInv, Plain
<1>8. Sound(task, lists, any, fifo, ready, files, lost)
  BY <1>2 DEF PInv, Going
<1>9. /\ Fresh(files) /\ Enqueued(lists) /\ Rest(files["text"]) \subseteq lost
      /\ Division(W, lists, any, fifo, ready, files["text"])
      /\ Covered(task, lists, any, fifo, ready, files, lost)
  BY <1>8 DEF Sound
<1>10. /\ IsInjective(W) /\ ListsApart(lists) /\ ToSet(W) \cap ListedArticles(lists) = {}
  BY <1>9 DEF Division, Apart
<1>11. /\ ListsApart(lists') /\ Enqueued(lists')
       /\ ListedArticles(lists') = ListedArticles(lists) \cup ToSet(k.arts)
  BY <1>2, <1>4, <1>5, <1>9, <1>10, ListIn
<1>12. Division(V, lists', any, fifo, ready, files["text"])
  BY <1>5, <1>9, <1>10, <1>11 DEF Division, Apart
<1>13. Awaited(V, lists', any, fifo, ready) = Awaited(W, lists, any, fifo, ready)
  BY <1>5, <1>11 DEF Awaited
<1>14. Covered(task', lists', any, fifo, ready, files, lost)
  BY <1>6, <1>9, <1>13 DEF Covered
<1>15. Over(task', lists', lost)
  BY <1>6 DEF Over
<1>16. Sound(task', lists', any', fifo', ready', files', lost')
  BY <1>2, <1>6, <1>9, <1>11, <1>12, <1>14, <1>15 DEF Sound
<1> QED BY <1>7, <1>16 DEF PAfter

\* A cmdlist goes to another connection, with the articles it has.
LEMMA TakeWhole ==
    ASSUME IInv, PInv, NEW l \in lists, Take(l)
    PROVE  PAfter
<1> DEFINE k == [l EXCEPT !.run = TRUE]
<1>1. l \in ListSet(Articles) /\ lists' = (lists \ {l}) \cup {k}
      /\ UNCHANGED <<posting, task, any, fifo, ready, files, lost>>
  BY DEF IInv, Types, GoodLists, Take
<1>2. k.arts = l.arts /\ k.run
  BY <1>1 DEF ListSet
<1> HIDE DEF k
<1>3. Plain(task', files', fifo', ready')
  BY <1>1 DEF PInv, Plain
<1>4. ASSUME Going(task') PROVE Sound(task', lists', any', fifo', ready', files', lost')
  <2>1. Sound(task, lists, any, fifo, ready, files, lost) BY <1>1, <1>4 DEF PInv
  <2>2. ListsApart(lists) /\ Enqueued(lists) BY <2>1 DEF Sound, Division
  <2> DEFINE R == lists \ {l}
  <2>3. /\ ListsApart(R) /\ Enqueued(R) /\ IsInjective(l.arts)
        /\ ListedArticles(lists) = ListedArticles(R) \cup ToSet(l.arts)
        /\ ListedArticles(R) \cap ToSet(l.arts) = {}
    BY <2>2, ListOut
  <2>4. lists' = R \cup {k} BY <1>1
  <2> HIDE DEF R
  <2>5. /\ ListsApart(R \cup {k}) /\ Enqueued(R \cup {k})
        /\ ListedArticles(R \cup {k}) = ListedArticles(R) \cup ToSet(k.arts)
    BY <2>3, <1>2, ListIn
  <2>6. ListsApart(lists') /\ Enqueued(lists') /\ ListedArticles(lists') = ListedArticles(lists)
    BY <1>2, <2>3, <2>4, <2>5
  <2> QED BY <1>1, <2>1, <2>6 DEF Sound, Division, Covered, Awaited, Over
<1> QED BY <1>3, <1>4 DEF PAfter

LEMMA BrokenWhole ==
    ASSUME IInv, PInv, NEW l \in lists, Broken(l)
    PROVE  PAfter
<1>0. PICK again \in BOOLEAN :
        LET k == [l EXCEPT !.run = again, !.entries = @ + 1]
        IN  /\ lists' = IF Live THEN (lists \ {l}) \cup {k} ELSE lists \ {l}
            /\ lost' = IF l.canceled /\ ~again THEN lost \cup ToSet(l.arts) ELSE lost
  BY DEF Broken
<1> DEFINE k == [l EXCEPT !.run = again, !.entries = @ + 1]
<1>1. /\ l \in ListSet(Articles) /\ lists' = IF Live THEN (lists \ {l}) \cup {k} ELSE lists \ {l}
      /\ lost \subseteq lost'
      /\ UNCHANGED <<posting, task, any, fifo, ready, files>>
  BY <1>0 DEF IInv, Types, GoodLists, Broken
<1>2. k.arts = l.arts /\ k.entries # 0
  BY <1>1 DEF ListSet
<1> HIDE DEF k
<1>3. Plain(task', files', fifo', ready')
  BY <1>1 DEF PInv, Plain
<1>4. ASSUME Going(task') PROVE Sound(task', lists', any', fifo', ready', files', lost')
  <2>1. Sound(task, lists, any, fifo, ready, files, lost) BY <1>1, <1>4 DEF PInv
  <2>2. ListsApart(lists) /\ Enqueued(lists) BY <2>1 DEF Sound, Division
  <2> DEFINE R == lists \ {l}
  <2>3. /\ ListsApart(R) /\ Enqueued(R) /\ IsInjective(l.arts)
        /\ ListedArticles(lists) = ListedArticles(R) \cup ToSet(l.arts)
        /\ ListedArticles(R) \cap ToSet(l.arts) = {}
    BY <2>2, ListOut
  <2>4. Live BY <1>1, <1>4 DEF Live, Going
  <2>7. lists' = R \cup {k} BY <1>1, <2>4
  <2> HIDE DEF R
  <2>5. /\ ListsApart(R \cup {k}) /\ Enqueued(R \cup {k})
        /\ ListedArticles(R \cup {k}) = ListedArticles(R) \cup ToSet(k.arts)
    BY <2>3, <1>2, ListIn
  <2>6. ListsApart(lists') /\ Enqueued(lists') /\ ListedArticles(lists') = ListedArticles(lists)
    BY <1>2, <2>3, <2>5, <2>7
  <2>8. Covered(task', lists', any', fifo', ready', files', lost')
    BY <1>1, <2>1, <2>6 DEF Sound, Covered, Awaited
  <2>9. Division(task'.articles, lists', any', fifo', ready', files'["text"])
    BY <1>1, <2>1, <2>6 DEF Sound, Division
  <2>10. Over(task', lists', lost')
    BY <1>1, <2>1, <2>6 DEF Sound, Over
  <2> QED BY <1>1, <2>1, <2>6, <2>8, <2>9, <2>10 DEF Sound
<1> QED BY <1>3, <1>4 DEF PAfter

\* What is told to the user or asked of the disk, when update_completion has
\* looked at the task T: U is S, or S but for a state in which nothing is over.
LEMMA UpdatedWhole ==
    ASSUME NEW T, GoodTask(Articles, T), T.st # "error", NEW FS, GoodFiles(Articles, FS), NEW ls, NEW Y,
           NEW f, NEW r, Plain(T, FS, f, r), Sound(T, ls, Y, f, r, FS, lost),
           NEW i, NEW full, NEW S, S = UpdateCompletion(Decision(T, FS, i, full)),
           NEW U, U.files = S.files, U.task.articles = S.task.articles,
           U.task.missing = S.task.missing, U.task.stash = S.task.stash,
           U.task.st \in {S.task.st, "queued"},
           NEW out, Becomes(U, ls, out),
           lists' = ls \/ lists' = WithLists(S.task.st, ls),
           any' = Y, fifo' = f, ready' = r
    PROVE  PAfter
<1>1. T.stash = <<>> /\ PlainFile(FS["binary"]) /\ Straight(f) /\ Straight(r)
  BY DEF Plain
<1>2. /\ S.task.articles = T.articles /\ S.task.missing = T.missing
      /\ S.task.stash = <<>>
      /\ \/ S.task.st = T.st
         \/ S.task.st = "waiting" /\ T.st = "active"
         \/ S.task.st = "complete" /\ T.articles = <<>>
      /\ Preserves(FS, S.files)
  BY <1>1, PlainUpdate
<1>3. lists' = ls
  BY <1>2 DEF WithLists
<1>4. /\ task'.articles = T.articles /\ task'.missing = T.missing /\ task'.stash = <<>>
      /\ task'.st \in {S.task.st, "queued"} /\ files' = S.files
      /\ lost \subseteq lost'
      /\ task'.st = "complete" => ListedArticles(ls) \subseteq lost'
  BY <1>2 DEF Becomes, ListedArticles
<1>5. Plain(task', files', fifo', ready')
  BY <1>1, <1>2, <1>4 DEF Plain, Preserves
<1>6. /\ Fresh(FS) /\ Enqueued(ls) /\ Rest(FS["text"]) \subseteq lost
      /\ Division(T.articles, ls, Y, f, r, FS["text"])
      /\ Covered(T, ls, Y, f, r, FS, lost) /\ Over(T, ls, lost)
  BY DEF Sound
<1>7. /\ Fresh(files')
      /\ Written(files'["text"]) = Written(FS["text"])
      /\ Distinct(FS["text"]) => Distinct(files'["text"])
      /\ Rest(files'["text"]) \subseteq Rest(FS["text"])
      /\ \A a : InPlace(a, FS["binary"]) => InPlace(a, files'["binary"])
  BY <1>2, <1>4, <1>6 DEF Preserves
<1>8. Division(task'.articles, lists', any', fifo', ready', files'["text"])
  BY <1>3, <1>4, <1>6, <1>7 DEF Division
<1>9. Covered(task', lists', any', fifo', ready', files', lost')
  <2>1. \A a : Done(a, f, FS) => Done(a, f, files') BY <1>7 DEF Done
  <2> QED BY <1>3, <1>4, <1>6, <2>1 DEF Covered
<1>10. Over(task', lists', lost')
  <2> SUFFICES ASSUME task'.st = "complete" PROVE ToSet(task'.articles) \cup ListedArticles(lists') \subseteq lost'
    BY DEF Over
  <2>1. ListedArticles(lists') \subseteq lost' BY <1>3, <1>4
  <2>2. CASE T.st = "complete"
    <3>1. ToSet(T.articles) \subseteq lost BY <1>6, <2>2 DEF Over
    <3> QED BY <1>4, <2>1, <3>1
  <2>3. CASE T.articles = <<>>
    <3>1. ToSet(<<>>) = {} BY DEF ToSet
    <3> QED BY <1>4, <2>1, <2>3, <3>1
  <2> QED BY <1>2, <1>4, <2>2, <2>3
<1>11. Sound(task', lists', any', fifo', ready', files', lost')
  BY <1>3, <1>4, <1>6, <1>7, <1>8, <1>9, <1>10 DEF Sound
<1> QED BY <1>5, <1>11 DEF PAfter

LEMMA RefusedWhole ==
    ASSUME IInv, PInv, NEW l \in lists, Refused(l)
    PROVE  PAfter
<1> DEFINE c == IF l.canceled THEN task.ncl ELSE task.ncl - 1
           T == [task EXCEPT !.ncl = c]
<1>1. /\ task \in TaskSet(Articles) /\ l \in ListSet(Articles)
      /\ Live /\ task.st # "error"
      /\ UNCHANGED <<posting, any, fifo, ready, files, lost>>
  BY DEF IInv, Types, GoodTask, GoodLists, Refused
<1>2. \/ /\ task' = [T EXCEPT !.missing = @ \cup ToSet(l.arts)]
         /\ lists' = lists \ {l}
      \/ task' = [T EXCEPT !.st = "error"]
  BY DEF Refused
<1> HIDE DEF c
<1>3. CASE task' = [T EXCEPT !.st = "error"]
  <2>1. task'.st = "error" /\ task'.stash = task.stash BY <1>1, <1>3 DEF TaskSet
  <2>2. Plain(task', files', fifo', ready') BY <1>1, <2>1 DEF PInv, Plain
  <2> QED BY <2>1, <2>2 DEF PAfter, Going
<1>4. CASE /\ task' = [T EXCEPT !.missing = @ \cup ToSet(l.arts)]
           /\ lists' = lists \ {l}
  <2>1. /\ task'.st = task.st /\ task'.stash = task.stash /\ task'.articles = task.articles
        /\ task'.missing = task.missing \cup ToSet(l.arts)
    BY <1>1, <1>4 DEF TaskSet
  <2>2. Plain(task', files', fifo', ready') BY <1>1, <2>1 DEF PInv, Plain
  <2>3. ASSUME Going(task') PROVE Sound(task', lists', any', fifo', ready', files', lost')
    <3>1. Sound(task, lists, any, fifo, ready, files, lost) BY <2>1, <2>3 DEF PInv, Going
    <3>2. ListsApart(lists) /\ Enqueued(lists) BY <3>1 DEF Sound, Division
    <3>3. /\ ListsApart(lists') /\ Enqueued(lists')
          /\ ListedArticles(lists) = ListedArticles(lists') \cup ToSet(l.arts)
      BY <3>2, <1>4, ListOut
    <3>4. Division(task'.articles, lists', any', fifo', ready', files'["text"])
      BY <1>1, <2>1, <3>1, <3>3 DEF Sound, Division, Apart
    <3>5. Covered(task', lists', any', fifo', ready', files', lost')
      BY <1>1, <2>1, <3>1, <3>3 DEF Sound, Covered, Awaited
    <3>6. Over(task', lists', lost')
      BY <1>1, <2>1, <3>1, <3>3 DEF Sound, Over
    <3> QED BY <1>1, <3>1, <3>3, <3>4, <3>5, <3>6 DEF Sound
  <2> QED BY <2>2, <2>3 DEF PAfter
<1> QED BY <1>2, <1>3, <1>4

\* The decodes that download::complete submits, for the articles s.
LEMMA SubmittedNames ==
    ASSUME PostingAssumption, Types, NEW s \in Seq(Articles), IsInjective(s), Submitted(s)
    PROVE  \E X, Z :
             /\ X \cup Z = ToSet(s) /\ X \cap Z = {}
             /\ AnyArticles(any') = AnyArticles(any) \cup X
             /\ OneEach(any) /\ AnyArticles(any) \cap X = {} => OneEach(any')
             /\ \A K : Named(fifo', K) = Named(fifo, K) \cup IF "decode" \in K THEN Z ELSE {}
             /\ \A K : Single(fifo, K) /\ Named(fifo, K) \cap Z = {} => Single(fifo', K)
             /\ Straight(fifo) => Straight(fifo')
<1> DEFINE acts == [i \in DOMAIN s |-> Decode(s[i])]
           X == ActionSet(Articles, Len(posting), {"decode"})
<1>1. 0 \in 0 .. Len(posting)
  BY ArticleNumbers DEF Types
<1>2. DOMAIN s = 1 .. Len(s) /\ Len(s) \in Nat
  OBVIOUS
<1>3. \A i \in 1 .. Len(s) : /\ acts[i] \in X /\ acts[i].offset = 0 /\ acts[i].kind = "decode"
                             /\ acts[i].article = s[i]
  BY <1>1, <1>2 DEF Decode, ActionSet
<1>4. acts \in Seq(X) /\ Len(acts) = Len(s) /\ DOMAIN acts = 1 .. Len(s)
  <2> HIDE DEF X
  <2> QED BY <1>2, <1>3
<1>5. X \subseteq ActionSet(Articles, Len(posting), AnyKind)
  BY DEF ActionSet, AnyKind
<1>6. /\ any' = any \cup IF task.yenc THEN ToSet(acts) ELSE {}
      /\ fifo' = fifo \o IF task.yenc THEN <<>> ELSE acts
  BY DEF Submitted
<1> HIDE DEF acts, X
<1>7. GoodQueue(Articles, Len(posting), acts)
  <2>1. acts \in Seq(ActionSet(Articles, Len(posting), AnyKind)) BY <1>4, <1>5
  <2> QED BY <1>3, <1>4, <2>1 DEF GoodQueue
<1>8. ToSet(s) = {s[i] : i \in 1 .. Len(s)} /\ ToSet(acts) = {acts[i] : i \in 1 .. Len(s)}
  BY <1>2, <1>4 DEF ToSet
<1>9. AnyArticles(ToSet(acts)) = ToSet(s)
  BY <1>3, <1>8 DEF AnyArticles
<1>10. \A K : Named(acts, K) = IF "decode" \in K THEN ToSet(s) ELSE {}
  BY <1>3, <1>4, <1>8 DEF Named, Of
<1>11. \A K : Single(acts, K)
  BY <1>2, <1>3, <1>4 DEF Single, Of, IsInjective
<1>12. Straight(acts)
  BY <1>3, <1>4 DEF Straight
<1>13. GoodQueue(Articles, Len(posting), fifo) BY DEF Types
<1>14. CASE task.yenc
  <2>1. any' = any \cup ToSet(acts) /\ fifo' = fifo \o <<>> BY <1>6, <1>14
  <2>2. fifo' = fifo BY <2>1, <1>13 DEF GoodQueue
  <2>3. AnyArticles(any') = AnyArticles(any) \cup ToSet(s)
    <3>1. AnyArticles(any') = AnyArticles(any) \cup AnyArticles(ToSet(acts)) BY <2>1 DEF AnyArticles
    <3> QED BY <3>1, <1>9
  <2>4. ASSUME OneEach(any), AnyArticles(any) \cap ToSet(s) = {} PROVE OneEach(any')
    <3>1. OneEach(ToSet(acts))
      BY <1>2, <1>3, <1>4, <1>8 DEF OneEach, IsInjective
    <3>2. \A x \in any, y \in ToSet(acts) : x.article # y.article
      BY <2>4, <1>9 DEF AnyArticles
    <3> QED BY <2>1, <2>4, <3>1, <3>2 DEF OneEach
  <2> WITNESS ToSet(s), {}
  <2> QED BY <2>2, <2>3, <2>4
<1>15. CASE ~task.yenc
  <2>1. any' = any /\ fifo' = fifo \o acts BY <1>6, <1>15
  <2>2. \A K : Named(fifo', K) = Named(fifo, K) \cup Named(acts, K)
    BY <2>1, <1>7, <1>13, QueueJoined
  <2>3. ASSUME NEW K, Single(fifo, K), Named(fifo, K) \cap ToSet(s) = {} PROVE Single(fifo', K)
    <3>1. Single(acts, K) /\ Named(fifo, K) \cap Named(acts, K) = {} BY <2>3, <1>10, <1>11
    <3> QED BY <2>1, <2>3, <3>1, <1>7, <1>13, QueueJoined
  <2>4. Straight(fifo) => Straight(fifo')
    BY <2>1, <1>7, <1>12, <1>13, StraightJoined
  <2> WITNESS {}, ToSet(s)
  <2>5. \A K : Named(fifo', K) = Named(fifo, K) \cup IF "decode" \in K THEN ToSet(s) ELSE {}
    BY <2>2, <1>10
  <2>6. AnyArticles(any') = AnyArticles(any) \cup {} BY <2>1
  <2>7. {} \cup ToSet(s) = ToSet(s) /\ {} \cap ToSet(s) = {} OBVIOUS
  <2>8. OneEach(any) => OneEach(any') BY <2>1
  <2> QED BY <2>3, <2>4, <2>5, <2>6, <2>7, <2>8
<1> QED BY <1>14, <1>15

LEMMA CompleteWhole ==
    ASSUME PostingAssumption, BoundAssumption, IInv, PInv, Live, task.st # "error", NEW l \in lists,
           NEW n \in 0 .. Len(l.arts), NEW gone \in SUBSET ToSet(l.arts),
           Complete(l, n, gone), UNCHANGED <<posting, ready>>
    PROVE  PAfter
<1> DEFINE A == Articles
           c == IF l.canceled THEN task.ncl ELSE task.ncl - 1
           p == SubSeq(l.arts, 1, n)
           q == SubSeq(l.arts, n + 1, Len(l.arts))
           W == task.articles
           s == PutBack(W, l, n)
           m == task.missing \cup gone
           T == HandedIn(task, c, m, s)
           kept == Without(p, gone)
           i == Idle /\ kept = <<>>
           R == lists \ {l}
<1>1. /\ Types /\ GoodLists(A, lists) /\ GoodTask(A, task) /\ GoodFiles(A, files)
      /\ task \in TaskSet(A) /\ W \in Seq(A) /\ task.ncl \in Int /\ task.missing \subseteq A
  BY DEF IInv, Types, GoodTask, TaskSet
<1>2. l \in ListSet(A) /\ l.arts \in Seq(A) /\ Len(l.arts) \in Nat
  BY <1>1 DEF GoodLists, ListSet
<1>3. gone \subseteq A
  BY <1>2 DEF ToSet
<1>4. PICK full \in BOOLEAN :
        LET S == UpdateCompletion(Decision(T, files, i, full))
        IN  /\ Becomes(S, R, {}) /\ Submitted(kept) /\ lists' = WithLists(S.task.st, R)
  BY DEF Complete, Decision, HandedIn
<1>5. s = W \o q BY DEF PutBack
<1>6. c \in Int /\ m \in SUBSET A BY <1>1, <1>3
<1>7. /\ p \in Seq(A) /\ q \in Seq(A) /\ ToSet(l.arts) = ToSet(p) \cup ToSet(q)
      /\ IsInjective(l.arts) => IsInjective(p) /\ IsInjective(q) /\ ToSet(p) \cap ToSet(q) = {}
  BY <1>2, CutFacts
<1> HIDE DEF p, q
<1>8. /\ kept \in Seq(A) /\ ToSet(kept) = ToSet(p) \ gone
      /\ IsInjective(p) => IsInjective(kept)
  BY <1>7, WithoutFacts, RangeIs
<1>9. /\ s \in Seq(A) /\ ToSet(s) = ToSet(W) \cup ToSet(q)
      /\ IsInjective(W) /\ IsInjective(q) /\ ToSet(W) \cap ToSet(q) = {} => IsInjective(s)
  BY <1>1, <1>5, <1>7, ConcatFacts, RangeIs
<1> HIDE DEF c, s, kept
<1>10. /\ GoodTask(A, T) /\ T.slots = task.slots /\ T.st = task.st
  BY <1>1, <1>6, <1>9, TaskReturned
<1>11. T.articles = s /\ T.missing = task.missing \cup gone /\ T.stash = task.stash
  BY <1>1 DEF HandedIn, TaskSet
<1> HIDE DEF T, i, m
<1>12. Going(task) BY <1>1 DEF Live, Going, TaskSet, States
<1>13. /\ Sound(task, lists, any, fifo, ready, files, lost)
       /\ Plain(task, files, fifo, ready)
  BY <1>12 DEF PInv
<1>14. /\ Fresh(files) /\ Enqueued(lists) /\ Rest(files["text"]) \subseteq lost
       /\ Division(W, lists, any, fifo, ready, files["text"])
       /\ Covered(task, lists, any, fifo, ready, files, lost)
       /\ Over(task, lists, lost)
  BY <1>13 DEF Sound
<1>15. /\ IsInjective(W) /\ ListsApart(lists) /\ OneEach(any) /\ Single(fifo, {"decode", "text"})
       /\ Single(ready, {"decode"}) /\ Distinct(files["text"])
       /\ Apart(ToSet(W), ListedArticles(lists), AnyArticles(any), Named(fifo, {"decode", "text"}),
                Named(ready, {"decode"}), Written(files["text"]))
  BY <1>14 DEF Division
<1>16. /\ ListsApart(R) /\ Enqueued(R) /\ IsInjective(l.arts)
       /\ ListedArticles(lists) = ListedArticles(R) \cup ToSet(l.arts)
       /\ ListedArticles(R) \cap ToSet(l.arts) = {}
  BY <1>14, <1>15, ListOut
<1>17. Submitted(kept) BY <1>4
<1>18. PICK X, Z :
         /\ X \cup Z = ToSet(kept) /\ X \cap Z = {}
         /\ AnyArticles(any') = AnyArticles(any) \cup X
         /\ OneEach(any) /\ AnyArticles(any) \cap X = {} => OneEach(any')
         /\ \A K : Named(fifo', K) = Named(fifo, K) \cup IF "decode" \in K THEN Z ELSE {}
         /\ \A K : Single(fifo, K) /\ Named(fifo, K) \cap Z = {} => Single(fifo', K)
         /\ Straight(fifo) => Straight(fifo')
  <2>1. IsInjective(kept) BY <1>7, <1>8, <1>16
  <2> QED BY <2>1, <1>1, <1>8, <1>17, SubmittedNames
<1>19. /\ Named(fifo', {"decode", "text"}) = Named(fifo, {"decode", "text"}) \cup Z
       /\ Named(fifo', {"decode"}) = Named(fifo, {"decode"}) \cup Z
       /\ Named(fifo', {"text"}) = Named(fifo, {"text"})
       /\ Named(fifo', {"binary"}) = Named(fifo, {"binary"})
  <2>1. \A K : Named(fifo', K) = Named(fifo, K) \cup IF "decode" \in K THEN Z ELSE {}
    BY <1>18
  <2> QED BY <2>1
<1>20. /\ X \subseteq ToSet(l.arts) /\ Z \subseteq ToSet(l.arts) /\ X \cap Z = {}
       /\ ToSet(q) \subseteq ToSet(l.arts) /\ ToSet(q) \cap (X \cup Z) = {}
       /\ ToSet(l.arts) \subseteq gone \cup X \cup Z \cup ToSet(q)
  BY <1>7, <1>8, <1>16, <1>18
<1>21. Single(fifo', {"decode", "text"})
  <2>1. Named(fifo, {"decode", "text"}) \cap Z = {} BY <1>15, <1>16, <1>20 DEF Apart
  <2> QED BY <2>1, <1>15, <1>18
<1>22. IsInjective(s)
  <2>1. ToSet(W) \cap ToSet(q) = {} BY <1>15, <1>16, <1>20 DEF Apart
  <2> QED BY <2>1, <1>7, <1>9, <1>15, <1>16
<1>23. Apart(ToSet(s), ListedArticles(R), AnyArticles(any'), Named(fifo', {"decode", "text"}),
             Named(ready, {"decode"}), Written(files["text"]))
  BY <1>9, <1>15, <1>16, <1>18, <1>19, <1>20 DEF Apart
<1>24. Division(T.articles, R, any', fifo', ready, files["text"])
  <2>1. AnyArticles(any) \cap X = {} BY <1>15, <1>16, <1>20 DEF Apart
  <2>2. OneEach(any') BY <2>1, <1>15, <1>18
  <2> QED BY <2>2, <1>11, <1>15, <1>16, <1>21, <1>22, <1>23 DEF Division
<1>25. Covered(T, R, any', fifo', ready, files, lost)
  <2> SUFFICES ASSUME ~SomeFailed(ready), NEW a \in Articles \ (T.missing \cup lost)
               PROVE  a \in Awaited(T.articles, R, any', fifo', ready) \/ Done(a, fifo', files)
    BY DEF Covered
  <2>1. a \in Awaited(W, lists, any, fifo, ready) \/ Done(a, fifo, files)
    BY <1>11, <1>14 DEF Covered
  <2>2. CASE a \in Awaited(W, lists, any, fifo, ready)
    <3>1. a \notin gone BY <1>11
    <3>2. \/ a \in ToSet(W) \cup ListedArticles(R) \cup AnyArticles(any)
                     \cup Named(fifo, {"decode"}) \cup Named(ready, {"decode"})
          \/ a \in ToSet(l.arts)
      BY <2>2, <1>16 DEF Awaited
    <3> QED BY <3>1, <3>2, <1>9, <1>11, <1>18, <1>19, <1>20 DEF Awaited
  <2>3. CASE Done(a, fifo, files)
    BY <2>3, <1>19 DEF Done
  <2> QED BY <2>1, <2>2, <2>3
<1>26. Over(T, R, lost)
  BY <1>9, <1>10, <1>11, <1>14, <1>16, <1>20 DEF Over
<1>27. Sound(T, R, any', fifo', ready, files, lost)
  BY <1>14, <1>16, <1>24, <1>25, <1>26 DEF Sound
<1>28. Plain(T, files, fifo', ready)
  BY <1>11, <1>13, <1>18 DEF Plain
<1>29. PICK S : /\ S = UpdateCompletion(Decision(T, files, i, full))
                /\ Becomes(S, R, {}) /\ lists' = WithLists(S.task.st, R)
  BY <1>4
<1> HIDE DEF R
<1> QED BY <1>1, <1>10, <1>27, <1>28, <1>29, UpdatedWhole

LEMMA ReturnWhole ==
    ASSUME PostingAssumption, BoundAssumption, IInv, PInv, NEW l \in lists, Return(l)
    PROVE  PAfter
<1>1. CASE /\ Live /\ task.st # "error"
           /\ \E n \in 0 .. Len(l.arts), gone \in SUBSET ToSet(l.arts) : Complete(l, n, gone)
  <2>1. PICK n \in 0 .. Len(l.arts), gone \in SUBSET ToSet(l.arts) : Complete(l, n, gone)
    BY <1>1
  <2>2. UNCHANGED <<posting, ready>> BY DEF Return
  <2> QED BY <1>1, <2>1, <2>2, CompleteWhole
<1>2. CASE /\ ~Live \/ task.st = "error"
           /\ UNCHANGED <<task, files, any, fifo, lost>>
  <2>1. ~Going(task') BY <1>2 DEF Going, Live
  <2>2. UNCHANGED <<posting, ready>> BY DEF Return
  <2> QED BY <1>2, <2>1, <2>2 DEF PAfter, PInv, Plain
<1> QED BY <1>1, <1>2 DEF Return

-----------------------------------------------------------------------------
(* Actions. *)

\* A decode is performed, for any thread or in its turn.
LEMMA PerformDecodeWhole ==
    ASSUME IInv, PInv, NEW a, PerformDecode(a)
    PROVE  PAfter
<1> DEFINE A == Articles
           n == Len(posting)
           Texts == {"decode", "text"}
<1>1. PICK b \in BOOLEAN : /\ ready' = Append(ready, Failed(a, b))
                           /\ Perform(a) /\ UNCHANGED <<task, files>> /\ a.kind = "decode"
  BY DEF PerformDecode, Failed
<1>2. /\ Types /\ GoodQueue(A, n, fifo) /\ GoodQueue(A, n, ready)
      /\ any \subseteq ActionSet(A, n, {"decode"})
  BY DEF IInv, Types
<1>3. /\ a \in ActionSet(A, n, AnyKind)
      /\ UNCHANGED <<posting, lists, lost>>
  BY <1>1, <1>2, PerformGood
<1> DEFINE x == Failed(a, b)
<1>4. x.kind = "decode" /\ x.article = a.article
  BY <1>1, <1>3 DEF Failed, ActionSet
<1> HIDE DEF x
<1>5. ready' = Append(ready, x) BY <1>1 DEF x
<1>6. Straight(ready) => Straight(ready')
  BY <1>2, <1>4, <1>5, StraightGiven
<1>7. SomeFailed(ready) => SomeFailed(ready')
  BY <1>2, <1>5, StraightGiven
<1>8. /\ Named(ready', {"decode"}) = Named(ready, {"decode"}) \cup {a.article}
      /\ Single(ready, {"decode"}) /\ a.article \notin Named(ready, {"decode"})
           => Single(ready', {"decode"})
  <2>1. {y.article : y \in {z \in {x} : z.kind \in {"decode"}}} = {a.article} BY <1>4
  <2>2. /\ Named(Append(ready, x), {"decode"}) =
             Named(ready, {"decode"}) \cup {y.article : y \in {z \in {x} : z.kind \in {"decode"}}}
        /\ Single(ready, {"decode"}) /\ (x.kind \in {"decode"} => x.article \notin Named(ready, {"decode"}))
             => Single(Append(ready, x), {"decode"})
    BY <1>2, QueueGiven
  <2> QED BY <2>1, <2>2, <1>4, <1>5
<1>9. CASE a \in any /\ any' = any \ {a} /\ fifo' = fifo
  <2>1. AnyArticles(any) = AnyArticles(any') \cup {a.article}
    BY <1>9 DEF AnyArticles
  <2>2. OneEach(any) => OneEach(any') /\ a.article \notin AnyArticles(any')
    BY <1>9 DEF OneEach, AnyArticles
  <2>3. Plain(task', files', fifo', ready')
    BY <1>1, <1>6, <1>9 DEF PInv, Plain
  <2>4. ASSUME Going(task') PROVE Sound(task', lists', any', fifo', ready', files', lost')
    <3>1. Sound(task, lists, any, fifo, ready, files, lost) BY <1>1, <2>4 DEF PInv
    <3>2. Division(task.articles, lists, any, fifo, ready, files["text"])
      BY <3>1 DEF Sound
    <3>3. Single(ready', {"decode"})
      BY <1>8, <2>1, <3>2 DEF Division, Apart
    <3>4. Division(task.articles, lists, any', fifo, ready', files["text"])
      BY <1>8, <2>1, <2>2, <3>2, <3>3 DEF Division, Apart
    <3>5. Awaited(task.articles, lists, any', fifo, ready') = Awaited(task.articles, lists, any, fifo, ready)
      BY <1>8, <2>1 DEF Awaited
    <3>6. Covered(task, lists, any', fifo, ready', files, lost)
      BY <1>7, <3>1, <3>5 DEF Sound, Covered
    <3> QED BY <1>1, <1>3, <1>9, <3>1, <3>4, <3>6 DEF Sound
  <2> QED BY <2>3, <2>4 DEF PAfter
<1>10. CASE fifo # <<>> /\ a = Head(fifo) /\ fifo' = Tail(fifo) /\ any' = any
  <2>1. /\ Named(fifo, Texts) = Named(fifo', Texts) \cup {a.article}
        /\ Single(fifo, Texts) => Single(fifo', Texts) /\ a.article \notin Named(fifo', Texts)
    <3>1. {y.article : y \in {z \in {a} : z.kind \in Texts}} = {a.article} BY <1>1
    <3>2. /\ Named(fifo, Texts) = Named(Tail(fifo), Texts) \cup {y.article : y \in {z \in {a} : z.kind \in Texts}}
          /\ Single(fifo, Texts) => /\ Single(Tail(fifo), Texts)
                                    /\ a.kind \in Texts => a.article \notin Named(Tail(fifo), Texts)
      BY <1>2, <1>10, QueueTaken
    <3> QED BY <3>1, <3>2, <1>1, <1>10
  <2>2. Named(fifo, {"decode"}) = Named(fifo', {"decode"}) \cup {a.article}
    <3>1. {y.article : y \in {z \in {a} : z.kind \in {"decode"}}} = {a.article} BY <1>1
    <3>2. Named(fifo, {"decode"}) =
            Named(Tail(fifo), {"decode"}) \cup {y.article : y \in {z \in {a} : z.kind \in {"decode"}}}
      BY <1>2, <1>10, QueueTaken
    <3> QED BY <3>1, <3>2, <1>10
  <2>3. ASSUME NEW k \in Kinds PROVE Named(fifo, {k}) = Named(fifo', {k})
    <3>1. {y.article : y \in {z \in {a} : z.kind \in {k}}} = {} BY <1>1 DEF Kinds
    <3>2. Named(fifo, {k}) = Named(Tail(fifo), {k}) \cup {y.article : y \in {z \in {a} : z.kind \in {k}}}
      BY <1>2, <1>10, QueueTaken
    <3> QED BY <3>1, <3>2, <1>10
  <2>4. Straight(fifo) => Straight(fifo')
    BY <1>2, <1>10, StraightTaken
  <2>5. Plain(task', files', fifo', ready')
    BY <1>1, <1>6, <2>4 DEF PInv, Plain
  <2>6. ASSUME Going(task') PROVE Sound(task', lists', any', fifo', ready', files', lost')
    <3>1. Sound(task, lists, any, fifo, ready, files, lost) BY <1>1, <2>6 DEF PInv
    <3>2. Division(task.articles, lists, any, fifo, ready, files["text"])
      BY <3>1 DEF Sound
    <3>3. Single(ready', {"decode"})
      BY <1>8, <2>1, <3>2 DEF Division, Apart
    <3>4. Division(task.articles, lists, any, fifo', ready', files["text"])
      BY <1>8, <2>1, <3>2, <3>3 DEF Division, Apart
    <3>5. Awaited(task.articles, lists, any, fifo', ready') = Awaited(task.articles, lists, any, fifo, ready)
      BY <1>8, <2>2 DEF Awaited
    <3>6. \A d : Done(d, fifo, files) <=> Done(d, fifo', files)
      <4>1. Named(fifo, {"text"}) = Named(fifo', {"text"}) /\ Named(fifo, {"binary"}) = Named(fifo', {"binary"})
        BY <2>3 DEF Kinds
      <4> QED BY <4>1 DEF Done
    <3>7. Covered(task, lists, any, fifo', ready', files, lost)
      BY <1>7, <3>1, <3>5, <3>6 DEF Sound, Covered
    <3> QED BY <1>1, <1>3, <1>10, <3>1, <3>4, <3>7 DEF Sound
  <2> QED BY <2>5, <2>6 DEF PAfter
<1> QED BY <1>1, <1>9, <1>10 DEF Perform

\* A write that has ended, well or not, leaves the queue.
LEMMA WriteTaken ==
    ASSUME NEW A, NEW n, GoodQueue(A, n, fifo), GoodQueue(A, n, ready), fifo # <<>>,
           NEW a, a = Head(fifo), a.kind \in Kinds, fifo' = Tail(fifo), NEW x, x.kind = a.kind
    PROVE  /\ Named(fifo, {"decode", "text"}) =
                Named(fifo', {"decode", "text"}) \cup IF a.kind = "text" THEN {a.article} ELSE {}
           /\ Named(fifo, {"decode"}) = Named(fifo', {"decode"})
           /\ Named(fifo, {"text"}) = Named(fifo', {"text"}) \cup IF a.kind = "text" THEN {a.article} ELSE {}
           /\ Named(fifo, {"binary"}) = Named(fifo', {"binary"}) \cup IF a.kind = "binary" THEN {a.article} ELSE {}
           /\ Single(fifo, {"decode", "text"}) =>
                /\ Single(fifo', {"decode", "text"})
                /\ a.kind = "text" => a.article \notin Named(fifo', {"decode", "text"})
           /\ Named(Append(ready, x), {"decode"}) = Named(ready, {"decode"})
           /\ Single(ready, {"decode"}) => Single(Append(ready, x), {"decode"})
<1>1. ASSUME NEW K
      PROVE  Named(fifo, K) = Named(fifo', K) \cup IF a.kind \in K THEN {a.article} ELSE {}
  <2>1. {y.article : y \in {z \in {a} : z.kind \in K}} = IF a.kind \in K THEN {a.article} ELSE {}
    OBVIOUS
  <2>2. Named(fifo, K) = Named(Tail(fifo), K) \cup {y.article : y \in {z \in {a} : z.kind \in K}}
    BY QueueTaken
  <2> QED BY <2>1, <2>2
<1>2. Single(fifo, {"decode", "text"}) =>
        /\ Single(fifo', {"decode", "text"})
        /\ a.kind \in {"decode", "text"} => a.article \notin Named(fifo', {"decode", "text"})
  BY QueueTaken
<1>3. Named(Append(ready, x), {"decode"}) = Named(ready, {"decode"})
  <2>1. {y.article : y \in {z \in {x} : z.kind \in {"decode"}}} = {} BY DEF Kinds
  <2>2. Named(Append(ready, x), {"decode"}) =
          Named(ready, {"decode"}) \cup {y.article : y \in {z \in {x} : z.kind \in {"decode"}}}
    BY QueueGiven
  <2> QED BY <2>1, <2>2
<1>4. Single(ready, {"decode"}) => Single(Append(ready, x), {"decode"})
  <2>1. x.kind \notin {"decode"} BY DEF Kinds
  <2>2. Single(ready, {"decode"}) /\ (x.kind \in {"decode"} => x.article \notin Named(ready, {"decode"}))
          => Single(Append(ready, x), {"decode"})
    BY QueueGiven
  <2> QED BY <2>1, <2>2
<1>5. /\ Named(fifo, {"decode", "text"}) =
           Named(fifo', {"decode", "text"}) \cup IF a.kind \in {"decode", "text"} THEN {a.article} ELSE {}
      /\ Named(fifo, {"decode"}) = Named(fifo', {"decode"}) \cup IF a.kind \in {"decode"} THEN {a.article} ELSE {}
      /\ Named(fifo, {"text"}) = Named(fifo', {"text"}) \cup IF a.kind \in {"text"} THEN {a.article} ELSE {}
      /\ Named(fifo, {"binary"}) = Named(fifo', {"binary"}) \cup IF a.kind \in {"binary"} THEN {a.article} ELSE {}
  BY <1>1
<1>6. /\ a.kind \in {"decode", "text"} <=> a.kind = "text"
      /\ a.kind \notin {"decode"}
  BY DEF Kinds
<1> QED BY <1>2, <1>3, <1>4, <1>5, <1>6

LEMMA PerformWriteWhole ==
    ASSUME PostingAssumption, IInv, PInv, NEW a, PerformWrite(a)
    PROVE  PAfter
<1> DEFINE A == Articles
           n == Len(posting)
           F == files[a.kind]
           Texts == {"decode", "text"}
<1>1. /\ Types /\ GoodQueue(A, n, fifo) /\ GoodQueue(A, n, ready)
      /\ any \subseteq ActionSet(A, n, {"decode"}) /\ GoodFiles(A, files)
      /\ task \in TaskSet(A)
      /\ Perform(a) /\ a.kind \in Kinds /\ F \in FileSet(A)
  BY DEF IInv, Types, PerformWrite, GoodFiles, GoodTask
<1>2. /\ a \in ActionSet(A, n, AnyKind) /\ (a.kind = "text" => a.offset = 0)
      /\ UNCHANGED <<posting, lists, lost>>
  BY <1>1, PerformGood
<1>3. A = 1 .. n /\ n \in Nat
  BY <1>1, ArticleNumbers DEF Types
<1>4. fifo # <<>> /\ a = Head(fifo) /\ fifo' = Tail(fifo) /\ any' = any
  <2>1. a \notin any BY <1>1 DEF ActionSet, Kinds
  <2> QED BY <2>1, <1>1 DEF Perform
<1>5. Plain(task, files, fifo, ready) BY DEF PInv
<1>6. /\ Straight(fifo')
      /\ a.kind = "binary" => a.offset = a.article
  BY <1>1, <1>4, <1>5, StraightTaken DEF Plain
<1>7. ASSUME NEW x, x.kind = a.kind, x.offset = a.offset, x.article = a.article,
             ready' = Append(ready, x)
      PROVE  /\ Straight(ready')
             /\ SomeFailed(ready') <=> SomeFailed(ready) \/ x.failed
  <2>1. x.kind = "binary" => x.offset = x.article BY <1>6, <1>7
  <2> QED BY <2>1, <1>1, <1>5, <1>7, StraightGiven DEF Plain
<1>8. ASSUME Going(task), NEW x, x.kind = a.kind, ready' = Append(ready, x)
      PROVE  /\ Sound(task, lists, any, fifo, ready, files, lost)
             /\ Division(task.articles, lists, any, fifo, ready, files["text"])
             /\ Named(fifo, Texts) = Named(fifo', Texts) \cup IF a.kind = "text" THEN {a.article} ELSE {}
             /\ Named(fifo, {"decode"}) = Named(fifo', {"decode"})
             /\ Named(fifo, {"text"}) = Named(fifo', {"text"}) \cup IF a.kind = "text" THEN {a.article} ELSE {}
             /\ Named(fifo, {"binary"}) = Named(fifo', {"binary"}) \cup IF a.kind = "binary" THEN {a.article} ELSE {}
             /\ Single(fifo', Texts)
             /\ a.kind = "text" => a.article \notin Named(fifo', Texts)
             /\ Named(ready', {"decode"}) = Named(ready, {"decode"})
             /\ Single(ready', {"decode"})
  <2>1. Sound(task, lists, any, fifo, ready, files, lost) BY <1>8 DEF PInv
  <2>2. Division(task.articles, lists, any, fifo, ready, files["text"]) BY <2>1 DEF Sound
  <2>3. Single(fifo, Texts) /\ Single(ready, {"decode"}) BY <2>2 DEF Division
  <2> QED BY <2>1, <2>2, <2>3, <1>1, <1>4, <1>8, WriteTaken
<1>9. CASE /\ ~F.discard /\ F.open
           /\ files' = [files EXCEPT ![a.kind] = WriteAt(F, a)]
           /\ ready' = Append(ready, a) /\ task' = task
  <2> DEFINE G == WriteAt(F, a)
  <2>1. files'[a.kind] = G /\ \A k \in Kinds : k # a.kind => files'[k] = files[k]
    BY <1>1, <1>9 DEF GoodFiles
  <2>2. Straight(ready') /\ (SomeFailed(ready) => SomeFailed(ready'))
    BY <1>7, <1>9
  <2>3. CASE a.kind = "binary"
    <3>1. F.exists BY <1>1, <1>9 DEF GoodFiles
    <3>2. a.article \in 1 .. n BY <1>2, <1>3 DEF ActionSet
    <3>3. PlainFile(F) BY <1>5, <2>3 DEF Plain
    <3>4. /\ PlainFile(G) /\ InPlace(a.article, G)
          /\ \A d : InPlace(d, F) => InPlace(d, G)
          /\ G.listed = F.listed /\ G.discard = F.discard
      BY <1>1, <1>3, <1>6, <2>3, <3>1, <3>2, <3>3, PartWritten
    <3> HIDE DEF G, F
    <3>5. F = files["binary"] /\ files'["binary"] = G /\ files'["text"] = files["text"]
      BY <2>1, <2>3 DEF F, Kinds
    <3>6. Plain(task', files', fifo', ready')
      BY <1>5, <1>6, <1>9, <2>2, <3>4, <3>5 DEF Plain
    <3>7. ASSUME Going(task') PROVE Sound(task', lists', any', fifo', ready', files', lost')
      <4>1. Going(task) BY <1>9, <3>7
      <4>2. /\ Sound(task, lists, any, fifo, ready, files, lost)
            /\ Division(task.articles, lists, any, fifo, ready, files["text"])
            /\ Named(fifo, Texts) = Named(fifo', Texts)
            /\ Named(fifo, {"decode"}) = Named(fifo', {"decode"})
            /\ Named(fifo, {"text"}) = Named(fifo', {"text"})
            /\ Named(fifo, {"binary"}) = Named(fifo', {"binary"}) \cup {a.article}
            /\ Single(fifo', Texts)
            /\ Named(ready', {"decode"}) = Named(ready, {"decode"})
            /\ Single(ready', {"decode"})
        <5>1. ready' = Append(ready, a) BY <1>9
        <5> QED BY <4>1, <5>1, <1>8, <2>3
      <4>3. Fresh(files) BY <4>2 DEF Sound
      <4>4. Fresh(files')
        <5>1. Kept(files) BY <4>1 DEF IInv, Fates, Going
        <5>2. F.listed BY <5>1, <1>1, <1>9 DEF Kept, F
        <5>3. G.listed BY <5>2, <3>4
        <5> QED BY <3>4, <3>5, <4>3, <5>3 DEF Fresh, Kinds
      <4>5. Division(task.articles, lists, any, fifo', ready', files'["text"])
        BY <4>2, <3>5 DEF Division
      <4>6. \A d : Done(d, fifo, files) => Done(d, fifo', files')
        BY <4>2, <3>4, <3>5 DEF Done
      <4>7. Awaited(task.articles, lists, any, fifo', ready') = Awaited(task.articles, lists, any, fifo, ready)
        BY <4>2 DEF Awaited
      <4>8. Covered(task, lists, any, fifo', ready', files', lost)
        BY <2>2, <4>2, <4>6, <4>7 DEF Sound, Covered
      <4> QED BY <1>2, <1>4, <1>9, <3>5, <4>2, <4>4, <4>5, <4>8 DEF Sound
    <3> QED BY <3>6, <3>7 DEF PAfter
  <2>4. CASE a.kind = "text"
    <3>1. /\ Written(G) = Written(F) \cup {a.article}
          /\ Distinct(F) /\ a.article \notin Written(F) => Distinct(G)
          /\ Rest(G) \subseteq Rest(F)
          /\ G.listed = F.listed /\ G.discard = F.discard
      <4>1. Solid(A, F) BY <1>1, <2>4 DEF GoodFiles
      <4>2. a.offset = 0 BY <1>2, <2>4
      <4> QED BY <1>1, <4>1, <4>2, TextWritten
    <3> HIDE DEF G, F
    <3>2. F = files["text"] /\ files'["text"] = G /\ files'["binary"] = files["binary"]
      BY <2>1, <2>4 DEF F, Kinds
    <3>3. Plain(task', files', fifo', ready')
      BY <1>5, <1>6, <1>9, <2>2, <3>2 DEF Plain
    <3>4. ASSUME Going(task') PROVE Sound(task', lists', any', fifo', ready', files', lost')
      <4>1. Going(task) BY <1>9, <3>4
      <4>2. /\ Sound(task, lists, any, fifo, ready, files, lost)
            /\ Division(task.articles, lists, any, fifo, ready, files["text"])
            /\ Named(fifo, Texts) = Named(fifo', Texts) \cup {a.article}
            /\ Named(fifo, {"decode"}) = Named(fifo', {"decode"})
            /\ Named(fifo, {"text"}) = Named(fifo', {"text"}) \cup {a.article}
            /\ Named(fifo, {"binary"}) = Named(fifo', {"binary"})
            /\ Single(fifo', Texts) /\ a.article \notin Named(fifo', Texts)
            /\ Named(ready', {"decode"}) = Named(ready, {"decode"})
            /\ Single(ready', {"decode"})
        <5>1. ready' = Append(ready, a) BY <1>9
        <5> QED BY <4>1, <5>1, <1>8, <2>4
      <4>3. Fresh(files) /\ Rest(files["text"]) \subseteq lost BY <4>2 DEF Sound
      <4>4. Fresh(files')
        <5>1. Kept(files) BY <4>1 DEF IInv, Fates, Going
        <5>2. F.listed BY <5>1, <1>1, <1>9 DEF Kept, F
        <5>3. G.listed BY <5>2, <3>1
        <5> QED BY <3>1, <3>2, <4>3, <5>3 DEF Fresh, Kinds
      <4>5. Division(task.articles, lists, any, fifo', ready', files'["text"])
        <5>1. Distinct(G) BY <3>1, <3>2, <4>2 DEF Division, Apart
        <5> QED BY <4>2, <3>1, <3>2, <5>1 DEF Division, Apart
      <4>6. \A d : Done(d, fifo, files) => Done(d, fifo', files')
        BY <4>2, <3>1, <3>2 DEF Done
      <4>7. Awaited(task.articles, lists, any, fifo', ready') = Awaited(task.articles, lists, any, fifo, ready)
        BY <4>2 DEF Awaited
      <4>8. Covered(task, lists, any, fifo', ready', files', lost)
        BY <2>2, <4>2, <4>6, <4>7 DEF Sound, Covered
      <4>9. Rest(files'["text"]) \subseteq lost BY <3>1, <3>2, <4>3
      <4> QED BY <1>2, <1>4, <1>9, <4>2, <4>4, <4>5, <4>8, <4>9 DEF Sound
    <3> QED BY <3>3, <3>4 DEF PAfter
  <2> QED BY <2>3, <2>4, <1>1 DEF Kinds
<1>10. CASE ready' = Append(ready, Failed(a, TRUE)) /\ UNCHANGED <<task, files>>
  <2> DEFINE x == Failed(a, TRUE)
  <2>1. x.kind = a.kind /\ x.offset = a.offset /\ x.article = a.article /\ x.failed
    BY <1>2 DEF Failed, ActionSet
  <2> HIDE DEF x
  <2>2. ready' = Append(ready, x) BY <1>10 DEF x
  <2>3. Straight(ready') /\ SomeFailed(ready') BY <2>1, <2>2, <1>7
  <2>4. Plain(task', files', fifo', ready')
    BY <1>5, <1>6, <1>10, <2>3 DEF Plain
  <2>5. ASSUME Going(task') PROVE Sound(task', lists', any', fifo', ready', files', lost')
    <3>1. /\ Sound(task, lists, any, fifo, ready, files, lost)
          /\ Division(task.articles, lists, any, fifo, ready, files["text"])
          /\ Named(fifo', Texts) \subseteq Named(fifo, Texts)
          /\ Single(fifo', Texts)
          /\ Named(ready', {"decode"}) = Named(ready, {"decode"})
          /\ Single(ready', {"decode"})
      <4>1. Going(task) BY <1>10, <2>5
      <4> QED BY <4>1, <2>1, <2>2, <1>8
    <3>2. Division(task.articles, lists, any, fifo', ready', files["text"])
      BY <3>1 DEF Division, Apart
    <3>3. Covered(task, lists, any, fifo', ready', files, lost)
      BY <2>3 DEF Covered
    <3> QED BY <1>2, <1>4, <1>10, <3>1, <3>2, <3>3 DEF Sound
  <2> QED BY <2>4, <2>5 DEF PAfter
<1>11. CASE F.discard /\ ready' = Append(ready, a) /\ UNCHANGED <<task, files>>
  <2>1. Plain(task', files', fifo', ready')
    BY <1>5, <1>6, <1>7, <1>11 DEF Plain
  <2>2. ~Going(task')
    <3> SUFFICES ASSUME Going(task) PROVE FALSE BY <1>11
    <3>1. Fresh(files) BY DEF PInv, Sound
    <3> QED BY <3>1, <1>1, <1>11 DEF Fresh
  <2> QED BY <2>1, <2>2 DEF PAfter
<1>12. CASE task' = [task EXCEPT !.st = "crashed"] /\ UNCHANGED <<files, ready>>
  <2>1. task'.st = "crashed" /\ task'.stash = task.stash BY <1>1, <1>12 DEF TaskSet
  <2>2. Plain(task', files', fifo', ready')
    BY <1>5, <1>6, <1>12, <2>1 DEF Plain
  <2>3. ~Going(task') BY <2>1 DEF Going
  <2> QED BY <2>2, <2>3 DEF PAfter
<1> QED BY <1>9, <1>10, <1>11, <1>12 DEF PerformWrite, Fault, NoFault, Failed

LEMMA PumpWhole ==
    ASSUME PostingAssumption, IInv, PInv, ~Uuencoded(posting), Pump
    PROVE  PAfter
<1> DEFINE A == Articles
           n == Len(posting)
           Texts == {"decode", "text"}
           a == Head(ready)
           H == IF a.kind = "decode" THEN Text(Binary(Item(task, files), a.article), a.article)
                ELSE Item(task, files)
<1>1. /\ Types /\ Room /\ Fates /\ GoodQueue(A, n, fifo) /\ GoodQueue(A, n, ready)
      /\ posting \in Postings /\ GoodTask(A, task) /\ GoodFiles(A, files) /\ task \in TaskSet(A)
  BY DEF IInv, Types, GoodTask
<1>2. /\ ready # <<>> /\ ready' = Tail(ready) /\ any' = any
      /\ UNCHANGED <<posting, stale>>
  BY DEF Pump
<1>3. task.slots # 0
  BY <1>1, <1>2, SlotsWithWork
<1>4. a \in ActionSet(A, n, AnyKind) /\ a.article \in A
  <2>1. a \in ActionSet(A, n, AnyKind) BY <1>1, <1>2, QueueTail
  <2> QED BY <2>1 DEF ActionSet
<1>5. Plain(task, files, fifo, ready) BY DEF PInv
<1>6. /\ Straight(ready')
      /\ SomeFailed(ready) => SomeFailed(ready') \/ a.failed
  BY <1>1, <1>2, <1>5, StraightTaken DEF Plain
<1>7. \/ /\ ~Live \/ task.st = "error"
         /\ files' = Erased(files, HeldBy(fifo, Tail(ready)))
         /\ UNCHANGED <<task, lists, fifo, lost>>
      \/ /\ task' = [task EXCEPT !.st = "error"] \/ task' = [task EXCEPT !.st = "crashed"]
         /\ UNCHANGED <<files, fifo, lost>>
      \/ /\ Live /\ task.st # "error" /\ ~a.failed
         /\ \E full \in BOOLEAN :
              LET S == UpdateCompletion(
                         Decision(H.task, H.files, any = {} /\ fifo \o H.next \o Tail(ready) = <<>>, full))
              IN  /\ Becomes(S, lists, IF H.overrun = {} THEN {} ELSE {a.article})
                  /\ fifo' = fifo \o H.next
                  /\ lists' = WithLists(S.task.st, lists)
  BY DEF Pump, Decision, Item, NoFault, Fault
<1>8. CASE /\ ~Live \/ task.st = "error"
           /\ files' = Erased(files, HeldBy(fifo, Tail(ready)))
           /\ UNCHANGED <<task, lists, fifo, lost>>
  <2>1. ~Going(task') BY <1>8 DEF Live, Going
  <2>2. PlainFile(files'["binary"])
    <3>1. "binary" \in Kinds BY DEF Kinds
    <3>2. /\ files'["binary"].data = files["binary"].data
          /\ files'["binary"].exists => files["binary"].exists
      BY <3>1, <1>1, <1>8 DEF Erased, GoodFiles, FileSet
    <3> QED BY <3>2, <1>5 DEF Plain, PlainFile
  <2> QED BY <2>1, <2>2, <1>5, <1>6, <1>8 DEF PAfter, Plain
<1>9. CASE /\ task' = [task EXCEPT !.st = "error"] \/ task' = [task EXCEPT !.st = "crashed"]
           /\ UNCHANGED <<files, fifo, lost>>
  <2>1. task'.st \in {"error", "crashed"} /\ task'.stash = task.stash
    BY <1>1, <1>9 DEF TaskSet
  <2>2. ~Going(task') BY <2>1 DEF Going
  <2> QED BY <2>1, <2>2, <1>5, <1>6, <1>9 DEF PAfter, Plain
<1>10. ASSUME Live, task.st # "error", ~a.failed, NEW full \in BOOLEAN,
              LET S == UpdateCompletion(
                         Decision(H.task, H.files, any = {} /\ fifo \o H.next \o Tail(ready) = <<>>, full))
              IN  /\ Becomes(S, lists, IF H.overrun = {} THEN {} ELSE {a.article})
                  /\ fifo' = fifo \o H.next
                  /\ lists' = WithLists(S.task.st, lists)
       PROVE  PAfter
  <2> DEFINE idle == any = {} /\ fifo \o H.next \o Tail(ready) = <<>>
             d == a.kind = "decode"
  <2>1. Kept(files) BY <1>1, <1>10 DEF Fates, Live
  <2>2. Going(task) BY <1>1, <1>10 DEF Live, Going, TaskSet, States
  <2>3. Sound(task, lists, any, fifo, ready, files, lost) BY <2>2 DEF PInv
  <2>4. Handled(task, H)
    <3>1. CASE d
      <4>1. H = Text(Binary(Item(task, files), a.article), a.article) BY <3>1
      <4> HIDE DEF H, a
      <4> QED BY <4>1, <2>1, <1>1, <1>3, <1>4, DecodeHandled
    <3>2. CASE ~d
      BY <3>2, <2>1, <1>1, ItemHandled
    <3> QED BY <3>1, <3>2
  <2>5. /\ H.task = task /\ H.overrun = {} /\ Preserves(files, H.files)
        /\ Straight(H.next) /\ Single(H.next, Texts)
        /\ Named(H.next, {"decode"}) = {}
        /\ Named(H.next, Texts) = IF d /\ "text" \in posting[a.article] THEN {a.article} ELSE {}
        /\ Named(H.next, {"text"}) = IF d /\ "text" \in posting[a.article] THEN {a.article} ELSE {}
        /\ Named(H.next, {"binary"}) = IF d /\ "yenc" \in posting[a.article] THEN {a.article} ELSE {}
    <3>1. CASE d
      <4>1. H = Text(Binary(Item(task, files), a.article), a.article) BY <3>1
      <4> HIDE DEF H, a
      <4>2. PlainlyHandled(task, files, H, a.article)
        BY <4>1, <2>1, <1>1, <1>3, <1>4, PlainDecode
      <4> QED BY <4>2, <3>1 DEF PlainlyHandled
    <3>2. CASE ~d
      <4>1. H.task = task /\ H.files = files /\ H.next = <<>> /\ H.overrun = {}
        BY <3>2 DEF Item
      <4> HIDE DEF H
      <4> QED BY <4>1, <3>2, NothingNamed, SamePreserved
    <3> QED BY <3>1, <3>2
  <2>6. PICK S : /\ S = UpdateCompletion(Decision(H.task, H.files, idle, full))
                 /\ Becomes(S, lists, IF H.overrun = {} THEN {} ELSE {a.article})
                 /\ fifo' = fifo \o H.next
                 /\ lists' = WithLists(S.task.st, lists)
    BY <1>10
  <2> HIDE DEF H, idle
  <2>7. /\ GoodQueue(A, n, H.next) /\ GoodFiles(A, H.files)
    BY <2>4 DEF Handled
  <2>8. /\ Named(ready, {"decode"}) = Named(ready', {"decode"}) \cup IF d THEN {a.article} ELSE {}
        /\ Single(ready, {"decode"}) => /\ Single(ready', {"decode"})
                                        /\ d => a.article \notin Named(ready', {"decode"})
    <3>1. {y.article : y \in {z \in {a} : z.kind \in {"decode"}}} = IF d THEN {a.article} ELSE {}
      <4> HIDE DEF a
      <4> QED OBVIOUS
    <3>2. /\ Named(ready, {"decode"}) =
               Named(Tail(ready), {"decode"}) \cup {y.article : y \in {z \in {a} : z.kind \in {"decode"}}}
          /\ Single(ready, {"decode"}) =>
               /\ Single(Tail(ready), {"decode"})
               /\ a.kind \in {"decode"} => a.article \notin Named(Tail(ready), {"decode"})
      BY <1>1, <1>2, QueueTaken
    <3> HIDE DEF a
    <3> QED BY <3>1, <3>2, <1>2
  <2> HIDE DEF a
  <2>9. \A K : Named(fifo', K) = Named(fifo, K) \cup Named(H.next, K)
    BY <2>6, <2>7, <1>1, QueueJoined
  <2>10. /\ Fresh(files) /\ Enqueued(lists) /\ Rest(files["text"]) \subseteq lost
         /\ Division(task.articles, lists, any, fifo, ready, files["text"])
         /\ Covered(task, lists, any, fifo, ready, files, lost)
         /\ Over(task, lists, lost)
    BY <2>3 DEF Sound
  <2>11. /\ Single(fifo, Texts) /\ Single(ready, {"decode"})
         /\ Apart(ToSet(task.articles), ListedArticles(lists), AnyArticles(any), Named(fifo, Texts),
                  Named(ready, {"decode"}), Written(files["text"]))
    BY <2>10 DEF Division
  <2>12. Single(fifo', Texts)
    <3>1. Named(fifo, Texts) \cap Named(H.next, Texts) = {}
      BY <2>5, <2>8, <2>11 DEF Apart
    <3> QED BY <3>1, <2>5, <2>6, <2>7, <2>11, <1>1, QueueJoined
  <2>13. /\ Fresh(H.files)
         /\ Written(H.files["text"]) = Written(files["text"])
         /\ Distinct(files["text"]) => Distinct(H.files["text"])
         /\ Rest(H.files["text"]) \subseteq Rest(files["text"])
         /\ \A b : InPlace(b, files["binary"]) => InPlace(b, H.files["binary"])
    BY <2>5, <2>10 DEF Preserves
  <2>14. /\ Named(fifo', Texts) = Named(fifo, Texts) \cup IF d /\ "text" \in posting[a.article] THEN {a.article} ELSE {}
         /\ Named(fifo', {"decode"}) = Named(fifo, {"decode"})
         /\ Named(fifo', {"text"}) = Named(fifo, {"text"}) \cup IF d /\ "text" \in posting[a.article] THEN {a.article} ELSE {}
         /\ Named(fifo', {"binary"}) = Named(fifo, {"binary"}) \cup IF d /\ "yenc" \in posting[a.article] THEN {a.article} ELSE {}
    BY <2>5, <2>9
  <2>15. Apart(ToSet(task.articles), ListedArticles(lists), AnyArticles(any), Named(fifo', Texts),
               Named(ready', {"decode"}), Written(H.files["text"]))
    BY <2>8, <2>11, <2>13, <2>14 DEF Apart
  <2>16. Division(task.articles, lists, any, fifo', ready', H.files["text"])
    BY <2>8, <2>10, <2>11, <2>12, <2>13, <2>15 DEF Division
  <2>17. Covered(task, lists, any, fifo', ready', H.files, lost)
    <3> SUFFICES ASSUME ~SomeFailed(ready'), NEW b \in Articles \ (task.missing \cup lost)
                 PROVE  \/ b \in Awaited(task.articles, lists, any, fifo', ready')
                        \/ Done(b, fifo', H.files)
      BY DEF Covered
    <3>1. ~SomeFailed(ready) BY <1>6, <1>10
    <3>2. b \in Awaited(task.articles, lists, any, fifo, ready) \/ Done(b, fifo, files)
      BY <2>10, <3>1 DEF Covered
    <3>3. CASE Done(b, fifo, files)
      BY <3>3, <2>13, <2>14 DEF Done
    <3>4. CASE b \in Awaited(task.articles, lists, any, fifo, ready)
      <4>1. b \in Awaited(task.articles, lists, any, fifo', ready') \/ (d /\ b = a.article)
        BY <3>4, <2>8, <2>14 DEF Awaited
      <4>2. d /\ b = a.article => Done(b, fifo', H.files)
        BY <2>14 DEF Done
      <4> QED BY <4>1, <4>2
    <3> QED BY <3>2, <3>3, <3>4
  <2>18. Sound(task, lists, any, fifo', ready', H.files, lost)
    BY <2>10, <2>13, <2>16, <2>17 DEF Sound
  <2>19. Plain(task, H.files, fifo', ready')
    <3>1. Straight(fifo') BY <1>1, <1>5, <2>5, <2>6, <2>7, StraightJoined DEF Plain
    <3> QED BY <3>1, <1>5, <1>6, <2>5 DEF Plain, Preserves
  <2>20. S = UpdateCompletion(Decision(task, H.files, idle, full)) /\ Becomes(S, lists, {})
    BY <2>5, <2>6
  <2> QED BY <1>1, <1>2, <1>10, <2>6, <2>7, <2>18, <2>19, <2>20, UpdatedWhole
<1> HIDE DEF H, a
<1> QED BY <1>7, <1>8, <1>9, <1>10

-----------------------------------------------------------------------------
(* The user's steps.                                                       *)

\* What pause throws away are the cmdlists that no connection executes.
LEMMA ErasedApart ==
    ASSUME GoodLists(Articles, lists), ListsApart(lists), Enqueued(lists)
    PROVE  /\ ListsApart(ErasedLists) /\ Enqueued(ErasedLists)
           /\ ListedArticles(ErasedLists) \subseteq ListedArticles(lists)
           /\ ListedArticles(lists) \subseteq
                ListedArticles(ErasedLists)
                  \cup UNION {ToSet(l.arts) : l \in {k \in Listed(lists) : ~k.run}}
<1> DEFINE e(l) == [l EXCEPT !.canceled = TRUE, !.entries = 0]
           g == [l \in lists |-> IF l.entries = 0 THEN l ELSE e(l)]
           M == {l \in lists : l.run}
           D == {k \in Listed(lists) : ~k.run}
<1>1. \A l \in lists : l \in ListSet(Articles) /\ l.entries \in Nat
  BY DEF GoodLists, ListSet
<1>2. \A l \in lists : e(l).arts = l.arts /\ e(l).run = l.run
  BY <1>1 DEF ListSet
<1>3. \A l \in lists : g[l] = IF l.entries = 0 THEN l ELSE e(l)
  OBVIOUS
<1>4. \A l \in lists : l \in Listed(lists) <=> l.entries # 0
  BY <1>1 DEF Listed
<1>5. ErasedLists = {l \in lists : l.run /\ l.entries = 0} \cup {e(l) : l \in {k \in Listed(lists) : k.run}}
  BY DEF ErasedLists
<1> HIDE DEF e, g
<1>6. \A l \in lists : g[l].arts = l.arts /\ g[l].run = l.run
  BY <1>2, <1>3
<1>7. ASSUME NEW m \in ErasedLists PROVE \E l \in M : m = g[l]
  <2>1. CASE m \in {l \in lists : l.run /\ l.entries = 0}
    BY <2>1, <1>3
  <2>2. CASE m \in {e(l) : l \in {k \in Listed(lists) : k.run}}
    <3>1. PICK l \in Listed(lists) : l.run /\ m = e(l) BY <2>2
    <3>2. l \in lists BY DEF Listed
    <3>3. l.entries # 0 BY <1>4, <3>2
    <3> QED BY <1>3, <3>1, <3>2, <3>3
  <2> QED BY <1>5, <2>1, <2>2
<1>8. ASSUME NEW l \in M PROVE g[l] \in ErasedLists
  <2>1. CASE l.entries = 0 BY <2>1, <1>3, <1>5
  <2>2. CASE l.entries # 0
    <3>1. l \in {k \in Listed(lists) : k.run} BY <2>2, <1>4
    <3>2. g[l] = e(l) BY <2>2, <1>3
    <3> QED BY <1>5, <3>1, <3>2
  <2> QED BY <2>1, <2>2
<1>9. ListsApart(ErasedLists) /\ ListedArticles(ErasedLists) \subseteq ListedArticles(lists)
  <2>1. ErasedLists \subseteq {g[l] : l \in lists} BY <1>7
  <2> QED BY <2>1, <1>6, ListsRemain
<1>10. Enqueued(ErasedLists)
  BY <1>6, <1>7 DEF Enqueued
<1>11. \A l \in lists : l \in M \/ l \in D
  BY <1>4 DEF Enqueued
<1> HIDE DEF D
<1>12. ListedArticles(lists) \subseteq ListedArticles(ErasedLists) \cup UNION {ToSet(l.arts) : l \in D}
  <2> SUFFICES ASSUME NEW l \in lists, NEW a \in ToSet(l.arts)
               PROVE  a \in ListedArticles(ErasedLists) \cup UNION {ToSet(k.arts) : k \in D}
    BY DEF ListedArticles
  <2>1. CASE l \in M
    <3>1. g[l] \in ErasedLists /\ g[l].arts = l.arts BY <2>1, <1>6, <1>8
    <3> QED BY <3>1 DEF ListedArticles
  <2>2. CASE l \in D BY <2>2
  <2> QED BY <2>1, <2>2, <1>11
<1> QED BY <1>9, <1>10, <1>12 DEF D

LEMMA PauseWhole ==
    ASSUME IInv, PInv, Pause
    PROVE  PAfter
<1> DEFINE n == task.ncl - Entries
           D == UNION {ToSet(l.arts) : l \in {k \in Listed(lists) : ~k.run}}
<1>1. task \in TaskSet(Articles) /\ GoodLists(Articles, lists)
  BY DEF IInv, Types, GoodTask
<1>2. /\ task.st \in {"queued", "waiting", "active"}
      /\ task' = [task EXCEPT !.ncl = n, !.st = "paused"]
      /\ lists' = ErasedLists /\ lost' = lost \cup D
      /\ UNCHANGED <<posting, any, fifo, ready, files>>
  BY DEF Pause
<1> HIDE DEF n
<1>3. /\ task'.st = "paused" /\ task'.stash = task.stash /\ task'.articles = task.articles
      /\ task'.missing = task.missing
  BY <1>1, <1>2 DEF TaskSet
<1>4. Plain(task', files', fifo', ready')
  BY <1>2, <1>3 DEF PInv, Plain
<1>5. Sound(task, lists, any, fifo, ready, files, lost)
  BY <1>2 DEF PInv, Going
<1>6. /\ Fresh(files) /\ Enqueued(lists) /\ Rest(files["text"]) \subseteq lost
      /\ Division(task.articles, lists, any, fifo, ready, files["text"])
      /\ Covered(task, lists, any, fifo, ready, files, lost)
  BY <1>5 DEF Sound
<1>7. ListsApart(lists) BY <1>6 DEF Division
<1>8. /\ ListsApart(lists') /\ Enqueued(lists')
      /\ ListedArticles(lists') \subseteq ListedArticles(lists)
      /\ ListedArticles(lists) \subseteq ListedArticles(lists') \cup D
  BY <1>1, <1>2, <1>6, <1>7, ErasedApart
<1> HIDE DEF D
<1>9. Division(task'.articles, lists', any', fifo', ready', files'["text"])
  BY <1>2, <1>3, <1>6, <1>8 DEF Division, Apart
<1>10. Covered(task', lists', any', fifo', ready', files', lost')
  BY <1>2, <1>3, <1>6, <1>8 DEF Covered, Awaited
<1>11. Over(task', lists', lost')
  BY <1>3 DEF Over
<1>12. Sound(task', lists', any', fifo', ready', files', lost')
  BY <1>2, <1>6, <1>8, <1>9, <1>10, <1>11 DEF Sound
<1> QED BY <1>4, <1>12 DEF PAfter

LEMMA ResumeWhole ==
    ASSUME PostingAssumption, IInv, PInv, Resume
    PROVE  PAfter
<1>1. GoodTask(Articles, task) /\ GoodFiles(Articles, files)
  BY DEF IInv, Types
<1>2. /\ task.st = "paused"
      /\ UNCHANGED <<posting, lists, any, fifo, ready>>
  BY DEF Resume
<1>3. PICK full \in BOOLEAN :
        LET S == UpdateCompletion(Decision(task, files, Idle, full))
            st == CASE S.task.st = "paused" -> "queued"
                    [] S.task.st = "error" -> "crashed"
                    [] OTHER -> S.task.st
        IN  Becomes([S EXCEPT !.task.st = st], lists, {})
  BY DEF Resume, Decision
<1> DEFINE S == UpdateCompletion(Decision(task, files, Idle, full))
           st == CASE S.task.st = "paused" -> "queued"
                   [] S.task.st = "error" -> "crashed"
                   [] OTHER -> S.task.st
           U == [S EXCEPT !.task.st = st]
<1>4. Becomes(U, lists, {})
  BY <1>3
<1>5. Plain(task, files, fifo, ready) /\ Sound(task, lists, any, fifo, ready, files, lost)
  BY <1>2 DEF PInv, Going
<1>6. Ends(Articles, task, S)
  <2>1. 0 \notin Articles /\ Kept(files)
    BY <1>2, ArticleNumbers DEF IInv, Types, Fates
  <2> QED BY <1>1, <2>1, UpdateEnds
<1>7. S.task.st \in {"paused", "complete"}
  <2>1. task.stash = <<>> BY <1>5 DEF Plain
  <2> HIDE DEF S
  <2>2. \/ S.task.st = task.st
        \/ S.task.st = "waiting" /\ task.st = "active"
        \/ S.task.st = "complete" /\ task.articles = <<>>
    BY <1>1, <2>1, PlainUpdate DEF S
  <2> QED BY <2>2, <1>2
<1> HIDE DEF S
<1>8. st \in {S.task.st, "queued"}
  BY <1>7
<1> HIDE DEF st
<1>9. /\ U.task = [S.task EXCEPT !.st = st] /\ U.files = S.files
      /\ S.task \in TaskSet(Articles)
  BY <1>6 DEF Ends, GoodTask
<1>10. /\ U.task.articles = S.task.articles /\ U.task.missing = S.task.missing
       /\ U.task.stash = S.task.stash /\ U.task.st = st
  BY <1>9 DEF TaskSet
<1> HIDE DEF U
<1>11. S = UpdateCompletion(Decision(task, files, Idle, full)) BY DEF S
<1>12. any' = any /\ fifo' = fifo /\ ready' = ready /\ lists' = lists
  BY <1>2
<1>13. U.files = S.files /\ U.task.st \in {S.task.st, "queued"} /\ task.st # "error"
  BY <1>2, <1>8, <1>9, <1>10
<1> QED BY <1>1, <1>4, <1>5, <1>10, <1>11, <1>12, <1>13, UpdatedWhole

LEMMA KillWhole ==
    ASSUME IInv, PInv, Kill
    PROVE  PAfter
<1>1. task \in TaskSet(Articles) /\ GoodFiles(Articles, files)
  BY DEF IInv, Types, GoodTask
<1>2. /\ task' = [task EXCEPT !.st = "removed"] \/ task' = [task EXCEPT !.st = "killed"]
      /\ files' = files \/ files' = Erased(DiscardedFiles(files), HeldBy(fifo, ready))
      /\ UNCHANGED <<posting, fifo, ready>>
  BY DEF Kill
<1>3. task'.st \in {"removed", "killed"} /\ task'.stash = task.stash
  BY <1>1, <1>2 DEF TaskSet
<1>4. ~Going(task') BY <1>3 DEF Going
<1>5. PlainFile(files'["binary"])
  <2>1. "binary" \in Kinds BY DEF Kinds
  <2>2. files["binary"] \in FileSet(Articles) BY <1>1, <2>1 DEF GoodFiles
  <2> DEFINE FS == DiscardedFiles(files)
  <2>3. FS["binary"].data = files["binary"].data /\ FS["binary"].exists = files["binary"].exists
        /\ FS["binary"] \in FileSet(Articles)
    BY <2>1, <2>2 DEF DiscardedFiles, FileSet
  <2> HIDE DEF FS
  <2>4. /\ Erased(FS, HeldBy(fifo, ready))["binary"].data = FS["binary"].data
        /\ Erased(FS, HeldBy(fifo, ready))["binary"].exists => FS["binary"].exists
    BY <2>1, <2>3 DEF Erased, FileSet
  <2>5. /\ files'["binary"].data = files["binary"].data
        /\ files'["binary"].exists => files["binary"].exists
    BY <1>2, <2>3, <2>4 DEF FS
  <2> QED BY <2>5 DEF PInv, Plain, PlainFile
<1> QED BY <1>2, <1>3, <1>4, <1>5 DEF PInv, PAfter, Plain

LEMMA SameWhole ==
    ASSUME PInv, UNCHANGED <<posting, task, lists, any, fifo, ready, files, lost>>
    PROVE  PAfter
  BY DEF PInv, PAfter

\* What a session knows of the text file is where it begins.
LEMMA RestartWhole ==
    ASSUME IInv, PInv, Restart
    PROVE  PAfter
<1> DEFINE W == task.articles
           T == NewTask(W, task.yenc, task.missing)
           L == UNION {ToSet(l.arts) : l \in lists}
           X == ToSet(files["text"].data)
<1>1. /\ any = {} /\ fifo = <<>> /\ ready = <<>>
      /\ task.st \in {"queued", "waiting", "active", "paused"}
      /\ task' = T /\ lists' = {}
      /\ files' = [k \in Kinds |-> Reopened(files[k])]
      /\ lost' = lost \cup L \cup Unsaved \cup X
      /\ UNCHANGED <<posting, any, fifo, ready>>
  BY DEF Restart, Idle
<1> HIDE DEF X
<1>2. /\ task'.st = "queued" /\ task'.articles = W /\ task'.missing = task.missing
      /\ task'.stash = <<>>
  BY <1>1 DEF NewTask
<1>3. Plain(task, files, fifo, ready) /\ Sound(task, lists, any, fifo, ready, files, lost)
  BY <1>1 DEF PInv, Going
<1>4. /\ Fresh(files) /\ Division(W, lists, any, fifo, ready, files["text"])
      /\ Covered(task, lists, any, fifo, ready, files, lost)
  BY <1>3 DEF Sound
<1>5. GoodFiles(Articles, files) BY DEF IInv, Types
<1>6. \A k \in Kinds : /\ files'[k].data = files[k].data /\ files'[k].pos = 1
                       /\ files'[k].listed = files[k].listed
                       /\ files'[k].discard = files[k].discard
                       /\ files'[k].exists = files[k].exists
  BY <1>1, <1>4, <1>5 DEF Reopened, GoodFiles, FileSet, Fresh
<1>7. "text" \in Kinds /\ "binary" \in Kinds BY DEF Kinds
<1>8. Plain(task', files', fifo', ready')
  BY <1>1, <1>2, <1>3, <1>6, <1>7 DEF Plain, PlainFile
<1>9. Fresh(files') BY <1>4, <1>6 DEF Fresh
<1>10. X = {files["text"].data[i] : i \in 1 .. Len(files["text"].data)}
  <2>1. files["text"].data \in Seq(Articles) BY <1>5 DEF GoodFiles, Solid
  <2> QED BY <2>1, GoodRange DEF X
<1>11. Rest(files'["text"]) = X
  BY <1>6, <1>7, <1>10 DEF Rest
<1>12. 1 .. 1 - 1 = {} OBVIOUS
<1>13. Written(files'["text"]) = {} /\ Distinct(files'["text"])
  BY <1>6, <1>7, <1>12 DEF Written, Distinct
<1>14. Written(files["text"]) \subseteq X
  <2>1. /\ files["text"].pos <= Len(files["text"].data) + 1 /\ files["text"].pos \in Nat
        /\ Len(files["text"].data) \in Nat
    BY <1>5, <1>7 DEF GoodFiles, Solid, FileSet
  <2>2. \A i \in 1 .. files["text"].pos - 1 : i \in 1 .. Len(files["text"].data)
    BY <2>1
  <2> QED BY <2>2, <1>10 DEF Written
<1>15. \A a : InPlace(a, files["binary"]) => InPlace(a, files'["binary"])
  BY <1>6, <1>7 DEF InPlace
<1>16. /\ ListsApart({}) /\ Enqueued({}) /\ ListedArticles({}) = {}
  BY DEF ListsApart, Enqueued, ListedArticles
<1>17. /\ AnyArticles({}) = {} /\ OneEach({})
  BY DEF AnyArticles, OneEach
<1>18. Division(task'.articles, lists', any', fifo', ready', files'["text"])
  <2>1. IsInjective(W) BY <1>4 DEF Division
  <2>2. /\ Named(fifo', {"decode", "text"}) = {} /\ Named(ready', {"decode"}) = {}
        /\ Single(fifo', {"decode", "text"}) /\ Single(ready', {"decode"})
    BY <1>1, NothingNamed
  <2> QED BY <2>1, <2>2, <1>1, <1>2, <1>13, <1>16, <1>17 DEF Division, Apart
<1>19. ListedArticles(lists) = L BY DEF ListedArticles
<1> HIDE DEF L
<1>20. Covered(task', lists', any', fifo', ready', files', lost')
  <2> SUFFICES ASSUME NEW a \in Articles \ (task.missing \cup lost'), a \notin ToSet(W)
               PROVE  Done(a, fifo, files')
    BY <1>1, <1>2 DEF Covered, Awaited, Articles
  <2>1. ~SomeFailed(ready) BY <1>1, NothingNamed
  <2>2. Named(fifo, {"decode"}) = {} /\ Named(ready, {"decode"}) = {} /\ AnyArticles(any) = {}
    BY <1>1, <1>17, NothingNamed
  <2>3. a \notin L /\ a \notin lost /\ a \notin X BY <1>1
  <2>4. a \notin Awaited(W, lists, any, fifo, ready)
    BY <1>19, <2>2, <2>3 DEF Awaited
  <2>5. Done(a, fifo, files)
    BY <1>4, <2>1, <2>3, <2>4 DEF Covered
  <2>6. Named(fifo, {"text"}) = {} BY <1>1, NothingNamed
  <2>7. a \notin Written(files["text"]) BY <1>14, <2>3
  <2> QED BY <2>5, <2>6, <2>7, <1>15 DEF Done
<1>21. Over(task', lists', lost') BY <1>2 DEF Over
<1>22. Sound(task', lists', any', fifo', ready', files', lost')
  <2>1. Rest(files'["text"]) \subseteq lost' BY <1>1, <1>11
  <2> QED BY <1>1, <1>9, <1>16, <1>18, <1>20, <1>21, <2>1 DEF Sound
<1> QED BY <1>8, <1>22 DEF PAfter

-----------------------------------------------------------------------------
(* The invariant of a download that is not uuencoded.                      *)

LEMMA InitWhole ==
    ASSUME PostingAssumption, Init
    PROVE  PInv
<1>1. PICK y \in BOOLEAN : task = NewTask([i \in DOMAIN posting |-> i], y, {})
  BY DEF Init
<1> DEFINE s == [i \in DOMAIN posting |-> i]
           F == files["text"]
<1>2. /\ posting \in Postings /\ lists = {} /\ any = {} /\ fifo = <<>> /\ ready = <<>>
      /\ files = [k \in Kinds |-> NoFile] /\ lost = {}
  BY DEF Init
<1>3. Articles = 1 .. Len(posting) /\ Len(posting) \in Nat /\ Articles = DOMAIN posting
  BY <1>2, ArticleNumbers DEF Articles
<1>4. s \in Seq(Articles) /\ Len(s) = Len(posting) /\ DOMAIN s = Articles
      /\ \A i \in Articles : s[i] = i
  BY <1>3
<1>5. /\ task.articles = s /\ task.stash = <<>> /\ task.missing = {} /\ task.st = "queued"
  BY <1>1 DEF NewTask
<1> HIDE DEF s
<1>6. IsInjective(s) BY <1>4 DEF IsInjective
<1>7. ToSet(s) = Articles BY <1>4 DEF ToSet
<1>8. \A k \in Kinds : /\ files[k].data = <<>> /\ files[k].pos = 1 /\ ~files[k].discard
                       /\ ~files[k].exists
  BY <1>2 DEF NoFile
<1>9. "text" \in Kinds /\ "binary" \in Kinds BY DEF Kinds
<1>10. 1 .. 1 - 1 = {} /\ Len(<<>>) = 0 /\ 1 .. 0 = {} OBVIOUS
<1>11. Plain(task, files, fifo, ready)
  <2>1. PlainFile(files["binary"]) BY <1>8, <1>9, <1>10 DEF PlainFile
  <2> QED BY <1>2, <1>5, <2>1, NothingNamed DEF Plain
<1>12. Fresh(files) BY <1>8 DEF Fresh
<1>13. Written(F) = {} /\ Distinct(F) /\ Rest(F) = {}
  BY <1>8, <1>9, <1>10 DEF Written, Distinct, Rest
<1> HIDE DEF F
<1>14. /\ ListsApart(lists) /\ Enqueued(lists) /\ ListedArticles(lists) = {}
       /\ AnyArticles(any) = {} /\ OneEach(any)
  BY <1>2 DEF ListsApart, Enqueued, ListedArticles, AnyArticles, OneEach
<1>15. Division(task.articles, lists, any, fifo, ready, F)
  <2>1. /\ Named(fifo, {"decode", "text"}) = {} /\ Named(ready, {"decode"}) = {}
        /\ Single(fifo, {"decode", "text"}) /\ Single(ready, {"decode"})
    BY <1>2, NothingNamed
  <2> QED BY <2>1, <1>5, <1>6, <1>13, <1>14 DEF Division, Apart
<1>16. Covered(task, lists, any, fifo, ready, files, lost)
  BY <1>5, <1>7 DEF Covered, Awaited
<1>17. Over(task, lists, lost) BY <1>5 DEF Over
<1>18. Sound(task, lists, any, fifo, ready, files, lost)
  BY <1>12, <1>13, <1>14, <1>15, <1>16, <1>17 DEF Sound, F
<1> QED BY <1>11, <1>18 DEF PInv

LEMMA NextWhole ==
    ASSUME PostingAssumption, BoundAssumption, IInv, PInv, ~Uuencoded(posting), [Next]_vars
    PROVE  PAfter
<1>1. CASE Run BY <1>1, RunWhole
<1>2. CASE \E l \in lists : Take(l) \/ Broken(l) \/ Return(l) \/ Refused(l)
  BY <1>2, TakeWhole, BrokenWhole, ReturnWhole, RefusedWhole
<1>3. CASE \E a \in any \cup ToSet(fifo) : PerformDecode(a) \/ PerformWrite(a)
  BY <1>3, PerformDecodeWhole, PerformWriteWhole
<1>4. CASE Pump BY <1>4, PumpWhole
<1>5. CASE Pause BY <1>5, PauseWhole
<1>6. CASE Resume BY <1>6, ResumeWhole
<1>7. CASE Kill BY <1>7, KillWhole
<1>8. CASE Shutdown BY <1>8, SameWhole DEF Shutdown
<1>9. CASE Restart BY <1>9, RestartWhole
<1>10. CASE UNCHANGED vars BY <1>10, SameWhole DEF vars
<1> QED BY <1>1, <1>2, <1>3, <1>4, <1>5, <1>6, <1>7, <1>8, <1>9, <1>10 DEF Next

LEMMA PostingStays == [Next]_vars => posting' = posting
  BY DEF Next, vars, Run, Take, Broken, Return, Refused, PerformDecode, PerformWrite, Perform,
         Pump, Pause, Resume, Kill, Shutdown, Restart

\* A download without uuencoded parts has each of its articles in one place,
\* from the list of those to be asked for to the files, and in some place
\* unless it is missing or has been thrown away; the binary has its parts where
\* their offsets say (download.cpp:134-268, datafile.h:40-76).
THEOREM WholeInvariant == Spec => []WInv
<1>1. PostingAssumption /\ BoundAssumption
  BY PostingAssumption, BoundAssumption
<1>2. Init => WInv BY <1>1, InitInv, InitWhole DEF WInv
<1>3. WInv /\ [Next]_vars => WInv'
  <2> SUFFICES ASSUME WInv, [Next]_vars PROVE WInv' OBVIOUS
  <2>1. IInv' BY <1>1, NextInv DEF WInv
  <2>2. ~Uuencoded(posting) => PAfter BY <1>1, NextWhole DEF WInv
  <2> QED BY <2>1, <2>2, PostingStays, WInvAfter
<1> QED BY <1>2, <1>3, PTL DEF Spec

LEMMA OneIndex ==
    ASSUME NEW a, NEW s, NEW i \in DOMAIN s, s[i] = a, \A j \in DOMAIN s : s[j] = a => j = i
    PROVE  Occurrences(a, s) = 1
<1>1. {j \in DOMAIN s : s[j] = a} = {i} OBVIOUS
<1>2. Cardinality({i}) = 1 BY FS_Singleton
<1> QED BY <1>1, <1>2 DEF Occurrences

\* The file has all of a download that is complete.
LEMMA InvWhole ==
    ASSUME PostingAssumption, IInv, PInv, ~Uuencoded(posting)
    PROVE  Whole
<1> SUFFICES ASSUME task.st = "complete", lists = {}, any = {}, fifo = <<>>, ready = <<>>,
                    NEW a \in Articles \ (task.missing \cup lost)
             PROVE  /\ "yenc" \in posting[a] => files["binary"].data[a] = a
                    /\ posting[a] # {"text"} => Occurrences(a, files["binary"].data) = 1
                    /\ "text" \in posting[a] => Occurrences(a, files["text"].data) = 1
  BY DEF Whole, Quiet, Idle, Articles
<1> DEFINE B == files["binary"]
           F == files["text"]
<1>1. /\ posting \in Postings /\ GoodFiles(Articles, files)
      /\ Sound(task, lists, any, fifo, ready, files, lost) /\ Plain(task, files, fifo, ready)
  BY DEF IInv, Types, PInv, Going
<1>2. Articles = 1 .. Len(posting) /\ Len(posting) \in Nat /\ Articles \subseteq Nat \ {0}
  BY <1>1, ArticleNumbers
<1>3. /\ B.data \in Seq(Articles \cup {0})
      /\ F.data \in Seq(Articles) /\ F.pos <= Len(F.data) + 1 /\ F.pos \in Nat \ {0}
      /\ Len(F.data) \in Nat /\ Len(B.data) \in Nat
  <2>1. "text" \in Kinds /\ "binary" \in Kinds BY DEF Kinds
  <2> QED BY <1>1, <2>1 DEF GoodFiles, Solid, FileSet
<1>4. /\ PlainFile(B) /\ Distinct(F) /\ Rest(F) \subseteq lost
      /\ Covered(task, lists, any, fifo, ready, files, lost) /\ Over(task, lists, lost)
  BY <1>1 DEF Sound, Plain, Division
<1> HIDE DEF B, F
<1>5. Done(a, fifo, files)
  <2>1. ~SomeFailed(ready) BY NothingNamed
  <2>2. /\ Named(fifo, {"decode"}) = {} /\ Named(ready, {"decode"}) = {} /\ AnyArticles(any) = {}
        /\ ListedArticles(lists) = {}
    BY NothingNamed DEF AnyArticles, ListedArticles
  <2>3. ToSet(task.articles) \subseteq lost BY <1>4 DEF Over
  <2>4. a \notin Awaited(task.articles, lists, any, fifo, ready) BY <2>2, <2>3 DEF Awaited
  <2> QED BY <1>4, <2>1, <2>4 DEF Covered
<1>6. /\ "text" \in posting[a] => a \in Written(F)
      /\ "yenc" \in posting[a] => InPlace(a, B)
  <2>1. Named(fifo, {"text"}) = {} /\ Named(fifo, {"binary"}) = {} BY NothingNamed
  <2> QED BY <1>5, <2>1 DEF Done, B, F
<1>7. posting[a] # {"text"} => "yenc" \in posting[a]
  <2>1. posting \in Seq(Content) BY <1>1
  <2>2. posting[a] \in Content BY <1>2, <2>1
  <2>3. posting[a] \cap (Stashable \cup {"whole"}) = {} BY DEF Uuencoded, Articles
  <2> QED BY <2>2, <2>3 DEF Content
<1>8. ASSUME "yenc" \in posting[a] PROVE B.data[a] = a /\ Occurrences(a, B.data) = 1
  <2>1. a \in 1 .. Len(B.data) /\ B.data[a] = a BY <1>6, <1>8 DEF InPlace
  <2>2. \A i \in 1 .. Len(B.data) : B.data[i] = a => i = a
    BY <1>2, <1>4 DEF PlainFile
  <2>3. DOMAIN B.data = 1 .. Len(B.data) BY <1>3
  <2> QED BY <2>1, <2>2, <2>3, OneIndex
<1>9. ASSUME "text" \in posting[a] PROVE Occurrences(a, F.data) = 1
  <2>1. PICK i \in 1 .. F.pos - 1 : F.data[i] = a BY <1>6, <1>9 DEF Written
  <2>2. DOMAIN F.data = 1 .. Len(F.data) BY <1>3
  <2>3. i \in DOMAIN F.data BY <1>3, <2>2
  <2>4. ASSUME NEW j \in DOMAIN F.data, F.data[j] = a PROVE j = i
    <3>1. j \in 1 .. F.pos - 1 \/ j \in F.pos .. Len(F.data) BY <1>3, <2>2
    <3>2. j \notin F.pos .. Len(F.data)
      <4>1. a \notin Rest(F) BY <1>4
      <4> QED BY <2>4, <4>1 DEF Rest
    <3> QED BY <1>4, <2>1, <2>4, <3>1, <3>2 DEF Distinct
  <2> QED BY <2>1, <2>3, <2>4, OneIndex
<1> QED BY <1>7, <1>8, <1>9 DEF B, F

\* A download that is complete has every yEnc part and every text in its file
\* exactly once and in its place, in whatever order the decodes and the writes
\* ran, whatever failed and was asked for again, and however often the task was
\* paused or restarted (download.cpp:134-268).
THEOREM YencIsWhole == Spec => [](~Uuencoded(posting) => Whole)
<1>1. PostingAssumption BY PostingAssumption
<1>2. WInv => (~Uuencoded(posting) => Whole) BY <1>1, InvWhole DEF WInv
<1> QED BY <1>2, WholeInvariant, PTL

\* The parts of a yEnc binary are in its file in the order of the articles at
\* any time (download.cpp:145-155, datafile.h:60-70).
THEOREM YencInOrder == Spec => [](~Uuencoded(posting) => PartsInOrder)
<1>1. WInv => (~Uuencoded(posting) => PartsInOrder)
  <2> SUFFICES ASSUME WInv, ~Uuencoded(posting),
                      NEW i \in DOMAIN files["binary"].data, NEW j \in DOMAIN files["binary"].data,
                      i < j, files["binary"].data[i] # 0, files["binary"].data[j] # 0
               PROVE  files["binary"].data[i] < files["binary"].data[j]
    BY DEF PartsInOrder
  <2>1. PlainFile(files["binary"]) /\ GoodFiles(Articles, files)
    BY DEF WInv, IInv, Types, PInv, Plain
  <2>2. files["binary"].data \in Seq(Articles \cup {0})
    <3>1. "binary" \in Kinds BY DEF Kinds
    <3> QED BY <2>1, <3>1 DEF GoodFiles, FileSet
  <2>3. DOMAIN files["binary"].data = 1 .. Len(files["binary"].data) BY <2>2
  <2>4. files["binary"].data[i] = i /\ files["binary"].data[j] = j
    BY <2>1, <2>3 DEF PlainFile
  <2> QED BY <2>4
<1> QED BY <1>1, WholeInvariant, PTL

-----------------------------------------------------------------------------
(* Throttle: its inductive invariant. *)

\* The most that the connections are given of the quota at any time.
ThrottleRoom == Chunk * Cardinality(Conns)

\* What is out, over all connections.
Out == [d \in Conns |-> given[d] - got[d]]
AllOut == SumFunctionOnSet(Out, Conns)

\* accum_ as the number it stands for: negative when it has wrapped around.
Signed == IF accum <= quota THEN accum ELSE accum - (SizeMax + 1)

\* What a connection is given with the throttle on, and with it off.
Chunks == (0 .. Chunk) \cup {SizeMax}

ThrottleTypes ==
    /\ enabled \in BOOLEAN /\ elapsed \in BOOLEAN /\ steady \in BOOLEAN
    /\ quota \in Quotas /\ accum \in 0 .. SizeMax
    /\ pc \in [Conns -> {"idle", "loop", "quota", "receive", "give back"}]
    /\ given \in [Conns -> Chunks]
    /\ got \in [Conns -> Nat]
    /\ canceled \in [Conns -> BOOLEAN]
    /\ window \in Nat /\ carried \in Nat /\ nchanges \in Nat

\* Where the loop is tells what it has been given and has received.
Places ==
    \A c \in Conns :
        /\ given[c] # 0 <=> pc[c] \in {"receive", "give back"}
        /\ pc[c] # "give back" => got[c] = 0
        /\ got[c] <= given[c]

\* While the throttle is on, every byte received or out has been counted, but
\* for those that were out when the second began; these are few, so that an
\* accum_ that wraps around does not come down to the quota.
Counted ==
    steady => /\ enabled
              /\ \A d \in Conns : given[d] <= Chunk
              /\ carried <= ThrottleRoom
              /\ window + AllOut <= carried + Signed

ThrottleIInv == ThrottleTypes /\ Places /\ Counted

-----------------------------------------------------------------------------
(* Lemmas about Throttle. *)

LEMMA Constants ==
    /\ Chunk \in Nat \ {0} /\ SizeMax \in Nat /\ IsFiniteSet(Conns) /\ ThrottleRoom \in Nat
    /\ \A q \in Quotas : q \in Nat /\ q < SizeMax /\ q + ThrottleRoom <= SizeMax
<1>1. Cardinality(Conns) \in Nat
  BY ThrottleAssumption, FS_CardinalityType
<1>2. ThrottleRoom \in Nat
  BY <1>1, ThrottleAssumption DEF ThrottleRoom
<1> QED BY <1>2, ThrottleAssumption DEF ThrottleRoom

LEMMA SizeFacts ==
    ASSUME NEW n \in Int
    PROVE  /\ Size(n) \in 0 .. SizeMax
           /\ n \in 0 .. SizeMax => Size(n) = n
           /\ n < 0 /\ n + SizeMax + 1 >= 0 => Size(n) = n + SizeMax + 1
  BY Constants DEF Size

LEMMA ChunkFacts ==
    /\ \A g \in Chunks : g \in Nat /\ (g < SizeMax => g <= Chunk)
    /\ \A g \in 0 .. Chunk : g \in Chunks
    /\ SizeMax \in Chunks /\ 0 \in Chunks
  BY Constants DEF Chunks

LEMMA MinOfTwo ==
    ASSUME NEW m \in Nat, NEW n \in Nat
    PROVE  Min({m, n}) \in {m, n} /\ Min({m, n}) <= m /\ Min({m, n}) <= n
  BY DEF Min

\* What is taken at the beginning of a second is less than the quota.
LEMMA FractionFacts ==
    ASSUME NEW q \in Nat, NEW a \in 0 .. Max({q - 1, 0})
    PROVE  a \in Nat /\ a <= q /\ (a = q => q = 0)
<1> DEFINE m == q - 1
<1>1. m \in Int
  OBVIOUS
<1> HIDE DEF m
<1>2. Max({m, 0}) \in {m, 0}
  BY <1>1 DEF Max
<1> QED BY <1>1, <1>2 DEF m

\* What is given is a chunk at most and, unless the quota changes meanwhile,
\* no more than is left.
LEMMA GivenFacts ==
    ASSUME NEW a \in 0 .. SizeMax, NEW q2 \in Quotas, NEW q3 \in Quotas
    PROVE  /\ Given(a, q2, q3) \in 0 .. Chunk
           /\ a >= q2 => Given(a, q2, q3) = 0
           /\ q2 = q3 /\ a < q2 => a + Given(a, q2, q3) <= q2
<1>1. q2 \in Nat /\ q3 \in Nat /\ q3 < SizeMax /\ Chunk \in Nat /\ SizeMax \in Nat
  BY Constants
<1>2. Size(q3 - a) \in Nat
  BY <1>1, SizeFacts
<1>3. Min({Size(q3 - a), Chunk}) \in 0 .. Chunk /\ Min({Size(q3 - a), Chunk}) <= Size(q3 - a)
  BY <1>1, <1>2, MinOfTwo
<1>4. q2 = q3 /\ a < q2 => Size(q3 - a) = q2 - a
  BY <1>1, SizeFacts
<1> QED BY <1>1, <1>2, <1>3, <1>4 DEF Given

\* What is out are numbers of bytes.
LEMMA OutFacts ==
    ASSUME ThrottleTypes, Places
    PROVE  /\ \A d \in Conns : Out[d] = given[d] - got[d] /\ Out[d] \in Nat
           /\ AllOut \in Int
<1>1. \A d \in Conns : Out[d] = given[d] - got[d] /\ Out[d] \in Nat
  <2> TAKE d \in Conns
  <2>1. given[d] \in Nat /\ got[d] \in Nat BY ChunkFacts DEF ThrottleTypes
  <2>2. got[d] <= given[d] BY DEF Places
  <2>3. Out[d] = given[d] - got[d] BY DEF Out
  <2> QED BY <2>1, <2>2, <2>3
<1> QED BY <1>1, SumFacts, Constants DEF AllOut

\* It changes as it does for the connection that acts.
LEMMA OutChange ==
    ASSUME ThrottleTypes, Places, ThrottleTypes', Places', NEW c \in Conns,
           \A d \in Conns \ {c} : given'[d] = given[d] /\ got'[d] = got[d]
    PROVE  AllOut' = AllOut - (given[c] - got[c]) + (given'[c] - got'[c])
<1>1. \A d \in Conns : Out[d] = given[d] - got[d] /\ Out[d] \in Nat
  BY OutFacts
<1>2. \A d \in Conns : Out'[d] = given'[d] - got'[d] /\ Out'[d] \in Nat
  <2> TAKE d \in Conns
  <2>1. given'[d] \in Nat /\ got'[d] \in Nat BY ChunkFacts DEF ThrottleTypes
  <2>2. got'[d] <= given'[d] BY DEF Places
  <2>3. Out'[d] = given'[d] - got'[d] BY DEF Out
  <2> QED BY <2>1, <2>2, <2>3
<1>3. \A d \in Conns \ {c} : Out[d] = Out'[d]
  BY <1>1, <1>2
<1>4. SumFunctionOnSet(Out', Conns) = SumFunctionOnSet(Out, Conns) - Out[c] + Out'[c]
  BY <1>1, <1>2, <1>3, SumChange, Constants
<1> QED BY <1>1, <1>2, <1>4 DEF AllOut

LEMMA OutSame ==
    ASSUME UNCHANGED <<given, got>>
    PROVE  AllOut' = AllOut
  BY DEF AllOut, Out

\* A new window, for the connection that asks.
LEMMA AnewFacts ==
    ASSUME ThrottleTypes, Places, NEW c \in Conns, given[c] = 0, got[c] = 0, Anew(c)
    PROVE  /\ window' = 0 /\ carried' \in Nat /\ steady' \in BOOLEAN
           /\ steady' => /\ \A d \in Conns \ {c} : given[d] <= Chunk
                         /\ carried' = AllOut
                         /\ carried' <= ThrottleRoom
<1>1. steady' = \A d \in Conns \ {c} : given[d] < SizeMax
  BY DEF Anew
<1>2. CASE ~steady'
  BY <1>1, <1>2 DEF Anew
<1>3. CASE steady'
  <2>1. ASSUME NEW d \in Conns \ {c} PROVE given[d] <= Chunk
    <3>1. given[d] < SizeMax BY <1>1, <1>3
    <3>2. given[d] \in Chunks BY DEF ThrottleTypes
    <3> QED BY <3>1, <3>2, ChunkFacts
  <2>2. \A d \in Conns : Out[d] = given[d] - got[d] /\ Out[d] \in Nat
    BY OutFacts
  <2>3. \A d \in Conns : Out[d] \in 0 .. Chunk
    <3> TAKE d \in Conns
    <3>1. CASE d = c BY <3>1, <2>2, Constants
    <3>2. CASE d # c
      <4>1. given[d] \in Nat /\ got[d] \in Nat BY ChunkFacts DEF ThrottleTypes
      <4> QED BY <4>1, <3>2, <2>1, <2>2, Constants
    <3> QED BY <3>1, <3>2
  <2>4. AllOut \in 0 .. ThrottleRoom
    BY <2>3, SumBounds, Constants DEF AllOut, ThrottleRoom
  <2>5. AllOut = Out[c] + SumFunctionOnSet(Out, Conns \ {c})
    BY <2>2, SumFacts, Constants DEF AllOut
  <2>6. Out[c] = 0 /\ carried' = SumFunctionOnSet(Out, Conns \ {c}) /\ window' = 0
    <3>1. Out[c] = 0 BY <2>2
    <3>2. Outstanding(c) = SumFunctionOnSet(Out, Conns \ {c}) BY DEF Outstanding, Out
    <3> QED BY <3>1, <3>2, <1>3 DEF Anew
  <2>7. carried' = AllOut
    <3> DEFINE rest == SumFunctionOnSet(Out, Conns \ {c})
    <3>1. AllOut = 0 + rest /\ carried' = rest BY <2>5, <2>6
    <3>2. rest \in Int
      <4>1. IsFiniteSet(Conns \ {c}) BY FS_Subset, Constants
      <4>2. \A d \in Conns \ {c} : Out[d] \in Int BY <2>2
      <4> QED BY <4>1, <4>2, SumFacts
    <3> HIDE DEF rest
    <3> QED BY <3>1, <3>2
  <2> QED BY <1>3, <2>1, <2>4, <2>6, <2>7
<1> QED BY <1>1, <1>2, <1>3

-----------------------------------------------------------------------------
(* The invariant is one. *)

LEMMA InitIInv == ThrottleInit => ThrottleIInv
<1> SUFFICES ASSUME ThrottleInit PROVE ThrottleIInv
  OBVIOUS
<1>1. ThrottleTypes
  <2>1. 0 \in Chunks /\ 0 \in 0 .. SizeMax BY Constants, ChunkFacts
  <2> QED BY <2>1 DEF ThrottleInit, ThrottleTypes
<1>2. Places
  BY DEF ThrottleInit, Places
<1>3. Counted
  <2>1. \A d \in Conns : Out[d] \in 0 .. 0
    BY DEF ThrottleInit, Out
  <2>2. AllOut \in 0 .. 0 * Cardinality(Conns)
    BY <2>1, SumBounds, Constants DEF AllOut
  <2>3. Cardinality(Conns) \in Nat
    BY FS_CardinalityType, Constants
  <2>4. AllOut = 0
    BY <2>2, <2>3
  <2>5. 0 <= ThrottleRoom /\ \A d \in Conns : given[d] <= Chunk
    BY Constants DEF ThrottleInit
  <2>6. quota \in Nat /\ Signed = 0
    BY Constants DEF ThrottleInit, Signed
  <2> QED BY <2>4, <2>5, <2>6 DEF ThrottleInit, Counted
<1> QED BY <1>1, <1>2, <1>3 DEF ThrottleIInv

\* What does not concern the bytes does not disturb their count.
LEMMA CountedSame ==
    ASSUME ThrottleIInv, UNCHANGED <<enabled, quota, accum, given, got, window, carried, steady>>
    PROVE  Counted'
  BY OutSame DEF ThrottleIInv, Counted, Signed

LEMMA Unsteadily == ASSUME Unsteady PROVE Counted' /\ window' \in Nat /\ carried' \in Nat /\ steady' \in BOOLEAN
  BY DEF Unsteady, Counted

LEMMA ChangeFacts == ASSUME ThrottleTypes, Change PROVE nchanges' \in Nat
<1>1. nchanges \in Nat /\ nchanges' = nchanges + 1 BY DEF ThrottleTypes, Change
<1> QED BY <1>1

\* The loop, the cancel event and the clock.
LEMMA StartStep == ASSUME ThrottleIInv, NEW c \in Conns, Start(c) PROVE ThrottleIInv'
<1>1. ThrottleTypes' BY DEF ThrottleIInv, ThrottleTypes, Start
<1>2. Places' BY DEF ThrottleIInv, ThrottleTypes, Places, Start
<1> QED BY <1>1, <1>2, CountedSame DEF ThrottleIInv, Start

LEMMA LoopStep == ASSUME ThrottleIInv, NEW c \in Conns, Loop(c) PROVE ThrottleIInv'
<1>1. ThrottleTypes' BY DEF ThrottleIInv, ThrottleTypes, Loop
<1>2. Places' BY DEF ThrottleIInv, ThrottleTypes, Places, Loop
<1> QED BY <1>1, <1>2, CountedSame DEF ThrottleIInv, Loop

LEMMA CancelStep == ASSUME ThrottleIInv, NEW c \in Conns, Cancel(c) PROVE ThrottleIInv'
<1>1. ThrottleTypes' BY DEF ThrottleIInv, ThrottleTypes, Cancel
<1>2. Places' BY DEF ThrottleIInv, ThrottleTypes, Places, Cancel
<1> QED BY <1>1, <1>2, CountedSame DEF ThrottleIInv, Cancel

LEMMA SecondStep == ASSUME ThrottleIInv, Second PROVE ThrottleIInv'
<1>1. ThrottleTypes' BY DEF ThrottleIInv, ThrottleTypes, Second
<1>2. Places' BY DEF ThrottleIInv, ThrottleTypes, Places, Second
<1> QED BY <1>1, <1>2, CountedSame DEF ThrottleIInv, Second

\* The commands of the engine.
LEMMA EngineStep == ASSUME ThrottleIInv, set_throttle \/ set_throttle_value PROVE ThrottleIInv'
<1>0. Counted' /\ window' \in Nat /\ carried' \in Nat /\ steady' \in BOOLEAN
  BY Unsteadily DEF set_throttle, set_throttle_value
<1>a. nchanges' \in Nat BY ChangeFacts DEF set_throttle, set_throttle_value, ThrottleIInv
<1>b. quota' \in Quotas /\ enabled' \in BOOLEAN
  BY DEF set_throttle, set_throttle_value, ThrottleIInv, ThrottleTypes
<1>1. ThrottleTypes' BY <1>0, <1>a, <1>b DEF ThrottleIInv, ThrottleTypes, set_throttle, set_throttle_value
<1>2. Places' BY DEF ThrottleIInv, ThrottleTypes, Places, set_throttle, set_throttle_value
<1> QED BY <1>0, <1>1, <1>2 DEF ThrottleIInv

\* What give_quota does to the variables it writes, whatever it reads.
LEMMA GiveQuota ==
    ASSUME ThrottleIInv, NEW c \in Conns, NEW q1 \in Quotas, NEW q2 \in Quotas, NEW q3 \in Quotas,
           give_quota(c, q1, q2, q3)
    PROVE  /\ given' \in [Conns -> Chunks] /\ given' = [given EXCEPT ![c] = given'[c]]
           /\ accum' \in 0 .. SizeMax /\ elapsed' \in BOOLEAN
<1>1. CASE ~enabled
  BY <1>1, ChunkFacts DEF ThrottleIInv, ThrottleTypes, give_quota
<1>2. CASE enabled
  <2>1. PICK a \in IF elapsed THEN 0 .. Max({q1 - 1, 0}) ELSE {accum} :
              /\ given' = [given EXCEPT ![c] = Given(a, q2, q3)]
              /\ accum' = Size(a + Given(a, q2, q3))
              /\ elapsed' = FALSE
    BY <1>2 DEF give_quota
  <2>2. a \in 0 .. SizeMax
    <3>1. q1 \in Nat /\ q1 < SizeMax BY Constants
    <3>2. elapsed => a \in Nat /\ a <= q1 BY <3>1, <2>1, FractionFacts
    <3>3. accum \in 0 .. SizeMax /\ SizeMax \in Nat BY Constants DEF ThrottleIInv, ThrottleTypes
    <3> QED BY <3>1, <3>2, <3>3, <2>1
  <2>3. Given(a, q2, q3) \in 0 .. Chunk
    BY <2>2, GivenFacts
  <2>4. Given(a, q2, q3) \in Chunks /\ a + Given(a, q2, q3) \in Int
    BY <2>2, <2>3, ChunkFacts, Constants
  <2>5. Size(a + Given(a, q2, q3)) \in 0 .. SizeMax
    BY <2>4, SizeFacts
  <2> QED BY <2>1, <2>4, <2>5 DEF ThrottleIInv, ThrottleTypes
<1> QED BY <1>1, <1>2

\* A connection that is given something receives, else it asks again.
LEMMA GivesPlaces ==
    ASSUME ThrottleIInv, NEW c \in Conns, pc[c] = "quota", Gives(c), given' \in [Conns -> Chunks],
           given' = [given EXCEPT ![c] = given'[c]], got' = got
    PROVE  /\ pc' \in [Conns -> {"idle", "loop", "quota", "receive", "give back"}]
           /\ Places'
<1>1. pc' \in [Conns -> {"idle", "loop", "quota", "receive", "give back"}]
  BY DEF ThrottleIInv, ThrottleTypes, Gives
<1>2. ASSUME NEW d \in Conns
      PROVE  /\ given'[d] # 0 <=> pc'[d] \in {"receive", "give back"}
             /\ pc'[d] # "give back" => got'[d] = 0
             /\ got'[d] <= given'[d]
  <2>1. CASE d = c
    <3>1. got'[c] = 0 /\ given'[c] \in Chunks BY DEF ThrottleIInv, Places
    <3>2. got'[c] <= given'[c] BY <3>1, ChunkFacts
    <3>3. pc'[c] = IF given'[c] = 0 THEN "quota" ELSE "receive" BY DEF ThrottleIInv, ThrottleTypes, Gives
    <3> QED BY <2>1, <3>1, <3>2, <3>3
  <2>2. CASE d # c
    BY <2>2 DEF ThrottleIInv, ThrottleTypes, Places, Gives
  <2> QED BY <2>1, <2>2
<1> QED BY <1>1, <1>2 DEF Places

LEMMA GiveRacingStep == ASSUME ThrottleIInv, NEW c \in Conns, GiveRacing(c) PROVE ThrottleIInv'
<1>0. /\ Counted' /\ window' \in Nat /\ carried' \in Nat /\ steady' \in BOOLEAN
      /\ pc[c] = "quota" /\ Gives(c) /\ UNCHANGED <<enabled, got, canceled>>
  BY Unsteadily DEF GiveRacing
<1>1. PICK q1, q2, q3 \in {quota, quota'} : give_quota(c, q1, q2, q3)
  BY DEF GiveRacing
<1>2. quota' \in Quotas /\ quota \in Quotas /\ nchanges' \in Nat
  BY ChangeFacts DEF GiveRacing, ThrottleIInv, ThrottleTypes
<1>3. /\ given' \in [Conns -> Chunks] /\ given' = [given EXCEPT ![c] = given'[c]]
      /\ accum' \in 0 .. SizeMax /\ elapsed' \in BOOLEAN
  <2>1. q1 \in Quotas /\ q2 \in Quotas /\ q3 \in Quotas BY <1>2
  <2> QED BY <1>1, <2>1, GiveQuota
<1>4. /\ pc' \in [Conns -> {"idle", "loop", "quota", "receive", "give back"}]
      /\ Places'
  BY <1>0, <1>3, GivesPlaces
<1>5. ThrottleTypes'
  BY <1>0, <1>2, <1>3, <1>4 DEF ThrottleIInv, ThrottleTypes
<1> QED BY <1>0, <1>4, <1>5 DEF ThrottleIInv

\* accum_ in a second in which the throttle stays on: unless it has wrapped
\* around it is what it counts.
LEMMA SignedFacts ==
    ASSUME ThrottleIInv, steady
    PROVE  /\ Signed \in Int /\ quota \in Nat /\ quota + ThrottleRoom <= SizeMax
           /\ accum \in 0 .. SizeMax /\ AllOut \in Nat /\ window \in Nat /\ carried \in Nat
           /\ carried <= ThrottleRoom /\ window + AllOut <= carried + Signed
           /\ accum <= quota => Signed = accum
           /\ accum > quota => Signed = accum - (SizeMax + 1)
<1>1. /\ quota \in Quotas /\ quota \in Nat /\ quota + ThrottleRoom <= SizeMax
      /\ accum \in 0 .. SizeMax /\ window \in Nat /\ carried \in Nat /\ SizeMax \in Nat
  BY Constants DEF ThrottleIInv, ThrottleTypes
<1>2. AllOut \in Nat
  <2>1. \A d \in Conns : Out[d] \in 0 .. Chunk
    <3> TAKE d \in Conns
    <3>1. Out[d] = given[d] - got[d] /\ Out[d] \in Nat BY OutFacts DEF ThrottleIInv
    <3>2. given[d] \in Nat /\ got[d] \in Nat BY ChunkFacts DEF ThrottleIInv, ThrottleTypes
    <3>3. given[d] <= Chunk BY DEF ThrottleIInv, Counted
    <3> QED BY <3>1, <3>2, <3>3, Constants
  <2>2. AllOut \in 0 .. ThrottleRoom
    BY <2>1, SumBounds, Constants DEF AllOut, ThrottleRoom
  <2> QED BY <2>2, Constants
<1> QED BY <1>1, <1>2 DEF ThrottleIInv, Counted, Signed

\* A number that has not wrapped around further than the connections' chunks
\* is found again in accum_.
LEMMA SignedSize ==
    ASSUME NEW n \in Int, 0 - ThrottleRoom <= n, n <= quota, quota \in Quotas
    PROVE  LET a == Size(n)
           IN  /\ a \in 0 .. SizeMax
               /\ n = IF a <= quota THEN a ELSE a - (SizeMax + 1)
<1>1. /\ quota \in Nat /\ quota + ThrottleRoom <= SizeMax /\ ThrottleRoom \in Nat /\ SizeMax \in Nat
  BY Constants
<1>2. n >= 0 => Size(n) = n
  BY <1>1, SizeFacts
<1>3. n < 0 => Size(n) = n + SizeMax + 1
  BY <1>1, SizeFacts
<1> HIDE DEF Size
<1> QED BY <1>1, <1>2, <1>3

LEMMA GiveStep == ASSUME ThrottleIInv, NEW c \in Conns, Give(c) PROVE ThrottleIInv'
<1>0. /\ pc[c] = "quota" /\ give_quota(c, quota, quota, quota) /\ Gives(c)
      /\ UNCHANGED <<enabled, quota, got, canceled, nchanges>>
      /\ quota \in Quotas
  BY DEF Give, ThrottleIInv, ThrottleTypes
<1>1. /\ given' \in [Conns -> Chunks] /\ given' = [given EXCEPT ![c] = given'[c]]
      /\ accum' \in 0 .. SizeMax /\ elapsed' \in BOOLEAN
  BY <1>0, GiveQuota
<1>2. /\ pc' \in [Conns -> {"idle", "loop", "quota", "receive", "give back"}]
      /\ Places'
  BY <1>0, <1>1, GivesPlaces
<1>3. given[c] = 0 /\ got[c] = 0
  BY <1>0 DEF ThrottleIInv, Places
<1>4. window' \in Nat /\ carried' \in Nat /\ steady' \in BOOLEAN
  <2>1. CASE enabled /\ elapsed
    BY <2>1, <1>3, AnewFacts DEF Give, ThrottleIInv
  <2>2. CASE ~(enabled /\ elapsed)
    BY <2>2 DEF Give, ThrottleIInv, ThrottleTypes
  <2> QED BY <2>1, <2>2
<1>5. ThrottleTypes'
  BY <1>0, <1>1, <1>2, <1>4 DEF ThrottleIInv, ThrottleTypes
<1>6. ASSUME steady' PROVE Counted'
  <2>1. enabled /\ enabled'
    <3>1. enabled \/ UNCHANGED steady BY DEF Give
    <3> QED BY <3>1, <1>6, <1>0 DEF ThrottleIInv, Counted
  <2>2. PICK a \in IF elapsed THEN 0 .. Max({quota - 1, 0}) ELSE {accum} :
              /\ given' = [given EXCEPT ![c] = Given(a, quota, quota)]
              /\ accum' = Size(a + Given(a, quota, quota))
    BY <2>1, <1>0 DEF give_quota
  <2> DEFINE g == Given(a, quota, quota)
  <2>3. given'[c] = g /\ \A d \in Conns \ {c} : given'[d] = given[d]
    BY <2>2 DEF ThrottleIInv, ThrottleTypes
  <2>4. AllOut' = AllOut + g
    <3>1. AllOut' = AllOut - (given[c] - got[c]) + (given'[c] - got'[c])
      BY <1>0, <1>2, <1>5, <2>3, OutChange DEF ThrottleIInv
    <3>2. AllOut \in Int BY OutFacts DEF ThrottleIInv
    <3>3. g \in Nat BY <1>1, <2>3, ChunkFacts
    <3> HIDE DEF g
    <3> QED BY <3>1, <3>2, <3>3, <2>3, <1>0, <1>3
  <2>5. /\ a \in 0 .. SizeMax /\ quota \in Nat /\ quota + ThrottleRoom <= SizeMax /\ ThrottleRoom \in Nat
        /\ elapsed => a <= quota /\ (a = quota => quota = 0)
        /\ ~elapsed => a = accum
    <3>1. quota \in Nat /\ quota + ThrottleRoom <= SizeMax /\ ThrottleRoom \in Nat /\ SizeMax \in Nat
      BY <1>0, Constants
    <3>2. elapsed => a \in Nat /\ a <= quota /\ (a = quota => quota = 0)
      BY <3>1, <2>2, FractionFacts
    <3>3. accum \in 0 .. SizeMax /\ (~elapsed => a = accum) BY <2>2 DEF ThrottleIInv, ThrottleTypes
    <3> QED BY <3>1, <3>2, <3>3, <2>2
  <2>6. g \in 0 .. Chunk /\ (a >= quota => g = 0) /\ (a < quota => a + g <= quota)
    BY <2>5, <1>0, GivenFacts
  <2>7. /\ a < quota \/ (elapsed /\ a <= quota) => accum' = a + g /\ accum' <= quota
        /\ a >= quota /\ ~elapsed => accum' = accum
    <3> DEFINE n == a + g
    <3>1. n \in Nat /\ (a < quota \/ (elapsed /\ a <= quota) => n <= quota)
      BY <2>5, <2>6, Constants
    <3>2. a >= quota /\ ~elapsed => n = accum BY <2>5, <2>6
    <3>3. n \in 0 .. SizeMax => Size(n) = n BY <3>1, SizeFacts
    <3>4. accum' = Size(n) BY <2>2
    <3>5. accum \in 0 .. SizeMax BY DEF ThrottleIInv, ThrottleTypes
    <3> HIDE DEF n
    <3>6. n <= quota => n \in 0 .. SizeMax BY <3>1, <2>5, Constants
    <3> QED BY <3>1, <3>2, <3>3, <3>4, <3>5, <3>6 DEF n
  <2> HIDE DEF g
  <2>8. CASE elapsed
    <3>1. /\ window' = 0 /\ carried' = AllOut /\ carried' <= ThrottleRoom
          /\ \A d \in Conns \ {c} : given[d] <= Chunk
      <4>1. Anew(c) BY <2>1, <2>8 DEF Give
      <4> QED BY <4>1, <1>3, <1>6, AnewFacts DEF ThrottleIInv
    <3>2. \A d \in Conns : given'[d] <= Chunk
      BY <2>3, <2>6, <3>1, Constants
    <3>3. Signed' = a + g
      BY <2>5, <2>6, <2>7, <2>8, <1>0 DEF Signed
    <3>4. AllOut \in Int BY OutFacts DEF ThrottleIInv
    <3>5. window' + AllOut' <= carried' + Signed'
      BY <3>1, <3>3, <3>4, <2>4, <2>5, <2>6, Constants
    <3> QED BY <2>1, <3>1, <3>2, <3>5 DEF Counted
  <2>9. CASE ~elapsed
    <3>0. UNCHANGED <<window, carried, steady>> /\ steady
      BY <2>9, <1>6 DEF Give
    <3>1. /\ Signed \in Int /\ accum \in 0 .. SizeMax /\ AllOut \in Nat /\ window \in Nat
          /\ carried \in Nat /\ carried <= ThrottleRoom /\ window + AllOut <= carried + Signed
          /\ accum <= quota => Signed = accum
      BY <3>0, SignedFacts
    <3>2. \A d \in Conns : given'[d] <= Chunk
      BY <3>0, <2>3, <2>6, Constants DEF ThrottleIInv, Counted
    <3>3. Signed' = Signed + g
      <4>1. CASE a < quota
        <5>1. Signed' = accum' BY <4>1, <2>7, <1>0 DEF Signed
        <5> QED BY <4>1, <5>1, <2>5, <2>7, <2>9, <3>1
      <4>2. CASE a >= quota
        <5>1. accum' = accum BY <4>2, <2>7, <2>9
        <5> QED BY <5>1, <4>2, <2>6, <1>0, <2>5, <3>1 DEF Signed
      <4> QED BY <4>1, <4>2, <2>5
    <3>4. window' + AllOut' <= carried' + Signed'
      BY <3>0, <3>1, <3>3, <2>4, <2>6
    <3> QED BY <3>0, <3>1, <2>1, <3>2, <3>4 DEF Counted
  <2> QED BY <2>8, <2>9
<1> QED BY <1>0, <1>2, <1>5, <1>6 DEF ThrottleIInv, Counted

\* recvsome takes at most the chunk: what was out has been received.
LEMMA ReceiveStep == ASSUME ThrottleIInv, NEW c \in Conns, Receive(c) PROVE ThrottleIInv'
<1>1. PICK n \in 1 .. Min({given[c], Chunk}) :
            got' = [got EXCEPT ![c] = n] /\ window' = IF steady THEN window + n ELSE 0
  BY DEF Receive
<1>2. /\ pc[c] = "receive" /\ pc' = [pc EXCEPT ![c] = "give back"]
      /\ UNCHANGED <<enabled, quota, accum, elapsed, given, canceled, carried, steady, nchanges>>
  BY DEF Receive
<1>3. given[c] \in Nat /\ got[c] = 0 /\ window \in Nat
  BY <1>2, ChunkFacts DEF ThrottleIInv, ThrottleTypes, Places
<1>4. n \in Nat /\ n <= given[c]
  <2>1. Min({given[c], Chunk}) \in Nat /\ Min({given[c], Chunk}) <= given[c]
    BY <1>3, MinOfTwo, Constants
  <2> QED BY <2>1, <1>3
<1>5. ThrottleTypes'
  <2>1. window' \in Nat BY <1>1, <1>3, <1>4
  <2>2. got' \in [Conns -> Nat] BY <1>1, <1>4 DEF ThrottleIInv, ThrottleTypes
  <2> QED BY <2>1, <2>2, <1>2 DEF ThrottleIInv, ThrottleTypes
<1>6. Places'
  <2>1. ASSUME NEW d \in Conns
        PROVE  /\ given'[d] # 0 <=> pc'[d] \in {"receive", "give back"}
               /\ pc'[d] # "give back" => got'[d] = 0
               /\ got'[d] <= given'[d]
    <3>1. CASE d = c
      <4>1. got'[c] = n /\ pc'[c] = "give back" BY <1>1, <1>2 DEF ThrottleIInv, ThrottleTypes
      <4> QED BY <4>1, <3>1, <1>2, <1>4 DEF ThrottleIInv, Places
    <3>2. CASE d # c BY <3>2, <1>1, <1>2 DEF ThrottleIInv, ThrottleTypes, Places
    <3> QED BY <3>1, <3>2
  <2> QED BY <2>1 DEF Places
<1>7. Counted'
  <2> SUFFICES ASSUME steady PROVE Counted'
    BY <1>2 DEF Counted
  <2>1. /\ Signed \in Int /\ AllOut \in Nat /\ window + AllOut <= carried + Signed
        /\ carried \in Nat
    BY SignedFacts
  <2>2. AllOut' = AllOut - n
    <3>1. \A d \in Conns \ {c} : given'[d] = given[d] /\ got'[d] = got[d]
      BY <1>1, <1>2 DEF ThrottleIInv, ThrottleTypes
    <3>2. AllOut' = AllOut - (given[c] - got[c]) + (given'[c] - got'[c])
      BY <3>1, <1>5, <1>6, OutChange DEF ThrottleIInv
    <3>3. got'[c] = n /\ given'[c] = given[c] BY <1>1, <1>2 DEF ThrottleIInv, ThrottleTypes
    <3> QED BY <3>2, <3>3, <1>3, <1>4, <2>1
  <2>3. Signed' = Signed BY <1>2 DEF Signed
  <2>4. window' = window + n /\ carried' = carried /\ n \in Nat /\ window \in Nat
    BY <1>1, <1>2, <1>3, <1>4
  <2>5. window' + AllOut' <= carried' + Signed'
    BY <2>1, <2>2, <2>3, <2>4
  <2> QED BY <2>5, <1>2 DEF ThrottleIInv, Counted
<1> QED BY <1>5, <1>6, <1>7 DEF ThrottleIInv

\* What a connection has been given is no longer out, received or not.
LEMMA ReturnedFacts ==
    ASSUME ThrottleIInv, NEW c \in Conns, NEW next \in {"loop", "idle"}, Returned(c, next),
           accum' \in 0 .. SizeMax,
           UNCHANGED <<enabled, quota, elapsed, canceled, window, carried, steady, nchanges>>
    PROVE  /\ ThrottleTypes' /\ Places'
           /\ AllOut' = AllOut - (given[c] - got[c])
           /\ steady => /\ \A d \in Conns : given'[d] <= Chunk
                        /\ given[c] - got[c] \in 0 .. AllOut
<1>1. ThrottleTypes'
  <2>1. 0 \in Chunks BY ChunkFacts
  <2>2. /\ given' \in [Conns -> Chunks] /\ got' \in [Conns -> Nat]
        /\ pc' \in [Conns -> {"idle", "loop", "quota", "receive", "give back"}]
    BY <2>1 DEF ThrottleIInv, ThrottleTypes, Returned
  <2> QED BY <2>2 DEF ThrottleIInv, ThrottleTypes
<1>2. Places'
  <2>1. ASSUME NEW d \in Conns
        PROVE  /\ given'[d] # 0 <=> pc'[d] \in {"receive", "give back"}
               /\ pc'[d] # "give back" => got'[d] = 0
               /\ got'[d] <= given'[d]
    <3>1. CASE d = c
      <4>1. given'[d] = 0 /\ got'[d] = 0 /\ pc'[d] = next
        BY <3>1 DEF ThrottleIInv, ThrottleTypes, Returned
      <4>2. pc'[d] \notin {"receive", "give back"} /\ pc'[d] # "give back" BY <4>1
      <4>3. got'[d] <= given'[d] BY <4>1
      <4>4. given'[d] = 0 BY <4>1
      <4>5. got'[d] = 0 BY <4>1
      <4> QED BY <4>2, <4>3, <4>4, <4>5, Zenon
    <3>2. CASE d # c BY <3>2 DEF ThrottleIInv, ThrottleTypes, Places, Returned
    <3> QED BY <3>1, <3>2
  <2> QED BY <2>1 DEF Places
<1>3. /\ \A d \in Conns \ {c} : given'[d] = given[d] /\ got'[d] = got[d]
      /\ given'[c] = 0 /\ got'[c] = 0
  BY DEF ThrottleIInv, ThrottleTypes, Returned
<1>4. AllOut \in Int /\ given[c] \in Nat /\ got[c] \in Nat
  BY OutFacts, ChunkFacts DEF ThrottleIInv, ThrottleTypes
<1>5. AllOut' = AllOut - (given[c] - got[c])
  <2>1. AllOut' = AllOut - (given[c] - got[c]) + (given'[c] - got'[c])
    BY <1>1, <1>2, <1>3, OutChange DEF ThrottleIInv
  <2> DEFINE g == given[c] h == got[c]
  <2>2. AllOut' = AllOut - (g - h) + (0 - 0) /\ AllOut \in Int /\ g \in Nat /\ h \in Nat
    BY <2>1, <1>3, <1>4
  <2> HIDE DEF g, h
  <2>3. AllOut' = AllOut - (g - h) BY <2>2
  <2> QED BY <2>3 DEF g, h
<1>6. ASSUME steady
      PROVE  /\ \A d \in Conns : given'[d] <= Chunk
             /\ given[c] - got[c] \in 0 .. AllOut
  <2>1. \A d \in Conns : given'[d] <= Chunk
    <3>1. Chunk \in Nat BY Constants
    <3>2. \A d \in Conns : given[d] <= Chunk BY <1>6 DEF ThrottleIInv, Counted
    <3> QED BY <1>3, <3>1, <3>2
  <2>2. \A d \in Conns : Out'[d] \in 0 .. Chunk
    <3> TAKE d \in Conns
    <3>1. given'[d] \in Nat /\ got'[d] \in Nat BY <1>1, ChunkFacts DEF ThrottleTypes
    <3>2. Out'[d] = given'[d] - got'[d] BY DEF Out
    <3>3. got'[d] <= given'[d] BY <1>2 DEF Places
    <3> DEFINE g == given'[d] h == got'[d]
    <3>4. Out'[d] = g - h /\ h <= g /\ g \in Nat /\ h \in Nat /\ g <= Chunk /\ Chunk \in Nat
      BY <3>1, <3>2, <3>3, <2>1, Constants
    <3> HIDE DEF g, h
    <3> QED BY <3>4
  <2>3. AllOut' \in 0 .. ThrottleRoom
    <3>1. SumFunctionOnSet(Out', Conns) \in 0 .. Chunk * Cardinality(Conns)
      BY <2>2, SumBounds, Constants
    <3> QED BY <3>1 DEF AllOut, ThrottleRoom
  <2>4. got[c] <= given[c] BY DEF ThrottleIInv, Places
  <2> DEFINE g == given[c] h == got[c]
  <2>5. /\ h <= g /\ g \in Nat /\ h \in Nat /\ AllOut \in Int
        /\ AllOut - (g - h) \in 0 .. ThrottleRoom /\ ThrottleRoom \in Nat
    BY <2>3, <2>4, <1>4, <1>5, Constants
  <2> HIDE DEF g, h
  <2>6. g - h \in 0 .. AllOut BY <2>5
  <2> QED BY <2>1, <2>6 DEF g, h
<1> QED BY <1>1, <1>2, <1>5, <1>6

LEMMA ClosedStep == ASSUME ThrottleIInv, NEW c \in Conns, Closed(c) PROVE ThrottleIInv'
<1>1. /\ pc[c] = "receive" /\ Returned(c, "idle")
      /\ UNCHANGED <<enabled, quota, accum, elapsed, canceled, window, carried, steady, nchanges>>
  BY DEF Closed
<1>2. /\ ThrottleTypes' /\ Places' /\ AllOut' = AllOut - (given[c] - got[c])
      /\ steady => /\ \A d \in Conns : given'[d] <= Chunk
                   /\ given[c] - got[c] \in 0 .. AllOut
  <2>1. accum \in 0 .. SizeMax BY DEF ThrottleIInv, ThrottleTypes
  <2> QED BY <1>1, <2>1, ReturnedFacts
<1>3. Counted'
  <2> SUFFICES ASSUME steady PROVE Counted'
    BY <1>1 DEF Counted
  <2>1. /\ Signed \in Int /\ AllOut \in Nat /\ window + AllOut <= carried + Signed
        /\ carried \in Nat /\ window \in Nat
    BY SignedFacts
  <2>2. Signed' = Signed BY <1>1 DEF Signed
  <2>3. window' + AllOut' <= carried' + Signed'
    BY <1>1, <1>2, <2>1, <2>2
  <2> QED BY <2>3, <1>1, <1>2 DEF ThrottleIInv, Counted
<1> QED BY <1>2, <1>3 DEF ThrottleIInv

\* What was not used is given back; accum_ may wrap around.
LEMMA GiveBackStep == ASSUME ThrottleIInv, NEW c \in Conns, GiveBack(c) PROVE ThrottleIInv'
<1>1. /\ pc[c] = "give back" /\ accum' = accumulate(got[c], given[c])
      /\ UNCHANGED <<enabled, quota, elapsed, canceled, window, carried, steady, nchanges>>
  BY DEF GiveBack
<1>2. PICK next \in {"loop", "idle"} : Returned(c, next)
  BY DEF GiveBack
<1> DEFINE r == given[c] - got[c]
<1>3. r \in Int /\ accum \in 0 .. SizeMax
  <2>1. given[c] \in Nat /\ got[c] \in Nat BY ChunkFacts DEF ThrottleIInv, ThrottleTypes
  <2>2. r \in Int BY <2>1
  <2>3. accum \in 0 .. SizeMax BY DEF ThrottleIInv, ThrottleTypes
  <2> QED BY <2>2, <2>3
<1>4. accum' = IF enabled THEN Size(accum - r) ELSE accum
  BY <1>1 DEF accumulate
<1>5. accum' \in 0 .. SizeMax
  <2> HIDE DEF r
  <2>1. accum - r \in Int BY <1>3
  <2> QED BY <2>1, <1>3, <1>4, SizeFacts
<1>6. /\ ThrottleTypes' /\ Places' /\ AllOut' = AllOut - r
      /\ steady => (\A d \in Conns : given'[d] <= Chunk) /\ r \in 0 .. AllOut
  BY <1>1, <1>2, <1>5, ReturnedFacts
<1> HIDE DEF r
<1>7. Counted'
  <2> SUFFICES ASSUME steady PROVE Counted'
    BY <1>1 DEF Counted
  <2>1. /\ Signed \in Int /\ quota \in Nat /\ quota + ThrottleRoom <= SizeMax
        /\ AllOut \in Nat /\ window \in Nat /\ carried \in Nat
        /\ carried <= ThrottleRoom /\ window + AllOut <= carried + Signed
        /\ accum <= quota => Signed = accum
        /\ accum > quota => Signed = accum - (SizeMax + 1)
    BY SignedFacts
  <2>2. quota \in Quotas /\ enabled /\ ThrottleRoom \in Nat /\ SizeMax \in Nat
    BY Constants DEF ThrottleIInv, ThrottleTypes, Counted
  <2> DEFINE n == Signed - r
  <2>3. n \in Int /\ 0 - ThrottleRoom <= n /\ n <= quota
    <3>1. Signed <= quota BY <2>1, <2>2, <1>3
    <3> QED BY <3>1, <2>1, <2>2, <1>3, <1>6
  <2>4. Size(accum - r) = Size(n)
    <3>1. CASE accum <= quota BY <3>1, <2>1
    <3>2. CASE accum > quota
      <4>1. accum - r = n + SizeMax + 1 /\ n < 0 /\ n + SizeMax + 1 >= 0
        BY <3>2, <2>1, <2>2, <2>3, <1>3, <1>6
      <4>2. Size(n) = n + SizeMax + 1 BY <2>3, <4>1, SizeFacts
      <4>3. n + SizeMax + 1 \in 0 .. SizeMax BY <2>2, <2>3, <4>1
      <4>4. Size(n + SizeMax + 1) = n + SizeMax + 1
        <5> DEFINE k == n + SizeMax + 1
        <5>1. k \in 0 .. SizeMax /\ k \in Int BY <4>3, <2>2, <2>3
        <5> HIDE DEF k, n
        <5>2. Size(k) = k BY <5>1, SizeFacts
        <5> QED BY <5>2 DEF k
      <4> QED BY <4>1, <4>2, <4>4
    <3> QED BY <3>1, <3>2, <1>3, <2>1
  <2> HIDE DEF n
  <2>5. accum' = Size(n) BY <1>4, <2>2, <2>4
  <2>6. n = IF accum' <= quota THEN accum' ELSE accum' - (SizeMax + 1)
    BY <2>2, <2>3, <2>5, SignedSize
  <2>7. Signed' = n BY <2>6, <1>1 DEF Signed
  <2>8. window' + AllOut' <= carried' + Signed'
    <3>1. window' = window /\ carried' = carried /\ AllOut' = AllOut - r /\ Signed' = Signed - r
      BY <2>7, <1>1, <1>6 DEF n
    <3> QED BY <3>1, <2>1, <1>3
  <2> QED BY <2>1, <2>2, <2>8, <1>1, <1>6 DEF Counted
<1> QED BY <1>6, <1>7 DEF ThrottleIInv

\* Every step keeps the invariant.
LEMMA StepIInv == ThrottleIInv /\ [ThrottleNext]_throttleVars => ThrottleIInv'
<1> SUFFICES ASSUME ThrottleIInv, [ThrottleNext]_throttleVars PROVE ThrottleIInv'
  OBVIOUS
<1>1. ASSUME NEW c \in Conns,
             \/ Start(c) \/ Loop(c) \/ Give(c) \/ GiveRacing(c) \/ Receive(c)
             \/ Closed(c) \/ GiveBack(c) \/ Cancel(c)
      PROVE  ThrottleIInv'
  BY <1>1, StartStep, LoopStep, GiveStep, GiveRacingStep, ReceiveStep, ClosedStep,
     GiveBackStep, CancelStep
<1>2. CASE Second
  BY <1>2, SecondStep
<1>3. CASE set_throttle \/ set_throttle_value
  BY <1>3, EngineStep
<1>4. CASE UNCHANGED throttleVars
  <2>1. ThrottleTypes' /\ Places' BY <1>4 DEF throttleVars, ThrottleIInv, ThrottleTypes, Places
  <2> QED BY <1>4, <2>1, CountedSame DEF throttleVars, ThrottleIInv
<1> QED BY <1>1, <1>2, <1>3, <1>4 DEF ThrottleNext

\* The invariant is what the throttle promises: in each second in which it is
\* on, with one quota, the bytes received are within the quota and what was out
\* when the second began, also when accum_ has wrapped around.
LEMMA IInvBounded == ThrottleIInv => Bounded
<1> SUFFICES ASSUME ThrottleIInv PROVE Bounded
  OBVIOUS
<1>1. ThrottleTypeOK
  <2>1. ASSUME NEW c \in Conns
        PROVE  /\ pc[c] \in {"idle", "loop", "quota", "receive", "give back"}
               /\ got[c] \in 0 .. given[c] /\ canceled[c] \in BOOLEAN
               /\ given[c] # 0 <=> pc[c] \in {"receive", "give back"}
    <3>1. given[c] \in Nat /\ got[c] \in Nat /\ got[c] <= given[c]
      BY ChunkFacts DEF ThrottleIInv, ThrottleTypes, Places
    <3>2. pc[c] \in {"idle", "loop", "quota", "receive", "give back"} /\ canceled[c] \in BOOLEAN
      BY DEF ThrottleIInv, ThrottleTypes
    <3>3. given[c] # 0 <=> pc[c] \in {"receive", "give back"} BY DEF ThrottleIInv, Places
    <3>4. got[c] \in 0 .. given[c] BY <3>1
    <3> QED BY <3>2, <3>3, <3>4
  <2> QED BY <2>1 DEF ThrottleIInv, ThrottleTypes, ThrottleTypeOK
<1>2. WindowBound
  <2> SUFFICES ASSUME steady PROVE window <= quota + carried
    BY DEF WindowBound
  <2>1. /\ Signed \in Int /\ quota \in Nat /\ quota + ThrottleRoom <= SizeMax
        /\ accum \in 0 .. SizeMax /\ AllOut \in Nat /\ window \in Nat /\ carried \in Nat
        /\ window + AllOut <= carried + Signed
        /\ accum <= quota => Signed = accum
        /\ accum > quota => Signed = accum - (SizeMax + 1)
    BY SignedFacts
  <2>2. SizeMax \in Nat BY Constants
  <2>3. Signed <= quota BY <2>1, <2>2
  <2> QED BY <2>1, <2>3
<1> QED BY <1>1, <1>2 DEF Bounded

THEOREM SecondsAreBounded == ThrottleSpec => []Bounded
<1>1. ThrottleSpec => []ThrottleIInv
  BY InitIInv, StepIInv, PTL DEF ThrottleSpec
<1> QED BY <1>1, IInvBounded, PTL
=============================================================================
