------------------------ MODULE PostProcessingProofs ------------------------
(***************************************************************************)
(* Proofs about PostProcessing: folders are repaired before they are       *)
(* unpacked and unpacked once, the computer is not switched off too early, *)
(* and the ASSERTs hold unless a repair's process died; for any folders,   *)
(* recovery sets and nested archives, and any number of crashes, commands  *)
(* and archives the user adds.                                             *)
(***************************************************************************)
EXTENDS PostProcessingProperties, CollectionFacts

-----------------------------------------------------------------------------
(* The inductive invariant, of the objects s that Now gathers.             *)

Kinds   == {"repair", "unpack"}
Archive == [kind : Kinds, managed : BOOLEAN, folder : Folders, file : Files]
Row     == [guid : Nat, state : Statuses]
Worker  == [list : Seq(Row), running : BOOLEAN, dying : BOOLEAN, cur : Nat,
            state : Statuses, enabled : BOOLEAN]
Manager == [repairs : [Folders -> Nat], unpacks : SUBSET (Folders \X Files),
            pending : SUBSET Nat]
Power   == [downloads : BOOLEAN, repairs : BOOLEAN, unpacks : BOOLEAN, off : BOOLEAN,
            numRepairs : Int, numUnpacks : Int, numArchives : Nat, numTasks : Nat]
State   == [arcs : Seq(Archive), rep : Worker, unp : Worker, man : Manager, pow : Power,
            disk : [Folders -> Seq(Files)], aborted : BOOLEAN]

Ids(s)         == 1 .. Len(s.arcs)
Of(s, k)       == {g \in Ids(s) : s.arcs[g].kind = k}
ManagedOf(s, k) == {g \in Of(s, k) : s.arcs[g].managed}

\* The list of a worker holds archives of G, each once.  While the worker is
\* busy with an archive, that one does not wait in the list, and no other is
\* active.
Lined(w, G, busy) ==
    /\ \A i \in 1 .. Len(w.list) :
           /\ w.list[i].guid \in G
           /\ w.list[i].state = "Active" => busy /\ w.list[i].guid = w.cur
           /\ w.list[i].state = "Queued" => ~(busy /\ w.list[i].guid = w.cur)
    /\ \A i, j \in 1 .. Len(w.list) : w.list[i].guid = w.list[j].guid => i = j
    /\ busy => w.cur \in G

Waiting(w) == {w.list[i].guid : i \in Rows(w, "Queued")}

\* What the manager knows of the archives; P are the folders still to come,
\* D the archives whose process died, R and V those the workers have to do.
RepairsOf(s, R, f) == {g \in R : s.arcs[g].managed /\ s.arcs[g].folder = f}
RepairDied(s, D, f) == \E d \in D : s.arcs[d].kind = "repair" /\ s.arcs[d].folder = f

Known(s, P, D, R, V) ==
    /\ D \subseteq Ids(s) /\ R \subseteq Of(s, "repair") /\ V \subseteq Of(s, "unpack")
    /\ \A g \in s.man.pending : g \in Ids(s) /\ s.arcs[g].managed
    /\ \A g \in Ids(s) : s.arcs[g].managed => s.arcs[g].folder \notin P
    /\ \A f \in P : s.man.repairs[f] = 0
    /\ \A f \in Folders : IsInjective(s.disk[f])

Expected(s, P) ==
    /\ \A g \in ManagedOf(s, "unpack") : <<s.arcs[g].folder, s.arcs[g].file>> \in s.man.unpacks
    /\ \A g, h \in ManagedOf(s, "unpack") :
           s.arcs[g].folder = s.arcs[h].folder /\ s.arcs[g].file = s.arcs[h].file => g = h
    /\ \A u \in s.man.unpacks : u[1] \notin P /\ s.man.repairs[u[1]] = 0

RepairsLeft(s, D, R) ==
    \A f \in Folders :
        RepairDied(s, D, f) \/ Cardinality(RepairsOf(s, R, f)) <= s.man.repairs[f]

\* What Poweroff knows as long as every process ends by itself.
Tallied(s, D, R, V) ==
    D = {} => /\ Cardinality(R) <= s.pow.numRepairs
              /\ Cardinality(V) <= s.pow.numUnpacks
              /\ \A g \in R \cup V : s.arcs[g].managed => g \in s.man.pending

Ledger(s, P, D, R, V) ==
    Known(s, P, D, R, V) /\ Expected(s, P) /\ RepairsLeft(s, D, R) /\ Tallied(s, D, R, V)

MayBeOff(p) ==
    /\ p.downloads => p.numTasks = 0
    /\ p.repairs => p.numRepairs = 0
    /\ p.unpacks => p.numUnpacks = 0
    /\ p.repairs \/ p.unpacks => p.numArchives = 0
Switched(s, D) ==
    D = {} => s.pow.numArchives = Cardinality(s.man.pending) /\ (s.pow.off => MayBeOff(s.pow))

Sound(s, D) == s.aborted => \E d \in D : s.arcs[d].kind = "repair"

Inv(s, P, D) ==
    /\ s \in State
    /\ P \subseteq Folders /\ s.pow.numTasks = Cardinality(P)
    /\ Lined(s.rep, Of(s, "repair"), s.rep.running)
    /\ Lined(s.unp, Of(s, "unpack"), s.unp.running)
    /\ Ledger(s, P, D, Unfinished(s.rep), Unfinished(s.unp))
    /\ Switched(s, D)

IInv == Inv(Now, packs, died) /\ AssertsHold

-----------------------------------------------------------------------------
(* Sets and the archives made.                                             *)

LEMMA CardPlus ==
    ASSUME NEW S, NEW T, IsFiniteSet(S), IsFiniteSet(T)
    PROVE  /\ IsFiniteSet(S \cup T)
           /\ Cardinality(S) \in Nat /\ Cardinality(T) \in Nat /\ Cardinality(S \cup T) \in Nat
           /\ Cardinality(S \cup T) <= Cardinality(S) + Cardinality(T)
           /\ S \cap T = {} => Cardinality(S \cup T) = Cardinality(S) + Cardinality(T)
<1>1. IsFiniteSet(S \cap T) /\ IsFiniteSet(S \cup T)
  BY FS_Union, FS_Subset
<1>2. /\ Cardinality(S) \in Nat /\ Cardinality(T) \in Nat /\ Cardinality(S \cup T) \in Nat
      /\ Cardinality(S \cap T) \in Nat
  BY <1>1, FS_CardinalityType
<1>3. Cardinality(S \cup T) = Cardinality(S) + Cardinality(T) - Cardinality(S \cap T)
  BY FS_Union
<1>4. S \cap T = {} => Cardinality(S \cap T) = 0
  BY FS_EmptySet
<1> QED BY <1>1, <1>2, <1>3, <1>4

LEMMA CardLess ==
    ASSUME NEW S, NEW x, IsFiniteSet(S)
    PROVE  /\ IsFiniteSet(S \ {x})
           /\ Cardinality(S) \in Nat /\ Cardinality(S \ {x}) \in Nat
           /\ Cardinality(S \ {x}) = IF x \in S THEN Cardinality(S) - 1 ELSE Cardinality(S)
<1>1. x \notin S => S \ {x} = S
  OBVIOUS
<1> QED BY <1>1, FS_RemoveElement, FS_CardinalityType, FS_Subset

\* The new archives of t, made of files.
Grown(s, t, k, m, f, files) ==
    /\ Len(t.arcs) = Len(s.arcs) + Len(files)
    /\ \A g \in Ids(s) : t.arcs[g] = s.arcs[g]
    /\ \A g \in NewGuids(s, t) :
           t.arcs[g] = [kind |-> k, managed |-> m, folder |-> f, file |-> files[g - Len(s.arcs)]]

LEMMA GrownFacts ==
    ASSUME NEW s \in State, NEW t \in State, NEW k \in Kinds, NEW m \in BOOLEAN,
           NEW f \in Folders, NEW files \in Seq(Files), Grown(s, t, k, m, f, files)
    PROVE  /\ Ids(t) = Ids(s) \cup NewGuids(s, t) /\ Ids(s) \cap NewGuids(s, t) = {}
           /\ Ids(s) \subseteq Nat /\ NewGuids(s, t) \subseteq Nat
           /\ IsFiniteSet(NewGuids(s, t)) /\ Cardinality(NewGuids(s, t)) = Len(files)
           /\ \A g \in NewGuids(s, t) :
                  /\ t.arcs[g].kind = k /\ t.arcs[g].managed = m /\ t.arcs[g].folder = f
                  /\ g - Len(s.arcs) \in 1 .. Len(files)
                  /\ t.arcs[g].file = files[g - Len(s.arcs)]
                  /\ t.arcs[g].file \in Range(files)
<1>1. Len(s.arcs) \in Nat /\ Len(t.arcs) = Len(s.arcs) + Len(files) /\ Len(files) \in Nat
  BY DEF Grown, State
<1>2. IsFiniteSet(NewGuids(s, t)) /\ Cardinality(NewGuids(s, t)) = Len(files)
  <2>1. /\ Len(s.arcs) + 1 \in Int /\ Len(t.arcs) \in Int
        /\ Len(t.arcs) - (Len(s.arcs) + 1) + 1 = Len(files)
        /\ Len(s.arcs) + 1 > Len(t.arcs) => Len(files) = 0
    BY <1>1
  <2>2. NewGuids(s, t) = (Len(s.arcs) + 1) .. Len(t.arcs)
    BY DEF NewGuids
  <2> QED BY <2>1, <2>2, FS_Interval
<1>3. ASSUME NEW g \in NewGuids(s, t)
      PROVE  /\ t.arcs[g].kind = k /\ t.arcs[g].managed = m /\ t.arcs[g].folder = f
             /\ g - Len(s.arcs) \in 1 .. Len(files)
             /\ t.arcs[g].file = files[g - Len(s.arcs)]
  <2>1. t.arcs[g] = [kind |-> k, managed |-> m, folder |-> f, file |-> files[g - Len(s.arcs)]]
    BY DEF Grown
  <2>2. g \in Len(s.arcs) + 1 .. Len(t.arcs) BY DEF NewGuids
  <2> QED BY <2>1, <2>2, <1>1
<1>4. Range(files) = {files[i] : i \in 1 .. Len(files)}
  BY RangeFacts
<1> QED BY <1>1, <1>2, <1>3, <1>4 DEF Ids, NewGuids

LEMMA MakeFacts ==
    ASSUME NEW s \in State, NEW k \in Kinds, NEW m \in BOOLEAN, NEW f \in Folders,
           NEW files \in Seq(Files)
    PROVE  LET t == Make(s, k, m, f, files)
           IN  /\ t \in State /\ Grown(s, t, k, m, f, files)
               /\ t.rep = s.rep /\ t.unp = s.unp /\ t.man = s.man /\ t.pow = s.pow
               /\ t.disk = s.disk /\ t.aborted = s.aborted
<1> DEFINE t == Make(s, k, m, f, files)
           n == Len(files)
           new == [i \in 1 .. n |-> [kind |-> k, managed |-> m, folder |-> f, file |-> files[i]]]
<1>1. n \in Nat /\ new \in Seq(Archive) /\ Len(new) = n /\ s.arcs \in Seq(Archive)
      /\ \A i \in 1 .. n : new[i] = [kind |-> k, managed |-> m, folder |-> f, file |-> files[i]]
  BY DEF Archive, State
<1>2. t = [s EXCEPT !.arcs = s.arcs \o new]
  BY DEF Make
<1>3. t.arcs = s.arcs \o new
      /\ t.rep = s.rep /\ t.unp = s.unp /\ t.man = s.man /\ t.pow = s.pow
      /\ t.disk = s.disk /\ t.aborted = s.aborted
  BY <1>2 DEF State
<1>4. s.arcs \o new \in Seq(Archive) /\ Len(s.arcs \o new) = Len(s.arcs) + n
      /\ (\A i \in 1 .. Len(s.arcs) : (s.arcs \o new)[i] = s.arcs[i])
      /\ \A i \in Len(s.arcs) + 1 .. Len(s.arcs) + n : (s.arcs \o new)[i] = new[i - Len(s.arcs)]
  <2> HIDE DEF new, n
  <2>1. ASSUME NEW x \in Seq(Archive), NEW y \in Seq(Archive)
        PROVE  /\ x \o y \in Seq(Archive) /\ Len(x \o y) = Len(x) + Len(y)
               /\ \A i \in 1 .. Len(x) : (x \o y)[i] = x[i]
               /\ \A i \in Len(x) + 1 .. Len(x) + Len(y) : (x \o y)[i] = y[i - Len(x)]
    OBVIOUS
  <2> QED BY <2>1, <1>1
<1>5. t \in State
  <2> HIDE DEF new
  <2> QED BY <1>2, <1>4 DEF State
<1>6. ASSUME NEW g \in NewGuids(s, t)
      PROVE  t.arcs[g] = [kind |-> k, managed |-> m, folder |-> f, file |-> files[g - Len(s.arcs)]]
  <2>1. g \in Len(s.arcs) + 1 .. Len(s.arcs) + n /\ g - Len(s.arcs) \in 1 .. n
    <3> HIDE DEF t, new
    <3> QED BY <1>1, <1>3, <1>4 DEF NewGuids
  <2> HIDE DEF t, new
  <2> QED BY <2>1, <1>1, <1>3, <1>4
<1>7. Grown(s, t, k, m, f, files)
  <2> HIDE DEF t, new
  <2> QED BY <1>3, <1>4, <1>6 DEF Grown, Ids
<1> QED BY <1>3, <1>5, <1>7

-----------------------------------------------------------------------------
(* What the manager knows, as archives are made and processes end.         *)

\* Archives of f are made, and queued those that somebody is to work on.
Growth(s, t, P, k, m, f, files, queued) ==
    /\ Grown(s, t, k, m, f, files) /\ t.disk = s.disk
    /\ k = "repair" => queued
    /\ m => f \notin P
    /\ m /\ k = "unpack" => /\ IsInjective(files) /\ s.man.repairs[f] = 0
                            /\ \A v \in Range(files) : <<f, v>> \notin s.man.unpacks
    /\ m /\ k = "repair" => \A u \in s.man.unpacks : u[1] # f
    /\ t.man.repairs = [s.man.repairs EXCEPT ![f] =
                           s.man.repairs[f] + (IF m /\ k = "repair" THEN Len(files) ELSE 0)]
    /\ t.man.unpacks = s.man.unpacks \cup
           (IF m /\ k = "unpack" THEN {<<f, v>> : v \in Range(files)} ELSE {})
    /\ t.man.pending = s.man.pending \cup (IF m THEN NewGuids(s, t) ELSE {})
    /\ t.pow.numRepairs = s.pow.numRepairs + (IF k = "repair" THEN Len(files) ELSE 0)
    /\ t.pow.numUnpacks = s.pow.numUnpacks
                             + (IF k = "unpack" /\ queued THEN Len(files) ELSE 0)

LEMMA LedgerGrows ==
    ASSUME NEW s \in State, NEW t \in State, NEW P \in SUBSET Folders, NEW D, NEW R, NEW V,
           Ledger(s, P, D, R, V),
           NEW k \in Kinds, NEW m \in BOOLEAN, NEW f \in Folders, NEW files \in Seq(Files),
           NEW queued \in BOOLEAN, Growth(s, t, P, k, m, f, files, queued)
    PROVE  Ledger(t, P, D, R \cup (IF k = "repair" THEN NewGuids(s, t) ELSE {}),
                  V \cup (IF k = "unpack" /\ queued THEN NewGuids(s, t) ELSE {}))
<1> USE DEF Growth
<1> DEFINE N == NewGuids(s, t)
           RN == IF k = "repair" THEN N ELSE {}
           VN == IF k = "unpack" /\ queued THEN N ELSE {}
<1>1. /\ Ids(t) = Ids(s) \cup N /\ Ids(s) \cap N = {}
      /\ Ids(s) \subseteq Nat /\ N \subseteq Nat /\ IsFiniteSet(N)
      /\ Cardinality(N) = Len(files)
      /\ \A g \in N : /\ t.arcs[g].kind = k /\ t.arcs[g].managed = m /\ t.arcs[g].folder = f
                      /\ g - Len(s.arcs) \in 1 .. Len(files)
                      /\ t.arcs[g].file = files[g - Len(s.arcs)]
                      /\ t.arcs[g].file \in Range(files)
      /\ \A g \in Ids(s) : t.arcs[g] = s.arcs[g]
  BY GrownFacts, SMTT(30) DEF Grown
<1>2. Known(s, P, D, R, V) /\ Expected(s, P) /\ RepairsLeft(s, D, R) /\ Tallied(s, D, R, V)
  BY DEF Ledger
<1>3. /\ s.man.repairs \in [Folders -> Nat] /\ Len(files) \in Nat /\ Len(s.arcs) \in Nat
      /\ \A e \in Folders : t.man.repairs[e] =
             IF e = f /\ m /\ k = "repair" THEN s.man.repairs[e] + Len(files) ELSE s.man.repairs[e]
  BY DEF State, Manager
<1>4. D \subseteq Ids(s) /\ R \subseteq Ids(s) /\ V \subseteq Ids(s)
  BY <1>2 DEF Known, Of
<1>5. IsFiniteSet(R) /\ IsFiniteSet(V)
  <2>1. IsFiniteSet(Ids(s)) BY <1>3, FS_Interval DEF Ids
  <2> QED BY <2>1, <1>4, FS_Subset
<1>6. Known(t, P, D, R \cup RN, V \cup VN)
  <2>1. D \subseteq Ids(t) BY <1>1, <1>4
  <2>2. R \cup RN \subseteq Of(t, "repair") /\ V \cup VN \subseteq Of(t, "unpack")
    <3> HIDE DEF N, Growth
    <3>1. /\ \A g \in R : g \in Ids(t) /\ t.arcs[g].kind = "repair"
          /\ \A g \in V : g \in Ids(t) /\ t.arcs[g].kind = "unpack"
      BY <1>1, <1>2, <1>4 DEF Known, Of
    <3>2. \A g \in N : g \in Ids(t) /\ t.arcs[g].kind = k
      BY <1>1
    <3> QED BY <3>1, <3>2 DEF Of
  <2>3. ASSUME NEW g \in t.man.pending PROVE g \in Ids(t) /\ t.arcs[g].managed
    BY <1>1, <1>2 DEF Known
  <2>4. ASSUME NEW g \in Ids(t), t.arcs[g].managed PROVE t.arcs[g].folder \notin P
    BY <2>4, <1>1, <1>2 DEF Known
  <2>5. ASSUME NEW e \in P PROVE t.man.repairs[e] = 0
    <3>1. s.man.repairs[e] = 0 BY <1>2 DEF Known
    <3>2. e = f => ~m OBVIOUS
    <3> QED BY <3>1, <3>2, <1>3
  <2>6. \A e \in Folders : IsInjective(t.disk[e]) BY <1>2 DEF Known
  <2> QED BY <2>1, <2>2, <2>3, <2>4, <2>5, <2>6 DEF Known
<1>7. Expected(t, P)
  <2> DEFINE M == ManagedOf(s, "unpack")
  <2>0. ManagedOf(t, "unpack") = M \cup (IF m /\ k = "unpack" THEN N ELSE {})
    <3> HIDE DEF N, Growth
    <3> QED BY <1>1 DEF ManagedOf, Of
  <2>1. \A g \in M : g \in Ids(s) /\ t.arcs[g] = s.arcs[g]
                     /\ <<s.arcs[g].folder, s.arcs[g].file>> \in s.man.unpacks
    BY <1>1, <1>2 DEF Expected, ManagedOf, Of
  <2>2. ASSUME NEW g \in ManagedOf(t, "unpack")
        PROVE  <<t.arcs[g].folder, t.arcs[g].file>> \in t.man.unpacks
    <3>1. CASE g \in M BY <3>1, <2>1
    <3>2. CASE g \notin M
      <4>1. m /\ k = "unpack" /\ g \in N BY <3>2, <2>0
      <4>2. t.arcs[g].folder = f /\ t.arcs[g].file \in Range(files) BY <4>1, <1>1
      <4> QED BY <4>1, <4>2
    <3> QED BY <3>1, <3>2
  <2>3. ASSUME NEW g \in ManagedOf(t, "unpack"), NEW h \in ManagedOf(t, "unpack"),
               t.arcs[g].folder = t.arcs[h].folder, t.arcs[g].file = t.arcs[h].file
        PROVE  g = h
    <3>0. ASSUME NEW a \in M, NEW b \in N, m, k = "unpack",
                 t.arcs[a].folder = t.arcs[b].folder, t.arcs[a].file = t.arcs[b].file
          PROVE  FALSE
      <4> HIDE DEF N, M
      <4>0. /\ t.arcs[a] = s.arcs[a] /\ <<s.arcs[a].folder, s.arcs[a].file>> \in s.man.unpacks
            /\ t.arcs[b].folder = f /\ t.arcs[b].file \in Range(files)
        <5> HIDE DEF Growth
        <5> QED BY <3>0, <2>1, <1>1
      <4>1. <<f, t.arcs[b].file>> \in s.man.unpacks /\ t.arcs[b].file \in Range(files)
        <5> HIDE DEF Growth
        <5> QED BY <3>0, <4>0
      <4> QED BY <4>1, <3>0
    <3>1. CASE g \in M /\ h \in M BY <3>1, <2>1, <2>3, <1>2 DEF Expected
    <3>2. CASE g \in M /\ h \notin M BY <3>2, <3>0, <2>0, <2>3
    <3>3. CASE g \notin M /\ h \in M BY <3>3, <3>0, <2>0, <2>3
    <3>4. CASE g \notin M /\ h \notin M
      <4>1. m /\ k = "unpack" /\ g \in N /\ h \in N BY <3>4, <2>0
      <4>2. /\ g - Len(s.arcs) \in 1 .. Len(files) /\ h - Len(s.arcs) \in 1 .. Len(files)
            /\ files[g - Len(s.arcs)] = files[h - Len(s.arcs)]
        <5> HIDE DEF N
        <5> QED BY <4>1, <2>3, <1>1
      <4>3. IsInjective(files) /\ DOMAIN files = 1 .. Len(files)
        BY <4>1
      <4>4. g - Len(s.arcs) = h - Len(s.arcs)
        BY <4>2, <4>3 DEF IsInjective
      <4>5. g \in Nat /\ h \in Nat BY <4>1, <1>1
      <4> QED BY <4>4, <4>5, <1>3
    <3> QED BY <3>1, <3>2, <3>3, <3>4
  <2>4. ASSUME NEW u \in t.man.unpacks PROVE u[1] \notin P /\ t.man.repairs[u[1]] = 0
    <3>1. CASE u \in s.man.unpacks
      <4>1. u[1] \notin P /\ s.man.repairs[u[1]] = 0 BY <3>1, <1>2 DEF Expected
      <4>2. u[1] \in Folders BY <3>1 DEF State, Manager
      <4>3. t.man.repairs[u[1]] = s.man.repairs[u[1]] BY <3>1, <4>2, <1>3
      <4> QED BY <4>1, <4>3
    <3>2. CASE u \notin s.man.unpacks
      <4>1. m /\ k = "unpack" /\ u[1] = f BY <3>2
      <4> QED BY <4>1, <1>3
    <3> QED BY <3>1, <3>2
  <2> QED BY <2>2, <2>3, <2>4 DEF Expected
<1>8. RepairsLeft(t, D, R \cup RN)
  <2> SUFFICES ASSUME NEW e \in Folders, ~RepairDied(t, D, e)
               PROVE  Cardinality(RepairsOf(t, R \cup RN, e)) <= t.man.repairs[e]
    BY DEF RepairsLeft
  <2>1. ~RepairDied(s, D, e) BY <1>1, <1>4 DEF RepairDied
  <2>2. Cardinality(RepairsOf(s, R, e)) <= s.man.repairs[e] BY <2>1, <1>2 DEF RepairsLeft
  <2>3. RepairsOf(t, R \cup RN, e)
            = RepairsOf(s, R, e) \cup (IF e = f /\ m /\ k = "repair" THEN N ELSE {})
    <3> HIDE DEF N, Growth
    <3> QED BY <1>1, <1>4 DEF RepairsOf
  <2>4. IsFiniteSet(RepairsOf(s, R, e)) BY <1>5, FS_Subset DEF RepairsOf
  <2>5. CASE e = f /\ m /\ k = "repair"
    <3>1. /\ Cardinality(RepairsOf(s, R, e) \cup N)
                <= Cardinality(RepairsOf(s, R, e)) + Cardinality(N)
          /\ Cardinality(RepairsOf(s, R, e) \cup N) \in Nat
          /\ Cardinality(RepairsOf(s, R, e)) \in Nat
      BY <2>4, <1>1, CardPlus
    <3>2. t.man.repairs[e] = s.man.repairs[e] + Len(files) /\ s.man.repairs[e] \in Nat
      BY <2>5, <1>3
    <3>3. RepairsOf(t, R \cup RN, e) = RepairsOf(s, R, e) \cup N BY <2>3, <2>5
    <3>4. Cardinality(N) = Len(files) /\ Len(files) \in Nat BY <1>1, <1>3
    <3> DEFINE a == Cardinality(RepairsOf(s, R, e))
               b == Cardinality(RepairsOf(s, R, e) \cup N)
               c == Cardinality(N)
               x == s.man.repairs[e]
               y == t.man.repairs[e]
    <3>5. /\ b <= a + c /\ b \in Nat /\ a \in Nat /\ y = x + c /\ x \in Nat /\ c \in Nat
          /\ a <= x
      BY <3>1, <3>2, <3>4, <2>2
    <3>6. b <= y
      <4> HIDE DEF a, b, c, x, y
      <4> QED BY <3>5
    <3> QED BY <3>3, <3>6
  <2>6. CASE ~(e = f /\ m /\ k = "repair")
    <3>1. t.man.repairs[e] = s.man.repairs[e] BY <2>6, <1>3
    <3>2. RepairsOf(t, R \cup RN, e) = RepairsOf(s, R, e) BY <2>3, <2>6
    <3> QED BY <3>1, <3>2, <2>2
  <2> QED BY <2>5, <2>6
<1>9. Tallied(t, D, R \cup RN, V \cup VN)
  <2> SUFFICES ASSUME D = {}
               PROVE  /\ Cardinality(R \cup RN) <= t.pow.numRepairs
                      /\ Cardinality(V \cup VN) <= t.pow.numUnpacks
                      /\ \A g \in (R \cup RN) \cup (V \cup VN) :
                             t.arcs[g].managed => g \in t.man.pending
    BY DEF Tallied
  <2>1. /\ Cardinality(R) <= s.pow.numRepairs /\ Cardinality(V) <= s.pow.numUnpacks
        /\ \A g \in R \cup V : s.arcs[g].managed => g \in s.man.pending
    BY <1>2 DEF Tallied
  <2>2. s.pow.numRepairs \in Int /\ s.pow.numUnpacks \in Int BY DEF State, Power
  <2>3. Cardinality(R \cup N) <= Cardinality(R) + Len(files) /\ Cardinality(R \cup N) \in Nat
        /\ Cardinality(R) \in Nat
    BY <1>1, <1>5, CardPlus
  <2>4. Cardinality(V \cup N) <= Cardinality(V) + Len(files) /\ Cardinality(V \cup N) \in Nat
        /\ Cardinality(V) \in Nat
    BY <1>1, <1>5, CardPlus
  <2>5. Cardinality(R \cup RN) <= t.pow.numRepairs
    <3> HIDE DEF N
    <3>1. CASE k = "repair" BY <3>1, <2>1, <2>2, <2>3, <1>3
    <3>2. CASE k # "repair"
      <4>1. R \cup RN = R BY <3>2
      <4> QED BY <4>1, <3>2, <2>1, <2>2, <2>3
    <3> QED BY <3>1, <3>2
  <2>6. Cardinality(V \cup VN) <= t.pow.numUnpacks
    <3> HIDE DEF N
    <3>1. CASE k = "unpack" /\ queued BY <3>1, <2>1, <2>2, <2>4, <1>3
    <3>2. CASE ~(k = "unpack" /\ queued)
      <4>1. V \cup VN = V BY <3>2
      <4>2. t.pow.numUnpacks = s.pow.numUnpacks BY <3>2, <2>2
      <4> QED BY <4>1, <4>2, <2>1
    <3> QED BY <3>1, <3>2
  <2>7. ASSUME NEW g \in (R \cup RN) \cup (V \cup VN), t.arcs[g].managed
        PROVE  g \in t.man.pending
    <3>1. CASE g \in R \cup V BY <3>1, <2>7, <2>1, <1>1, <1>4
    <3>2. CASE g \in N
      <4>1. m BY <3>2, <2>7, <1>1
      <4> QED BY <4>1, <3>2
    <3> QED BY <3>1, <3>2
  <2> QED BY <2>5, <2>6, <2>7
<1> QED BY <1>6, <1>7, <1>8, <1>9 DEF Ledger

\* The process of g ends: nobody has to do it any more, a repair may be
\* counted off its folder, and the manager may forget it.
LEMMA LedgerDone ==
    ASSUME NEW s \in State, NEW t \in State, NEW P \in SUBSET Folders, NEW D, NEW R, NEW V,
           Ledger(s, P, D, R, V), NEW g \in R \cup V \cup D,
           t.arcs = s.arcs, t.disk = s.disk, t.man.unpacks = s.man.unpacks,
           t.man.pending \in {s.man.pending, s.man.pending \ {g}},
           NEW f \in Folders, f = s.arcs[g].folder,
           \/ t.man.repairs = s.man.repairs
           \/ /\ s.arcs[g].kind = "repair" /\ s.arcs[g].managed /\ s.man.repairs[f] > 0
              /\ t.man.repairs = [s.man.repairs EXCEPT ![f] = s.man.repairs[f] - 1],
           t.pow.numRepairs = s.pow.numRepairs - (IF s.arcs[g].kind = "repair" THEN 1 ELSE 0),
           t.pow.numUnpacks = s.pow.numUnpacks - (IF s.arcs[g].kind = "unpack" THEN 1 ELSE 0)
    PROVE  Ledger(t, P, D, R \ {g}, V \ {g})
<1>1. Known(s, P, D, R, V) /\ Expected(s, P) /\ RepairsLeft(s, D, R) /\ Tallied(s, D, R, V)
  BY DEF Ledger
<1>2. /\ s.man.repairs \in [Folders -> Nat] /\ Len(s.arcs) \in Nat
      /\ s.pow.numRepairs \in Int /\ s.pow.numUnpacks \in Int
      /\ s.man.unpacks \subseteq Folders \X Files
  BY DEF State, Manager, Power
<1>3. /\ D \subseteq Ids(s) /\ R \subseteq Of(s, "repair") /\ V \subseteq Of(s, "unpack")
      /\ Ids(t) = Ids(s) /\ Of(t, "repair") = Of(s, "repair")
      /\ Of(t, "unpack") = Of(s, "unpack")
      /\ ManagedOf(t, "unpack") = ManagedOf(s, "unpack")
      /\ g \in Ids(s)
  BY <1>1 DEF Known, Of, Ids, ManagedOf
<1>4. IsFiniteSet(R) /\ IsFiniteSet(V)
  <2>1. IsFiniteSet(Ids(s)) BY <1>2, FS_Interval DEF Ids
  <2> QED BY <2>1, <1>3, FS_Subset DEF Of
<1>5. \A e \in Folders : s.man.repairs[e] = 0 => t.man.repairs[e] = 0
  BY <1>2
<1>6. Known(t, P, D, R \ {g}, V \ {g})
  <2>1. ASSUME NEW e \in P PROVE t.man.repairs[e] = 0
    <3>1. s.man.repairs[e] = 0 BY <1>1 DEF Known
    <3> QED BY <3>1, <1>5
  <2> QED BY <2>1, <1>1, <1>3 DEF Known
<1>7. Expected(t, P)
  <2>1. ASSUME NEW u \in t.man.unpacks PROVE u[1] \notin P /\ t.man.repairs[u[1]] = 0
    <3>1. u[1] \in Folders BY <1>2
    <3> QED BY <3>1, <1>1, <1>5 DEF Expected
  <2> QED BY <2>1, <1>1, <1>3 DEF Expected
<1>8. RepairsLeft(t, D, R \ {g})
  <2> SUFFICES ASSUME NEW e \in Folders, ~RepairDied(t, D, e)
               PROVE  Cardinality(RepairsOf(t, R \ {g}, e)) <= t.man.repairs[e]
    BY DEF RepairsLeft
  <2>1. ~RepairDied(s, D, e) /\ Cardinality(RepairsOf(s, R, e)) <= s.man.repairs[e]
    BY <1>1 DEF RepairsLeft, RepairDied
  <2>2. RepairsOf(t, R \ {g}, e) = RepairsOf(s, R, e) \ {g}
    BY DEF RepairsOf
  <2>3. IsFiniteSet(RepairsOf(s, R, e)) BY <1>4, FS_Subset DEF RepairsOf
  <2>4. /\ Cardinality(RepairsOf(s, R, e)) \in Nat
        /\ Cardinality(RepairsOf(s, R, e) \ {g}) \in Nat
        /\ Cardinality(RepairsOf(s, R, e) \ {g}) = IF g \in RepairsOf(s, R, e)
              THEN Cardinality(RepairsOf(s, R, e)) - 1 ELSE Cardinality(RepairsOf(s, R, e))
    BY <2>3, CardLess
  <2> DEFINE a == Cardinality(RepairsOf(s, R, e))
             b == Cardinality(RepairsOf(s, R, e) \ {g})
             x == s.man.repairs[e]
             y == t.man.repairs[e]
  <2>7. /\ a \in Nat /\ b \in Nat /\ x \in Nat /\ a <= x
        /\ b = IF g \in RepairsOf(s, R, e) THEN a - 1 ELSE a
    BY <2>1, <2>4, <1>2
  <2>5. CASE y = x
    <3>1. b <= y
      <4>1. b = a - 1 \/ b = a BY <2>7
      <4>2. a \in Nat /\ b \in Nat /\ x \in Nat /\ a <= x /\ y = x BY <2>7, <2>5
      <4> HIDE DEF a, b, x, y
      <4> QED BY ONLY <4>1, <4>2
    <3> QED BY <3>1, <2>2
  <2>6. CASE t.man.repairs[e] # s.man.repairs[e]
    <3>1. /\ e = f /\ s.arcs[g].kind = "repair" /\ s.arcs[g].managed
          /\ t.man.repairs[e] = s.man.repairs[e] - 1
      BY <2>6, <1>2, SMTT(30)
    <3>2. g \notin D BY <3>1, <2>1 DEF RepairDied
    <3>3. g \in R BY <3>1, <3>2, <1>3 DEF Of
    <3>4. g \in RepairsOf(s, R, e) BY <3>1, <3>3 DEF RepairsOf
    <3>5. y = x - 1 BY <3>1
    <3>6. b <= y
      <4> HIDE DEF a, b, x, y
      <4> QED BY <2>7, <3>4, <3>5
    <3> QED BY <3>6, <2>2
  <2> QED BY <2>5, <2>6
<1>9. Tallied(t, D, R \ {g}, V \ {g})
  <2> SUFFICES ASSUME D = {}
               PROVE  /\ Cardinality(R \ {g}) <= t.pow.numRepairs
                      /\ Cardinality(V \ {g}) <= t.pow.numUnpacks
                      /\ \A h \in (R \ {g}) \cup (V \ {g}) :
                             t.arcs[h].managed => h \in t.man.pending
    BY DEF Tallied
  <2>1. /\ Cardinality(R) <= s.pow.numRepairs /\ Cardinality(V) <= s.pow.numUnpacks
        /\ \A h \in R \cup V : s.arcs[h].managed => h \in s.man.pending
    BY <1>1 DEF Tallied
  <2>2. /\ Cardinality(R) \in Nat /\ Cardinality(R \ {g}) \in Nat
        /\ Cardinality(R \ {g}) = IF g \in R THEN Cardinality(R) - 1 ELSE Cardinality(R)
        /\ Cardinality(V) \in Nat /\ Cardinality(V \ {g}) \in Nat
        /\ Cardinality(V \ {g}) = IF g \in V THEN Cardinality(V) - 1 ELSE Cardinality(V)
    BY <1>4, CardLess
  <2>3. (s.arcs[g].kind = "repair" <=> g \in R) /\ (s.arcs[g].kind = "unpack" <=> g \in V)
    <3>1. g \in R => s.arcs[g].kind = "repair" BY <1>3 DEF Of
    <3>2. g \in V => s.arcs[g].kind = "unpack" BY <1>3 DEF Of
    <3> QED BY <3>1, <3>2
  <2>4. Cardinality(R \ {g}) <= t.pow.numRepairs BY <2>1, <2>2, <2>3, <1>2
  <2>5. Cardinality(V \ {g}) <= t.pow.numUnpacks BY <2>1, <2>2, <2>3, <1>2
  <2> QED BY <2>1, <2>4, <2>5
<1> QED BY <1>6, <1>7, <1>8, <1>9 DEF Ledger

\* A change that the manager does not see: less to do, more that died, or
\* a folder that comes.
LEMMA LedgerLess ==
    ASSUME NEW s \in State, NEW t \in State, NEW P \in SUBSET Folders,
           NEW Q \in SUBSET P, NEW D, NEW E, NEW R, NEW V,
           Ledger(s, P, D, R, V), NEW r \in SUBSET R, NEW v \in SUBSET V,
           D \subseteq E, E \subseteq Ids(s),
           t.arcs = s.arcs, t.man = s.man, \A e \in Folders : IsInjective(t.disk[e]),
           t.pow.numRepairs = s.pow.numRepairs, t.pow.numUnpacks = s.pow.numUnpacks
    PROVE  Ledger(t, Q, E, r, v)
<1>1. Known(s, P, D, R, V) /\ Expected(s, P) /\ RepairsLeft(s, D, R) /\ Tallied(s, D, R, V)
  BY DEF Ledger
<1>2. IsFiniteSet(R) /\ IsFiniteSet(V)
  <2>1. IsFiniteSet(Ids(s)) /\ R \subseteq Ids(s) /\ V \subseteq Ids(s)
    BY <1>1, FS_Interval DEF Ids, State, Known, Of
  <2> QED BY <2>1, FS_Subset
<1>3. Known(t, Q, E, r, v)
  BY <1>1 DEF Known, Of, Ids
<1>4. Expected(t, Q)
  BY <1>1 DEF Expected, ManagedOf, Of, Ids
<1>5. RepairsLeft(t, E, r)
  <2> SUFFICES ASSUME NEW e \in Folders, ~RepairDied(t, E, e)
               PROVE  Cardinality(RepairsOf(t, r, e)) <= t.man.repairs[e]
    BY DEF RepairsLeft
  <2>1. Cardinality(RepairsOf(s, R, e)) <= s.man.repairs[e]
    BY <1>1 DEF RepairsLeft, RepairDied
  <2>2. RepairsOf(t, r, e) \subseteq RepairsOf(s, R, e) BY DEF RepairsOf
  <2>3. IsFiniteSet(RepairsOf(s, R, e)) BY <1>2, FS_Subset DEF RepairsOf
  <2>4. /\ Cardinality(RepairsOf(t, r, e)) <= Cardinality(RepairsOf(s, R, e))
        /\ Cardinality(RepairsOf(t, r, e)) \in Nat /\ Cardinality(RepairsOf(s, R, e)) \in Nat
    BY <2>2, <2>3, FS_Subset, FS_CardinalityType
  <2>5. s.man.repairs[e] \in Nat BY DEF State, Manager
  <2> QED BY <2>1, <2>4, <2>5
<1>6. Tallied(t, E, r, v)
  <2> SUFFICES ASSUME E = {}
               PROVE  /\ Cardinality(r) <= t.pow.numRepairs
                      /\ Cardinality(v) <= t.pow.numUnpacks
                      /\ \A g \in r \cup v : t.arcs[g].managed => g \in t.man.pending
    BY DEF Tallied
  <2>1. /\ Cardinality(R) <= s.pow.numRepairs /\ Cardinality(V) <= s.pow.numUnpacks
        /\ \A g \in R \cup V : s.arcs[g].managed => g \in s.man.pending
    BY <1>1 DEF Tallied
  <2>2. /\ Cardinality(r) <= Cardinality(R) /\ Cardinality(v) <= Cardinality(V)
        /\ Cardinality(r) \in Nat /\ Cardinality(R) \in Nat
        /\ Cardinality(v) \in Nat /\ Cardinality(V) \in Nat
    BY <1>2, FS_Subset, FS_CardinalityType
  <2>3. s.pow.numRepairs \in Int /\ s.pow.numUnpacks \in Int BY DEF State, Power
  <2> QED BY <2>1, <2>2, <2>3
<1> QED BY <1>3, <1>4, <1>5, <1>6 DEF Ledger

-----------------------------------------------------------------------------
(* The workers and their lists.                                            *)

Final == {"Success", "Failed", "Error", "Stopped"}

LEMMA UnfinishedIs ==
    ASSUME NEW w \in Worker
    PROVE  Unfinished(w) = Waiting(w) \cup (IF w.running THEN {w.cur} ELSE {})
<1>1. w.list \in Seq(Row)
  BY DEF Worker
<1>2. RowsOf(w) = {w.list[i] : i \in 1 .. Len(w.list)}
  BY <1>1, RangeFacts DEF RowsOf
<1>3. {r.guid : r \in {q \in RowsOf(w) : q.state = "Queued"}} = Waiting(w)
  BY <1>2 DEF Waiting, Rows
<1> QED BY <1>3 DEF Unfinished

LEMMA LinedGrows ==
    ASSUME NEW w, NEW G, NEW H, NEW busy, Lined(w, G, busy), G \subseteq H
    PROVE  Lined(w, H, busy)
  BY DEF Lined

LEMMA FirstFacts ==
    ASSUME NEW w \in Worker, NEW x, Rows(w, x) # {}
    PROVE  First(Rows(w, x)) \in 1 .. Len(w.list) /\ w.list[First(Rows(w, x))].state = x
<1>1. Rows(w, x) \in SUBSET Nat
  BY DEF Rows
<1>2. PICK i \in Rows(w, x) : \A j \in Rows(w, x) : i <= j
  BY <1>1, LeastNumber
<1>3. First(Rows(w, x)) \in Rows(w, x)
  BY <1>2 DEF First
<1> QED BY <1>3 DEF Rows

\* What is in the list of v may come from the list of w in another order.
LEMMA PickedFacts ==
    ASSUME NEW w \in Worker, NEW v \in Worker, NEW G, NEW busy, Lined(w, G, busy),
           v.running = w.running, v.cur = w.cur,
           NEW m, \A i \in 1 .. Len(v.list) : m[i] \in 1 .. Len(w.list) /\ v.list[i] = w.list[m[i]],
           \A i, j \in 1 .. Len(v.list) : m[i] = m[j] => i = j
    PROVE  Lined(v, G, busy) /\ Unfinished(v) \subseteq Unfinished(w)
<1>1. ASSUME NEW i \in 1 .. Len(v.list)
      PROVE  /\ v.list[i].guid \in G
             /\ v.list[i].state = "Active" => busy /\ v.list[i].guid = v.cur
             /\ v.list[i].state = "Queued" => ~(busy /\ v.list[i].guid = v.cur)
  BY DEF Lined
<1>2. ASSUME NEW i \in 1 .. Len(v.list), NEW j \in 1 .. Len(v.list),
             v.list[i].guid = v.list[j].guid
      PROVE  i = j
  <2>1. /\ m[i] \in 1 .. Len(w.list) /\ m[j] \in 1 .. Len(w.list)
        /\ w.list[m[i]].guid = w.list[m[j]].guid
    BY <1>2
  <2>2. \A a, b \in 1 .. Len(w.list) : w.list[a].guid = w.list[b].guid => a = b
    BY DEF Lined
  <2>3. m[i] = m[j] BY <2>1, <2>2
  <2> QED BY <2>3
<1>3. Lined(v, G, busy)
  BY <1>1, <1>2 DEF Lined
<1>4. Waiting(v) \subseteq Waiting(w)
  BY DEF Waiting, Rows
<1> QED BY <1>3, <1>4, UnfinishedIs

LEMMA StartNextFacts ==
    ASSUME NEW w \in Worker, NEW G, Lined(w, G, w.running)
    PROVE  LET v == startNext(w)
           IN  /\ v \in Worker /\ Lined(v, G, v.running)
               /\ Unfinished(v) = Unfinished(w)
               /\ w.running => v = w
<1> DEFINE v == startNext(w)
<1>1. CASE w.running \/ ~w.enabled \/ Rows(w, "Queued") = {}
  BY <1>1 DEF startNext
<1>2. CASE ~(w.running \/ ~w.enabled \/ Rows(w, "Queued") = {})
  <2> DEFINE i == First(Rows(w, "Queued"))
             l == [w.list EXCEPT ![i].state = "Active"]
  <2>1. i \in 1 .. Len(w.list) /\ w.list[i].state = "Queued"
    BY <1>2, FirstFacts
  <2>2. v = [w EXCEPT !.list = l, !.running = TRUE, !.cur = w.list[i].guid, !.state = "Active"]
    BY <1>2 DEF startNext
  <2> HIDE DEF v
  <2>3. w.list \in Seq(Row) /\ \A j \in 1 .. Len(w.list) : w.list[j] \in Row
    BY DEF Worker
  <2>4. w.list[i].guid \in Nat /\ [w.list[i] EXCEPT !.state = "Active"] \in Row
    BY <2>1, <2>3 DEF Row, Statuses
  <2>5. /\ l \in Seq(Row) /\ Len(l) = Len(w.list)
        /\ \A j \in 1 .. Len(l) :
               l[j] = IF j = i THEN [w.list[i] EXCEPT !.state = "Active"] ELSE w.list[j]
    <3> HIDE DEF i
    <3> QED BY <2>1, <2>3, <2>4
  <2>6. \A j \in 1 .. Len(l) : /\ l[j].guid = w.list[j].guid
                               /\ l[j].state = IF j = i THEN "Active" ELSE w.list[j].state
    <3> HIDE DEF i, l
    <3> QED BY <2>1, <2>3, <2>5 DEF Row
  <2> HIDE DEF l
  <2>7. v \in Worker /\ v.list = l /\ v.running = TRUE /\ v.cur = w.list[i].guid
    BY <2>2, <2>4, <2>5 DEF Worker, Statuses
  <2> HIDE DEF i
  <2>8. Lined(v, G, TRUE)
    <3>1. ASSUME NEW j \in 1 .. Len(l)
          PROVE  /\ l[j].guid \in G
                 /\ l[j].state = "Active" => l[j].guid = w.list[i].guid
                 /\ l[j].state = "Queued" => l[j].guid # w.list[i].guid
      BY <1>2, <2>1, <2>5, <2>6 DEF Lined
    <3>2. ASSUME NEW j \in 1 .. Len(l), NEW k \in 1 .. Len(l), l[j].guid = l[k].guid PROVE j = k
      BY <3>2, <2>5, <2>6 DEF Lined
    <3>3. w.list[i].guid \in G BY <2>1 DEF Lined
    <3> QED BY <3>1, <3>2, <3>3, <2>7 DEF Lined
  <2>9. Waiting(w) = Waiting(v) \cup {v.cur}
    BY <2>1, <2>5, <2>6, <2>7 DEF Waiting, Rows
  <2>10. Unfinished(v) = Unfinished(w)
    BY <1>2, <2>7, <2>9, UnfinishedIs
  <2> QED BY <1>2, <2>7, <2>8, <2>10 DEF v
<1> QED BY <1>1, <1>2

LEMMA RetireFacts ==
    ASSUME NEW w \in Worker, NEW G, Lined(w, G, TRUE), w.state \in Final
    PROVE  LET v == retire(w)
           IN  /\ v \in Worker /\ Lined(v, G, v.running)
               /\ Waiting(v) = Waiting(w) /\ v.running = w.running /\ v.cur = w.cur
               /\ v.state = w.state /\ Lined(v, G, TRUE)
<1> DEFINE v == retire(w)
<1>1. CASE Rows(w, "Active") = {}
  <2>1. v = w BY <1>1 DEF retire
  <2>2. \A i \in 1 .. Len(w.list) : w.list[i].state # "Active" BY <1>1 DEF Rows
  <2>3. Lined(w, G, w.running) BY <2>2 DEF Lined, Worker
  <2> QED BY <2>1, <2>3
<1>2. CASE Rows(w, "Active") # {}
  <2> DEFINE i == First(Rows(w, "Active"))
             r == [guid |-> w.cur, state |-> w.state]
             l == [w.list EXCEPT ![i] = r]
  <2>1. i \in 1 .. Len(w.list) /\ w.list[i].state = "Active"
    BY <1>2, FirstFacts
  <2>2. v = [w EXCEPT !.list = l]
    BY <1>2 DEF retire
  <2> HIDE DEF v
  <2>3. w.list \in Seq(Row) /\ r \in Row /\ r.guid = w.cur /\ r.state = w.state
    BY DEF Worker, Row
  <2>4. w.list[i].guid = w.cur
    BY <2>1 DEF Lined
  <2> HIDE DEF i, r
  <2>5. /\ l \in Seq(Row) /\ Len(l) = Len(w.list)
        /\ \A j \in 1 .. Len(l) : l[j] = IF j = i THEN r ELSE w.list[j]
    BY <2>1, <2>3
  <2> HIDE DEF l
  <2>6. \A j \in 1 .. Len(l) : /\ l[j].guid = w.list[j].guid
                               /\ l[j].state = IF j = i THEN w.state ELSE w.list[j].state
    BY <2>1, <2>3, <2>4, <2>5
  <2>7. /\ v \in Worker /\ v.list = l /\ v.running = w.running /\ v.cur = w.cur
        /\ v.state = w.state /\ v.running \in BOOLEAN
    BY <2>2, <2>5 DEF Worker
  <2>8. \A j \in 1 .. Len(l) : l[j].state # "Active"
    <3>1. ASSUME NEW j \in 1 .. Len(l), l[j].state = "Active" PROVE FALSE
      <4>1. j # i BY <3>1, <2>6 DEF Final
      <4>2. w.list[j].state = "Active" BY <3>1, <4>1, <2>6
      <4>3. w.list[j].guid = w.list[i].guid BY <4>2, <2>4, <2>5 DEF Lined
      <4> QED BY <4>1, <4>3, <2>1, <2>5 DEF Lined
    <3> QED BY <3>1
  <2>9. ASSUME NEW j \in 1 .. Len(l), l[j].state = "Queued"
        PROVE  j # i /\ w.list[j].state = "Queued" /\ l[j].guid # w.cur
    <3>1. j # i BY <2>9, <2>6 DEF Final
    <3>2. w.list[j].state = "Queued" BY <3>1, <2>9, <2>6
    <3> QED BY <3>1, <3>2, <2>5, <2>6 DEF Lined
  <2>10. \A b \in BOOLEAN : Lined(v, G, b)
    <3>1. \A j \in 1 .. Len(l) : l[j].guid \in G BY <2>5, <2>6 DEF Lined
    <3>2. \A j, k \in 1 .. Len(l) : l[j].guid = l[k].guid => j = k BY <2>5, <2>6 DEF Lined
    <3>3. w.cur \in G BY DEF Lined
    <3> QED BY <3>1, <3>2, <3>3, <2>7, <2>8, <2>9 DEF Lined
  <2>11. Waiting(v) = Waiting(w)
    <3>1. \A j \in 1 .. Len(w.list) : w.list[j].state = "Queued" => l[j].state = "Queued"
      BY <2>1, <2>5, <2>6
    <3> QED BY <3>1, <2>5, <2>6, <2>7, <2>9 DEF Waiting, Rows
  <2> QED BY <2>7, <2>10, <2>11 DEF v
<1> QED BY <1>1, <1>2

\* A process that ran, and whose end has been reported.
LEMMA ReadyFacts ==
    ASSUME NEW w \in Worker, NEW G, Lined(w, G, TRUE), w.state \in Final
    PROVE  LET v == startNext(retire(w))
           IN  /\ v \in Worker /\ Lined(v, G, v.running)
               /\ Unfinished(v) = Waiting(w) \cup (IF w.running THEN {w.cur} ELSE {})
               /\ w.running => /\ v.running /\ v.cur = w.cur /\ v.state = w.state
                               /\ Waiting(v) = Waiting(w) /\ Lined(v, G, TRUE)
<1> DEFINE u == retire(w)
<1>1. /\ u \in Worker /\ Lined(u, G, u.running)
      /\ Waiting(u) = Waiting(w) /\ u.running = w.running /\ u.cur = w.cur
      /\ u.state = w.state /\ Lined(u, G, TRUE)
  BY RetireFacts
<1> HIDE DEF u
<1>2. /\ startNext(u) \in Worker /\ Lined(startNext(u), G, startNext(u).running)
      /\ Unfinished(startNext(u)) = Unfinished(u)
      /\ u.running => startNext(u) = u
  BY <1>1, StartNextFacts
<1>3. Unfinished(u) = Waiting(w) \cup (IF w.running THEN {w.cur} ELSE {})
  BY <1>1, UnfinishedIs
<1>4. w.running => startNext(u) = u
  BY <1>1, <1>2
<1> QED BY <1>1, <1>2, <1>3, <1>4 DEF u

LEMMA EnqueuedFacts ==
    ASSUME NEW s \in State, NEW t \in State, NEW k \in Kinds, NEW m \in BOOLEAN,
           NEW f \in Folders, NEW files \in Seq(Files), Grown(s, t, k, m, f, files),
           NEW w \in Worker, Lined(w, Of(s, k), w.running)
    PROVE  LET v == Enqueued(w, s, t)
           IN  /\ v \in Worker /\ Lined(v, Of(t, k), v.running)
               /\ Unfinished(v) = Unfinished(w) \cup NewGuids(s, t)
<1> DEFINE n == Len(files)
           base == Len(s.arcs)
           new == [i \in 1 .. Len(t.arcs) - Len(s.arcs) |-> [guid |-> Len(s.arcs) + i, state |-> "Queued"]]
           l == w.list \o new
           u == [w EXCEPT !.list = l]
<1>1. /\ Ids(t) = Ids(s) \cup NewGuids(s, t) /\ Ids(s) \cap NewGuids(s, t) = {}
      /\ \A g \in NewGuids(s, t) : t.arcs[g].kind = k
      /\ \A g \in Ids(s) : t.arcs[g] = s.arcs[g]
  BY GrownFacts DEF Grown
<1>2. base \in Nat /\ Len(t.arcs) = base + n /\ n \in Nat /\ Len(t.arcs) - base = n
      /\ base + n \in Nat
  BY DEF Grown, State
<1>3. w.list \in Seq(Row) /\ new \in Seq(Row) /\ Len(new) = n
      /\ \A i \in 1 .. n : new[i].guid = base + i /\ new[i].state = "Queued"
  <2>1. \A i \in 1 .. n : [guid |-> base + i, state |-> "Queued"] \in Row
    BY <1>2 DEF Row, Statuses
  <2>2. new = [i \in 1 .. n |-> [guid |-> base + i, state |-> "Queued"]] BY <1>2
  <2> HIDE DEF new, base, n
  <2>3. ASSUME NEW z \in [1 .. n -> Row] PROVE z \in Seq(Row) /\ Len(z) = n
    BY <1>2
  <2>4. new \in Seq(Row) /\ Len(new) = n BY <2>1, <2>2, <2>3
  <2> QED BY <2>2, <2>4 DEF Worker
<1> HIDE DEF new, base, n
<1>4. /\ l \in Seq(Row) /\ Len(l) = Len(w.list) + n /\ Len(w.list) \in Nat
      /\ \A i \in 1 .. Len(w.list) : l[i] = w.list[i]
      /\ \A i \in 1 .. n : l[Len(w.list) + i] = new[i]
  <2>1. ASSUME NEW x \in Seq(Row), NEW y \in Seq(Row)
        PROVE  /\ x \o y \in Seq(Row) /\ Len(x \o y) = Len(x) + Len(y) /\ Len(x) \in Nat
               /\ \A i \in 1 .. Len(x) : (x \o y)[i] = x[i]
               /\ \A i \in 1 .. Len(y) : (x \o y)[Len(x) + i] = y[i]
    OBVIOUS
  <2> QED BY <2>1, <1>3
<1>5. /\ u \in Worker /\ u.list = l /\ u.running = w.running /\ u.cur = w.cur
      /\ Enqueued(w, s, t) = startNext(u)
  BY <1>4 DEF Worker, Enqueued, new, l
<1> HIDE DEF l, u
<1>6. NewGuids(s, t) = {base + i : i \in 1 .. n}
  <2>1. ASSUME NEW g \in base + 1 .. base + n PROVE \E i \in 1 .. n : g = base + i
    <3>1. g - base \in 1 .. n /\ g = base + (g - base) BY <1>2
    <3> QED BY <3>1
  <2>2. ASSUME NEW i \in 1 .. n PROVE base + i \in base + 1 .. base + n
    BY <1>2
  <2>3. NewGuids(s, t) = base + 1 .. base + n BY <1>2 DEF NewGuids, base
  <2> QED BY <2>1, <2>2, <2>3
<1>7. \A i \in 1 .. Len(l) : \/ i \in 1 .. Len(w.list)
                             \/ \E j \in 1 .. n : i = Len(w.list) + j
  <2>1. ASSUME NEW i \in 1 .. Len(l), i \notin 1 .. Len(w.list)
        PROVE  \E j \in 1 .. n : i = Len(w.list) + j
    <3>1. i - Len(w.list) \in 1 .. n /\ i = Len(w.list) + (i - Len(w.list)) BY <2>1, <1>2, <1>4
    <3> QED BY <3>1
  <2> QED BY <2>1
<1>8. /\ Of(s, k) \subseteq Of(t, k) /\ NewGuids(s, t) \subseteq Of(t, k)
      /\ Of(s, k) \cap NewGuids(s, t) = {}
  BY <1>1 DEF Of
<1>9. Lined(u, Of(t, k), w.running)
  <2>1. ASSUME NEW j \in 1 .. n
        PROVE  l[Len(w.list) + j].guid = base + j /\ l[Len(w.list) + j].guid \in NewGuids(s, t)
               /\ l[Len(w.list) + j].state = "Queued"
    BY <1>3, <1>4, <1>6
  <2>2. w.running => w.cur \in Of(s, k) BY DEF Lined
  <2>3. ASSUME NEW i \in 1 .. Len(l)
        PROVE  /\ l[i].guid \in Of(t, k)
               /\ l[i].state = "Active" => w.running /\ l[i].guid = w.cur
               /\ l[i].state = "Queued" => ~(w.running /\ l[i].guid = w.cur)
    <3>1. CASE i \in 1 .. Len(w.list) BY <3>1, <1>4, <1>8 DEF Lined
    <3>2. CASE \E j \in 1 .. n : i = Len(w.list) + j
      BY <3>2, <2>1, <2>2, <1>8
    <3> QED BY <3>1, <3>2, <1>7
  <2>4. ASSUME NEW i \in 1 .. Len(l), NEW j \in 1 .. Len(l), l[i].guid = l[j].guid PROVE i = j
    <3>1. CASE i \in 1 .. Len(w.list) /\ j \in 1 .. Len(w.list) BY <3>1, <2>4, <1>4 DEF Lined
    <3>2. ASSUME NEW a \in 1 .. Len(w.list), NEW b \in 1 .. n, l[a].guid = l[Len(w.list) + b].guid
          PROVE  FALSE
      <4>1. l[a].guid \in Of(s, k) BY <1>4 DEF Lined
      <4> QED BY <4>1, <3>2, <2>1, <1>8
    <3>3. ASSUME NEW a \in 1 .. n, NEW b \in 1 .. n,
                 l[Len(w.list) + a].guid = l[Len(w.list) + b].guid
          PROVE  a = b
      BY <3>3, <2>1, <1>2
    <3> QED BY <3>1, <3>2, <3>3, <1>7, <2>4
  <2> QED BY <2>2, <2>3, <2>4, <1>5, <1>8 DEF Lined
<1>10. Waiting(u) = Waiting(w) \cup NewGuids(s, t)
  <2>1. ASSUME NEW g \in Waiting(u) PROVE g \in Waiting(w) \cup NewGuids(s, t)
    <3>1. PICK i \in 1 .. Len(l) : l[i].state = "Queued" /\ g = l[i].guid
      BY <1>5 DEF Waiting, Rows
    <3>2. CASE i \in 1 .. Len(w.list) BY <3>1, <3>2, <1>4 DEF Waiting, Rows
    <3>3. CASE \E j \in 1 .. n : i = Len(w.list) + j BY <3>1, <3>3, <1>3, <1>4, <1>6
    <3> QED BY <3>2, <3>3, <1>7
  <2>2. ASSUME NEW g \in Waiting(w) PROVE g \in Waiting(u)
    <3>1. PICK i \in 1 .. Len(w.list) : w.list[i].state = "Queued" /\ g = w.list[i].guid
      BY DEF Waiting, Rows
    <3>2. i \in 1 .. Len(l) BY <1>2, <1>4
    <3> QED BY <3>1, <3>2, <1>4, <1>5 DEF Waiting, Rows
  <2>3. ASSUME NEW g \in NewGuids(s, t) PROVE g \in Waiting(u)
    <3>1. PICK i \in 1 .. n : g = base + i BY <1>6
    <3>2. Len(w.list) + i \in 1 .. Len(l) BY <1>2, <1>4
    <3>3. l[Len(w.list) + i].state = "Queued" /\ l[Len(w.list) + i].guid = g BY <3>1, <1>3, <1>4
    <3> QED BY <3>2, <3>3, <1>5 DEF Waiting, Rows
  <2> QED BY <2>1, <2>2, <2>3
<1>11. Unfinished(u) = Unfinished(w) \cup NewGuids(s, t)
  BY <1>5, <1>10, UnfinishedIs
<1> QED BY <1>5, <1>9, <1>11, StartNextFacts

\* What the user may do to a worker leaves it no more to do.
LEMMA StopFacts ==
    ASSUME NEW w \in Worker, NEW kills \in BOOLEAN, NEW G, Lined(w, G, w.running)
    PROVE  LET v == stop(w, kills)
           IN  /\ v \in Worker /\ v.list = w.list /\ v.running = w.running /\ v.cur = w.cur
               /\ Lined(v, G, v.running) /\ Unfinished(v) = Unfinished(w)
<1> DEFINE v == stop(w, kills)
<1>1. v \in Worker /\ v.list = w.list /\ v.running = w.running /\ v.cur = w.cur
  BY DEF stop, Worker, Statuses
<1> QED BY <1>1 DEF Lined, Unfinished, RowsOf

LEMMA CommandedFacts ==
    ASSUME NEW w \in Worker, NEW kills \in BOOLEAN, NEW G, Lined(w, G, w.running),
           NEW v \in Commanded(w, kills)
    PROVE  v \in Worker /\ Lined(v, G, v.running) /\ Unfinished(v) \subseteq Unfinished(w)
<1>0. w.list \in Seq(Row) /\ Len(w.list) \in Nat
  BY DEF Worker
<1>1. CASE v \in Stopping(w, kills)
  <2>1. v = stop(w, kills) BY <1>1 DEF Stopping
  <2> QED BY <2>1, StopFacts
<1>2. CASE v \in Killing(w, kills)
  <2>1. PICK i \in 1 .. Len(w.list) :
            v = [(IF w.list[i].state = "Active" THEN stop(w, kills) ELSE w)
                     EXCEPT !.list = RemoveAt(@, i)]
    BY <1>2 DEF Killing
  <2> DEFINE u == IF w.list[i].state = "Active" THEN stop(w, kills) ELSE w
             m == [j \in 1 .. Len(w.list) - 1 |-> IF j < i THEN j ELSE j + 1]
  <2>2. u \in Worker /\ u.list = w.list /\ u.running = w.running /\ u.cur = w.cur
        /\ Lined(u, G, u.running) /\ Unfinished(u) = Unfinished(w)
    BY StopFacts
  <2>3. v = [u EXCEPT !.list = RemoveAt(u.list, i)]
    BY <2>1
  <2> HIDE DEF u
  <2>4. /\ RemoveAt(w.list, i) \in Seq(Row) /\ Len(RemoveAt(w.list, i)) = Len(w.list) - 1
        /\ \A j \in 1 .. Len(w.list) - 1 :
               RemoveAt(w.list, i)[j] = IF j < i THEN w.list[j] ELSE w.list[j + 1]
    BY <1>0, RemoveAtFacts
  <2>5. v \in Worker /\ v.list = RemoveAt(w.list, i) /\ v.running = u.running /\ v.cur = u.cur
    BY <2>2, <2>3, <2>4 DEF Worker
  <2>6. \A j \in 1 .. Len(v.list) : m[j] \in 1 .. Len(u.list) /\ v.list[j] = u.list[m[j]]
    BY <1>0, <2>2, <2>4, <2>5
  <2>7. \A j, k \in 1 .. Len(v.list) : m[j] = m[k] => j = k
    BY <1>0, <2>2, <2>4, <2>5
  <2> HIDE DEF m
  <2>9. u \in Worker /\ Lined(u, G, u.running) BY <2>2
  <2>10. v \in Worker /\ v.running = u.running /\ v.cur = u.cur BY <2>5
  <2>8. Lined(v, G, u.running) /\ Unfinished(v) \subseteq Unfinished(u)
    BY ONLY <2>9, <2>10, <2>6, <2>7, PickedFacts, SMTT(30)
  <2> QED BY <2>2, <2>5, <2>8
<1>3. CASE v \in Clearing(w)
  <2> DEFINE done == [guid : Nat, state : {"Success", "Failed", "Error"}]
             S == {w.list[i] : i \in 1 .. Len(w.list)} \ done
             n == Cardinality(At(w.list, S))
             m == [j \in 1 .. n |-> Nth(w.list, S, j)]
             l == Only(w.list, S)
  <2>1. v = [w EXCEPT !.list = l]
    BY <1>3 DEF Clearing, Without
  <2> HIDE DEF S
  <2>2. /\ n \in Nat /\ \A k \in 1 .. n : Nth(w.list, S, k) \in At(w.list, S)
        /\ \A k, j \in 1 .. n : k < j => Nth(w.list, S, k) < Nth(w.list, S, j)
    BY <1>0, NthFacts
  <2>3. l \in Seq(Row) BY <1>0, OnlyFacts
  <2>4. Len(l) = n /\ \A j \in 1 .. n : l[j] = w.list[Nth(w.list, S, j)]
    BY <2>2 DEF Only
  <2>5. v \in Worker /\ v.list = l /\ v.running = w.running /\ v.cur = w.cur
    BY <2>1, <2>3 DEF Worker
  <2>6. \A j \in 1 .. n : m[j] \in 1 .. Len(w.list) /\ m[j] \in Nat /\ l[j] = w.list[m[j]]
    BY <2>2, <2>4, <1>0 DEF At
  <2>7. \A j, k \in 1 .. n : m[j] = m[k] => j = k
    <3>1. \A j, k \in 1 .. n : j < k => m[j] < m[k] BY <2>2
    <3> HIDE DEF m
    <3> QED BY <3>1, <2>2, <2>6
  <2> HIDE DEF m, l, n
  <2>9. /\ \A j \in 1 .. Len(v.list) : m[j] \in 1 .. Len(w.list) /\ v.list[j] = w.list[m[j]]
        /\ \A j, k \in 1 .. Len(v.list) : m[j] = m[k] => j = k
    BY <2>4, <2>5, <2>6, <2>7
  <2>10. v \in Worker /\ v.running = w.running /\ v.cur = w.cur BY <2>5
  <2>8. Lined(v, G, w.running) /\ Unfinished(v) \subseteq Unfinished(w)
    BY ONLY w \in Worker, Lined(w, G, w.running), <2>9, <2>10, PickedFacts
  <2> QED BY <2>5, <2>8
<1>4. CASE v \in Moving(w)
  <2>1. PICK i \in 1 .. Len(w.list) - 1 :
            v = [w EXCEPT !.list[i] = w.list[i + 1], !.list[i + 1] = w.list[i]]
    BY <1>4 DEF Moving
  <2> DEFINE l == [[w.list EXCEPT ![i] = w.list[i + 1]] EXCEPT ![i + 1] = w.list[i]]
             m == [j \in 1 .. Len(w.list) |-> IF j = i THEN i + 1 ELSE IF j = i + 1 THEN i ELSE j]
  <2>2. v = [w EXCEPT !.list = l]
    BY <2>1 DEF Worker
  <2>3. i \in 1 .. Len(w.list) /\ i + 1 \in 1 .. Len(w.list) /\ i # i + 1
    BY <1>0
  <2>4. /\ l \in Seq(Row) /\ Len(l) = Len(w.list)
        /\ \A j \in 1 .. Len(l) : l[j] = IF j = i THEN w.list[i + 1] ELSE
                                         IF j = i + 1 THEN w.list[i] ELSE w.list[j]
    BY <1>0, <2>3
  <2> HIDE DEF l
  <2>5. v \in Worker /\ v.list = l /\ v.running = w.running /\ v.cur = w.cur
    BY <2>2, <2>4 DEF Worker
  <2>6. \A j \in 1 .. Len(l) : m[j] \in 1 .. Len(w.list) /\ l[j] = w.list[m[j]]
    BY <1>0, <2>3, <2>4
  <2>7. \A j, k \in 1 .. Len(l) : m[j] = m[k] => j = k
    BY <1>0, <2>3, <2>4
  <2> HIDE DEF m
  <2>8. Lined(v, G, w.running) /\ Unfinished(v) \subseteq Unfinished(w)
    BY <2>5, <2>6, <2>7, PickedFacts
  <2> QED BY <2>5, <2>8
<1>5. CASE v \in Switching(w)
  <2> DEFINE u == [w EXCEPT !.enabled = ~@]
  <2>1. v = startNext(u) BY <1>5 DEF Switching
  <2>2. u \in Worker /\ u.list = w.list /\ u.running = w.running /\ u.cur = w.cur
    BY DEF Worker
  <2> HIDE DEF u
  <2>3. Lined(u, G, u.running) /\ Unfinished(u) = Unfinished(w)
    BY <2>2 DEF Lined, Unfinished, RowsOf
  <2> QED BY <2>1, <2>2, <2>3, StartNextFacts
<1> QED BY <1>1, <1>2, <1>3, <1>4, <1>5 DEF Commanded

-----------------------------------------------------------------------------
(* Poweroff.                                                               *)

Same(p, q) ==
    /\ p.downloads = q.downloads /\ p.repairs = q.repairs /\ p.unpacks = q.unpacks
    /\ p.numRepairs = q.numRepairs /\ p.numUnpacks = q.numUnpacks
    /\ p.numArchives = q.numArchives /\ p.numTasks = q.numTasks

LEMMA EvaluateFacts ==
    ASSUME NEW p \in Power
    PROVE  LET q == evaluate(p)
           IN  q \in Power /\ Same(p, q) /\ (p.off => q.off)
               /\ (q.off => p.off \/ MayBeOff(p))
<1>1. CASE evaluate(p) = p
  BY <1>1 DEF Same
<1>2. CASE evaluate(p) # p
  <2>1. evaluate(p) = [p EXCEPT !.off = TRUE] /\ MayBeOff(p)
    BY <1>2 DEF evaluate, MayBeOff
  <2> QED BY <2>1 DEF Power, Same
<1> QED BY <1>1, <1>2

\* What only downloads could have switched off stays so.
LEMMA EmitFacts ==
    ASSUME NEW s \in State, NEW D,
           IsFiniteSet(s.man.pending),
           D = {} /\ s.pow.off => /\ s.pow.downloads => s.pow.numTasks = 0
                                  /\ ~s.pow.repairs /\ ~s.pow.unpacks
    PROVE  LET t == emitPending(s)
           IN  /\ t \in State /\ Switched(t, D)
               /\ t.arcs = s.arcs /\ t.rep = s.rep /\ t.unp = s.unp /\ t.man = s.man
               /\ t.disk = s.disk /\ t.aborted = s.aborted
               /\ t.pow.numRepairs = s.pow.numRepairs /\ t.pow.numUnpacks = s.pow.numUnpacks
               /\ t.pow.numTasks = s.pow.numTasks /\ t.pow.downloads = s.pow.downloads
<1> DEFINE n == Cardinality(s.man.pending)
           p == [s.pow EXCEPT !.numArchives = n]
           q == evaluate(p)
           t == emitPending(s)
<1>1. n \in Nat
  BY FS_CardinalityType
<1>2. /\ p \in Power /\ p.numArchives = n /\ p.off = s.pow.off
      /\ p.downloads = s.pow.downloads /\ p.repairs = s.pow.repairs /\ p.unpacks = s.pow.unpacks
      /\ p.numRepairs = s.pow.numRepairs /\ p.numUnpacks = s.pow.numUnpacks
      /\ p.numTasks = s.pow.numTasks
  BY <1>1 DEF State, Power
<1>3. t = [s EXCEPT !.pow = q]
  BY DEF emitPending, numPendingArchives
<1> HIDE DEF p, t, n
<1>4. q \in Power /\ Same(p, q) /\ (q.off => p.off \/ MayBeOff(p))
  BY <1>2, EvaluateFacts
<1> HIDE DEF q
<1>5. /\ t \in State /\ t.pow = q
      /\ t.arcs = s.arcs /\ t.rep = s.rep /\ t.unp = s.unp /\ t.man = s.man
      /\ t.disk = s.disk /\ t.aborted = s.aborted
  BY <1>3, <1>4 DEF State
<1>6. Switched(t, D)
  BY <1>2, <1>4, <1>5 DEF Switched, MayBeOff, Same, n
<1> QED BY <1>2, <1>4, <1>5, <1>6 DEF Same, t

LEMMA FinitePending ==
    ASSUME NEW s \in State, NEW P, NEW D, NEW R, NEW V, Ledger(s, P, D, R, V)
    PROVE  IsFiniteSet(s.man.pending) /\ IsFiniteSet(R) /\ IsFiniteSet(V) /\ IsFiniteSet(Ids(s))
<1>1. Len(s.arcs) \in Nat
  BY DEF State
<1>2. IsFiniteSet(Ids(s))
  BY <1>1, FS_Interval DEF Ids
<1>3. s.man.pending \subseteq Ids(s) /\ R \subseteq Ids(s) /\ V \subseteq Ids(s)
  BY DEF Ledger, Known, Of
<1> QED BY <1>2, <1>3, FS_Subset

-----------------------------------------------------------------------------
(* Handing archives over.                                                  *)

Kept(s, t) ==
    /\ t.disk = s.disk /\ t.aborted = s.aborted
    /\ t.pow.off = s.pow.off /\ t.pow.numArchives = s.pow.numArchives
    /\ t.pow.numTasks = s.pow.numTasks /\ t.pow.downloads = s.pow.downloads
    /\ t.pow.repairs = s.pow.repairs /\ t.pow.unpacks = s.pow.unpacks

LEMMA AddUnpackFacts ==
    ASSUME NEW s \in State, NEW m \in BOOLEAN, NEW f \in Folders, NEW files \in Seq(Files),
           Lined(s.unp, Of(s, "unpack"), s.unp.running)
    PROVE  LET t == addUnpack(s, Make(s, "unpack", m, f, files))
           IN  /\ t \in State /\ Grown(s, t, "unpack", m, f, files) /\ Kept(s, t)
               /\ t.rep = s.rep /\ t.man = s.man
               /\ t.pow.numRepairs = s.pow.numRepairs
               /\ t.pow.numUnpacks = s.pow.numUnpacks + Len(files)
               /\ Lined(t.unp, Of(t, "unpack"), t.unp.running)
               /\ Unfinished(t.unp) = Unfinished(s.unp) \cup NewGuids(s, t)
<1> DEFINE u == Make(s, "unpack", m, f, files)
           w == Enqueued(s.unp, s, u)
           p == unpackEnqueue(s.pow, Len(files))
           t == addUnpack(s, u)
<1>1. /\ u \in State /\ Grown(s, u, "unpack", m, f, files) /\ "unpack" \in Kinds
      /\ u.rep = s.rep /\ u.unp = s.unp /\ u.man = s.man /\ u.pow = s.pow
      /\ u.disk = s.disk /\ u.aborted = s.aborted
  BY MakeFacts DEF Kinds
<1>2. t = [u EXCEPT !.pow = unpackEnqueue(u.pow, Cardinality(NewGuids(s, u))),
                    !.unp = Enqueued(u.unp, s, u)]
  BY DEF addUnpack
<1> HIDE DEF u, t
<1>3. Cardinality(NewGuids(s, u)) = Len(files) /\ NewGuids(s, u) \subseteq Nat
  BY <1>1, GrownFacts
<1>4. s.unp \in Worker
  BY DEF State
<1>5. /\ w \in Worker /\ Lined(w, Of(u, "unpack"), w.running)
      /\ Unfinished(w) = Unfinished(s.unp) \cup NewGuids(s, u)
  BY <1>1, <1>4, EnqueuedFacts
<1> HIDE DEF w
<1>6. /\ p \in Power /\ p.numUnpacks = s.pow.numUnpacks + Len(files)
      /\ p.numRepairs = s.pow.numRepairs
      /\ p.off = s.pow.off /\ p.numArchives = s.pow.numArchives
      /\ p.numTasks = s.pow.numTasks /\ p.downloads = s.pow.downloads
      /\ p.repairs = s.pow.repairs /\ p.unpacks = s.pow.unpacks
  <2>1. s.pow \in Power /\ Len(files) \in Nat BY DEF State
  <2>2. s.pow.numUnpacks \in Int /\ s.pow.numUnpacks + Len(files) \in Int BY <2>1 DEF Power
  <2>3. p = [s.pow EXCEPT !.numUnpacks = s.pow.numUnpacks + Len(files)] BY DEF unpackEnqueue
  <2> QED BY <2>1, <2>2, <2>3 DEF Power
<1> HIDE DEF p
<1>7. t = [u EXCEPT !.pow = p, !.unp = w]
  BY <1>1, <1>2, <1>3 DEF p, w
<1>8. /\ t \in State /\ t.arcs = u.arcs /\ t.pow = p /\ t.unp = w /\ t.rep = s.rep
      /\ t.man = s.man
      /\ t.disk = s.disk /\ t.aborted = s.aborted
  BY <1>1, <1>5, <1>6, <1>7 DEF State
<1>9. Of(t, "unpack") = Of(u, "unpack") /\ NewGuids(s, t) = NewGuids(s, u)
      /\ Grown(s, t, "unpack", m, f, files)
  BY <1>1, <1>8 DEF Of, Ids, NewGuids, Grown
<1> QED BY <1>5, <1>6, <1>8, <1>9 DEF Kept, t, u

LEMMA AddRecoveryFacts ==
    ASSUME NEW s \in State, NEW m \in BOOLEAN, NEW f \in Folders, NEW files \in Seq(Files),
           Lined(s.rep, Of(s, "repair"), s.rep.running)
    PROVE  LET t == addRecovery(s, Make(s, "repair", m, f, files))
           IN  /\ t \in State /\ Grown(s, t, "repair", m, f, files) /\ Kept(s, t)
               /\ t.unp = s.unp /\ t.man = s.man
               /\ t.pow.numUnpacks = s.pow.numUnpacks
               /\ t.pow.numRepairs = s.pow.numRepairs + Len(files)
               /\ Lined(t.rep, Of(t, "repair"), t.rep.running)
               /\ Unfinished(t.rep) = Unfinished(s.rep) \cup NewGuids(s, t)
<1> DEFINE u == Make(s, "repair", m, f, files)
           w == Enqueued(s.rep, s, u)
           p == repairEnqueue(s.pow, Len(files))
           t == addRecovery(s, u)
<1>1. /\ u \in State /\ Grown(s, u, "repair", m, f, files) /\ "repair" \in Kinds
      /\ u.rep = s.rep /\ u.unp = s.unp /\ u.man = s.man /\ u.pow = s.pow
      /\ u.disk = s.disk /\ u.aborted = s.aborted
  BY MakeFacts DEF Kinds
<1>2. t = [u EXCEPT !.pow = repairEnqueue(u.pow, Cardinality(NewGuids(s, u))),
                    !.rep = Enqueued(u.rep, s, u)]
  BY DEF addRecovery
<1> HIDE DEF u, t
<1>3. Cardinality(NewGuids(s, u)) = Len(files) /\ NewGuids(s, u) \subseteq Nat
  BY <1>1, GrownFacts
<1>4. s.rep \in Worker
  BY DEF State
<1>5. /\ w \in Worker /\ Lined(w, Of(u, "repair"), w.running)
      /\ Unfinished(w) = Unfinished(s.rep) \cup NewGuids(s, u)
  BY <1>1, <1>4, EnqueuedFacts
<1> HIDE DEF w
<1>6. /\ p \in Power /\ p.numRepairs = s.pow.numRepairs + Len(files)
      /\ p.numUnpacks = s.pow.numUnpacks
      /\ p.off = s.pow.off /\ p.numArchives = s.pow.numArchives
      /\ p.numTasks = s.pow.numTasks /\ p.downloads = s.pow.downloads
      /\ p.repairs = s.pow.repairs /\ p.unpacks = s.pow.unpacks
  <2>1. s.pow \in Power /\ Len(files) \in Nat BY DEF State
  <2>2. s.pow.numRepairs \in Int /\ s.pow.numRepairs + Len(files) \in Int BY <2>1 DEF Power
  <2>3. p = [s.pow EXCEPT !.numRepairs = s.pow.numRepairs + Len(files)] BY DEF repairEnqueue
  <2> QED BY <2>1, <2>2, <2>3 DEF Power
<1> HIDE DEF p
<1>7. t = [u EXCEPT !.pow = p, !.rep = w]
  BY <1>1, <1>2, <1>3 DEF p, w
<1>8. /\ t \in State /\ t.arcs = u.arcs /\ t.pow = p /\ t.rep = w /\ t.unp = s.unp
      /\ t.man = s.man
      /\ t.disk = s.disk /\ t.aborted = s.aborted
  BY <1>1, <1>5, <1>6, <1>7 DEF State
<1>9. Of(t, "repair") = Of(u, "repair") /\ NewGuids(s, t) = NewGuids(s, u)
      /\ Grown(s, t, "repair", m, f, files)
  BY <1>1, <1>8 DEF Of, Ids, NewGuids, Grown
<1> QED BY <1>5, <1>6, <1>8, <1>9 DEF Kept, t, u

LEMMA ExpectFacts ==
    ASSUME NEW s \in State, NEW t \in State, NEW f \in Folders, NEW vols \in Seq(Files),
           Len(s.arcs) <= Len(t.arcs)
    PROVE  LET u == Expect(s, t, f, vols)
           IN  /\ u \in State /\ u.arcs = t.arcs /\ u.rep = t.rep /\ u.unp = t.unp
               /\ u.pow = t.pow /\ u.disk = t.disk /\ u.aborted = t.aborted
               /\ u.man.repairs = t.man.repairs
               /\ u.man.unpacks = t.man.unpacks \cup {<<f, v>> : v \in Range(vols)}
               /\ u.man.pending = t.man.pending \cup NewGuids(s, t)
<1> DEFINE u == Expect(s, t, f, vols)
           x == t.man.unpacks \cup {<<f, v>> : v \in Range(vols)}
           y == t.man.pending \cup NewGuids(s, t)
           m == [t.man EXCEPT !.unpacks = x, !.pending = y]
<1>1. Range(vols) \subseteq Files /\ NewGuids(s, t) \subseteq Nat
  BY RangeFacts DEF NewGuids, State
<1>2. t.man \in Manager /\ x \subseteq Folders \X Files /\ y \subseteq Nat
  BY <1>1 DEF State, Manager
<1>3. u = [t EXCEPT !.man = m]
  BY DEF Expect, State
<1> HIDE DEF x, y, u
<1>4. m \in Manager /\ m.unpacks = x /\ m.pending = y /\ m.repairs = t.man.repairs
  BY <1>2 DEF Manager
<1> HIDE DEF m
<1> QED BY <1>3, <1>4 DEF State, x, y, u

\* Volumes of a folder that the manager has not expected yet are unpacked.
LEMMA UnpacksFacts ==
    ASSUME NEW s \in State, NEW P \in SUBSET Folders, NEW D, NEW R,
           Ledger(s, P, D, R, Unfinished(s.unp)), Lined(s.unp, Of(s, "unpack"), s.unp.running),
           NEW f \in Folders, f \notin P, s.man.repairs[f] = 0,
           NEW vols \in Seq(Files), IsInjective(vols),
           \A v \in Range(vols) : <<f, v>> \notin s.man.unpacks
    PROVE  LET u == Unpacks(s, f, vols)
           IN  /\ u \in State /\ Grown(s, u, "unpack", TRUE, f, vols) /\ Kept(s, u)
               /\ u.rep = s.rep /\ u.pow.numRepairs = s.pow.numRepairs
               /\ Lined(u.unp, Of(u, "unpack"), u.unp.running)
               /\ Ledger(u, P, D, R, Unfinished(u.unp))
<1> DEFINE t == addUnpack(s, Make(s, "unpack", TRUE, f, vols))
           u == Unpacks(s, f, vols)
<1>1. /\ t \in State /\ Grown(s, t, "unpack", TRUE, f, vols) /\ Kept(s, t)
      /\ t.rep = s.rep /\ t.man = s.man
      /\ t.pow.numRepairs = s.pow.numRepairs
      /\ t.pow.numUnpacks = s.pow.numUnpacks + Len(vols)
      /\ Lined(t.unp, Of(t, "unpack"), t.unp.running)
      /\ Unfinished(t.unp) = Unfinished(s.unp) \cup NewGuids(s, t)
  BY AddUnpackFacts
<1>2. u = Expect(s, t, f, vols)
  BY DEF Unpacks
<1> HIDE DEF t, u
<1>3. Len(s.arcs) <= Len(t.arcs)
  BY <1>1 DEF Grown, State
<1>4. /\ u \in State /\ u.arcs = t.arcs /\ u.rep = t.rep /\ u.unp = t.unp
      /\ u.pow = t.pow /\ u.disk = t.disk /\ u.aborted = t.aborted
      /\ u.man.repairs = s.man.repairs
      /\ u.man.unpacks = s.man.unpacks \cup {<<f, v>> : v \in Range(vols)}
      /\ u.man.pending = s.man.pending \cup NewGuids(s, t)
  BY <1>1, <1>2, <1>3, ExpectFacts
<1>5. NewGuids(s, u) = NewGuids(s, t) /\ Grown(s, u, "unpack", TRUE, f, vols) /\ Kept(s, u)
      /\ Of(u, "unpack") = Of(t, "unpack")
  BY <1>1, <1>4 DEF NewGuids, Grown, Kept, Of, Ids
<1>6. u.man.repairs = [s.man.repairs EXCEPT ![f] = s.man.repairs[f] + 0]
  BY <1>4 DEF State, Manager
<1>7. Ledger(u, P, D, R \cup {}, Unfinished(s.unp) \cup NewGuids(s, u))
  <2>1. s.pow.numRepairs + 0 = s.pow.numRepairs BY DEF State, Power
  <2>2. "unpack" \in Kinds /\ "unpack" # "repair" /\ u.disk = s.disk BY <1>5 DEF Kinds, Kept
  <2>3. /\ u.man.unpacks = s.man.unpacks \cup {<<f, v>> : v \in Range(vols)}
        /\ u.man.pending = s.man.pending \cup NewGuids(s, u)
        /\ u.pow.numRepairs = s.pow.numRepairs + 0
        /\ u.pow.numUnpacks = s.pow.numUnpacks + Len(vols)
    BY <1>1, <1>4, <1>5, <2>1
  <2>4. Growth(s, u, P, "unpack", TRUE, f, vols, TRUE)
    BY <1>5, <1>6, <2>2, <2>3 DEF Growth
  <2> QED BY <1>4, <2>2, <2>4, LedgerGrows
<1>8. R \cup {} = R /\ Unfinished(u.unp) = Unfinished(s.unp) \cup NewGuids(s, u)
  BY <1>1, <1>4, <1>5
<1> QED BY <1>1, <1>4, <1>5, <1>7, <1>8 DEF u

\* What an unpacked volume brings to light is expected.
LEMMA FoundFacts ==
    ASSUME NEW s \in State, NEW P \in SUBSET Folders, NEW D, NEW R, NEW V,
           Ledger(s, P, D, R, V),
           NEW f \in Folders, f \notin P, s.man.repairs[f] = 0,
           NEW vols \in Seq(Files), IsInjective(vols),
           \A v \in Range(vols) : <<f, v>> \notin s.man.unpacks
    PROVE  LET u == Expect(s, Make(s, "unpack", TRUE, f, vols), f, vols)
           IN  /\ u \in State /\ Grown(s, u, "unpack", TRUE, f, vols)
               /\ u.rep = s.rep /\ u.unp = s.unp /\ u.pow = s.pow
               /\ u.disk = s.disk /\ u.aborted = s.aborted
               /\ Ledger(u, P, D, R, V)
<1> DEFINE t == Make(s, "unpack", TRUE, f, vols)
           u == Expect(s, t, f, vols)
<1>1. /\ t \in State /\ Grown(s, t, "unpack", TRUE, f, vols) /\ "unpack" \in Kinds
      /\ t.rep = s.rep /\ t.unp = s.unp /\ t.man = s.man /\ t.pow = s.pow
      /\ t.disk = s.disk /\ t.aborted = s.aborted
  BY MakeFacts DEF Kinds
<1> HIDE DEF t
<1>2. Len(s.arcs) <= Len(t.arcs)
  BY <1>1 DEF Grown, State
<1>3. /\ u \in State /\ u.arcs = t.arcs /\ u.rep = t.rep /\ u.unp = t.unp
      /\ u.pow = t.pow /\ u.disk = t.disk /\ u.aborted = t.aborted
      /\ u.man.repairs = s.man.repairs
      /\ u.man.unpacks = s.man.unpacks \cup {<<f, v>> : v \in Range(vols)}
      /\ u.man.pending = s.man.pending \cup NewGuids(s, t)
  BY <1>1, <1>2, ExpectFacts
<1> HIDE DEF u
<1>4. NewGuids(s, u) = NewGuids(s, t) /\ Grown(s, u, "unpack", TRUE, f, vols)
  BY <1>1, <1>3 DEF NewGuids, Grown
<1>5. Ledger(u, P, D, R \cup {}, V \cup {})
  <2>1. /\ s.pow.numRepairs + 0 = s.pow.numRepairs /\ s.pow.numUnpacks + 0 = s.pow.numUnpacks
        /\ u.man.repairs = [s.man.repairs EXCEPT ![f] = s.man.repairs[f] + 0]
    BY <1>3 DEF State, Power, Manager
  <2>2. /\ u.disk = s.disk
        /\ u.man.unpacks = s.man.unpacks \cup {<<f, v>> : v \in Range(vols)}
        /\ u.man.pending = s.man.pending \cup NewGuids(s, u)
        /\ u.pow.numRepairs = s.pow.numRepairs + 0
        /\ u.pow.numUnpacks = s.pow.numUnpacks + 0
    BY <1>1, <1>3, <1>4, <2>1
  <2>3. "repair" # "unpack" /\ Growth(s, u, P, "unpack", TRUE, f, vols, FALSE)
    BY <1>4, <2>1, <2>2 DEF Growth
  <2> QED BY <1>1, <1>3, <2>3, LedgerGrows
<1>6. R \cup {} = R /\ V \cup {} = V
  OBVIOUS
<1> QED BY <1>1, <1>3, <1>4, <1>5, <1>6 DEF t, u

LEMMA NewVolumesFacts ==
    ASSUME NEW s \in State, NEW f \in Folders, IsInjective(s.disk[f])
    PROVE  /\ NewVolumes(s, f) \in Seq(Files) /\ IsInjective(NewVolumes(s, f))
           /\ \A v \in Range(NewVolumes(s, f)) : <<f, v>> \notin s.man.unpacks
<1>1. s.disk[f] \in Seq(Files)
  BY DEF State
<1> QED BY <1>1, OnlyFacts DEF NewVolumes

-----------------------------------------------------------------------------
(* The end of a process.                                                   *)

\* The manager forgets an archive that nobody has to work on.
LEMMA LedgerForgets ==
    ASSUME NEW s \in State, NEW t \in State, NEW P \in SUBSET Folders, NEW D, NEW R, NEW V,
           Ledger(s, P, D, R, V), NEW g, g \notin R \cup V,
           t.arcs = s.arcs, t.disk = s.disk, t.man.unpacks = s.man.unpacks,
           t.man.repairs = s.man.repairs, t.man.pending = s.man.pending \ {g},
           t.pow.numRepairs = s.pow.numRepairs, t.pow.numUnpacks = s.pow.numUnpacks
    PROVE  Ledger(t, P, D, R, V)
<1>1. Known(s, P, D, R, V) /\ Expected(s, P) /\ RepairsLeft(s, D, R) /\ Tallied(s, D, R, V)
  BY DEF Ledger
<1>2. Known(t, P, D, R, V)
  BY <1>1 DEF Known, Of, Ids
<1>3. Expected(t, P)
  BY <1>1 DEF Expected, ManagedOf, Of, Ids
<1>4. RepairsLeft(t, D, R)
  BY <1>1 DEF RepairsLeft, RepairsOf, RepairDied
<1>5. Tallied(t, D, R, V)
  BY <1>1 DEF Tallied
<1> QED BY <1>2, <1>3, <1>4, <1>5 DEF Ledger

\* What stays of the objects through a callback.
Later(s, t) ==
    /\ Ids(s) \subseteq Ids(t) /\ \A g \in Ids(s) : t.arcs[g] = s.arcs[g]
    /\ t.pow.numTasks = s.pow.numTasks

LEMMA LaterSound ==
    ASSUME NEW s, NEW t, NEW D, D \subseteq Ids(s), Sound(s, D), Later(s, t), t.aborted = s.aborted
    PROVE  Sound(t, D)
  BY DEF Sound, Later

LEMMA OffMeansNothingPending ==
    ASSUME NEW s \in State, NEW g \in s.man.pending, IsFiniteSet(s.man.pending),
           Switched(s, {}), s.pow.off
    PROVE  (s.pow.downloads => s.pow.numTasks = 0) /\ ~s.pow.repairs /\ ~s.pow.unpacks
<1>1. Cardinality(s.man.pending) # 0
  BY FS_EmptySet
<1> QED BY <1>1 DEF Switched, MayBeOff, State, Power

LEMMA RepairReadyFacts ==
    ASSUME NEW s \in State, NEW P \in SUBSET Folders, NEW D, NEW R,
           Ledger(s, P, D, R, Unfinished(s.unp)), Lined(s.unp, Of(s, "unpack"), s.unp.running),
           NEW g \in R \cup D, g \in Of(s, "repair"),
           Switched(s, D), D = {} => ~s.pow.off, Sound(s, D)
    PROVE  LET t == repairReady([s EXCEPT !.pow = powRepairReady(@)], g)
           IN  /\ t \in State /\ t.rep = s.rep /\ Later(s, t)
               /\ Lined(t.unp, Of(t, "unpack"), t.unp.running)
               /\ Ledger(t, P, D, R \ {g}, Unfinished(t.unp))
               /\ Switched(t, D) /\ Sound(t, D)
<1> DEFINE p == [s.pow EXCEPT !.numRepairs = s.pow.numRepairs - 1]
           q == evaluate(p)
           a == [s EXCEPT !.pow = q]
           V == Unfinished(s.unp)
           f == s.arcs[g].folder
           t == repairReady(a, g)
<1>0. t = repairReady([s EXCEPT !.pow = powRepairReady(@)], g)
  BY DEF powRepairReady
<1>1. /\ p \in Power /\ p.numRepairs = s.pow.numRepairs - 1 /\ p.numUnpacks = s.pow.numUnpacks
      /\ p.off = s.pow.off /\ p.numArchives = s.pow.numArchives /\ p.numTasks = s.pow.numTasks
  <2>1. s.pow \in Power /\ s.pow.numRepairs - 1 \in Int BY DEF State, Power
  <2> QED BY <2>1 DEF Power
<1> HIDE DEF p
<1>2. q \in Power /\ Same(p, q) /\ (q.off => p.off \/ MayBeOff(p))
  BY <1>1, EvaluateFacts
<1> HIDE DEF q
<1>3. /\ a \in State /\ a.arcs = s.arcs /\ a.rep = s.rep /\ a.unp = s.unp /\ a.man = s.man
      /\ a.disk = s.disk /\ a.aborted = s.aborted /\ a.pow = q
  BY <1>2 DEF State
<1> HIDE DEF a
<1>4. Switched(a, D)
  BY <1>1, <1>2, <1>3 DEF Switched, MayBeOff, Same
<1>5. /\ g \in Ids(s) /\ s.arcs[g].kind = "repair" /\ f \in Folders /\ D \subseteq Ids(s)
      /\ g \notin V /\ V \ {g} = V
      /\ g \in R \cup V \cup D
      /\ s.man.repairs[f] \in Nat
  <2>1. g \in Ids(s) /\ s.arcs[g].kind = "repair" BY DEF Of
  <2>2. s.arcs[g] \in Archive BY <2>1 DEF State, Ids
  <2>3. D \subseteq Ids(s) /\ V \subseteq Of(s, "unpack") BY DEF Ledger, Known
  <2>4. f \in Folders BY <2>2 DEF Archive
  <2>5. s.man.repairs[f] \in Nat BY <2>4 DEF State, Manager
  <2> HIDE DEF V, f
  <2>6. g \notin V BY <2>1, <2>3 DEF Of
  <2> QED BY <2>1, <2>3, <2>4, <2>5, <2>6
<1>6. /\ a.pow.numRepairs = s.pow.numRepairs - 1 /\ a.pow.numUnpacks = s.pow.numUnpacks - 0
      /\ a.pow.numTasks = s.pow.numTasks
  <2>1. s.pow.numUnpacks - 0 = s.pow.numUnpacks BY DEF State, Power
  <2> QED BY <2>1, <1>1, <1>2, <1>3 DEF Same
<1>7. Later(s, a) /\ Of(a, "unpack") = Of(s, "unpack") /\ Unfinished(a.unp) = V
  BY <1>3, <1>6 DEF Later, Ids, Of
<1>8. Ledger(a, P, D, R \ {g}, V)
  <2>1. Ledger(a, P, D, R \ {g}, V \ {g})
    BY <1>3, <1>5, <1>6, LedgerDone
  <2> QED BY <2>1, <1>5
<1>9. CASE g \notin s.man.pending
  <2>1. t = a BY <1>3, <1>9 DEF repairReady
  <2>2. Sound(a, D) BY <1>3, <1>5, <1>7, LaterSound
  <2> QED BY <1>0, <1>3, <1>4, <1>7, <1>8, <2>1, <2>2
<1>10. CASE g \in s.man.pending /\ s.man.repairs[f] = 0
  <2> DEFINE b == [a EXCEPT !.aborted = TRUE]
  <2>1. t = b BY <1>3, <1>10 DEF repairReady
  <2>2. /\ b \in State /\ b.arcs = a.arcs /\ b.rep = a.rep /\ b.unp = a.unp /\ b.man = a.man
        /\ b.disk = a.disk /\ b.pow = a.pow
    BY <1>3 DEF State
  <2> HIDE DEF b
  <2>3. \E d \in D : s.arcs[d].kind = "repair"
    <3>1. SUFFICES ASSUME \A d \in D : s.arcs[d].kind # "repair" PROVE FALSE
      OBVIOUS
    <3>2. g \in R BY <3>1, <1>5
    <3>3. Cardinality(RepairsOf(s, R, f)) <= 0
      BY <3>1, <1>5, <1>10 DEF Ledger, RepairsLeft, RepairDied
    <3>4. s.arcs[g].managed BY <1>10 DEF Ledger, Known
    <3>5. g \in RepairsOf(s, R, f) BY <3>2, <3>4 DEF RepairsOf
    <3>6. IsFiniteSet(RepairsOf(s, R, f))
      <4>1. IsFiniteSet(R) BY FinitePending
      <4> QED BY <4>1, FS_Subset DEF RepairsOf
    <3>7. Cardinality(RepairsOf(s, R, f)) \in Nat /\ Cardinality(RepairsOf(s, R, f)) # 0
      BY <3>5, <3>6, FS_CardinalityType, FS_EmptySet
    <3> QED BY <3>3, <3>7
  <2>4. Sound(b, D) BY <2>2, <2>3, <1>3 DEF Sound
  <2>5. Later(s, b) /\ Switched(b, D) /\ Of(b, "unpack") = Of(s, "unpack")
    BY <2>2, <1>3, <1>4, <1>7 DEF Later, Switched, Ids, Of
  <2>6. Ledger(b, P, D, R \ {g}, V)
    <3>1. \A e \in Folders : IsInjective(b.disk[e]) BY <2>2, <1>3 DEF Ledger, Known
    <3>2. D \subseteq Ids(a) BY <1>3, <1>5 DEF Ids
    <3> QED BY <3>1, <3>2, <2>2, <1>3, <1>8, LedgerLess
  <2> QED BY <1>0, <1>3, <2>1, <2>2, <2>4, <2>5, <2>6
<1> DEFINE b == [a EXCEPT !.man.repairs[f] = @ - 1]
<1>11. ASSUME g \in s.man.pending, s.man.repairs[f] > 0
       PROVE  /\ b \in State /\ b.arcs = s.arcs /\ b.rep = s.rep /\ b.unp = s.unp
              /\ b.disk = s.disk /\ b.pow = a.pow /\ b.aborted = s.aborted
              /\ b.man.pending = s.man.pending /\ b.man.unpacks = s.man.unpacks
              /\ b.man.repairs = [s.man.repairs EXCEPT ![f] = s.man.repairs[f] - 1]
              /\ Ledger(b, P, D, R \ {g}, V)
              /\ Switched(b, D) /\ Later(s, b) /\ Of(b, "unpack") = Of(s, "unpack")
              /\ s.arcs[g].managed /\ Sound(b, D)
  <2> DEFINE r == [s.man.repairs EXCEPT ![f] = s.man.repairs[f] - 1]
             m == [s.man EXCEPT !.repairs = r]
  <2>1. s.man \in Manager /\ r \in [Folders -> Nat]
    BY <1>5, <1>11 DEF State, Manager
  <2>2. m \in Manager /\ m.repairs = r /\ m.pending = s.man.pending /\ m.unpacks = s.man.unpacks
    BY <2>1 DEF Manager
  <2>3. b = [a EXCEPT !.man = m]
    BY <1>3 DEF State, Manager
  <2> HIDE DEF m, b
  <2>4. /\ b \in State /\ b.arcs = s.arcs /\ b.rep = s.rep /\ b.unp = s.unp
        /\ b.disk = s.disk /\ b.pow = a.pow /\ b.aborted = s.aborted /\ b.man = m
    BY <2>2, <2>3, <1>3 DEF State
  <2>5. s.arcs[g].managed
    BY <1>11 DEF Ledger, Known
  <2>6. Ledger(b, P, D, R \ {g}, V \ {g})
    BY <2>2, <2>4, <2>5, <1>5, <1>6, <1>11, LedgerDone, SMTT(30)
  <2>7. Switched(b, D) /\ Later(s, b) /\ Of(b, "unpack") = Of(s, "unpack")
    BY <2>2, <2>4, <1>3, <1>4, <1>7 DEF Switched, Later, Ids, Of
  <2>8. Sound(b, D) BY <2>4, <2>7, <1>5, LaterSound
  <2> QED BY <2>2, <2>4, <2>5, <2>6, <2>7, <2>8, <1>5
<1>12. CASE g \in s.man.pending /\ s.man.repairs[f] > 1
  <2>1. t = b
    <3>1. /\ g \in a.man.pending /\ a.arcs[g].folder = f
          /\ ~(a.man.repairs[f] = 0) /\ a.man.repairs[f] > 1
      BY <1>3, <1>5, <1>12
    <3> HIDE DEF f
    <3> QED BY <3>1 DEF repairReady
  <2> HIDE DEF b, t
  <2> QED BY <1>0, <2>1, <1>5, <1>11, <1>12
<1>13. CASE g \in s.man.pending /\ s.man.repairs[f] = 1
  <2> DEFINE u == Unpacks(b, f, NewVolumes(b, f))
             v == [u EXCEPT !.man.pending = @ \ {g}]
  <2>1. t = emitPending(v)
    BY <1>3, <1>5, <1>13 DEF repairReady
  <2>2. /\ b \in State /\ b.arcs = s.arcs /\ b.rep = s.rep /\ b.unp = s.unp
        /\ b.disk = s.disk /\ b.pow = a.pow /\ b.aborted = s.aborted
        /\ b.man.pending = s.man.pending /\ b.man.unpacks = s.man.unpacks
        /\ b.man.repairs = [s.man.repairs EXCEPT ![f] = s.man.repairs[f] - 1]
        /\ Ledger(b, P, D, R \ {g}, V)
        /\ Switched(b, D) /\ Later(s, b) /\ Of(b, "unpack") = Of(s, "unpack")
        /\ s.arcs[g].managed /\ Sound(b, D)
    BY <1>5, <1>11, <1>13
  <2> HIDE DEF b
  <2>3. b.man.repairs[f] = 0
    BY <2>2, <1>5, <1>13 DEF State, Manager
  <2>4. f \notin P
    BY <2>2, <1>5 DEF Ledger, Known
  <2>5. IsInjective(b.disk[f])
    BY <2>2, <1>5 DEF Ledger, Known
  <2>6. /\ NewVolumes(b, f) \in Seq(Files) /\ IsInjective(NewVolumes(b, f))
        /\ \A x \in Range(NewVolumes(b, f)) : <<f, x>> \notin b.man.unpacks
    BY <2>2, <2>5, <1>5, NewVolumesFacts
  <2> DEFINE vols == NewVolumes(b, f)
  <2>7. /\ Ledger(b, P, D, R \ {g}, Unfinished(b.unp))
        /\ Lined(b.unp, Of(b, "unpack"), b.unp.running)
    BY <2>2
  <2> HIDE DEF vols
  <2>8. /\ u \in State /\ Grown(b, u, "unpack", TRUE, f, vols) /\ Kept(b, u)
        /\ u.rep = b.rep /\ u.pow.numRepairs = b.pow.numRepairs
        /\ Lined(u.unp, Of(u, "unpack"), u.unp.running)
        /\ Ledger(u, P, D, R \ {g}, Unfinished(u.unp))
    BY <2>2, <2>3, <2>4, <2>6, <2>7, <1>5, UnpacksFacts DEF vols
  <2> HIDE DEF u
  <2>9. /\ v \in State /\ v.arcs = u.arcs /\ v.rep = u.rep /\ v.unp = u.unp /\ v.pow = u.pow
        /\ v.disk = u.disk /\ v.aborted = u.aborted
        /\ v.man.unpacks = u.man.unpacks /\ v.man.repairs = u.man.repairs
        /\ v.man.pending = u.man.pending \ {g}
    <3> DEFINE m == [u.man EXCEPT !.pending = u.man.pending \ {g}]
    <3>1. u.man \in Manager BY <2>8 DEF State
    <3>2. /\ m \in Manager /\ m.unpacks = u.man.unpacks /\ m.repairs = u.man.repairs
          /\ m.pending = u.man.pending \ {g}
      BY <3>1 DEF Manager
    <3>3. v = [u EXCEPT !.man = m] BY <2>8 DEF State, Manager
    <3> HIDE DEF m, v
    <3> QED BY <3>2, <3>3, <2>8 DEF State
  <2> HIDE DEF v
  <2>10. Ids(b) = Ids(s) /\ Ids(s) \subseteq Ids(u) /\ \A h \in Ids(s) : u.arcs[h] = s.arcs[h]
    <3>1. Ids(b) = Ids(s) BY <2>2 DEF Ids
    <3>2. Len(s.arcs) \in Nat /\ Len(u.arcs) = Len(s.arcs) + Len(vols) /\ Len(vols) \in Nat
      BY <2>2, <2>6, <2>8 DEF Grown, State, vols
    <3> QED BY <3>1, <3>2, <2>2, <2>8 DEF Ids, Grown
  <2>11. g \notin Unfinished(u.unp)
    <3>1. u.arcs[g].kind = "repair" BY <2>10, <1>5
    <3> QED BY <3>1, <2>8 DEF Ledger, Known, Of
  <2>12. Ledger(v, P, D, R \ {g}, Unfinished(u.unp))
    BY <2>8, <2>9, <2>11, LedgerForgets
  <2>13. IsFiniteSet(v.man.pending)
    BY <2>9, <2>12, FinitePending
  <2>14. D = {} /\ v.pow.off => /\ v.pow.downloads => v.pow.numTasks = 0
                                /\ ~v.pow.repairs /\ ~v.pow.unpacks
    <3> SUFFICES ASSUME D = {}, v.pow.off
                 PROVE  /\ v.pow.downloads => v.pow.numTasks = 0
                        /\ ~v.pow.repairs /\ ~v.pow.unpacks
      OBVIOUS
    <3>1. v.pow.off = b.pow.off /\ v.pow.downloads = b.pow.downloads
          /\ v.pow.numTasks = b.pow.numTasks
          /\ v.pow.repairs = b.pow.repairs /\ v.pow.unpacks = b.pow.unpacks
      BY <2>8, <2>9 DEF Kept
    <3>2. IsFiniteSet(b.man.pending) BY <2>2, FinitePending
    <3>3. Switched(b, {}) /\ g \in b.man.pending BY <2>2, <1>13
    <3> QED BY <3>1, <3>2, <3>3, <2>2, OffMeansNothingPending
  <2>15. /\ t \in State /\ Switched(t, D)
         /\ t.arcs = v.arcs /\ t.rep = v.rep /\ t.unp = v.unp /\ t.man = v.man
         /\ t.disk = v.disk /\ t.aborted = v.aborted
         /\ t.pow.numRepairs = v.pow.numRepairs /\ t.pow.numUnpacks = v.pow.numUnpacks
         /\ t.pow.numTasks = v.pow.numTasks
    BY <2>1, <2>9, <2>13, <2>14, EmitFacts
  <2> HIDE DEF t
  <2>16. Ledger(t, P, D, R \ {g}, Unfinished(t.unp))
    <3>1. \A e \in Folders : IsInjective(t.disk[e]) BY <2>12, <2>15 DEF Ledger, Known
    <3>2. D \subseteq Ids(v) BY <2>12 DEF Ledger, Known
    <3> QED BY <3>1, <3>2, <2>9, <2>12, <2>15, LedgerLess
  <2>17. Lined(t.unp, Of(t, "unpack"), t.unp.running) /\ Later(s, t) /\ t.rep = s.rep
    BY <2>2, <2>8, <2>9, <2>10, <2>15 DEF Of, Ids, Later, Kept
  <2>18. Sound(t, D)
    <3>1. Sound(s, D) /\ t.aborted = s.aborted BY <2>2, <2>8, <2>9, <2>15 DEF Kept
    <3> QED BY <3>1, <2>17, <1>5, LaterSound
  <2> QED BY <1>0, <2>15, <2>16, <2>17, <2>18
<1>14. s.man.repairs[f] = 0 \/ s.man.repairs[f] > 1 \/ s.man.repairs[f] = 1
  BY <1>5
<1> QED BY <1>9, <1>10, <1>12, <1>13, <1>14

UnpackReadied(s, g) == unpackReady([s EXCEPT !.pow = powUnpackReady(@)], g)

LEMMA UnpackReadyFacts ==
    ASSUME NEW s \in State, NEW P \in SUBSET Folders, NEW D, NEW R, NEW V,
           Ledger(s, P, D, R, V),
           NEW g \in V \cup D, g \in Of(s, "unpack"),
           Switched(s, D), D = {} => ~s.pow.off, Sound(s, D)
    PROVE  LET t == UnpackReadied(s, g)
           IN  /\ t \in State /\ t.rep = s.rep /\ t.unp = s.unp /\ Later(s, t)
               /\ Ledger(t, P, D, R, V \ {g})
               /\ Switched(t, D) /\ Sound(t, D) /\ t.aborted = s.aborted
<1> DEFINE p == [s.pow EXCEPT !.numUnpacks = s.pow.numUnpacks - 1]
           q == evaluate(p)
           a == [s EXCEPT !.pow = q]
           f == s.arcs[g].folder
           t == unpackReady(a, g)
<1>0. t = UnpackReadied(s, g)
  BY DEF powUnpackReady, UnpackReadied
<1>1. /\ p \in Power /\ p.numUnpacks = s.pow.numUnpacks - 1 /\ p.numRepairs = s.pow.numRepairs
      /\ p.off = s.pow.off /\ p.numArchives = s.pow.numArchives /\ p.numTasks = s.pow.numTasks
  <2>1. s.pow \in Power /\ s.pow.numUnpacks - 1 \in Int BY DEF State, Power
  <2> QED BY <2>1 DEF Power
<1> HIDE DEF p
<1>2. q \in Power /\ Same(p, q) /\ (q.off => p.off \/ MayBeOff(p))
  BY <1>1, EvaluateFacts
<1> HIDE DEF q
<1>3. /\ a \in State /\ a.arcs = s.arcs /\ a.rep = s.rep /\ a.unp = s.unp /\ a.man = s.man
      /\ a.disk = s.disk /\ a.aborted = s.aborted /\ a.pow = q
  BY <1>2 DEF State
<1> HIDE DEF a
<1>4. Switched(a, D)
  BY <1>1, <1>2, <1>3 DEF Switched, MayBeOff, Same
<1>5. /\ g \in Ids(s) /\ s.arcs[g].kind = "unpack" /\ f \in Folders /\ D \subseteq Ids(s)
      /\ g \notin R /\ R \ {g} = R /\ g \in R \cup V \cup D
  <2>1. g \in Ids(s) /\ s.arcs[g].kind = "unpack" BY DEF Of
  <2>2. s.arcs[g] \in Archive BY <2>1 DEF State, Ids
  <2>3. D \subseteq Ids(s) /\ R \subseteq Of(s, "repair") BY DEF Ledger, Known
  <2>4. f \in Folders BY <2>2 DEF Archive
  <2> HIDE DEF f
  <2>5. g \notin R BY <2>1, <2>3 DEF Of
  <2> QED BY <2>1, <2>3, <2>4, <2>5
<1>6. /\ a.pow.numUnpacks = s.pow.numUnpacks - 1 /\ a.pow.numRepairs = s.pow.numRepairs - 0
      /\ a.pow.numTasks = s.pow.numTasks
  <2>1. s.pow.numRepairs - 0 = s.pow.numRepairs BY DEF State, Power
  <2> QED BY <2>1, <1>1, <1>2, <1>3 DEF Same
<1>7. Later(s, a) /\ Ids(a) = Ids(s)
  BY <1>3, <1>6 DEF Later, Ids, Of
<1>8. Ledger(a, P, D, R, V \ {g})
  <2>1. Ledger(a, P, D, R \ {g}, V \ {g})
    BY <1>3, <1>5, <1>6, LedgerDone
  <2> QED BY <2>1, <1>5
<1>9. CASE g \notin s.man.pending
  <2>1. t = a BY <1>3, <1>9 DEF unpackReady
  <2>2. Sound(a, D) BY <1>3, <1>5, <1>7, LaterSound
  <2> QED BY <1>0, <1>3, <1>4, <1>7, <1>8, <2>1, <2>2
<1>10. CASE g \in s.man.pending
  <2> DEFINE vols == NewVolumes(a, f)
             u == Expect(a, Make(a, "unpack", TRUE, f, vols), f, vols)
             v == [u EXCEPT !.man.pending = @ \ {g}]
  <2>1. t = emitPending(v)
    <3>1. g \in a.man.pending /\ a.arcs[g].folder = f BY <1>3, <1>10
    <3> HIDE DEF f
    <3> QED BY <3>1 DEF unpackReady
  <2>2. s.arcs[g].managed
    BY <1>10 DEF Ledger, Known
  <2>3. /\ <<f, s.arcs[g].file>> \in s.man.unpacks
        /\ s.man.repairs[f] = 0 /\ f \notin P
    <3>1. <<f, s.arcs[g].file>> \in s.man.unpacks
      BY <2>2 DEF Ledger, Expected, ManagedOf
    <3>2. <<f, s.arcs[g].file>>[1] = f OBVIOUS
    <3> HIDE DEF f
    <3> QED BY <3>1, <3>2 DEF Ledger, Expected
  <2>4. IsInjective(a.disk[f])
    BY <1>3, <1>5 DEF Ledger, Known
  <2>5. /\ vols \in Seq(Files) /\ IsInjective(vols)
        /\ \A x \in Range(vols) : <<f, x>> \notin a.man.unpacks
    BY <2>4, <1>3, <1>5, NewVolumesFacts
  <2> HIDE DEF vols
  <2>6. /\ u \in State /\ Grown(a, u, "unpack", TRUE, f, vols)
        /\ u.rep = a.rep /\ u.unp = a.unp /\ u.pow = a.pow
        /\ u.disk = a.disk /\ u.aborted = a.aborted
        /\ Ledger(u, P, D, R, V \ {g})
    BY <2>3, <2>5, <1>3, <1>5, <1>8, FoundFacts
  <2> HIDE DEF u
  <2>7. /\ v \in State /\ v.arcs = u.arcs /\ v.rep = u.rep /\ v.unp = u.unp /\ v.pow = u.pow
        /\ v.disk = u.disk /\ v.aborted = u.aborted
        /\ v.man.unpacks = u.man.unpacks /\ v.man.repairs = u.man.repairs
        /\ v.man.pending = u.man.pending \ {g}
    <3> DEFINE m == [u.man EXCEPT !.pending = u.man.pending \ {g}]
    <3>1. u.man \in Manager BY <2>6 DEF State
    <3>2. /\ m \in Manager /\ m.unpacks = u.man.unpacks /\ m.repairs = u.man.repairs
          /\ m.pending = u.man.pending \ {g}
      BY <3>1 DEF Manager
    <3>3. v = [u EXCEPT !.man = m] BY <2>6 DEF State, Manager
    <3> HIDE DEF m, v
    <3> QED BY <3>2, <3>3, <2>6 DEF State
  <2> HIDE DEF v
  <2>8. Ids(s) \subseteq Ids(u) /\ \A h \in Ids(s) : u.arcs[h] = s.arcs[h]
    <3>1. Len(s.arcs) \in Nat /\ Len(u.arcs) = Len(s.arcs) + Len(vols) /\ Len(vols) \in Nat
      BY <1>3, <2>5, <2>6 DEF Grown, State
    <3> QED BY <3>1, <1>3, <2>6 DEF Ids, Grown
  <2>9. Ledger(v, P, D, R, V \ {g})
    BY <2>6, <2>7, <1>5, LedgerForgets
  <2>10. IsFiniteSet(v.man.pending)
    BY <2>7, <2>9, FinitePending
  <2>11. D = {} /\ v.pow.off => /\ v.pow.downloads => v.pow.numTasks = 0
                                /\ ~v.pow.repairs /\ ~v.pow.unpacks
    <3> SUFFICES ASSUME D = {}, v.pow.off
                 PROVE  /\ v.pow.downloads => v.pow.numTasks = 0
                        /\ ~v.pow.repairs /\ ~v.pow.unpacks
      OBVIOUS
    <3>1. v.pow = a.pow BY <2>6, <2>7
    <3>2. IsFiniteSet(a.man.pending) BY <1>3, <1>8, FinitePending
    <3>3. Switched(a, {}) /\ g \in a.man.pending BY <1>3, <1>4, <1>10
    <3> QED BY <3>1, <3>2, <3>3, <1>3, OffMeansNothingPending
  <2>12. /\ t \in State /\ Switched(t, D)
         /\ t.arcs = v.arcs /\ t.rep = v.rep /\ t.unp = v.unp /\ t.man = v.man
         /\ t.disk = v.disk /\ t.aborted = v.aborted
         /\ t.pow.numRepairs = v.pow.numRepairs /\ t.pow.numUnpacks = v.pow.numUnpacks
         /\ t.pow.numTasks = v.pow.numTasks
    BY <2>1, <2>7, <2>10, <2>11, EmitFacts
  <2> HIDE DEF t
  <2>13. Ledger(t, P, D, R, V \ {g})
    <3>1. \A e \in Folders : IsInjective(t.disk[e]) BY <2>9, <2>12 DEF Ledger, Known
    <3>2. D \subseteq Ids(v) BY <2>9 DEF Ledger, Known
    <3> QED BY <3>1, <3>2, <2>7, <2>9, <2>12, LedgerLess
  <2>14. Later(s, t) /\ t.rep = s.rep /\ t.unp = s.unp /\ t.aborted = s.aborted
    BY <1>3, <1>6, <2>6, <2>7, <2>8, <2>12 DEF Ids, Later
  <2>15. Sound(t, D)
    BY <2>14, <1>5, LaterSound
  <2> QED BY <1>0, <2>12, <2>13, <2>14, <2>15
<1> QED BY <1>9, <1>10

\* onReady of the repairer: the process of rep.cur has ended, or has been
\* reported as failing while it still counts as running.
LEMMA RepOnReadyFacts ==
    ASSUME NEW s \in State, NEW P \in SUBSET Folders, NEW D, NEW R,
           Lined(s.rep, Of(s, "repair"), TRUE), s.rep.state \in Final,
           Lined(s.unp, Of(s, "unpack"), s.unp.running),
           Ledger(s, P, D, R, Unfinished(s.unp)), s.rep.cur \in R \cup D,
           Switched(s, D), D = {} => ~s.pow.off, Sound(s, D)
    PROVE  LET t == repOnReady(s)
           IN  /\ t \in State /\ Later(s, t)
               /\ Lined(t.rep, Of(t, "repair"), t.rep.running)
               /\ Unfinished(t.rep) = Waiting(s.rep) \cup (IF s.rep.running THEN {s.rep.cur} ELSE {})
               /\ s.rep.running => /\ t.rep.running /\ t.rep.cur = s.rep.cur
                                   /\ t.rep.state = s.rep.state
                                   /\ Waiting(t.rep) = Waiting(s.rep)
                                   /\ Lined(t.rep, Of(t, "repair"), TRUE)
               /\ Lined(t.unp, Of(t, "unpack"), t.unp.running)
               /\ Ledger(t, P, D, R \ {s.rep.cur}, Unfinished(t.unp))
               /\ Switched(t, D) /\ Sound(t, D)
<1> DEFINE g == s.rep.cur
           u == repairReady([s EXCEPT !.pow = powRepairReady(@)], g)
           w == startNext(retire(s.rep))
           t == repOnReady(s)
<1>1. g \in Of(s, "repair")
  BY DEF Lined
<1>2. /\ u \in State /\ u.rep = s.rep /\ Later(s, u)
      /\ Lined(u.unp, Of(u, "unpack"), u.unp.running)
      /\ Ledger(u, P, D, R \ {g}, Unfinished(u.unp))
      /\ Switched(u, D) /\ Sound(u, D)
  BY <1>1, RepairReadyFacts
<1>3. t = [u EXCEPT !.rep = startNext(retire(u.rep))]
  BY DEF repOnReady
<1> HIDE DEF u, t, g
<1>4. t = [u EXCEPT !.rep = w]
  BY <1>2, <1>3
<1>5. Of(s, "repair") \subseteq Of(u, "repair")
  BY <1>2 DEF Of, Later
<1>6. s.rep \in Worker /\ Lined(s.rep, Of(u, "repair"), TRUE)
  BY <1>5, LinedGrows DEF State
<1>7. /\ w \in Worker /\ Lined(w, Of(u, "repair"), w.running)
      /\ Unfinished(w) = Waiting(s.rep) \cup (IF s.rep.running THEN {s.rep.cur} ELSE {})
      /\ s.rep.running => /\ w.running /\ w.cur = s.rep.cur /\ w.state = s.rep.state
                          /\ Waiting(w) = Waiting(s.rep) /\ Lined(w, Of(u, "repair"), TRUE)
  BY <1>6, ReadyFacts
<1> HIDE DEF w
<1>8. /\ t \in State /\ t.arcs = u.arcs /\ t.rep = w /\ t.unp = u.unp /\ t.man = u.man
      /\ t.pow = u.pow /\ t.disk = u.disk /\ t.aborted = u.aborted
  BY <1>2, <1>4, <1>7 DEF State
<1>9. /\ Of(t, "repair") = Of(u, "repair") /\ Of(t, "unpack") = Of(u, "unpack")
      /\ Later(s, t) /\ Switched(t, D) /\ Sound(t, D)
  BY <1>2, <1>8 DEF Of, Ids, Later, Switched, Sound
<1>10. Ledger(t, P, D, R \ {g}, Unfinished(t.unp))
  <2>1. /\ \A e \in Folders : IsInjective(t.disk[e])
        /\ D \subseteq Ids(u)
    BY <1>2, <1>8 DEF Ledger, Known
  <2> QED BY <2>1, <1>2, <1>8, LedgerLess
<1> QED BY <1>2, <1>7, <1>8, <1>9, <1>10 DEF t, g

LEMMA UnpOnReadyFacts ==
    ASSUME NEW s \in State, NEW P \in SUBSET Folders, NEW D, NEW V,
           Lined(s.unp, Of(s, "unpack"), TRUE), s.unp.state \in Final,
           Lined(s.rep, Of(s, "repair"), s.rep.running),
           Ledger(s, P, D, Unfinished(s.rep), V), s.unp.cur \in V \cup D,
           Switched(s, D), D = {} => ~s.pow.off, Sound(s, D)
    PROVE  LET t == unpOnReady(s)
           IN  /\ t \in State /\ Later(s, t)
               /\ Lined(t.unp, Of(t, "unpack"), t.unp.running)
               /\ Unfinished(t.unp) = Waiting(s.unp) \cup (IF s.unp.running THEN {s.unp.cur} ELSE {})
               /\ s.unp.running => /\ t.unp.running /\ t.unp.cur = s.unp.cur
                                   /\ t.unp.state = s.unp.state
                                   /\ Waiting(t.unp) = Waiting(s.unp)
                                   /\ Lined(t.unp, Of(t, "unpack"), TRUE)
               /\ Lined(t.rep, Of(t, "repair"), t.rep.running)
               /\ Ledger(t, P, D, Unfinished(t.rep), V \ {s.unp.cur})
               /\ Switched(t, D) /\ Sound(t, D) /\ t.aborted = s.aborted
<1> DEFINE g == s.unp.cur
           u == UnpackReadied(s, g)
           w == startNext(retire(s.unp))
           t == unpOnReady(s)
<1>1. g \in Of(s, "unpack")
  BY DEF Lined
<1>2. /\ u \in State /\ u.rep = s.rep /\ u.unp = s.unp /\ Later(s, u)
      /\ Ledger(u, P, D, Unfinished(s.rep), V \ {g})
      /\ Switched(u, D) /\ Sound(u, D) /\ u.aborted = s.aborted
  <2> DEFINE R == Unfinished(s.rep)
  <2>1. Ledger(s, P, D, R, V) /\ g \in V \cup D /\ Switched(s, D) /\ Sound(s, D)
        /\ (D = {} => ~s.pow.off)
    OBVIOUS
  <2> HIDE DEF R, g, u
  <2>2. /\ UnpackReadied(s, g) \in State
        /\ UnpackReadied(s, g).rep = s.rep /\ UnpackReadied(s, g).unp = s.unp
        /\ Later(s, UnpackReadied(s, g))
        /\ Ledger(UnpackReadied(s, g), P, D, R, V \ {g})
        /\ Switched(UnpackReadied(s, g), D) /\ Sound(UnpackReadied(s, g), D)
        /\ UnpackReadied(s, g).aborted = s.aborted
    BY <2>1, <1>1, UnpackReadyFacts, SMTT(30)
  <2> QED BY <2>2 DEF R, u
<1>3. t = [u EXCEPT !.unp = startNext(retire(u.unp))]
  BY DEF unpOnReady, UnpackReadied
<1> HIDE DEF u, t, g
<1>4. t = [u EXCEPT !.unp = w]
  BY <1>2, <1>3
<1>5. Of(s, "unpack") \subseteq Of(u, "unpack") /\ Of(s, "repair") \subseteq Of(u, "repair")
  BY <1>2 DEF Of, Later
<1>6. s.unp \in Worker /\ Lined(s.unp, Of(u, "unpack"), TRUE)
      /\ Lined(s.rep, Of(u, "repair"), s.rep.running)
  BY <1>5, LinedGrows DEF State
<1>7. /\ w \in Worker /\ Lined(w, Of(u, "unpack"), w.running)
      /\ Unfinished(w) = Waiting(s.unp) \cup (IF s.unp.running THEN {s.unp.cur} ELSE {})
      /\ s.unp.running => /\ w.running /\ w.cur = s.unp.cur /\ w.state = s.unp.state
                          /\ Waiting(w) = Waiting(s.unp) /\ Lined(w, Of(u, "unpack"), TRUE)
  BY <1>6, ReadyFacts
<1> HIDE DEF w
<1>8. /\ t \in State /\ t.arcs = u.arcs /\ t.unp = w /\ t.rep = s.rep /\ t.man = u.man
      /\ t.pow = u.pow /\ t.disk = u.disk /\ t.aborted = u.aborted
  BY <1>2, <1>4, <1>7 DEF State
<1>9. /\ Of(t, "repair") = Of(u, "repair") /\ Of(t, "unpack") = Of(u, "unpack")
      /\ Later(s, t) /\ Switched(t, D) /\ Sound(t, D)
  BY <1>2, <1>8 DEF Of, Ids, Later, Switched, Sound
<1>10. Ledger(t, P, D, Unfinished(t.rep), V \ {g})
  <2>1. /\ \A e \in Folders : IsInjective(t.disk[e])
        /\ D \subseteq Ids(u)
    BY <1>2, <1>8 DEF Ledger, Known
  <2>2. Ledger(t, P, D, Unfinished(s.rep), V \ {g})
    BY <2>1, <1>2, <1>8, LedgerLess
  <2> QED BY <2>2, <1>8
<1> QED BY <1>2, <1>6, <1>7, <1>8, <1>9, <1>10 DEF t, g

-----------------------------------------------------------------------------
(* The actions.                                                            *)

LEMMA NowFacts ==
    /\ Now.arcs = arcs /\ Now.rep = rep /\ Now.unp = unp /\ Now.man = man /\ Now.pow = pow
    /\ Now.disk = disk /\ Now.aborted = aborted
  BY DEF Now

LEMMA NextNow ==
    ASSUME NEW t \in State,
           arcs' = t.arcs, rep' = t.rep, unp' = t.unp, man' = t.man, pow' = t.pow,
           disk' = t.disk, aborted' = t.aborted
    PROVE  Now' = t
<1>1. t = [arcs |-> t.arcs, rep |-> t.rep, unp |-> t.unp, man |-> t.man, pow |-> t.pow,
           disk |-> t.disk, aborted |-> t.aborted]
  BY DEF State
<1> QED BY <1>1 DEF Now

LEMMA BecomesFacts ==
    ASSUME NEW t \in State, Becomes(t)
    PROVE  Now' = t
<1>1. /\ arcs' = t.arcs /\ rep' = t.rep /\ unp' = t.unp /\ man' = t.man /\ pow' = t.pow
      /\ disk' = t.disk /\ aborted' = t.aborted
  BY DEF Becomes
<1> QED BY <1>1, NextNow

\* The invariant of the objects, and no ASSERT that failed without a repair
\* that died, make the invariant.
LEMMA Concludes ==
    ASSUME NEW t \in State, Becomes(t), Inv(t, packs', died'), Sound(t, died')
    PROVE  IInv'
<1>1. Now' = t
  BY BecomesFacts
<1>2. Inv(Now', packs', died')
  BY <1>1
<1>3. aborted' = t.aborted /\ arcs' = t.arcs
  BY DEF Becomes
<1>4. AssertsHold'
  BY <1>3 DEF AssertsHold, Sound
<1> QED BY <1>2, <1>4 DEF IInv

\* Before an action nothing has failed, and the computer is on.
LEMMA Before ==
    ASSUME IInv, Alive
    PROVE  /\ Inv(Now, packs, died) /\ ~Now.pow.off /\ ~Now.aborted
           /\ \A D : Sound(Now, D)
           /\ died \subseteq Ids(Now) /\ packs \in SUBSET Folders
  BY NowFacts DEF IInv, Alive, Sound, Inv, Ledger, Known

LEMMA WaitingIs ==
    ASSUME NEW w \in Worker, NEW G, Lined(w, G, TRUE), w.running
    PROVE  Waiting(w) = Unfinished(w) \ {w.cur} /\ w.cur \in Unfinished(w)
<1>1. w.cur \notin Waiting(w)
  BY DEF Waiting, Rows, Lined
<1> QED BY <1>1, UnfinishedIs

LEMMA EndedFacts ==
    ASSUME NEW w \in Worker, NEW state \in Final
    PROVE  LET v == Ended(w, state)
           IN  /\ v \in Worker /\ v.list = w.list /\ v.cur = w.cur /\ v.running = FALSE
               /\ v.state \in Final /\ Waiting(v) = Waiting(w)
               /\ \A G : Lined(v, G, TRUE) <=> Lined(w, G, TRUE)
<1> DEFINE v == Ended(w, state)
           x == IF w.state = "Stopped" THEN w.state ELSE state
<1>1. x \in Final /\ x \in Statuses
  BY DEF Final, Statuses
<1>2. v = [w EXCEPT !.state = x, !.running = FALSE, !.dying = FALSE]
  BY DEF Ended
<1> HIDE DEF x, v
<1>3. /\ v \in Worker /\ v.list = w.list /\ v.cur = w.cur /\ v.running = FALSE
      /\ v.state \in Final
  BY <1>1, <1>2 DEF Worker
<1>4. Waiting(v) = Waiting(w) /\ \A G : Lined(v, G, TRUE) <=> Lined(w, G, TRUE)
  BY <1>3 DEF Waiting, Rows, Lined
<1> QED BY <1>3, <1>4 DEF v

\* A worker is replaced by one with the same to do.
LEMMA RepReplaced ==
    ASSUME NEW s \in State, NEW P \in SUBSET Folders, NEW D, NEW E, NEW R, NEW V,
           Ledger(s, P, D, R, V), D \subseteq E, E \subseteq Ids(s), NEW w \in Worker
    PROVE  LET t == [s EXCEPT !.rep = w]
           IN  /\ t \in State /\ t.rep = w /\ t.unp = s.unp /\ t.aborted = s.aborted
               /\ t.arcs = s.arcs /\ t.pow = s.pow /\ t.man = s.man /\ t.disk = s.disk
               /\ \A k : Of(t, k) = Of(s, k)
               /\ Ids(t) = Ids(s) /\ Later(s, t)
               /\ Ledger(t, P, E, R, V)
<1> DEFINE t == [s EXCEPT !.rep = w]
<1>1. /\ t \in State /\ t.arcs = s.arcs /\ t.rep = w /\ t.unp = s.unp /\ t.man = s.man
      /\ t.pow = s.pow /\ t.disk = s.disk /\ t.aborted = s.aborted
  BY DEF State
<1> HIDE DEF t
<1>2. (\A k : Of(t, k) = Of(s, k)) /\ Ids(t) = Ids(s) /\ Later(s, t)
  BY <1>1 DEF Of, Ids, Later
<1>3. \A e \in Folders : IsInjective(t.disk[e])
  BY <1>1 DEF Ledger, Known
<1>4. Ledger(t, P, E, R, V)
  BY <1>1, <1>3, LedgerLess
<1> QED BY <1>1, <1>2, <1>4 DEF t

LEMMA RepairEndsKeeps ==
    ASSUME IInv, NEW state \in Results, RepairEnds(state)
    PROVE  IInv'
<1> DEFINE R == Unfinished(Now.rep)
           g == Now.rep.cur
           w == Ended(Now.rep, state)
           s == [Now EXCEPT !.rep = w]
           t == repOnReady(s)
<1>1. /\ Inv(Now, packs, died) /\ ~Now.pow.off /\ ~Now.aborted /\ \A D : Sound(Now, D)
      /\ died \subseteq Ids(Now) /\ packs \in SUBSET Folders
  BY Before DEF RepairEnds
<1>2. Now.rep.running /\ packs' = packs /\ died' = died /\ Becomes(t)
  BY NowFacts DEF RepairEnds
<1> HIDE DEF t
<1>3. /\ Now \in State /\ Now.rep \in Worker /\ Now.rep.running = TRUE
      /\ Now.pow.numTasks = Cardinality(packs)
      /\ Lined(Now.rep, Of(Now, "repair"), TRUE)
      /\ Lined(Now.unp, Of(Now, "unpack"), Now.unp.running)
      /\ Ledger(Now, packs, died, R, Unfinished(Now.unp)) /\ Switched(Now, died)
  <2>1. Now \in State /\ Now.rep \in Worker BY <1>1 DEF Inv, State
  <2>2. Now.rep.running = TRUE BY <1>2, <2>1 DEF Worker
  <2> QED BY <1>1, <2>1, <2>2 DEF Inv
<1> HIDE DEF R
<1>4. state \in Final
  BY DEF Results, Final
<1>5. /\ w \in Worker /\ w.list = Now.rep.list /\ w.cur = g /\ w.running = FALSE
      /\ w.state \in Final /\ Waiting(w) = Waiting(Now.rep)
      /\ Lined(w, Of(Now, "repair"), TRUE)
  BY <1>3, <1>4, EndedFacts
<1> HIDE DEF w, g
<1>6. /\ s \in State /\ s.rep = w /\ s.unp = Now.unp /\ s.aborted = Now.aborted
      /\ s.pow = Now.pow /\ s.man = Now.man /\ s.arcs = Now.arcs
      /\ \A k : Of(s, k) = Of(Now, k)
      /\ Ids(s) = Ids(Now) /\ Later(Now, s)
      /\ Ledger(s, packs, died, R, Unfinished(Now.unp))
  BY <1>1, <1>3, <1>5, RepReplaced
<1> HIDE DEF s
<1>7. /\ Lined(s.rep, Of(s, "repair"), TRUE) /\ s.rep.state \in Final
      /\ Lined(s.unp, Of(s, "unpack"), s.unp.running)
      /\ Ledger(s, packs, died, R, Unfinished(s.unp))
      /\ Switched(s, died) /\ ~s.pow.off /\ Sound(s, died)
      /\ s.rep.running = FALSE
  BY <1>1, <1>3, <1>5, <1>6 DEF Switched, Sound
<1>8. Waiting(Now.rep) = R \ {g} /\ g \in R
  BY <1>3, WaitingIs DEF R, g
<1>9. s.rep.cur \in R \cup died /\ s.rep.cur = g
  BY <1>5, <1>6, <1>8
<1>10. /\ t \in State /\ Later(s, t)
       /\ Lined(t.rep, Of(t, "repair"), t.rep.running)
       /\ Unfinished(t.rep) = Waiting(s.rep)
       /\ Lined(t.unp, Of(t, "unpack"), t.unp.running)
       /\ Ledger(t, packs, died, R \ {g}, Unfinished(t.unp))
       /\ Switched(t, died) /\ Sound(t, died)
  <2>1. /\ t \in State /\ Later(s, t)
        /\ Lined(t.rep, Of(t, "repair"), t.rep.running)
        /\ Unfinished(t.rep) = Waiting(s.rep) \cup (IF s.rep.running THEN {s.rep.cur} ELSE {})
        /\ Lined(t.unp, Of(t, "unpack"), t.unp.running)
        /\ Ledger(t, packs, died, R \ {s.rep.cur}, Unfinished(t.unp))
        /\ Switched(t, died) /\ Sound(t, died)
    BY <1>1, <1>6, <1>7, <1>9, RepOnReadyFacts DEF t
  <2> QED BY <2>1, <1>7, <1>9
<1>11. Unfinished(t.rep) = R \ {g} /\ t.pow.numTasks = Cardinality(packs)
  BY <1>3, <1>5, <1>6, <1>8, <1>10 DEF Later
<1>12. Inv(t, packs', died') /\ Sound(t, died')
  BY <1>1, <1>2, <1>10, <1>11 DEF Inv
<1> QED BY <1>2, <1>10, <1>12, Concludes

LEMMA RepairDiesKeeps ==
    ASSUME IInv, RepairDies
    PROVE  IInv'
<1> DEFINE R == Unfinished(Now.rep)
           g == Now.rep.cur
           D == died \cup {g}
           w == [Now.rep EXCEPT !.state = "Error"]
           s == [Now EXCEPT !.rep = w]
           t == repOnReady(s)
           v == Ended(t.rep, "Error")
           x == [t EXCEPT !.rep = v]
           y == repOnReady(x)
<1>1. /\ Inv(Now, packs, died) /\ ~Now.pow.off /\ ~Now.aborted /\ \A E : Sound(Now, E)
      /\ died \subseteq Ids(Now) /\ packs \in SUBSET Folders
  BY Before DEF RepairDies, Dies
<1>2. Now.rep.running /\ packs' = packs /\ died' = D
  BY NowFacts DEF RepairDies, Dies
<1>3. /\ Now \in State /\ Now.rep \in Worker /\ Now.rep.running = TRUE
      /\ Now.pow.numTasks = Cardinality(packs)
      /\ Lined(Now.rep, Of(Now, "repair"), TRUE)
      /\ Lined(Now.unp, Of(Now, "unpack"), Now.unp.running)
      /\ Ledger(Now, packs, died, R, Unfinished(Now.unp)) /\ Switched(Now, died)
  <2>1. Now \in State /\ Now.rep \in Worker BY <1>1 DEF Inv, State
  <2>2. Now.rep.running = TRUE BY <1>2, <2>1 DEF Worker
  <2> QED BY <1>1, <2>1, <2>2 DEF Inv
<1>4. [Now EXCEPT !.rep.state = "Error"] = s
  BY <1>3 DEF State, Worker
<1>5. Becomes(y)
  BY <1>4 DEF RepairDies
<1> HIDE DEF y
<1>6. /\ w \in Worker /\ w.list = Now.rep.list /\ w.cur = g /\ w.running = TRUE
      /\ w.state = "Error"
  BY <1>3 DEF Worker, Statuses
<1>7. Waiting(w) = Waiting(Now.rep) /\ Lined(w, Of(Now, "repair"), TRUE)
  BY <1>3, <1>6 DEF Waiting, Rows, Lined
<1>8. Waiting(Now.rep) = R \ {g} /\ g \in R /\ g \in Of(Now, "repair")
  BY <1>3, WaitingIs DEF Lined
<1>9. died \subseteq D /\ D \subseteq Ids(Now) /\ g \in D /\ D # {}
  BY <1>1, <1>8 DEF Of
<1> HIDE DEF w, R, D
<1>10. /\ s \in State /\ s.rep = w /\ s.unp = Now.unp /\ s.aborted = Now.aborted
       /\ s.pow = Now.pow /\ s.man = Now.man /\ s.arcs = Now.arcs
       /\ \A k : Of(s, k) = Of(Now, k)
       /\ Ids(s) = Ids(Now) /\ Later(Now, s)
       /\ Ledger(s, packs, D, R, Unfinished(Now.unp))
  BY <1>1, <1>3, <1>6, <1>9, RepReplaced
<1> HIDE DEF s
<1>11. /\ Lined(s.rep, Of(s, "repair"), TRUE) /\ s.rep.state \in Final
       /\ Lined(s.unp, Of(s, "unpack"), s.unp.running)
       /\ Ledger(s, packs, D, R, Unfinished(s.unp))
       /\ Switched(s, D) /\ (D = {} => ~s.pow.off) /\ Sound(s, D)
       /\ s.rep.running = TRUE /\ s.rep.cur = g /\ s.rep.cur \in R \cup D
  BY <1>1, <1>3, <1>6, <1>7, <1>9, <1>10 DEF Switched, Sound, Final
<1> HIDE DEF g
<1>12. /\ t \in State /\ Later(s, t)
       /\ t.rep.running /\ t.rep.cur = g
       /\ t.rep.state = "Error" /\ Waiting(t.rep) = Waiting(s.rep)
       /\ Lined(t.rep, Of(t, "repair"), TRUE)
       /\ Lined(t.unp, Of(t, "unpack"), t.unp.running)
       /\ Ledger(t, packs, D, R \ {g}, Unfinished(t.unp))
       /\ Switched(t, D) /\ Sound(t, D)
  BY <1>1, <1>6, <1>10, <1>11, RepOnReadyFacts
<1> HIDE DEF t
<1>13. t.rep \in Worker /\ D \subseteq Ids(t) /\ "Error" \in Final
  <2>1. D \subseteq Ids(t) BY <1>12 DEF Ledger, Known
  <2> QED BY <2>1, <1>12 DEF State, Final
<1>14. /\ v \in Worker /\ v.cur = g /\ v.running = FALSE
       /\ v.state \in Final /\ Waiting(v) = Waiting(t.rep)
       /\ Lined(v, Of(t, "repair"), TRUE)
  BY <1>12, <1>13, EndedFacts
<1> HIDE DEF v
<1>15. /\ x \in State /\ x.rep = v /\ x.unp = t.unp /\ x.aborted = t.aborted
       /\ x.pow = t.pow /\ x.man = t.man /\ x.arcs = t.arcs
       /\ \A k : Of(x, k) = Of(t, k)
       /\ Ids(x) = Ids(t) /\ Later(t, x)
       /\ Ledger(x, packs, D, R \ {g}, Unfinished(t.unp))
  BY <1>1, <1>12, <1>13, <1>14, RepReplaced
<1> HIDE DEF x
<1>16. /\ Lined(x.rep, Of(x, "repair"), TRUE) /\ x.rep.state \in Final
       /\ Lined(x.unp, Of(x, "unpack"), x.unp.running)
       /\ Ledger(x, packs, D, R \ {g}, Unfinished(x.unp))
       /\ Switched(x, D) /\ (D = {} => ~x.pow.off) /\ Sound(x, D)
       /\ x.rep.running = FALSE /\ x.rep.cur = g /\ x.rep.cur \in (R \ {g}) \cup D
  BY <1>9, <1>12, <1>14, <1>15 DEF Switched, Sound
<1>17. /\ y \in State /\ Later(x, y)
       /\ Lined(y.rep, Of(y, "repair"), y.rep.running)
       /\ Unfinished(y.rep) = Waiting(x.rep)
       /\ Lined(y.unp, Of(y, "unpack"), y.unp.running)
       /\ Ledger(y, packs, D, (R \ {g}) \ {g}, Unfinished(y.unp))
       /\ Switched(y, D) /\ Sound(y, D)
  <2>1. /\ y \in State /\ Later(x, y)
        /\ Lined(y.rep, Of(y, "repair"), y.rep.running)
        /\ Unfinished(y.rep) = Waiting(x.rep) \cup (IF x.rep.running THEN {x.rep.cur} ELSE {})
        /\ Lined(y.unp, Of(y, "unpack"), y.unp.running)
        /\ Ledger(y, packs, D, (R \ {g}) \ {x.rep.cur}, Unfinished(y.unp))
        /\ Switched(y, D) /\ Sound(y, D)
    BY <1>1, <1>15, <1>16, RepOnReadyFacts DEF y
  <2> QED BY <2>1, <1>16
<1>18. Unfinished(y.rep) = (R \ {g}) \ {g} /\ y.pow.numTasks = Cardinality(packs)
  <2>1. Unfinished(y.rep) = Waiting(Now.rep) BY <1>7, <1>10, <1>12, <1>14, <1>15, <1>17
  <2>2. y.pow.numTasks = Cardinality(packs) BY <1>3, <1>10, <1>12, <1>15, <1>17 DEF Later
  <2> QED BY <2>1, <2>2, <1>8
<1>19. Inv(y, packs', died') /\ Sound(y, died')
  BY <1>1, <1>2, <1>17, <1>18 DEF Inv
<1> QED BY <1>5, <1>17, <1>19, Concludes

\* What unpacking brings to light is not in the folder yet.
LEMMA ExtractsFacts ==
    ASSUME PostAssumption, Now \in State, NEW w, w.cur \in Ids(Now), NEW state,
           \A e \in Folders : IsInjective(disk[e])
    PROVE  /\ Extracts(w, state) \in [Folders -> Seq(Files)]
           /\ \A e \in Folders : IsInjective(Extracts(w, state)[e])
<1> DEFINE f == arcs[w.cur].folder
           found == Without(Nested[arcs[w.cur].file], Range(disk[f]))
<1>1. disk \in [Folders -> Seq(Files)] /\ f \in Folders /\ arcs[w.cur].file \in Files
  <2>1. disk \in [Folders -> Seq(Files)] /\ arcs[w.cur] \in Archive
    BY NowFacts DEF State, Ids
  <2> QED BY <2>1 DEF Archive
<1>2. Nested[arcs[w.cur].file] \in Seq(Files) /\ IsInjective(Nested[arcs[w.cur].file])
  BY <1>1 DEF PostAssumption
<1>3. /\ found \in Seq(Files) /\ IsInjective(found)
      /\ Range(found) \cap Range(disk[f]) = {}
  BY <1>2, WithoutFacts
<1>4. Extracts(w, state) = disk \/ Extracts(w, state) = [disk EXCEPT ![f] = disk[f] \o found]
  BY DEF Extracts
<1> HIDE DEF f, found
<1>5. disk[f] \o found \in Seq(Files) /\ IsInjective(disk[f] \o found)
  <2>1. disk[f] \in Seq(Files) /\ IsInjective(disk[f]) BY <1>1
  <2> QED BY <2>1, <1>3, ConcatFacts
<1> QED BY <1>1, <1>4, <1>5

LEMMA UnpReplaced ==
    ASSUME NEW s \in State, NEW P \in SUBSET Folders, NEW D, NEW E, NEW R, NEW V,
           Ledger(s, P, D, R, V), D \subseteq E, E \subseteq Ids(s), NEW w \in Worker
    PROVE  LET t == [s EXCEPT !.unp = w]
           IN  /\ t \in State /\ t.unp = w /\ t.rep = s.rep /\ t.aborted = s.aborted
               /\ t.arcs = s.arcs /\ t.pow = s.pow /\ t.man = s.man /\ t.disk = s.disk
               /\ \A k : Of(t, k) = Of(s, k)
               /\ Ids(t) = Ids(s) /\ Later(s, t)
               /\ Ledger(t, P, E, R, V)
<1> DEFINE t == [s EXCEPT !.unp = w]
<1>1. /\ t \in State /\ t.arcs = s.arcs /\ t.unp = w /\ t.rep = s.rep /\ t.man = s.man
      /\ t.pow = s.pow /\ t.disk = s.disk /\ t.aborted = s.aborted
  BY DEF State
<1> HIDE DEF t
<1>2. (\A k : Of(t, k) = Of(s, k)) /\ Ids(t) = Ids(s) /\ Later(s, t)
  BY <1>1 DEF Of, Ids, Later
<1>3. \A e \in Folders : IsInjective(t.disk[e])
  BY <1>1 DEF Ledger, Known
<1>4. Ledger(t, P, E, R, V)
  BY <1>1, <1>3, LedgerLess
<1> QED BY <1>1, <1>2, <1>4 DEF t

LEMMA UnpackEndsKeeps ==
    ASSUME PostAssumption, IInv, NEW state \in Results, UnpackEnds(state)
    PROVE  IInv'
<1> DEFINE V == Unfinished(Now.unp)
           g == Now.unp.cur
           w == Ended(Now.unp, state)
           d == Extracts(unp, state)
           s == [Now EXCEPT !.unp = w, !.disk = d]
           t == unpOnReady(s)
<1>1. /\ Inv(Now, packs, died) /\ ~Now.pow.off /\ ~Now.aborted /\ \A D : Sound(Now, D)
      /\ died \subseteq Ids(Now) /\ packs \in SUBSET Folders
  BY Before DEF UnpackEnds
<1>2. Now.unp.running /\ packs' = packs /\ died' = died /\ Becomes(t)
  BY NowFacts DEF UnpackEnds
<1> HIDE DEF t
<1>3. /\ Now \in State /\ Now.unp \in Worker /\ Now.unp.running = TRUE
      /\ Now.pow.numTasks = Cardinality(packs)
      /\ Lined(Now.unp, Of(Now, "unpack"), TRUE)
      /\ Lined(Now.rep, Of(Now, "repair"), Now.rep.running)
      /\ Ledger(Now, packs, died, Unfinished(Now.rep), V) /\ Switched(Now, died)
  <2>1. Now \in State /\ Now.unp \in Worker BY <1>1 DEF Inv, State
  <2>2. Now.unp.running = TRUE BY <1>2, <2>1 DEF Worker
  <2> QED BY <1>1, <2>1, <2>2 DEF Inv
<1> HIDE DEF V
<1>4. state \in Final
  BY DEF Results, Final
<1>5. /\ w \in Worker /\ w.list = Now.unp.list /\ w.cur = g /\ w.running = FALSE
      /\ w.state \in Final /\ Waiting(w) = Waiting(Now.unp)
      /\ Lined(w, Of(Now, "unpack"), TRUE)
  BY <1>3, <1>4, EndedFacts
<1>13. d \in [Folders -> Seq(Files)] /\ \A e \in Folders : IsInjective(d[e])
  <2>1. Now.unp.cur \in Ids(Now) BY <1>3 DEF Lined, Of
  <2>2. \A e \in Folders : IsInjective(disk[e]) BY <1>3, NowFacts DEF Ledger, Known
  <2> QED BY <2>1, <2>2, <1>3, NowFacts, ExtractsFacts
<1> HIDE DEF w, g, d
<1>6. /\ s \in State /\ s.unp = w /\ s.rep = Now.rep /\ s.aborted = Now.aborted
      /\ s.pow = Now.pow /\ s.man = Now.man /\ s.arcs = Now.arcs
      /\ \A k : Of(s, k) = Of(Now, k)
      /\ Ids(s) = Ids(Now) /\ Later(Now, s)
      /\ Ledger(s, packs, died, Unfinished(Now.rep), V)
  <2>1. /\ s \in State /\ s.unp = w /\ s.rep = Now.rep /\ s.aborted = Now.aborted
        /\ s.pow = Now.pow /\ s.man = Now.man /\ s.arcs = Now.arcs /\ s.disk = d
    BY <1>3, <1>5, <1>13 DEF State
  <2> HIDE DEF s
  <2>2. (\A k : Of(s, k) = Of(Now, k)) /\ Ids(s) = Ids(Now) /\ Later(Now, s)
    BY <2>1 DEF Of, Ids, Later
  <2>3. Ledger(s, packs, died, Unfinished(Now.rep), V)
    BY <2>1, <1>1, <1>3, <1>13, LedgerLess
  <2> QED BY <2>1, <2>2, <2>3
<1> HIDE DEF s
<1>7. /\ Lined(s.unp, Of(s, "unpack"), TRUE) /\ s.unp.state \in Final
      /\ Lined(s.rep, Of(s, "repair"), s.rep.running)
      /\ Ledger(s, packs, died, Unfinished(s.rep), V)
      /\ Switched(s, died) /\ ~s.pow.off /\ Sound(s, died)
      /\ s.unp.running = FALSE
  BY <1>1, <1>3, <1>5, <1>6 DEF Switched, Sound
<1>8. Waiting(Now.unp) = V \ {g} /\ g \in V
  BY <1>3, WaitingIs DEF V, g
<1>9. s.unp.cur \in V \cup died /\ s.unp.cur = g
  BY <1>5, <1>6, <1>8
<1>10. /\ t \in State /\ Later(s, t)
       /\ Lined(t.unp, Of(t, "unpack"), t.unp.running)
       /\ Unfinished(t.unp) = Waiting(s.unp)
       /\ Lined(t.rep, Of(t, "repair"), t.rep.running)
       /\ Ledger(t, packs, died, Unfinished(t.rep), V \ {g})
       /\ Switched(t, died) /\ Sound(t, died)
  <2>1. /\ t \in State /\ Later(s, t)
        /\ Lined(t.unp, Of(t, "unpack"), t.unp.running)
        /\ Unfinished(t.unp) = Waiting(s.unp) \cup (IF s.unp.running THEN {s.unp.cur} ELSE {})
        /\ Lined(t.rep, Of(t, "repair"), t.rep.running)
        /\ Ledger(t, packs, died, Unfinished(t.rep), V \ {s.unp.cur})
        /\ Switched(t, died) /\ Sound(t, died)
    BY <1>1, <1>6, <1>7, <1>9, UnpOnReadyFacts DEF t
  <2> QED BY <2>1, <1>7, <1>9
<1>11. Unfinished(t.unp) = V \ {g} /\ t.pow.numTasks = Cardinality(packs)
  BY <1>3, <1>5, <1>6, <1>8, <1>10 DEF Later
<1>12. Inv(t, packs', died') /\ Sound(t, died')
  BY <1>1, <1>2, <1>10, <1>11 DEF Inv
<1> QED BY <1>2, <1>10, <1>12, Concludes

LEMMA UnpackDiesKeeps ==
    ASSUME IInv, UnpackDies
    PROVE  IInv'
<1> DEFINE V == Unfinished(Now.unp)
           g == Now.unp.cur
           D == died \cup {g}
           w == [Now.unp EXCEPT !.state = "Error"]
           s == [Now EXCEPT !.unp = w]
           t == unpOnReady(s)
           v == Ended(t.unp, "Error")
           x == [t EXCEPT !.unp = v]
           y == unpOnReady(x)
<1>1. /\ Inv(Now, packs, died) /\ ~Now.pow.off /\ ~Now.aborted /\ \A E : Sound(Now, E)
      /\ died \subseteq Ids(Now) /\ packs \in SUBSET Folders
  BY Before DEF UnpackDies, Dies
<1>2. Now.unp.running /\ packs' = packs /\ died' = D
  BY NowFacts DEF UnpackDies, Dies
<1>3. /\ Now \in State /\ Now.unp \in Worker /\ Now.unp.running = TRUE
      /\ Now.pow.numTasks = Cardinality(packs)
      /\ Lined(Now.unp, Of(Now, "unpack"), TRUE)
      /\ Lined(Now.rep, Of(Now, "repair"), Now.rep.running)
      /\ Ledger(Now, packs, died, Unfinished(Now.rep), V) /\ Switched(Now, died)
  <2>1. Now \in State /\ Now.unp \in Worker BY <1>1 DEF Inv, State
  <2>2. Now.unp.running = TRUE BY <1>2, <2>1 DEF Worker
  <2> QED BY <1>1, <2>1, <2>2 DEF Inv
<1>4. [Now EXCEPT !.unp.state = "Error"] = s
  BY <1>3 DEF State, Worker
<1>5. Becomes(y)
  BY <1>4 DEF UnpackDies
<1> HIDE DEF y
<1>6. /\ w \in Worker /\ w.list = Now.unp.list /\ w.cur = g /\ w.running = TRUE
      /\ w.state = "Error"
  BY <1>3 DEF Worker, Statuses
<1>7. Waiting(w) = Waiting(Now.unp) /\ Lined(w, Of(Now, "unpack"), TRUE)
  BY <1>3, <1>6 DEF Waiting, Rows, Lined
<1>8. Waiting(Now.unp) = V \ {g} /\ g \in V /\ g \in Of(Now, "unpack")
  BY <1>3, WaitingIs DEF Lined
<1>9. died \subseteq D /\ D \subseteq Ids(Now) /\ g \in D /\ D # {}
  BY <1>1, <1>8 DEF Of
<1> HIDE DEF w, V, D
<1>10. /\ s \in State /\ s.unp = w /\ s.rep = Now.rep /\ s.aborted = Now.aborted
       /\ s.pow = Now.pow /\ s.man = Now.man /\ s.arcs = Now.arcs
       /\ \A k : Of(s, k) = Of(Now, k)
       /\ Ids(s) = Ids(Now) /\ Later(Now, s)
       /\ Ledger(s, packs, D, Unfinished(Now.rep), V)
  BY <1>1, <1>3, <1>6, <1>9, UnpReplaced
<1> HIDE DEF s
<1>11. /\ Lined(s.unp, Of(s, "unpack"), TRUE) /\ s.unp.state \in Final
       /\ Lined(s.rep, Of(s, "repair"), s.rep.running)
       /\ Ledger(s, packs, D, Unfinished(s.rep), V)
       /\ Switched(s, D) /\ (D = {} => ~s.pow.off) /\ Sound(s, D)
       /\ s.unp.running = TRUE /\ s.unp.cur = g /\ s.unp.cur \in V \cup D
  BY <1>1, <1>3, <1>6, <1>7, <1>9, <1>10 DEF Switched, Sound, Final
<1> HIDE DEF g
<1>12. /\ t \in State /\ Later(s, t)
       /\ t.unp.running /\ t.unp.cur = g
       /\ t.unp.state = "Error" /\ Waiting(t.unp) = Waiting(s.unp)
       /\ Lined(t.unp, Of(t, "unpack"), TRUE)
       /\ Lined(t.rep, Of(t, "repair"), t.rep.running)
       /\ Ledger(t, packs, D, Unfinished(t.rep), V \ {g})
       /\ Switched(t, D) /\ Sound(t, D)
  BY <1>1, <1>6, <1>10, <1>11, UnpOnReadyFacts
<1> HIDE DEF t
<1>13. t.unp \in Worker /\ D \subseteq Ids(t) /\ "Error" \in Final
  <2>1. D \subseteq Ids(t) BY <1>12 DEF Ledger, Known
  <2> QED BY <2>1, <1>12 DEF State, Final
<1>14. /\ v \in Worker /\ v.cur = g /\ v.running = FALSE
       /\ v.state \in Final /\ Waiting(v) = Waiting(t.unp)
       /\ Lined(v, Of(t, "unpack"), TRUE)
  BY <1>12, <1>13, EndedFacts
<1> HIDE DEF v
<1>15. /\ x \in State /\ x.unp = v /\ x.rep = t.rep /\ x.aborted = t.aborted
       /\ x.pow = t.pow /\ x.man = t.man /\ x.arcs = t.arcs
       /\ \A k : Of(x, k) = Of(t, k)
       /\ Ids(x) = Ids(t) /\ Later(t, x)
       /\ Ledger(x, packs, D, Unfinished(t.rep), V \ {g})
  BY <1>1, <1>12, <1>13, <1>14, UnpReplaced
<1> HIDE DEF x
<1>16. /\ Lined(x.unp, Of(x, "unpack"), TRUE) /\ x.unp.state \in Final
       /\ Lined(x.rep, Of(x, "repair"), x.rep.running)
       /\ Ledger(x, packs, D, Unfinished(x.rep), V \ {g})
       /\ Switched(x, D) /\ (D = {} => ~x.pow.off) /\ Sound(x, D)
       /\ x.unp.running = FALSE /\ x.unp.cur = g /\ x.unp.cur \in (V \ {g}) \cup D
  BY <1>9, <1>12, <1>14, <1>15 DEF Switched, Sound
<1>17. /\ y \in State /\ Later(x, y)
       /\ Lined(y.unp, Of(y, "unpack"), y.unp.running)
       /\ Unfinished(y.unp) = Waiting(x.unp)
       /\ Lined(y.rep, Of(y, "repair"), y.rep.running)
       /\ Ledger(y, packs, D, Unfinished(y.rep), (V \ {g}) \ {g})
       /\ Switched(y, D) /\ Sound(y, D)
  <2>1. /\ y \in State /\ Later(x, y)
        /\ Lined(y.unp, Of(y, "unpack"), y.unp.running)
        /\ Unfinished(y.unp) = Waiting(x.unp) \cup (IF x.unp.running THEN {x.unp.cur} ELSE {})
        /\ Lined(y.rep, Of(y, "repair"), y.rep.running)
        /\ Ledger(y, packs, D, Unfinished(y.rep), (V \ {g}) \ {x.unp.cur})
        /\ Switched(y, D) /\ Sound(y, D)
    BY <1>1, <1>15, <1>16, UnpOnReadyFacts DEF y
  <2> QED BY <2>1, <1>16
<1>18. Unfinished(y.unp) = (V \ {g}) \ {g} /\ y.pow.numTasks = Cardinality(packs)
  <2>1. Unfinished(y.unp) = Waiting(Now.unp) BY <1>7, <1>10, <1>12, <1>14, <1>15, <1>17
  <2>2. y.pow.numTasks = Cardinality(packs) BY <1>3, <1>10, <1>12, <1>15, <1>17 DEF Later
  <2> QED BY <2>1, <2>2, <1>8
<1>19. Inv(y, packs', died') /\ Sound(y, died')
  BY <1>1, <1>2, <1>17, <1>18 DEF Inv
<1> QED BY <1>5, <1>17, <1>19, Concludes

LEMMA UpdateFileKeeps ==
    ASSUME IInv, UpdateFile
    PROVE  IInv'
<1>1. /\ Inv(Now, packs, died) /\ ~Now.pow.off /\ ~Now.aborted /\ \A D : Sound(Now, D)
      /\ died \subseteq Ids(Now) /\ packs \in SUBSET Folders
  BY Before DEF UpdateFile
<1> DEFINE t == [Now EXCEPT !.aborted = TRUE]
<1>2. packs' = packs /\ died' = died
  BY DEF UpdateFile
<1>3. Now \in State /\ Ledger(Now, packs, died, Unfinished(Now.rep), Unfinished(Now.unp))
  BY <1>1 DEF Inv
<1>4. /\ t \in State /\ t.arcs = Now.arcs /\ t.rep = Now.rep /\ t.unp = Now.unp
      /\ t.man = Now.man /\ t.pow = Now.pow /\ t.disk = Now.disk
      /\ t.aborted = TRUE
  BY <1>3 DEF State
<1> HIDE DEF t
<1>9. Now' = t
  BY <1>4, NowFacts, NextNow DEF UpdateFile
<1>5. Ledger(t, packs, died, Unfinished(t.rep), Unfinished(t.unp))
  <2>1. \A e \in Folders : IsInjective(t.disk[e]) BY <1>3, <1>4 DEF Ledger, Known
  <2> QED BY <2>1, <1>1, <1>3, <1>4, LedgerLess
<1>6. Inv(t, packs, died)
  BY <1>1, <1>4, <1>5 DEF Inv, Of, Ids, Switched
<1>7. AssertsHold'
  <2>1. /\ rep' = rep /\ rep.running /\ \A i \in 1 .. Len(rep.list) : rep.list[i].guid # rep.cur
    BY DEF UpdateFile
  <2>2. rep.list \in Seq(Row) BY <1>3, NowFacts DEF State, Worker
  <2>3. rep.cur \notin Guids(rep) BY <2>1, <2>2, RangeFacts DEF Guids, RowsOf
  <2> QED BY <2>1, <2>3 DEF AssertsHold
<1>8. Inv(Now', packs', died')
  BY <1>2, <1>6, <1>9
<1> QED BY <1>7, <1>8 DEF IInv

LEMMA CommandKeeps ==
    ASSUME IInv, Command
    PROVE  IInv'
<1>1. /\ Inv(Now, packs, died) /\ ~Now.pow.off /\ ~Now.aborted /\ \A D : Sound(Now, D)
      /\ died \subseteq Ids(Now) /\ packs \in SUBSET Folders
  BY Before DEF Command
<1>2. /\ packs' = packs /\ died' = died /\ arcs' = arcs /\ man' = man /\ pow' = pow
      /\ disk' = disk /\ aborted' = aborted
      /\ \/ rep' \in Commanded(rep, FALSE) /\ unp' = unp
         \/ unp' \in Commanded(unp, TRUE) /\ rep' = rep
  BY DEF Command
<1>3. /\ Now \in State /\ rep \in Worker /\ unp \in Worker
      /\ Lined(rep, Of(Now, "repair"), rep.running)
      /\ Lined(unp, Of(Now, "unpack"), unp.running)
      /\ Ledger(Now, packs, died, Unfinished(rep), Unfinished(unp))
  BY <1>1, NowFacts DEF Inv, State
<1>4. /\ rep' \in Worker /\ Lined(rep', Of(Now, "repair"), rep'.running)
      /\ Unfinished(rep') \subseteq Unfinished(rep)
      /\ unp' \in Worker /\ Lined(unp', Of(Now, "unpack"), unp'.running)
      /\ Unfinished(unp') \subseteq Unfinished(unp)
  <2>1. CASE rep' \in Commanded(rep, FALSE) /\ unp' = unp BY <2>1, <1>3, CommandedFacts
  <2>2. CASE unp' \in Commanded(unp, TRUE) /\ rep' = rep BY <2>2, <1>3, CommandedFacts
  <2> QED BY <2>1, <2>2, <1>2
<1> DEFINE t == [Now EXCEPT !.rep = rep', !.unp = unp']
<1>6. /\ t \in State /\ t.arcs = Now.arcs /\ t.rep = rep' /\ t.unp = unp'
      /\ t.man = Now.man /\ t.pow = Now.pow /\ t.disk = Now.disk /\ t.aborted = Now.aborted
  BY <1>3, <1>4 DEF State
<1> HIDE DEF t
<1>5. Now' = t
  BY <1>2, <1>6, NowFacts, NextNow
<1>7. Ledger(t, packs, died, Unfinished(t.rep), Unfinished(t.unp))
  <2>1. \A e \in Folders : IsInjective(t.disk[e]) BY <1>3, <1>6 DEF Ledger, Known
  <2> QED BY <2>1, <1>1, <1>3, <1>4, <1>6, LedgerLess
<1>8. Inv(t, packs, died)
  BY <1>1, <1>4, <1>6, <1>7 DEF Inv, Of, Ids, Switched
<1>9. AssertsHold'
  BY <1>1, <1>2, NowFacts DEF AssertsHold
<1>10. Inv(Now', packs', died')
  BY <1>2, <1>5, <1>8
<1> QED BY <1>9, <1>10 DEF IInv

\* Archives for the repairer, made by the manager.
LEMMA LedgerRepairs ==
    ASSUME NEW s \in State, NEW t \in State, NEW P \in SUBSET Folders, NEW D, NEW R, NEW V,
           Ledger(s, P, D, R, V), NEW f \in Folders, NEW files \in Seq(Files),
           Grown(s, t, "repair", TRUE, f, files), t.disk = s.disk,
           f \notin P, \A u \in s.man.unpacks : u[1] # f,
           t.man.repairs = [s.man.repairs EXCEPT ![f] = s.man.repairs[f] + Len(files)],
           t.man.unpacks = s.man.unpacks,
           t.man.pending = s.man.pending \cup NewGuids(s, t),
           t.pow.numRepairs = s.pow.numRepairs + Len(files),
           t.pow.numUnpacks = s.pow.numUnpacks
    PROVE  Ledger(t, P, D, R \cup NewGuids(s, t), V)
<1>1. s.pow.numUnpacks + 0 = s.pow.numUnpacks
  BY DEF State, Power
<1>2. "repair" \in Kinds /\ "repair" # "unpack" /\ V \cup {} = V
  BY DEF Kinds
<1>3. t.man.unpacks = s.man.unpacks \cup {} /\ t.pow.numUnpacks = s.pow.numUnpacks + 0
  BY <1>1
<1>4. Growth(s, t, P, "repair", TRUE, f, files, TRUE)
  BY <1>2, <1>3 DEF Growth
<1>5. Ledger(t, P, D, R \cup NewGuids(s, t), V \cup {})
  BY <1>2, <1>4, LedgerGrows
<1> QED BY <1>2, <1>5

\* Archives of the user's, which the manager does not know.
LEMMA LedgerByHand ==
    ASSUME NEW s \in State, NEW t \in State, NEW P \in SUBSET Folders, NEW D, NEW R, NEW V,
           Ledger(s, P, D, R, V), NEW k \in Kinds, NEW f \in Folders, NEW files \in Seq(Files),
           Grown(s, t, k, FALSE, f, files), t.disk = s.disk, t.man = s.man,
           t.pow.numRepairs = s.pow.numRepairs + (IF k = "repair" THEN Len(files) ELSE 0),
           t.pow.numUnpacks = s.pow.numUnpacks + (IF k = "unpack" THEN Len(files) ELSE 0)
    PROVE  Ledger(t, P, D, R \cup (IF k = "repair" THEN NewGuids(s, t) ELSE {}),
                  V \cup (IF k = "unpack" THEN NewGuids(s, t) ELSE {}))
<1>1. s.man.repairs \in [Folders -> Nat]
  BY DEF State, Manager
<1>2. t.man.repairs = [s.man.repairs EXCEPT ![f] = s.man.repairs[f] + 0]
  <2>1. s.man.repairs[f] + 0 = s.man.repairs[f] BY <1>1
  <2> QED BY <2>1, <1>1
<1>3. Growth(s, t, P, k, FALSE, f, files, TRUE)
  BY <1>2 DEF Growth
<1>4. Ledger(t, P, D, R \cup (IF k = "repair" THEN NewGuids(s, t) ELSE {}),
             V \cup (IF k = "unpack" THEN NewGuids(s, t) ELSE {}))
  BY <1>3, LedgerGrows
<1> QED BY <1>4

\* The archives made before stay what they are.
LEMMA GrownOf ==
    ASSUME NEW s \in State, NEW t \in State, NEW k \in Kinds, NEW m \in BOOLEAN,
           NEW f \in Folders, NEW files \in Seq(Files), Grown(s, t, k, m, f, files)
    PROVE  Of(s, "repair") \subseteq Of(t, "repair") /\ Of(s, "unpack") \subseteq Of(t, "unpack")
<1>1. Ids(t) = Ids(s) \cup NewGuids(s, t)
  BY GrownFacts
<1> QED BY <1>1 DEF Of, Grown

\* The archives of recovery sets are made and counted.
LEMMA RepairsFacts ==
    ASSUME NEW s \in State, NEW P \in SUBSET Folders, NEW D, NEW V,
           Ledger(s, P, D, Unfinished(s.rep), V), Lined(s.rep, Of(s, "repair"), s.rep.running),
           NEW f \in Folders, f \notin P, \A x \in s.man.unpacks : x[1] # f,
           NEW files \in Seq(Files)
    PROVE  LET u == Repairs(s, f, files)
           IN  /\ u \in State /\ Grown(s, u, "repair", TRUE, f, files) /\ Kept(s, u)
               /\ u.unp = s.unp
               /\ Lined(u.rep, Of(u, "repair"), u.rep.running)
               /\ Ledger(u, P, D, Unfinished(u.rep), V)
<1> DEFINE t == addRecovery(s, Make(s, "repair", TRUE, f, files))
           u == Repairs(s, f, files)
           r == [s.man.repairs EXCEPT ![f] = s.man.repairs[f] + Len(files)]
           y == s.man.pending \cup NewGuids(s, t)
           m == [s.man EXCEPT !.repairs = r, !.pending = y]
<1>1. /\ t \in State /\ Grown(s, t, "repair", TRUE, f, files) /\ Kept(s, t)
      /\ t.unp = s.unp /\ t.man = s.man
      /\ t.pow.numUnpacks = s.pow.numUnpacks
      /\ t.pow.numRepairs = s.pow.numRepairs + Len(files)
      /\ Lined(t.rep, Of(t, "repair"), t.rep.running)
      /\ Unfinished(t.rep) = Unfinished(s.rep) \cup NewGuids(s, t)
  BY AddRecoveryFacts
<1>2. u = [t EXCEPT !.man.repairs[f] = @ + Len(files), !.man.pending = @ \cup NewGuids(s, t)]
  BY DEF Repairs
<1> HIDE DEF t, u
<1>3. s.man \in Manager /\ r \in [Folders -> Nat] /\ y \subseteq Nat
  <2>1. s.man \in Manager /\ s.man.repairs \in [Folders -> Nat] /\ s.man.pending \subseteq Nat
    BY DEF State, Manager
  <2>2. Len(files) \in Nat /\ s.man.repairs[f] + Len(files) \in Nat
    BY <2>1
  <2>3. NewGuids(s, t) \subseteq Nat BY <1>1, GrownFacts DEF Kinds
  <2> QED BY <2>1, <2>2, <2>3
<1>4. u = [t EXCEPT !.man = m]
  BY <1>1, <1>2, <1>3 DEF State, Manager
<1>5. m \in Manager /\ m.repairs = r /\ m.pending = y /\ m.unpacks = s.man.unpacks
  <2> HIDE DEF r, y
  <2> QED BY <1>3 DEF Manager
<1> HIDE DEF m, y
<1>6. /\ u \in State /\ u.arcs = t.arcs /\ u.rep = t.rep /\ u.unp = s.unp /\ u.man = m
      /\ u.pow = t.pow /\ u.disk = t.disk /\ u.aborted = t.aborted
  BY <1>1, <1>4, <1>5 DEF State
<1>7. NewGuids(s, u) = NewGuids(s, t) /\ Grown(s, u, "repair", TRUE, f, files) /\ Kept(s, u)
      /\ Of(u, "repair") = Of(t, "repair")
  BY <1>1, <1>6 DEF NewGuids, Grown, Kept, Of, Ids
<1>8. Ledger(u, P, D, Unfinished(s.rep) \cup NewGuids(s, u), V)
  <2> DEFINE R == Unfinished(s.rep)
  <2>1. /\ u.man.unpacks = s.man.unpacks /\ u.disk = s.disk
        /\ u.man.pending = s.man.pending \cup NewGuids(s, u)
        /\ u.man.repairs = [s.man.repairs EXCEPT ![f] = s.man.repairs[f] + Len(files)]
        /\ u.pow.numRepairs = s.pow.numRepairs + Len(files)
        /\ u.pow.numUnpacks = s.pow.numUnpacks
    BY <1>1, <1>5, <1>6, <1>7 DEF y, Kept
  <2>2. Ledger(s, P, D, R, V) OBVIOUS
  <2> HIDE DEF R
  <2>3. Ledger(u, P, D, R \cup NewGuids(s, u), V)
    BY <1>6, <1>7, <2>1, <2>2, LedgerRepairs
  <2> QED BY <2>3 DEF R
<1>9. Unfinished(u.rep) = Unfinished(s.rep) \cup NewGuids(s, u)
  BY <1>1, <1>6, <1>7
<1> QED BY <1>1, <1>6, <1>7, <1>8, <1>9 DEF u

\* Once the manager has told how many archives are left, the number of the
\* downloads is told.
LEMMA TasksFacts ==
    ASSUME NEW s \in State, NEW D, Switched(s, D), s.pow.numTasks # 0, NEW n \in Nat
    PROVE  LET t == [s EXCEPT !.pow = numPendingTasks(@, n)]
           IN  /\ t \in State /\ Switched(t, D)
               /\ t.arcs = s.arcs /\ t.rep = s.rep /\ t.unp = s.unp /\ t.man = s.man
               /\ t.disk = s.disk /\ t.aborted = s.aborted
               /\ t.pow.numRepairs = s.pow.numRepairs /\ t.pow.numUnpacks = s.pow.numUnpacks
               /\ t.pow.numTasks = n
<1> DEFINE p == [s.pow EXCEPT !.numTasks = n]
           q == evaluate(p)
           t == [s EXCEPT !.pow = numPendingTasks(@, n)]
<1>1. /\ p \in Power /\ p.numTasks = n /\ p.off = s.pow.off
      /\ p.downloads = s.pow.downloads /\ p.repairs = s.pow.repairs /\ p.unpacks = s.pow.unpacks
      /\ p.numRepairs = s.pow.numRepairs /\ p.numUnpacks = s.pow.numUnpacks
      /\ p.numArchives = s.pow.numArchives
  BY DEF State, Power
<1>2. t = [s EXCEPT !.pow = q]
  BY DEF numPendingTasks
<1> HIDE DEF p, t
<1>3. q \in Power /\ Same(p, q) /\ (q.off => p.off \/ MayBeOff(p))
  BY <1>1, EvaluateFacts
<1> HIDE DEF q
<1>4. /\ t \in State /\ t.pow = q
      /\ t.arcs = s.arcs /\ t.rep = s.rep /\ t.unp = s.unp /\ t.man = s.man
      /\ t.disk = s.disk /\ t.aborted = s.aborted
  BY <1>2, <1>3 DEF State
<1>5. Switched(t, D)
  BY <1>1, <1>3, <1>4 DEF Switched, MayBeOff, Same
<1> QED BY <1>1, <1>3, <1>4, <1>5 DEF Same, t

LEMMA PackCompletedKeeps ==
    ASSUME PostAssumption, IInv, NEW f \in Folders, PackCompleted(f)
    PROVE  IInv'
<1> DEFINE P == packs \ {f}
           R == Unfinished(Now.rep)
           V == Unfinished(Now.unp)
           u == IF Pars[f] # <<>> THEN Repairs(Now, f, Pars[f]) ELSE Unpacks(Now, f, Now.disk[f])
           t == emitPending(u)
           x == [t EXCEPT !.pow = numPendingTasks(@, Cardinality(P))]
<1>1. /\ Inv(Now, packs, died) /\ ~Now.pow.off /\ ~Now.aborted /\ \A D : Sound(Now, D)
      /\ died \subseteq Ids(Now) /\ packs \in SUBSET Folders
  BY Before DEF PackCompleted
<1>2. f \in packs /\ packs' = P /\ died' = died
  BY DEF PackCompleted
<1>3. Becomes(x)
  BY NowFacts DEF PackCompleted, packCompleted
<1>4. /\ Now \in State /\ Now.pow.numTasks = Cardinality(packs)
      /\ Lined(Now.rep, Of(Now, "repair"), Now.rep.running)
      /\ Lined(Now.unp, Of(Now, "unpack"), Now.unp.running)
      /\ Ledger(Now, packs, died, R, V) /\ Switched(Now, died)
  BY <1>1 DEF Inv
<1>5. /\ Cardinality(packs) \in Nat /\ Cardinality(packs) # 0 /\ Cardinality(P) \in Nat
      /\ P \in SUBSET Folders /\ f \notin P
  <2>1. IsFiniteSet(packs) /\ IsFiniteSet(P) BY <1>1, FS_Subset DEF PostAssumption
  <2> QED BY <2>1, <1>1, <1>2, FS_CardinalityType, FS_EmptySet
<1>6. Now.man.repairs[f] = 0 /\ \A e \in Folders : IsInjective(Now.disk[e])
  BY <1>2, <1>4 DEF Ledger, Known
<1>7. \A y \in Now.man.unpacks : y[1] # f
  BY <1>2, <1>4 DEF Ledger, Expected
<1> HIDE DEF R, V, x, t
<1>8. Ledger(Now, P, died, R, V)
  BY <1>1, <1>4, <1>6, LedgerLess
<1>9. /\ u \in State /\ Kept(Now, u)
      /\ \E k \in Kinds, l \in Seq(Files) : Grown(Now, u, k, TRUE, f, l)
      /\ Lined(u.rep, Of(u, "repair"), u.rep.running)
      /\ Lined(u.unp, Of(u, "unpack"), u.unp.running)
      /\ Ledger(u, P, died, Unfinished(u.rep), Unfinished(u.unp))
  <2>1. CASE Pars[f] # <<>>
    <3>1. Pars[f] \in Seq(Files) BY DEF PostAssumption
    <3> DEFINE v == Repairs(Now, f, Pars[f])
    <3>2. /\ v \in State /\ Grown(Now, v, "repair", TRUE, f, Pars[f]) /\ Kept(Now, v)
          /\ v.unp = Now.unp
          /\ Lined(v.rep, Of(v, "repair"), v.rep.running)
          /\ Ledger(v, P, died, Unfinished(v.rep), V)
      <4> HIDE DEF P
      <4> QED BY <3>1, <1>4, <1>5, <1>7, <1>8, RepairsFacts DEF R
    <3>3. u = v BY <2>1
    <3> HIDE DEF v, u
    <3>4. "repair" \in Kinds BY DEF Kinds
    <3>5. Of(Now, "unpack") \subseteq Of(v, "unpack")
      BY <3>1, <3>2, <3>4, <1>4, GrownOf
    <3>6. Lined(v.unp, Of(v, "unpack"), v.unp.running)
      BY <3>2, <3>5, <1>4, LinedGrows
    <3> QED BY <3>1, <3>2, <3>3, <3>4, <3>6 DEF V
  <2>2. CASE Pars[f] = <<>>
    <3>1. Now.disk[f] \in Seq(Files) /\ IsInjective(Now.disk[f]) BY <1>4, <1>6 DEF State
    <3> DEFINE vols == Now.disk[f]
               v == Unpacks(Now, f, vols)
    <3>2. \A y \in Range(vols) : <<f, y>> \notin Now.man.unpacks
      <4>1. \A y : <<f, y>>[1] = f OBVIOUS
      <4> QED BY <4>1, <1>7
    <3>3. /\ v \in State /\ Grown(Now, v, "unpack", TRUE, f, vols) /\ Kept(Now, v)
          /\ v.rep = Now.rep
          /\ Lined(v.unp, Of(v, "unpack"), v.unp.running)
          /\ Ledger(v, P, died, R, Unfinished(v.unp))
      <4>1. vols \in Seq(Files) /\ IsInjective(vols) BY <3>1
      <4>2. /\ Ledger(Now, P, died, R, Unfinished(Now.unp)) /\ f \in Folders /\ f \notin P
            /\ Lined(Now.unp, Of(Now, "unpack"), Now.unp.running)
            /\ Now.man.repairs[f] = 0 /\ Now \in State /\ P \in SUBSET Folders
        BY <1>4, <1>5, <1>6, <1>8 DEF V
      <4> HIDE DEF P, vols
      <4> QED BY <3>2, <4>1, <4>2, UnpacksFacts, ZenonT(60)
    <3>4. u = v BY <2>2
    <3> HIDE DEF v, u
    <3>5. "unpack" \in Kinds BY DEF Kinds
    <3>6. Of(Now, "repair") \subseteq Of(v, "repair")
      BY <3>1, <3>3, <3>5, <1>4, GrownOf
    <3>7. Lined(v.rep, Of(v, "repair"), v.rep.running)
      BY <3>3, <3>6, <1>4, LinedGrows
    <3> QED BY <3>1, <3>3, <3>4, <3>5, <3>7 DEF R
  <2> QED BY <2>1, <2>2
<1> HIDE DEF u, P
<1>10. u.pow.off = Now.pow.off /\ u.pow.numTasks = Now.pow.numTasks /\ u.aborted = Now.aborted
  BY <1>9 DEF Kept
<1>11. /\ t \in State /\ Switched(t, died)
       /\ t.arcs = u.arcs /\ t.rep = u.rep /\ t.unp = u.unp /\ t.man = u.man
       /\ t.disk = u.disk /\ t.aborted = u.aborted
       /\ t.pow.numRepairs = u.pow.numRepairs /\ t.pow.numUnpacks = u.pow.numUnpacks
       /\ t.pow.numTasks = u.pow.numTasks
  <2>1. IsFiniteSet(u.man.pending) BY <1>9, FinitePending
  <2> QED BY <2>1, <1>1, <1>9, <1>10, EmitFacts DEF t
<1>12. t.pow.numTasks # 0
  BY <1>4, <1>5, <1>10, <1>11
<1>13. /\ x \in State /\ Switched(x, died)
       /\ x.arcs = t.arcs /\ x.rep = t.rep /\ x.unp = t.unp /\ x.man = t.man
       /\ x.disk = t.disk /\ x.aborted = t.aborted
       /\ x.pow.numRepairs = t.pow.numRepairs /\ x.pow.numUnpacks = t.pow.numUnpacks
       /\ x.pow.numTasks = Cardinality(P)
  BY <1>5, <1>11, <1>12, TasksFacts DEF x
<1>14. /\ Of(x, "repair") = Of(u, "repair") /\ Of(x, "unpack") = Of(u, "unpack")
       /\ Ids(x) = Ids(u) /\ ~x.aborted
  BY <1>1, <1>10, <1>11, <1>13 DEF Of, Ids
<1>15. Ledger(x, P, died, Unfinished(x.rep), Unfinished(x.unp))
  <2>1. (\A e \in Folders : IsInjective(x.disk[e])) /\ died \subseteq Ids(u)
    BY <1>9, <1>11, <1>13 DEF Ledger, Known
  <2> QED BY <2>1, <1>5, <1>9, <1>11, <1>13, LedgerLess
<1>16. Inv(x, packs', died') /\ Sound(x, died')
  BY <1>2, <1>5, <1>9, <1>11, <1>13, <1>14, <1>15 DEF Inv, Sound
<1> QED BY <1>3, <1>13, <1>16, Concludes

\* The user's own archives are nobody's business but the worker's.
LEMMA AddByHandKeeps ==
    ASSUME IInv, NEW f \in Folders, AddByHand(f), PostAssumption
    PROVE  IInv'
<1> DEFINE R == Unfinished(Now.rep)
           V == Unfinished(Now.unp)
<1>1. /\ Inv(Now, packs, died) /\ ~Now.pow.off /\ ~Now.aborted /\ \A D : Sound(Now, D)
      /\ died \subseteq Ids(Now) /\ packs \in SUBSET Folders
  BY Before DEF AddByHand
<1>2. packs' = packs /\ died' = died
  BY DEF AddByHand
<1>3. /\ Now \in State /\ Now.pow.numTasks = Cardinality(packs)
      /\ Lined(Now.rep, Of(Now, "repair"), Now.rep.running)
      /\ Lined(Now.unp, Of(Now, "unpack"), Now.unp.running)
      /\ Ledger(Now, packs, died, R, V) /\ Switched(Now, died)
  BY <1>1 DEF Inv
<1> HIDE DEF R, V
<1>4. "repair" \in Kinds /\ "unpack" \in Kinds
  BY DEF Kinds
<1>7. Now.pow.numRepairs + 0 = Now.pow.numRepairs /\ Now.pow.numUnpacks + 0 = Now.pow.numUnpacks
  BY <1>3 DEF State, Power
<1>5. ASSUME NEW file \in Range(Pars[f]),
             Becomes(addRecovery(Now, Make(Now, "repair", FALSE, f, <<file>>)))
      PROVE  IInv'
  <2> DEFINE t == addRecovery(Now, Make(Now, "repair", FALSE, f, <<file>>))
             N == NewGuids(Now, t)
             files == <<file>>
  <2>0. Pars[f] \in Seq(Files) BY DEF PostAssumption
  <2>1. files \in Seq(Files)
    <3>1. file \in Files BY <2>0, RangeFacts
    <3> QED BY <3>1
  <2> HIDE DEF files
  <2>2. /\ t \in State /\ Grown(Now, t, "repair", FALSE, f, files) /\ Kept(Now, t)
        /\ t.unp = Now.unp /\ t.man = Now.man
        /\ t.pow.numUnpacks = Now.pow.numUnpacks
        /\ t.pow.numRepairs = Now.pow.numRepairs + Len(files)
        /\ Lined(t.rep, Of(t, "repair"), t.rep.running)
        /\ Unfinished(t.rep) = R \cup N
    BY <2>1, <1>3, AddRecoveryFacts DEF files, R
  <2> HIDE DEF t
  <2>3. Ledger(t, packs, died, R \cup N, V \cup {})
    <3> DEFINE k == "repair"
    <3>1. k \in Kinds /\ k = "repair" /\ k # "unpack" /\ Grown(Now, t, k, FALSE, f, files)
      BY <1>4, <2>2
    <3> HIDE DEF k
    <3>2. /\ t.pow.numRepairs = Now.pow.numRepairs + (IF k = "repair" THEN Len(files) ELSE 0)
          /\ t.pow.numUnpacks = Now.pow.numUnpacks + (IF k = "unpack" THEN Len(files) ELSE 0)
      BY <3>1, <2>2, <1>7
    <3>3. t.disk = Now.disk /\ t.man = Now.man BY <2>2 DEF Kept
    <3>4. Ledger(t, packs, died, R \cup (IF k = "repair" THEN NewGuids(Now, t) ELSE {}),
                 V \cup (IF k = "unpack" THEN NewGuids(Now, t) ELSE {}))
      BY <3>1, <3>2, <3>3, <2>1, <2>2, <1>1, <1>3, LedgerByHand
    <3> QED BY <3>1, <3>4
  <2>4. Ledger(t, packs, died, Unfinished(t.rep), Unfinished(t.unp))
    <3>1. V \cup {} = V OBVIOUS
    <3> QED BY <3>1, <2>2, <2>3 DEF V
  <2>5. Lined(t.unp, Of(t, "unpack"), t.unp.running)
    <3>1. Of(Now, "unpack") \subseteq Of(t, "unpack")
      BY <2>1, <2>2, <1>3, <1>4, GrownOf
    <3> QED BY <3>1, <2>2, <1>3, LinedGrows
  <2>6. t.pow.numTasks = Cardinality(packs) /\ Switched(t, died) /\ Sound(t, died)
    BY <2>2, <1>1, <1>3 DEF Kept, Switched, MayBeOff, Sound
  <2>7. Inv(t, packs', died') /\ Sound(t, died')
    BY <2>2, <2>4, <2>5, <2>6, <1>1, <1>2 DEF Inv
  <2>8. Becomes(t) BY <1>5 DEF t
  <2> QED BY <2>2, <2>7, <2>8, Concludes
<1>6. ASSUME NEW vol \in Range(disk[f]),
             Becomes(addUnpack(Now, Make(Now, "unpack", FALSE, f, <<vol>>)))
      PROVE  IInv'
  <2> DEFINE t == addUnpack(Now, Make(Now, "unpack", FALSE, f, <<vol>>))
             N == NewGuids(Now, t)
             files == <<vol>>
  <2>0. disk[f] \in Seq(Files) BY <1>3, NowFacts DEF State
  <2>1. files \in Seq(Files)
    <3>1. vol \in Files BY <2>0, RangeFacts
    <3> QED BY <3>1
  <2> HIDE DEF files
  <2>2. /\ t \in State /\ Grown(Now, t, "unpack", FALSE, f, files) /\ Kept(Now, t)
        /\ t.rep = Now.rep /\ t.man = Now.man
        /\ t.pow.numRepairs = Now.pow.numRepairs
        /\ t.pow.numUnpacks = Now.pow.numUnpacks + Len(files)
        /\ Lined(t.unp, Of(t, "unpack"), t.unp.running)
        /\ Unfinished(t.unp) = V \cup N
    BY <2>1, <1>3, AddUnpackFacts DEF files, V
  <2> HIDE DEF t
  <2>3. Ledger(t, packs, died, R \cup {}, V \cup N)
    <3> DEFINE k == "unpack"
    <3>1. k \in Kinds /\ k = "unpack" /\ k # "repair" /\ Grown(Now, t, k, FALSE, f, files)
      BY <1>4, <2>2
    <3> HIDE DEF k
    <3>2. /\ t.pow.numRepairs = Now.pow.numRepairs + (IF k = "repair" THEN Len(files) ELSE 0)
          /\ t.pow.numUnpacks = Now.pow.numUnpacks + (IF k = "unpack" THEN Len(files) ELSE 0)
      BY <3>1, <2>2, <1>7
    <3>3. t.disk = Now.disk /\ t.man = Now.man BY <2>2 DEF Kept
    <3>4. Ledger(t, packs, died, R \cup (IF k = "repair" THEN NewGuids(Now, t) ELSE {}),
                 V \cup (IF k = "unpack" THEN NewGuids(Now, t) ELSE {}))
      BY <3>1, <3>2, <3>3, <2>1, <2>2, <1>1, <1>3, LedgerByHand
    <3> QED BY <3>1, <3>4
  <2>4. Ledger(t, packs, died, Unfinished(t.rep), Unfinished(t.unp))
    <3>1. R \cup {} = R OBVIOUS
    <3> QED BY <3>1, <2>2, <2>3 DEF R
  <2>5. Lined(t.rep, Of(t, "repair"), t.rep.running)
    <3>1. Of(Now, "repair") \subseteq Of(t, "repair")
      BY <2>1, <2>2, <1>3, <1>4, GrownOf
    <3> QED BY <3>1, <2>2, <1>3, LinedGrows
  <2>6. t.pow.numTasks = Cardinality(packs) /\ Switched(t, died) /\ Sound(t, died)
    BY <2>2, <1>1, <1>3 DEF Kept, Switched, MayBeOff, Sound
  <2>7. Inv(t, packs', died') /\ Sound(t, died')
    BY <2>2, <2>4, <2>5, <2>6, <1>1, <1>2 DEF Inv
  <2>8. Becomes(t) BY <1>6 DEF t
  <2> QED BY <2>2, <2>7, <2>8, Concludes
<1> QED BY <1>5, <1>6 DEF AddByHand

LEMMA NextInv ==
    ASSUME PostAssumption, IInv, [Next]_vars
    PROVE  IInv'
<1>1. ASSUME NEW f \in Folders, PackCompleted(f) PROVE IInv'
  BY <1>1, PackCompletedKeeps
<1>2. ASSUME NEW f \in Folders, AddByHand(f) PROVE IInv'
  BY <1>2, AddByHandKeeps
<1>3. ASSUME RepairProgress PROVE IInv'
  BY <1>3, RepairDiesKeeps, RepairEndsKeeps DEF RepairProgress
<1>4. ASSUME UnpackProgress PROVE IInv'
  BY <1>4, UnpackDiesKeeps, UnpackEndsKeeps DEF UnpackProgress
<1>5. ASSUME UpdateFile PROVE IInv'
  BY <1>5, UpdateFileKeeps
<1>6. ASSUME Command PROVE IInv'
  BY <1>6, CommandKeeps
<1>7. ASSUME UNCHANGED vars PROVE IInv'
  <2>1. Now' = Now /\ packs' = packs /\ died' = died
    BY <1>7 DEF vars, Now
  <2>2. AssertsHold'
    BY <1>7 DEF IInv, AssertsHold, vars, Guids, RowsOf
  <2>3. Inv(Now', packs', died')
    BY <2>1 DEF IInv
  <2> QED BY <2>2, <2>3 DEF IInv
<1> QED BY <1>1, <1>2, <1>3, <1>4, <1>5, <1>6, <1>7 DEF Next

LEMMA InitInv ==
    ASSUME PostAssumption, Init
    PROVE  IInv
<1>1. arcs = <<>> /\ packs = Folders /\ died = {} /\ aborted = FALSE /\ disk = Volumes
  BY DEF Init, PostAssumption
<1>2. /\ rep.list = <<>> /\ unp.list = <<>> /\ rep.running = FALSE /\ unp.running = FALSE
      /\ rep \in Worker /\ unp \in Worker
  <2>1. ASSUME NEW on \in BOOLEAN
        PROVE  /\ NewWorker(on).list = <<>> /\ NewWorker(on).running = FALSE
               /\ NewWorker(on) \in Worker
    <3>1. <<>> \in Seq(Row) /\ "Queued" \in Statuses BY DEF Statuses
    <3> QED BY <3>1 DEF NewWorker, Worker
  <2>2. \E on \in BOOLEAN : rep = NewWorker(on) /\ unp = NewWorker(on) BY DEF Init
  <2> QED BY <2>1, <2>2
<1>3. /\ man.repairs = [f \in Folders |-> 0] /\ man.unpacks = {} /\ man.pending = {}
      /\ man \in Manager
  BY DEF Init, Manager
<1>4. /\ pow \in Power /\ pow.off = FALSE /\ pow.numRepairs = 0 /\ pow.numUnpacks = 0
      /\ pow.numArchives = 0 /\ pow.numTasks = Cardinality(Folders)
  <2>1. Cardinality(Folders) \in Nat BY FS_CardinalityType DEF PostAssumption
  <2> QED BY <2>1 DEF Init, Power
<1>5. Now \in State
  <2>1. <<>> \in Seq(Archive) OBVIOUS
  <2>2. disk \in [Folders -> Seq(Files)] BY <1>1 DEF PostAssumption
  <2> QED BY <2>1, <2>2, <1>1, <1>2, <1>3, <1>4 DEF Now, State
<1>6. Unfinished(rep) = {} /\ Unfinished(unp) = {}
  <2>1. Range(rep.list) = {} /\ Range(unp.list) = {}
    <3>1. rep.list \in Seq(Row) /\ unp.list \in Seq(Row) BY <1>2 DEF Worker
    <3>2. /\ Range(rep.list) = {rep.list[i] : i \in 1 .. Len(rep.list)}
          /\ Range(unp.list) = {unp.list[i] : i \in 1 .. Len(unp.list)}
      BY <3>1, RangeFacts
    <3>3. Len(rep.list) = 0 /\ Len(unp.list) = 0 BY <1>2
    <3> QED BY <3>2, <3>3
  <2> QED BY <2>1, <1>2 DEF Unfinished, RowsOf
<1>7. Ids(Now) = {} /\ Of(Now, "repair") = {} /\ Of(Now, "unpack") = {}
  BY <1>1, NowFacts DEF Ids, Of
<1>8. Lined(rep, {}, FALSE) /\ Lined(unp, {}, FALSE)
  BY <1>2 DEF Lined
<1>9. Cardinality({}) = 0
  BY FS_EmptySet
<1>10. Ledger(Now, packs, died, {}, {})
  <2>1. Known(Now, packs, died, {}, {})
    BY <1>1, <1>3, <1>7, NowFacts DEF Known, PostAssumption
  <2>2. Expected(Now, packs)
    BY <1>3, <1>7, NowFacts DEF Expected, ManagedOf
  <2>3. RepairsLeft(Now, died, {})
    <3>1. \A f \in Folders : RepairsOf(Now, {}, f) = {} BY DEF RepairsOf
    <3>2. \A f \in Folders : Now.man.repairs[f] = 0 BY <1>3, NowFacts
    <3>3. \A f \in Folders : Cardinality(RepairsOf(Now, {}, f)) = Now.man.repairs[f]
      BY <3>1, <3>2, <1>9
    <3>4. \A f \in Folders : Cardinality(RepairsOf(Now, {}, f)) <= Now.man.repairs[f]
      <4> SUFFICES ASSUME NEW f \in Folders
                   PROVE  Cardinality(RepairsOf(Now, {}, f)) <= Now.man.repairs[f]
        OBVIOUS
      <4> DEFINE a == Cardinality(RepairsOf(Now, {}, f))
                 b == Now.man.repairs[f]
      <4>1. a = b /\ b = 0 BY <3>2, <3>3
      <4> HIDE DEF a, b
      <4>2. a <= b BY <4>1
      <4> QED BY <4>2 DEF a, b
    <3> QED BY <3>4 DEF RepairsLeft
  <2>4. Tallied(Now, died, {}, {})
    BY <1>4, <1>9, NowFacts DEF Tallied
  <2> QED BY <2>1, <2>2, <2>3, <2>4 DEF Ledger
<1>11. Switched(Now, died)
  BY <1>3, <1>4, <1>9, NowFacts DEF Switched
<1>12. Inv(Now, packs, died)
  BY <1>1, <1>2, <1>4, <1>5, <1>6, <1>7, <1>8, <1>10, <1>11, NowFacts DEF Inv
<1> QED BY <1>1, <1>12 DEF IInv, AssertsHold

\* The invariant of the post-processing holds, whatever is downloaded, however
\* the processes end and whatever the user commands.
THEOREM PostProcessingInvariant == Spec => []IInv
<1>1. PostAssumption
  BY PostAssumption
<1>2. Init => IInv BY <1>1, InitInv
<1>3. IInv /\ [Next]_vars => IInv' BY <1>1, NextInv
<1> QED BY <1>2, <1>3, PTL DEF Spec

-----------------------------------------------------------------------------
(* What the invariant means.                                               *)

\* What IInv says of the program's own variables.
LEMMA Current ==
    ASSUME IInv
    PROVE  /\ Now \in State /\ packs \in SUBSET Folders /\ pow.numTasks = Cardinality(packs)
           /\ Lined(rep, Of(Now, "repair"), rep.running)
           /\ Lined(unp, Of(Now, "unpack"), unp.running)
           /\ Known(Now, packs, died, Unfinished(rep), Unfinished(unp))
           /\ Expected(Now, packs) /\ RepairsLeft(Now, died, Unfinished(rep))
           /\ Tallied(Now, died, Unfinished(rep), Unfinished(unp))
           /\ Switched(Now, died)
           /\ rep \in Worker /\ unp \in Worker /\ man \in Manager /\ pow \in Power
           /\ arcs \in Seq(Archive) /\ aborted \in BOOLEAN
           /\ Ids(Now) = DOMAIN arcs
<1>1. Inv(Now, packs, died)
  BY DEF IInv
<1>2. Now \in State
  BY <1>1 DEF Inv
<1>3. /\ rep \in Worker /\ unp \in Worker /\ man \in Manager /\ pow \in Power
      /\ arcs \in Seq(Archive) /\ aborted \in BOOLEAN
  BY <1>2, NowFacts DEF State
<1>4. Ids(Now) = DOMAIN arcs
  BY <1>3, NowFacts DEF Ids
<1> QED BY <1>1, <1>2, <1>3, <1>4, NowFacts DEF Inv, Ledger

\* The folders are in order: a list knows its archives, works on one of them at
\* a time, a folder is repaired before it is unpacked, and each of its volumes
\* is unpacked once (arcman.cpp:60-190).
THEOREM FoldersInOrder == Spec => []FolderOrder
<1>1. IInv => FolderOrder
  <2> SUFFICES ASSUME IInv PROVE FolderOrder OBVIOUS
  <2>1. /\ Now \in State /\ packs \in SUBSET Folders
        /\ Lined(rep, Of(Now, "repair"), rep.running)
        /\ Lined(unp, Of(Now, "unpack"), unp.running)
        /\ Known(Now, packs, died, Unfinished(rep), Unfinished(unp))
        /\ Expected(Now, packs) /\ RepairsLeft(Now, died, Unfinished(rep))
        /\ rep \in Worker /\ unp \in Worker /\ man \in Manager
        /\ arcs \in Seq(Archive) /\ aborted \in BOOLEAN
        /\ Ids(Now) = DOMAIN arcs
    BY Current
  <2>2. \A k \in Kinds : /\ Of(Now, k) \subseteq DOMAIN arcs
                         /\ ManagedOf(Now, k) = Managed(k)
    BY <2>1, NowFacts DEF Of, ManagedOf, Managed
  <2>3. TypeOK
    <3>1. ASSUME NEW w \in Worker, NEW G, G \subseteq DOMAIN arcs, Lined(w, G, w.running)
          PROVE  /\ Guids(w) \subseteq DOMAIN arcs
                 /\ \A r \in RowsOf(w) : r.state \in Statuses
                 /\ w.running => w.cur \in DOMAIN arcs
      <4>1. w.list \in Seq(Row) BY DEF Worker
      <4>2. Range(w.list) = {w.list[i] : i \in 1 .. Len(w.list)}
        BY <4>1, RangeFacts
      <4>3. \A i \in 1 .. Len(w.list) : w.list[i] \in Row BY <4>1
      <4> QED BY <3>1, <4>2, <4>3 DEF Lined, Guids, RowsOf, Row
    <3>2. Of(Now, "repair") \subseteq DOMAIN arcs /\ Of(Now, "unpack") \subseteq DOMAIN arcs
      BY <2>2 DEF Kinds
    <3>3. man.pending \subseteq DOMAIN arcs BY <2>1, NowFacts DEF Known
    <3>4. \A f \in Folders : man.repairs[f] \in Nat BY <2>1 DEF Manager
    <3> QED BY <2>1, <3>1, <3>2, <3>3, <3>4 DEF TypeOK, Workers
  <2>4. OneAtATime
    <3>1. ASSUME NEW w \in Worker, NEW G, Lined(w, G, w.running)
          PROVE  \A i, j \in Rows(w, "Active") : i = j /\ w.running /\ w.list[i].guid = w.cur
      BY <3>1 DEF Lined, Rows
    <3> QED BY <2>1, <3>1 DEF OneAtATime, Workers
  <2>5. ASSUME NEW g \in Managed("unpack"), NEW h \in Managed("repair"),
               h \in Unfinished(rep), arcs[g].folder = arcs[h].folder
        PROVE  \E d \in died : arcs[d].folder = arcs[g].folder
    <3> DEFINE f == arcs[g].folder
               H == RepairsOf(Now, Unfinished(rep), f)
    <3>1. f \in Folders
      <4>1. g \in 1 .. Len(arcs) BY <2>1 DEF Managed
      <4>2. arcs[g] \in Archive BY <4>1, <2>1
      <4> QED BY <4>2 DEF Archive
    <3>2. man.repairs[f] = 0
      <4>1. g \in ManagedOf(Now, "unpack") BY <2>2 DEF Kinds
      <4>2. <<f, arcs[g].file>> \in man.unpacks BY <4>1, <2>1, NowFacts DEF Expected
      <4>3. <<f, arcs[g].file>>[1] = f OBVIOUS
      <4> HIDE DEF f
      <4> QED BY <4>2, <4>3, <2>1, NowFacts DEF Expected
    <3>3. h \in H
      BY <2>5, NowFacts DEF RepairsOf, Managed
    <3>4. IsFiniteSet(H) /\ Cardinality(H) # 0
      <4>1. H \subseteq 1 .. Len(arcs)
        BY <2>1, <2>2 DEF RepairsOf, Known, Kinds
      <4>2. IsFiniteSet(H) BY <4>1, <2>1, FS_Interval, FS_Subset
      <4> QED BY <4>2, <3>3, FS_EmptySet
    <3>5. Cardinality(H) \in Nat BY <3>4, FS_CardinalityType
    <3>6. RepairDied(Now, died, f) \/ Cardinality(H) <= man.repairs[f]
      BY <3>1, <2>1, NowFacts DEF RepairsLeft
    <3>7. RepairDied(Now, died, f)
      <4> HIDE DEF H, f
      <4> QED BY <3>2, <3>4, <3>5, <3>6
    <3> QED BY <3>7, NowFacts DEF RepairDied
  <2>6. RepairsFirst
    BY <2>5 DEF RepairsFirst
  <2>7. UnpackedOnce
    <3>1. ManagedOf(Now, "unpack") = Managed("unpack") BY <2>2 DEF Kinds
    <3> QED BY <3>1, <2>1, NowFacts DEF UnpackedOnce, Expected
  <2> QED BY <2>3, <2>4, <2>6, <2>7 DEF FolderOrder
<1> QED BY <1>1, PostProcessingInvariant, PTL

\* When the computer is switched off, nothing is left of what the user wants to
\* wait for, unless a process died (poweroff.cpp:35-140).
THEOREM NotSwitchedOffEarly == Spec => []PowerOffSafe
<1>1. IInv => PowerOffSafe
  <2> SUFFICES ASSUME IInv, pow.off, died = {}
               PROVE  /\ pow.downloads => packs = {}
                      /\ pow.repairs => Unfinished(rep) = {}
                      /\ pow.unpacks => Unfinished(unp) = {}
                      /\ pow.repairs \/ pow.unpacks =>
                             \A g \in Unfinished(rep) \cup Unfinished(unp) : ~arcs[g].managed
    BY DEF PowerOffSafe
  <2> DEFINE R == Unfinished(rep)
             V == Unfinished(unp)
  <2>1. /\ Now \in State /\ packs \in SUBSET Folders /\ pow.numTasks = Cardinality(packs)
        /\ Known(Now, packs, died, R, V)
        /\ Tallied(Now, died, R, V) /\ Switched(Now, died)
        /\ pow \in Power /\ arcs \in Seq(Archive) /\ Ids(Now) = DOMAIN arcs
    BY Current
  <2> HIDE DEF R, V
  <2>2. MayBeOff(pow) /\ pow.numArchives = Cardinality(man.pending)
    BY <2>1, NowFacts DEF Switched
  <2>3. /\ Cardinality(R) <= pow.numRepairs /\ Cardinality(V) <= pow.numUnpacks
        /\ \A g \in R \cup V : arcs[g].managed => g \in man.pending
    BY <2>1, NowFacts DEF Tallied
  <2>4. /\ IsFiniteSet(R) /\ IsFiniteSet(V) /\ IsFiniteSet(packs) /\ IsFiniteSet(man.pending)
    <3>1. IsFiniteSet(1 .. Len(arcs)) BY <2>1, FS_Interval
    <3>2. R \subseteq 1 .. Len(arcs) /\ V \subseteq 1 .. Len(arcs)
          /\ man.pending \subseteq 1 .. Len(arcs)
      BY <2>1, NowFacts DEF Known, Of
    <3>3. IsFiniteSet(Folders) BY PostAssumption DEF PostAssumption
    <3> QED BY <2>1, <3>1, <3>2, <3>3, FS_Subset
  <2>5. /\ Cardinality(R) \in Nat /\ Cardinality(V) \in Nat
        /\ Cardinality(R) = 0 <=> R = {}
        /\ Cardinality(V) = 0 <=> V = {}
        /\ Cardinality(packs) = 0 <=> packs = {}
        /\ Cardinality(man.pending) = 0 <=> man.pending = {}
    BY <2>4, FS_CardinalityType, FS_EmptySet
  <2>6. pow.downloads => packs = {}
    BY <2>1, <2>2, <2>5 DEF MayBeOff
  <2>7. pow.repairs => R = {}
    <3>1. pow.repairs => pow.numRepairs = 0 BY <2>2 DEF MayBeOff
    <3> QED BY <3>1, <2>3, <2>5
  <2>8. pow.unpacks => V = {}
    <3>1. pow.unpacks => pow.numUnpacks = 0 BY <2>2 DEF MayBeOff
    <3> QED BY <3>1, <2>3, <2>5
  <2>9. pow.repairs \/ pow.unpacks => \A g \in R \cup V : ~arcs[g].managed
    BY <2>2, <2>3, <2>5 DEF MayBeOff
  <2> QED BY <2>6, <2>7, <2>8, <2>9 DEF R, V
<1> QED BY <1>1, PostProcessingInvariant, PTL

\* The ENDCHECKs of the manager and of the repairer's history stand, unless a
\* repair's process died or the user removed the repair it works on.
THEOREM AssertsStand == Spec => []AssertsHold
<1>1. IInv => AssertsHold
  BY DEF IInv
<1> QED BY <1>1, PostProcessingInvariant, PTL
=============================================================================
