-------------------------- MODULE CollectionFacts --------------------------
(***************************************************************************)
(* Facts about numbers, sums over finite sets, sequences of any length and *)
(* the operators of Subsequences.  What the library shows by an induction  *)
(* with a predicate as its parameter is shown here with the least element  *)
(* of a set of numbers and a minimal element of a set of finite sets.      *)
(***************************************************************************)
EXTENDS Subsequences, SequencesExt, Integers, FiniteSetTheorems, TLAPS

-----------------------------------------------------------------------------
(* Numbers.                                                                *)

Less == {p \in Nat \X Nat : p[1] < p[2]}

\* A set of numbers that is not empty has a least one.
LEMMA LeastNumber ==
    ASSUME NEW T \in SUBSET Nat, T # {}
    PROVE  \E m \in T : \A n \in T : m <= n
<1>1. Less = OpToRel(<, Nat)
  BY DEF OpToRel, Less
<1>2. IsWellFoundedOn(Less, Nat)
  BY <1>1, NatLessThanWellFounded
<1>3. PICK m \in T : \A n \in T : ~(<<n, m>> \in Less)
  BY <1>2, WFMin
<1>4. ASSUME NEW n \in T, n < m PROVE FALSE
  <2>1. <<n, m>> \in Nat \X Nat /\ <<n, m>>[1] < <<n, m>>[2]
    BY <1>4
  <2> QED BY <2>1, <1>3 DEF Less
<1> QED BY <1>4, <1>3

\* Min is what its name says.
LEMMA MinFacts ==
    ASSUME NEW T \in SUBSET Nat, T # {}
    PROVE  Min(T) \in T /\ \A n \in T : Min(T) <= n
  BY LeastNumber DEF Min

\* A set of subsets of a finite set has a minimal one.
LEMMA MinimalSubset ==
  ASSUME NEW S, IsFiniteSet(S), NEW B \in SUBSET (SUBSET S), B # {}
  PROVE  \E s \in B : \A x \in s : s \ {x} \notin B
<1> DEFINE Sizes == {Cardinality(s) : s \in B}
<1>1. \A s \in B : IsFiniteSet(s) /\ Cardinality(s) \in Nat
  BY FS_Subset, FS_CardinalityType
<1>2. Sizes \in SUBSET Nat /\ Sizes # {}
  BY <1>1
<1>3. PICK m \in Sizes : \A n \in Sizes : m <= n
  <2> HIDE DEF Sizes
  <2> QED BY <1>2, LeastNumber
<1>4. PICK s \in B : Cardinality(s) = m
  OBVIOUS
<1>5. ASSUME NEW x \in s, s \ {x} \in B PROVE FALSE
  <2>1. Cardinality(s \ {x}) = Cardinality(s) - 1
    BY <1>1, FS_RemoveElement
  <2> QED BY <2>1, <1>1, <1>3, <1>4, <1>5
<1> QED BY <1>5

-----------------------------------------------------------------------------
(* Sums.  Body is the recursion of the library's fold for SumFunctionOnSet *)
(* and Iter the function that it defines.                                  *)

Some(s) == CHOOSE x \in s : TRUE
Body(f, g, S) == [s \in SUBSET S |-> IF s = {} THEN 0 ELSE f[Some(s)] + g[s \ {Some(s)}]]
Iter(f, S) == CHOOSE g : g = Body(f, g, S)

\* It is what the sum of the library is.
LEMMA SumIs == 
  ASSUME NEW S, NEW f
  PROVE SumFunctionOnSet(f, S) = Iter(f, S)[S]
  BY Zenon DEF SumFunctionOnSet, FoldFunctionOnSet, MapThenFoldSet, Iter, Body, Some

\* All solutions of the recursion agree where the functions do.
LEMMA BodyUnique ==
  ASSUME NEW S, NEW T, NEW f, NEW e, NEW g, NEW h, g = Body(f, g, S), h = Body(e, h, T),
         NEW U, IsFiniteSet(U), U \subseteq S, U \subseteq T, \A x \in U : f[x] = e[x]
  PROVE  g[U] = h[U]
<1> DEFINE B == {s \in SUBSET U : g[s] # h[s]}
<1>1. SUFFICES ASSUME B # {} PROVE FALSE
  OBVIOUS
<1>2. PICK s \in B : \A x \in s : s \ {x} \notin B
  <2>1. B \in SUBSET (SUBSET U) OBVIOUS
  <2> HIDE DEF B
  <2> QED BY <1>1, <2>1, MinimalSubset
<1>4. g[s] = (IF s = {} THEN 0 ELSE f[Some(s)] + g[s \ {Some(s)}])
  <2>1. s \in SUBSET S OBVIOUS
  <2> QED BY <2>1 DEF Body
<1>5. h[s] = (IF s = {} THEN 0 ELSE e[Some(s)] + h[s \ {Some(s)}])
  <2>1. s \in SUBSET T OBVIOUS
  <2> QED BY <2>1 DEF Body
<1>6. s # {} /\ Some(s) \in s
  BY <1>4, <1>5 DEF Some
<1> QED BY <1>2, <1>4, <1>5, <1>6

\* The recursion has a solution on the subsets of a finite set.
LEMMA SumExists ==
  ASSUME NEW S, IsFiniteSet(S), NEW f, \A x \in S : f[x] \in Int
  PROVE  Iter(f, S) = Body(f, Iter(f, S), S) /\ Iter(f, S)[S] \in Int
<1> DEFINE Small(n) == {s \in SUBSET S : Cardinality(s) <= n}
           Sol(g, n) == /\ g \in [Small(n) -> Int]
                        /\ \A s \in Small(n) : g[s] = IF s = {} THEN 0 ELSE f[Some(s)] + g[s \ {Some(s)}]
           Bad == {n \in Nat : ~ \E g : Sol(g, n)}
<1>0. \A s \in SUBSET S : IsFiniteSet(s) /\ Cardinality(s) \in Nat
  BY FS_Subset, FS_CardinalityType
<1>1. ASSUME NEW n \in Nat, n # 0, NEW g, Sol(g, n - 1) PROVE \E h : Sol(h, n)
  <2> DEFINE h == [s \in Small(n) |-> IF s \in Small(n-1) THEN g[s] ELSE f[Some(s)] + g[s \ {Some(s)}]]
  <2>1. ASSUME NEW s \in Small(n), s # {}
        PROVE  Some(s) \in S /\ s \ {Some(s)} \in Small(n - 1) /\ (s \notin Small(n-1) => h[s] = f[Some(s)] + g[s \ {Some(s)}])
    <3>1. Some(s) \in s BY <2>1 DEF Some
    <3>2. Cardinality(s \ {Some(s)}) = Cardinality(s) - 1 BY <3>1, <1>0, FS_RemoveElement
    <3>3. s \ {Some(s)} \in SUBSET S /\ Cardinality(s) \in Nat /\ Cardinality(s) <= n BY <1>0
    <3>4. s \ {Some(s)} \in Small(n - 1) BY <3>2, <3>3
    <3> QED BY <3>1, <3>4
  <2>2. {} \in Small(n - 1) BY FS_EmptySet, <1>1
  <2>3. ASSUME NEW s \in Small(n) PROVE h[s] \in Int
    <3>1. CASE s \in Small(n - 1) BY <3>1, <1>1
    <3>2. CASE s \notin Small(n - 1)
      <4>1. s # {} BY <3>2, <2>2
      <4>0. Some(s) \in S BY <4>1, <2>1
      <4> HIDE DEF Small
      <4>2. g[s \ {Some(s)}] \in Int BY <4>1, <2>1, <1>1
      <4>3. h[s] = f[Some(s)] + g[s \ {Some(s)}] BY <4>1, <2>1, <3>2
      <4>4. f[Some(s)] \in Int BY <4>0
      <4> HIDE DEF h
      <4> QED BY <4>2, <4>3, <4>4
    <3> QED BY <3>1, <3>2
  <2>4. ASSUME NEW s \in Small(n) PROVE h[s] = IF s = {} THEN 0 ELSE f[Some(s)] + h[s \ {Some(s)}]
    <3>0. \A t \in Small(n - 1) : t \in Small(n)  BY <1>0, <1>1
    <3>a. \A t \in Small(n - 1) : h[t] = g[t] BY <3>0
    <3> HIDE DEF Small, h
    <3>1. CASE s = {} BY <3>1, <2>2, <3>a, <1>1
    <3>2. CASE s # {}
      <4>1. h[s \ {Some(s)}] = g[s \ {Some(s)}] BY <3>2, <2>1, <3>a
      <4>2. CASE s \in Small(n - 1) BY <4>2, <3>2, <4>1, <3>a, <1>1
      <4>3. CASE s \notin Small(n - 1) BY <4>3, <3>2, <4>1, <2>1
      <4> QED BY <4>2, <4>3
    <3> QED BY <3>1, <3>2
  <2>5. h \in [Small(n) -> Int] BY <2>3
  <2> QED BY <2>4, <2>5
<1>2. \E h : Sol(h, 0)
  <2> DEFINE h == [s \in Small(0) |-> 0]
  <2>1. \A s \in Small(0) : s = {}
    BY <1>0, FS_EmptySet
  <2>2. Sol(h, 0) BY <2>1
  <2> QED BY <2>2
<1>3. Bad = {}
  <2> SUFFICES ASSUME Bad # {} PROVE FALSE OBVIOUS
  <2>1. PICK m \in Bad : \A n \in Bad : m <= n BY LeastNumber
  <2>2. m \in Nat /\ ~ \E g : Sol(g, m) BY <2>1
  <2> HIDE DEF Sol
  <2>3. m # 0 BY <2>2, <1>2
  <2>4. m - 1 \in Nat /\ m - 1 \notin Bad BY <2>1, <2>2, <2>3
  <2> QED BY <2>4, <2>2, <2>3, <1>1
<1>4. Cardinality(S) \in Nat /\ Small(Cardinality(S)) = SUBSET S
  <2>1. Cardinality(S) \in Nat BY FS_CardinalityType
  <2>2. \A s \in SUBSET S : Cardinality(s) <= Cardinality(S) BY FS_Subset
  <2> QED BY <2>1, <2>2
<1>5. PICK g : Sol(g, Cardinality(S))
  <2> HIDE DEF Sol
  <2> QED BY <1>3, <1>4
<1>6. g \in [SUBSET S -> Int] /\ g = Body(f, g, S)
  <2>1. \A s \in SUBSET S : g[s] = IF s = {} THEN 0 ELSE f[Some(s)] + g[s \ {Some(s)}] BY <1>5, <1>4
  <2>2. g \in [SUBSET S -> Int] BY <1>5, <1>4
  <2> QED BY <2>1, <2>2 DEF Body
<1>7. Iter(f, S) = Body(f, Iter(f, S), S)
  BY <1>6, Zenon DEF Iter
<1>8. Iter(f, S)[S] = g[S]
  BY <1>6, <1>7, BodyUnique
<1> QED BY <1>6, <1>7, <1>8

\* A sum takes its values one by one, in any order.
LEMMA SumFacts ==
  ASSUME NEW S, IsFiniteSet(S), NEW f, \A x \in S : f[x] \in Int
  PROVE  /\ SumFunctionOnSet(f, S) \in Int
         /\ S = {} => SumFunctionOnSet(f, S) = 0
         /\ \A x \in S : SumFunctionOnSet(f, S) = f[x] + SumFunctionOnSet(f, S \ {x})
<1> DEFINE i == Iter(f, S)
           Bad == {s \in SUBSET S : \E x \in s : i[s] # f[x] + i[s \ {x}]}
<1>1. i = Body(f, i, S) 
  BY SumExists
<1>2. \A s \in SUBSET S : i[s] = IF s = {} THEN 0 ELSE f[Some(s)] + i[s \ {Some(s)}]
  BY <1>1 DEF Body
<1>3. \A s \in SUBSET S : SumFunctionOnSet(f, s) = i[s] /\ i[s] \in Int
  <2> TAKE s \in SUBSET S
  <2>1. IsFiniteSet(s) BY FS_Subset
  <2> DEFINE e == [x \in s |-> f[x]]
  <2>3. e \in [s -> Int] OBVIOUS
  <2>4. Iter(e, s) = Body(e, Iter(e, s), s) /\ Iter(e, s)[s] \in Int
    BY <2>1, <2>3, SumExists
  <2>5. Iter(f, s) = Body(f, Iter(f, s), s)
    <3>1. ASSUME NEW g PROVE Body(f, g, s) = Body(e, g, s)
      <4>1. \A t \in SUBSET s : t # {} => Some(t) \in s BY DEF Some
      <4>2. \A t \in SUBSET s : t # {} => f[Some(t)] = e[Some(t)] BY <4>1
      <4> HIDE DEF e
      <4> QED BY <4>2 DEF Body
    <3>2. PICK g : g = Body(f, g, s) BY <2>4, <3>1
    <3> QED BY <3>2, Zenon DEF Iter
  <2>6. Iter(e, s)[s] = i[s]
    <3>1. \A x \in s : e[x] = f[x] OBVIOUS
    <3> HIDE DEF e, i
    <3> QED BY <2>1, <2>4, <1>1, <3>1, BodyUnique
  <2>7. Iter(f, s)[s] = i[s]
    <3>1. \A x \in s : f[x] = f[x] OBVIOUS
    <3> HIDE DEF e, i
    <3> QED BY <2>1, <2>5, <1>1, <3>1, BodyUnique
  <2> QED BY <2>4, <2>6, <2>7, SumIs
<1> HIDE DEF i
<1>4. ASSUME Bad # {} PROVE FALSE
  <2>1. PICK s \in Bad : \A x \in s : s \ {x} \notin Bad
    <3>1. Bad \in SUBSET (SUBSET S) OBVIOUS
    <3> HIDE DEF Bad
    <3> QED BY <1>4, <3>1, MinimalSubset
  <2>2. PICK x \in s : i[s] # f[x] + i[s \ {x}] OBVIOUS
  <2> DEFINE y == Some(s)
  <2>3. y \in s /\ i[s] = f[y] + i[s \ {y}] BY <1>2 DEF Some
  <2> HIDE DEF y
  <2>4. s \in SUBSET S /\ x # y BY <2>2, <2>3
  <2>7. /\ i[s \ {x}] = f[y] + i[(s \ {x}) \ {y}]
        /\ i[s \ {y}] = f[x] + i[(s \ {y}) \ {x}]
    BY <2>1, <2>2, <2>3, <2>4
  <2>8. (s \ {x}) \ {y} = (s \ {y}) \ {x} OBVIOUS
  <2>9. f[x] \in Int /\ f[y] \in Int /\ i[(s \ {y}) \ {x}] \in Int BY <2>2, <2>3, <1>3
  <2> DEFINE fx == f[x] fy == f[y] z == i[(s \ {y}) \ {x}]
  <2>10. i[s] = fy + (fx + z) BY <2>3, <2>7
  <2>11. i[s] # fx + (fy + z) BY <2>2, <2>7, <2>8
  <2>12. fx \in Int /\ fy \in Int /\ z \in Int BY <2>9
  <2> HIDE DEF fx, fy, z
  <2> QED BY <2>10, <2>11, <2>12
<1>5. \A x \in S : i[S] = f[x] + i[S \ {x}]
  <2>1. S \notin Bad BY <1>4
  <2> QED BY <2>1
<1>6. S = {} => i[S] = 0
  BY <1>2
<1>7. S \in SUBSET S /\ \A x \in S : S \ {x} \in SUBSET S
  OBVIOUS
<1> QED BY <1>3, <1>5, <1>6, <1>7

\* A sum depends on the values alone that it adds.
LEMMA SumCongruence ==
  ASSUME NEW S, IsFiniteSet(S), NEW f, NEW g, \A x \in S : f[x] \in Int /\ f[x] = g[x]
  PROVE  SumFunctionOnSet(f, S) = SumFunctionOnSet(g, S)
<1>1. Iter(f, S) = Body(f, Iter(f, S), S) /\ Iter(g, S) = Body(g, Iter(g, S), S)
  BY SumExists
<1>2. Iter(f, S)[S] = Iter(g, S)[S]
  BY <1>1, BodyUnique
<1> QED BY <1>2, SumIs

\* A sum of numbers up to k.
LEMMA SumBounds ==
  ASSUME NEW S, IsFiniteSet(S), NEW k \in Nat, NEW f, \A x \in S : f[x] \in 0 .. k
  PROVE  SumFunctionOnSet(f, S) \in 0 .. k * Cardinality(S)
<1> DEFINE B == {s \in SUBSET S : SumFunctionOnSet(f, s) \notin 0 .. k * Cardinality(s)}
<1>1. ASSUME B # {} PROVE FALSE
  <2>1. PICK s \in B : \A x \in s : s \ {x} \notin B
    <3>1. B \in SUBSET (SUBSET S) OBVIOUS
    <3> HIDE DEF B
    <3> QED BY <1>1, <3>1, MinimalSubset
  <2>2. s \in SUBSET S /\ IsFiniteSet(s) /\ \A x \in s : f[x] \in Int
    BY FS_Subset
  <2>3. CASE s = {}
    BY <2>2, <2>3, SumFacts, FS_EmptySet
  <2>4. CASE s # {}
    <3>1. PICK x \in s : TRUE BY <2>4
    <3>2. SumFunctionOnSet(f, s) = f[x] + SumFunctionOnSet(f, s \ {x})
      BY <2>2, SumFacts
    <3>3. SumFunctionOnSet(f, s \ {x}) \in 0 .. k * Cardinality(s \ {x})
      BY <2>1, <2>2
    <3>4. Cardinality(s \ {x}) = Cardinality(s) - 1 /\ Cardinality(s) \in Nat
      BY <2>2, FS_RemoveElement, FS_CardinalityType
    <3>5. f[x] \in 0 .. k BY <2>2
    <3>6. k * (Cardinality(s) - 1) = k * Cardinality(s) - k BY <3>4
    <3>7. k * Cardinality(s) \in Int BY <3>4
    <3>8. SumFunctionOnSet(f, s) \in 0 .. k * Cardinality(s)
      BY <3>2, <3>3, <3>4, <3>5, <3>6, <3>7
    <3> QED BY <3>8
  <2> QED BY <2>3, <2>4
<1>2. S \notin B BY <1>1
<1> QED BY <1>2

\* A sum after one of its values has changed.
LEMMA SumChange ==
    ASSUME NEW S, IsFiniteSet(S), NEW f, NEW g, NEW c \in S,
           \A x \in S : f[x] \in Int /\ g[x] \in Int,
           \A x \in S \ {c} : f[x] = g[x]
    PROVE  SumFunctionOnSet(g, S) = SumFunctionOnSet(f, S) - f[c] + g[c]
<1> DEFINE T == S \ {c}
           F == SumFunctionOnSet(f, T)
           G == SumFunctionOnSet(g, T)
<1>1. IsFiniteSet(T) /\ \A x \in T : f[x] \in Int /\ g[x] \in Int /\ f[x] = g[x]
  BY FS_Subset
<1>2. F = G /\ F \in Int
  <2> HIDE DEF T
  <2>1. F = G BY <1>1, SumCongruence
  <2>2. F \in Int BY <1>1, SumFacts
  <2> QED BY <2>1, <2>2
<1>3. SumFunctionOnSet(f, S) = f[c] + F /\ SumFunctionOnSet(g, S) = g[c] + G
  BY SumFacts
<1>4. f[c] \in Int /\ g[c] \in Int
  OBVIOUS
<1> HIDE DEF F, G
<1> QED BY <1>2, <1>3, <1>4

-----------------------------------------------------------------------------
(* Sequences.                                                              *)

LEMMA RangeFacts ==
    ASSUME NEW X, NEW s \in Seq(X)
    PROVE  /\ Range(s) = {s[i] : i \in 1 .. Len(s)}
           /\ Range(s) \subseteq X
  BY DEF Range

LEMMA AppendFacts ==
    ASSUME NEW X, NEW s \in Seq(X), NEW x \in X
    PROVE  /\ Append(s, x) \in Seq(X)
           /\ Range(Append(s, x)) = Range(s) \cup {x}
           /\ IsInjective(s) /\ x \notin Range(s) => IsInjective(Append(s, x))
<1>1. Append(s, x) \in Seq(X)
  OBVIOUS
<1>2. Range(Append(s, x)) = Range(s) \cup {x}
  <2>1. ASSUME NEW y \in Range(s) \cup {x} PROVE y \in Range(Append(s, x))
    <3>1. CASE y = x
      <4>1. Len(s) + 1 \in DOMAIN Append(s, x) /\ Append(s, x)[Len(s) + 1] = x OBVIOUS
      <4> QED BY <4>1, <3>1 DEF Range
    <3>2. CASE y \in Range(s)
      <4>1. PICK i \in DOMAIN s : y = s[i] BY <3>2 DEF Range
      <4>2. i \in DOMAIN Append(s, x) /\ Append(s, x)[i] = s[i] BY <4>1
      <4> QED BY <4>1, <4>2 DEF Range
    <3> QED BY <3>1, <3>2, <2>1
  <2>2. ASSUME NEW i \in DOMAIN Append(s, x) PROVE Append(s, x)[i] \in Range(s) \cup {x}
    <3>1. CASE i \in DOMAIN s
      <4>1. Append(s, x)[i] = s[i] BY <3>1
      <4> QED BY <4>1, <3>1 DEF Range
    <3>2. CASE i \notin DOMAIN s BY <3>2, <2>2
    <3> QED BY <3>1, <3>2
  <2> QED BY <2>1, <2>2 DEF Range
<1>3. IsInjective(s) /\ x \notin Range(s) => IsInjective(Append(s, x))
  BY RangeFacts DEF IsInjective
<1> QED BY <1>1, <1>2, <1>3

LEMMA ConcatFacts ==
    ASSUME NEW X, NEW s \in Seq(X), NEW t \in Seq(X)
    PROVE  /\ s \o t \in Seq(X)
           /\ Range(s \o t) = Range(s) \cup Range(t)
           /\ IsInjective(s \o t) <=>
                IsInjective(s) /\ IsInjective(t) /\ Range(s) \cap Range(t) = {}
<1>1. /\ s \o t \in Seq(X) /\ Len(s \o t) = Len(s) + Len(t)
      /\ \A i \in 1 .. Len(s) : (s \o t)[i] = s[i]
      /\ \A i \in 1 .. Len(t) : (s \o t)[i + Len(s)] = t[i]
  OBVIOUS
<1>0. /\ DOMAIN s = 1 .. Len(s) /\ DOMAIN t = 1 .. Len(t)
      /\ DOMAIN (s \o t) = 1 .. Len(s) + Len(t)
      /\ Len(s) \in Nat /\ Len(t) \in Nat
  BY <1>1
<1> DEFINE u == s \o t
<1>a. /\ u \in Seq(X) /\ Len(u) = Len(s) + Len(t)
      /\ \A i \in 1 .. Len(s) : u[i] = s[i]
      /\ \A i \in 1 .. Len(t) : u[i + Len(s)] = t[i]
      /\ DOMAIN u = 1 .. Len(s) + Len(t)
  BY <1>1, <1>0
<1> HIDE DEF u
<1>2. Range(u) = Range(s) \cup Range(t)
  <2>1. ASSUME NEW i \in DOMAIN u PROVE u[i] \in Range(s) \cup Range(t)
    <3>1. CASE i <= Len(s) BY <1>a, <1>0, <2>1, <3>1 DEF Range
    <3>2. CASE i > Len(s)
      <4>1. i - Len(s) \in DOMAIN t /\ u[i] = t[i - Len(s)] BY <1>a, <1>0, <2>1, <3>2
      <4> QED BY <4>1 DEF Range
    <3> QED BY <3>1, <3>2, <1>0, <1>a
  <2>2. ASSUME NEW i \in DOMAIN s PROVE s[i] \in Range(u)
    BY <1>a, <1>0, <2>2 DEF Range
  <2>3. ASSUME NEW i \in DOMAIN t PROVE t[i] \in Range(u)
    <3>1. i + Len(s) \in DOMAIN u /\ u[i + Len(s)] = t[i] BY <1>a, <1>0, <2>3
    <3> QED BY <3>1 DEF Range
  <2> QED BY <2>1, <2>2, <2>3 DEF Range
<1>3. ASSUME IsInjective(u)
      PROVE  IsInjective(s) /\ IsInjective(t) /\ Range(s) \cap Range(t) = {}
  <2>1. IsInjective(s) BY <1>3, <1>0, <1>a DEF IsInjective
  <2>2. IsInjective(t)
    <3>1. ASSUME NEW a \in DOMAIN t, NEW b \in DOMAIN t, t[a] = t[b] PROVE a = b
      <4>1. /\ a + Len(s) \in DOMAIN u /\ b + Len(s) \in DOMAIN u
            /\ u[a + Len(s)] = u[b + Len(s)]
        BY <3>1, <1>0, <1>a
      <4>2. a + Len(s) = b + Len(s) BY <4>1, <1>3 DEF IsInjective
      <4> QED BY <4>2, <1>0
    <3> QED BY <3>1 DEF IsInjective
  <2>3. ASSUME NEW a \in DOMAIN s, NEW b \in DOMAIN t, s[a] = t[b] PROVE FALSE
    <3>1. /\ a \in DOMAIN u /\ b + Len(s) \in DOMAIN u /\ u[a] = u[b + Len(s)]
      BY <2>3, <1>0, <1>a
    <3>2. a = b + Len(s) BY <3>1, <1>3 DEF IsInjective
    <3> QED BY <3>2, <1>0
  <2> QED BY <2>1, <2>2, <2>3 DEF Range
<1>4. ASSUME IsInjective(s), IsInjective(t), Range(s) \cap Range(t) = {}
      PROVE  IsInjective(u)
  <2>1. ASSUME NEW a \in DOMAIN u, NEW b \in DOMAIN u, u[a] = u[b], a < b PROVE FALSE
    <3>1. CASE b <= Len(s) BY <3>1, <2>1, <1>4, <1>0, <1>a DEF IsInjective
    <3>2. CASE a > Len(s)
      <4>1. /\ a - Len(s) \in DOMAIN t /\ b - Len(s) \in DOMAIN t
            /\ t[a - Len(s)] = t[b - Len(s)]
        BY <3>2, <2>1, <1>0, <1>a
      <4>2. a - Len(s) = b - Len(s) BY <4>1, <1>4 DEF IsInjective
      <4> QED BY <4>2, <2>1, <1>0, <1>a
    <3>3. CASE a <= Len(s) /\ b > Len(s)
      <4>1. /\ a \in DOMAIN s /\ b - Len(s) \in DOMAIN t /\ s[a] = t[b - Len(s)]
        BY <3>3, <2>1, <1>0, <1>a
      <4> QED BY <4>1, <1>4 DEF Range
    <3> QED BY <3>1, <3>2, <3>3, <2>1, <1>0, <1>a
  <2> QED BY <2>1, <1>0, <1>a DEF IsInjective
<1> QED BY <1>1, <1>2, <1>3, <1>4 DEF u

LEMMA LastFrontFacts ==
    ASSUME NEW X, NEW s \in Seq(X), s # <<>>
    PROVE  /\ Last(s) \in X /\ Last(s) = s[Len(s)]
           /\ Front(s) \in Seq(X) /\ Len(Front(s)) = Len(s) - 1
           /\ \A i \in 1 .. Len(s) - 1 : Front(s)[i] = s[i]
<1>1. Len(s) \in Nat \ {0}
  OBVIOUS
<1>2. Front(s) = [i \in 1 .. Len(s) - 1 |-> s[i]]
  BY <1>1 DEF Front
<1> QED BY <1>1, <1>2 DEF Last

-----------------------------------------------------------------------------
(* Subsequences.  The k-th position of At exists for each k: counting the  *)
(* positions up to each is an injection into 1 .. Cardinality(At), hence a *)
(* surjection.                                                             *)

LEMMA NthFacts ==
    ASSUME NEW X, NEW s \in Seq(X), NEW S
    PROVE  /\ Cardinality(At(s, S)) \in Nat
           /\ \A k \in 1 .. Cardinality(At(s, S)) : Nth(s, S, k) \in At(s, S)
           /\ \A i \in At(s, S) : \E k \in 1 .. Cardinality(At(s, S)) : Nth(s, S, k) = i
           /\ \A k, l \in 1 .. Cardinality(At(s, S)) : k < l => Nth(s, S, k) < Nth(s, S, l)
<1> DEFINE A == At(s, S)
           n == Cardinality(A)
           Upto(i) == {j \in A : j <= i}
           c(i) == Cardinality(Upto(i))
           count == [i \in A |-> c(i)]
           f(k) == CHOOSE i \in A : c(i) = k
<1>1. A \in SUBSET Nat /\ IsFiniteSet(A) /\ n \in Nat
  <2>1. A \in SUBSET (1 .. Len(s)) /\ IsFiniteSet(1 .. Len(s))
    BY FS_Interval DEF At
  <2> QED BY <2>1, FS_Subset, FS_CardinalityType
<1> HIDE DEF A
<1>2. \A i \in A : IsFiniteSet(Upto(i)) /\ Cardinality(Upto(i)) \in 1 .. n
  <2> TAKE i \in A
  <2>1. Upto(i) \in SUBSET A /\ Upto(i) # {}
    BY <1>1
  <2>2. IsFiniteSet(Upto(i)) /\ Cardinality(Upto(i)) <= n
    BY <2>1, <1>1, FS_Subset
  <2>3. Cardinality(Upto(i)) \in Nat /\ Cardinality(Upto(i)) # 0
    BY <2>1, <2>2, FS_EmptySet, FS_CardinalityType
  <2> QED BY <2>2, <2>3, <1>1
<1>3. \A i, j \in A : i < j => c(i) < c(j)
  <2> SUFFICES ASSUME NEW i \in A, NEW j \in A, i < j
               PROVE  c(i) < c(j)
    OBVIOUS
  <2>0. i \in Nat /\ j \in Nat
    BY <1>1
  <2>1. j \in Upto(j) /\ j \notin Upto(i)
    BY <2>0
  <2>2. \A k \in A : k <= i => k <= j
    BY <2>0, <1>1
  <2>3. Upto(i) \in SUBSET Upto(j)
    BY <2>2
  <2>4. c(i) <= c(j) /\ c(i) # c(j)
    BY <2>1, <2>3, <1>2, FS_Subset
  <2>5. c(i) \in 1 .. n /\ c(j) \in 1 .. n
    BY <1>2
  <2> HIDE DEF c
  <2> QED BY <2>4, <2>5, <1>1
<1>10. \A i \in A : c(i) \in 1 .. n
  BY <1>2
<1>7. \A k : f(k) = Nth(s, S, k)
  BY DEF Nth, A
<1>11. n = Cardinality(A)
  OBVIOUS
<1> HIDE DEF c, n, count
<1>4. count \in Injection(A, 1 .. n)
  <2>1. count \in [A -> 1 .. n] /\ \A i \in A : count[i] = c(i)
    BY <1>10 DEF count
  <2>2. \A i, j \in A : count[i] = count[j] => i = j
    <3> SUFFICES ASSUME NEW i \in A, NEW j \in A, c(i) = c(j), i # j PROVE FALSE
      BY <2>1
    <3>1. i \in Nat /\ j \in Nat BY <1>1
    <3>2. i < j \/ j < i BY <3>1
    <3> QED BY <3>2, <1>3, <1>10, <1>1
  <2> QED BY <2>1, <2>2 DEF Injection, IsInjective
<1>5. count \in Surjection(A, 1 .. n)
  <2>1. IsFiniteSet(1 .. n) /\ Cardinality(1 .. n) = n
    <3>1. 1 \in Int /\ n \in Int BY <1>1
    <3>2. /\ IsFiniteSet(1 .. n)
          /\ Cardinality(1 .. n) = IF 1 > n THEN 0 ELSE n - 1 + 1
      BY <3>1, FS_Interval
    <3> QED BY <3>2, <1>1
  <2> QED BY <2>1, <1>4, <1>11, FS_Injection
<1>6. \A k \in 1 .. n : f(k) \in A /\ c(f(k)) = k
  <2> TAKE k \in 1 .. n
  <2>1. \E i \in A : c(i) = k
    BY <1>5, <1>4 DEF Surjection, count
  <2> QED BY <2>1 DEF f
<1> HIDE DEF f
<1>8. \A i \in A : \E k \in 1 .. n : f(k) = i
  <2> SUFFICES ASSUME NEW i \in A PROVE f(c(i)) = i
    BY <1>10
  <2> DEFINE m == f(c(i))
  <2>1. m \in A /\ c(m) = c(i)
    BY <1>10, <1>6
  <2> HIDE DEF m
  <2>2. m \in Nat /\ i \in Nat /\ c(i) \in Nat BY <2>1, <1>1, <1>10
  <2>3. ~(m < i) BY <2>1, <2>2, <1>3
  <2>4. ~(i < m) BY <2>1, <2>2, <1>3
  <2> QED BY <2>2, <2>3, <2>4 DEF m
<1>9. \A k, l \in 1 .. n : k < l => f(k) < f(l)
  <2> SUFFICES ASSUME NEW k \in 1 .. n, NEW l \in 1 .. n, k < l PROVE f(k) < f(l)
    OBVIOUS
  <2>1. f(k) \in A /\ f(l) \in A /\ c(f(k)) = k /\ c(f(l)) = l
    BY <1>6
  <2>2. f(k) \in Nat /\ f(l) \in Nat BY <2>1, <1>1
  <2>3. f(k) # f(l) BY <2>1, <1>1
  <2>4. f(l) < f(k) => l < k BY <2>1, <1>3
  <2>5. ~(l < k) BY <1>1
  <2> QED BY <2>2, <2>3, <2>4, <2>5
<1> QED BY <1>1, <1>6, <1>7, <1>8, <1>9 DEF A, n

\* The elements of a subsequence are those of S; it repeats nothing that the
\* sequence does not repeat, and is no longer.
LEMMA OnlyFacts ==
    ASSUME NEW X, NEW s \in Seq(X), NEW S
    PROVE  /\ Only(s, S) \in Seq(X)
           /\ Range(Only(s, S)) = Range(s) \cap S
           /\ IsInjective(s) => IsInjective(Only(s, S))
<1> DEFINE n == Cardinality(At(s, S))
           f(k) == Nth(s, S, k)
           t == Only(s, S)
<1>1. /\ n \in Nat
      /\ \A k \in 1 .. n : f(k) \in At(s, S)
      /\ \A i \in At(s, S) : \E k \in 1 .. n : f(k) = i
      /\ \A k, l \in 1 .. n : k < l => f(k) < f(l)
  BY NthFacts
<1>2. t = [k \in 1 .. n |-> s[f(k)]]
  BY DEF Only
<1>a. /\ \A i \in At(s, S) : i \in 1 .. Len(s) /\ s[i] \in S
      /\ \A i \in 1 .. Len(s) : s[i] \in S => i \in At(s, S)
  BY DEF At
<1> HIDE DEF n, f, t
<1>3. t \in Seq(X) /\ DOMAIN t = 1 .. n /\ \A k \in 1 .. n : t[k] = s[f(k)]
  <2>1. \A k \in 1 .. n : s[f(k)] \in X BY <1>1, <1>a
  <2> QED BY <2>1, <1>1, <1>2
<1>4. Range(t) = Range(s) \cap S
  <2>1. ASSUME NEW k \in 1 .. n PROVE t[k] \in Range(s) \cap S
    BY <1>1, <1>3, <1>a, <2>1 DEF Range
  <2>2. ASSUME NEW i \in 1 .. Len(s), s[i] \in S PROVE s[i] \in Range(t)
    <3>1. PICK k \in 1 .. n : f(k) = i BY <1>1, <1>a, <2>2
    <3> QED BY <3>1, <1>3 DEF Range
  <2>3. DOMAIN s = 1 .. Len(s) OBVIOUS
  <2> QED BY <2>1, <2>2, <2>3, <1>3 DEF Range
<1>5. ASSUME IsInjective(s) PROVE IsInjective(t)
  <2>1. ASSUME NEW k \in 1 .. n, NEW l \in 1 .. n, t[k] = t[l], k < l PROVE FALSE
    <3>0. f(k) \in DOMAIN s /\ f(l) \in DOMAIN s BY <1>1, <1>a
    <3>1. f(k) = f(l) BY <3>0, <2>1, <1>3, <1>5 DEF IsInjective
    <3>2. f(k) < f(l) /\ f(k) \in Nat BY <2>1, <1>1, <1>a
    <3> QED BY <3>1, <3>2
  <2>2. \A k, l \in 1 .. n : k # l => k < l \/ l < k BY <1>1
  <2> QED BY <2>1, <2>2, <1>3 DEF IsInjective
<1> QED BY <1>3, <1>4, <1>5 DEF t

LEMMA WithoutFacts ==
    ASSUME NEW X, NEW s \in Seq(X), NEW S
    PROVE  /\ Without(s, S) \in Seq(X)
           /\ Range(Without(s, S)) = Range(s) \ S
           /\ IsInjective(s) => IsInjective(Without(s, S))
<1>1. {s[i] : i \in 1 .. Len(s)} = Range(s)
  BY RangeFacts
<1> QED BY <1>1, OnlyFacts DEF Without

\* A list without its i-th element.
LEMMA RemoveAtFacts ==
    ASSUME NEW X, NEW l \in Seq(X), NEW i \in 1 .. Len(l)
    PROVE  /\ RemoveAt(l, i) \in Seq(X) /\ Len(RemoveAt(l, i)) = Len(l) - 1
           /\ \A j \in 1 .. Len(l) - 1 : RemoveAt(l, i)[j] = IF j < i THEN l[j] ELSE l[j + 1]
<1> DEFINE a == SubSeq(l, 1, i - 1)
           b == SubSeq(l, i + 1, Len(l))
<1>0. Len(l) \in Nat /\ i \in Nat /\ i >= 1 /\ i <= Len(l)
  OBVIOUS
<1>1. a \in Seq(X) /\ Len(a) = i - 1 /\ \A j \in 1 .. i - 1 : a[j] = l[j]
  BY <1>0
<1>2. b \in Seq(X) /\ Len(b) = Len(l) - i /\ \A j \in 1 .. Len(l) - i : b[j] = l[i + j]
  BY <1>0
<1>3. RemoveAt(l, i) = a \o b
  BY DEF RemoveAt
<1> HIDE DEF a, b
<1>4. /\ a \o b \in Seq(X) /\ Len(a \o b) = Len(a) + Len(b)
      /\ \A j \in 1 .. Len(a) : (a \o b)[j] = a[j]
      /\ \A j \in Len(a) + 1 .. Len(a) + Len(b) : (a \o b)[j] = b[j - Len(a)]
  <2>1. ASSUME NEW x \in Seq(X), NEW y \in Seq(X)
        PROVE  /\ x \o y \in Seq(X) /\ Len(x \o y) = Len(x) + Len(y)
               /\ \A j \in 1 .. Len(x) : (x \o y)[j] = x[j]
               /\ \A j \in Len(x) + 1 .. Len(x) + Len(y) : (x \o y)[j] = y[j - Len(x)]
    OBVIOUS
  <2> QED BY <2>1, <1>1, <1>2
<1>5. Len(a \o b) = Len(l) - 1
  BY <1>0, <1>1, <1>2, <1>4
<1>6. ASSUME NEW j \in 1 .. Len(l) - 1
      PROVE  (a \o b)[j] = IF j < i THEN l[j] ELSE l[j + 1]
  <2>1. CASE j < i
    <3>1. j \in 1 .. i - 1 /\ j \in 1 .. Len(a) BY <2>1, <1>0, <1>1
    <3> QED BY <3>1, <2>1, <1>1, <1>4
  <2>2. CASE ~(j < i)
    <3>1. /\ j \in Len(a) + 1 .. Len(a) + Len(b) /\ j - Len(a) \in 1 .. Len(l) - i
          /\ i + (j - Len(a)) = j + 1
      BY <2>2, <1>0, <1>1, <1>2
    <3> QED BY <3>1, <2>2, <1>2, <1>4
  <2> QED BY <2>1, <2>2
<1> QED BY <1>3, <1>4, <1>5, <1>6

-----------------------------------------------------------------------------
(* Sets, sums and loops.                                                   *)

LEMMA CardinalityOfUnion ==
    ASSUME NEW S, NEW T, IsFiniteSet(S), IsFiniteSet(T)
    PROVE  /\ IsFiniteSet(S \cup T)
           /\ Cardinality(S) \in Nat /\ Cardinality(T) \in Nat /\ Cardinality(S \cup T) \in Nat
           /\ S \cap T = {} => Cardinality(S \cup T) = Cardinality(S) + Cardinality(T)
<1>1. IsFiniteSet(S \cap T) /\ IsFiniteSet(S \cup T)
  BY FS_Union, FS_Subset
<1>2. Cardinality(S \cup T) = Cardinality(S) + Cardinality(T) - Cardinality(S \cap T)
  BY FS_Union
<1>3. S \cap T = {} => Cardinality(S \cap T) = 0
  BY FS_EmptySet
<1> QED BY <1>1, <1>2, <1>3, FS_CardinalityType

LEMMA SumIsNatural ==
    ASSUME NEW S, IsFiniteSet(S), NEW f, \A x \in S : f[x] \in Nat
    PROVE  /\ SumFunctionOnSet(f, S) \in Nat
           /\ SumFunctionOnSet(f, S) = 0 <=> \A x \in S : f[x] = 0
<1> DEFINE Bad == {s \in SUBSET S : SumFunctionOnSet(f, s) \notin Nat}
           Odd == {s \in SUBSET S : ~(SumFunctionOnSet(f, s) = 0 <=> \A x \in s : f[x] = 0)}
<1>1. ASSUME NEW s \in SUBSET S
      PROVE  /\ IsFiniteSet(s) /\ SumFunctionOnSet(f, s) \in Int
             /\ s = {} => SumFunctionOnSet(f, s) = 0
             /\ \A x \in s : SumFunctionOnSet(f, s) = f[x] + SumFunctionOnSet(f, s \ {x})
  <2>1. IsFiniteSet(s) /\ \A x \in s : f[x] \in Int
    BY FS_Subset
  <2> QED BY <2>1, SumFacts
<1>2. Bad = {}
  <2>1. SUFFICES ASSUME Bad # {} PROVE FALSE
    OBVIOUS
  <2>2. PICK s \in Bad : \A x \in s : s \ {x} \notin Bad
    <3>1. Bad \in SUBSET (SUBSET S) OBVIOUS
    <3> HIDE DEF Bad
    <3> QED BY <2>1, <3>1, MinimalSubset
  <2>3. s # {} BY <1>1
  <2>4. PICK x \in s : TRUE BY <2>3
  <2>5. SumFunctionOnSet(f, s \ {x}) \in Nat /\ f[x] \in Nat
    BY <2>2, <2>4
  <2>6. SumFunctionOnSet(f, s) = f[x] + SumFunctionOnSet(f, s \ {x})
    BY <1>1, <2>4
  <2> QED BY <2>5, <2>6
<1>3. \A s \in SUBSET S : SumFunctionOnSet(f, s) \in Nat
  BY <1>2
<1>4. Odd = {}
  <2>1. SUFFICES ASSUME Odd # {} PROVE FALSE
    OBVIOUS
  <2>2. PICK s \in Odd : \A x \in s : s \ {x} \notin Odd
    <3>1. Odd \in SUBSET (SUBSET S) OBVIOUS
    <3> HIDE DEF Odd
    <3> QED BY <2>1, <3>1, MinimalSubset
  <2>3. s # {} BY <1>1
  <2>4. PICK x \in s : TRUE BY <2>3
  <2>5. f[x] \in Nat /\ SumFunctionOnSet(f, s \ {x}) \in Nat
    BY <2>4, <1>3
  <2>6. SumFunctionOnSet(f, s) = f[x] + SumFunctionOnSet(f, s \ {x})
    BY <1>1, <2>4
  <2>7. SumFunctionOnSet(f, s \ {x}) = 0 <=> \A y \in s \ {x} : f[y] = 0
    BY <2>2, <2>4
  <2>8. SumFunctionOnSet(f, s) = 0 <=> f[x] = 0 /\ SumFunctionOnSet(f, s \ {x}) = 0
    BY ONLY <2>5, <2>6
  <2>9. SumFunctionOnSet(f, s) = 0 <=> \A y \in s : f[y] = 0
    BY <2>7, <2>8
  <2> QED BY <2>9
<1> HIDE DEF Odd
<1>5. SumFunctionOnSet(f, S) = 0 <=> \A x \in S : f[x] = 0
  BY <1>4 DEF Odd
<1> QED BY <1>3, <1>5

LEMMA SumOfChanged ==
    ASSUME NEW S, IsFiniteSet(S), NEW f \in [S -> Nat], NEW g \in [S -> Nat], NEW c \in S,
           \A x \in S : x # c => f[x] = g[x]
    PROVE  SumFunctionOnSet(g, S) = SumFunctionOnSet(f, S) - f[c] + g[c]
<1>1. \A x \in S : f[x] \in Int /\ g[x] \in Int
  OBVIOUS
<1>2. \A x \in S \ {c} : f[x] = g[x]
  OBVIOUS
<1> QED BY ONLY <1>1, <1>2, SumChange, IsFiniteSet(S), c \in S

\* What holds at the start of a loop and is kept by every turn holds at its end.
LEMMA LoopEnds ==
    ASSUME NEW G, NEW n \in Nat, NEW f, f[0] \in G,
           \A i \in 1 .. n : f[i - 1] \in G => f[i] \in G
    PROVE  f[n] \in G
<1> DEFINE Bad == {i \in 0 .. n : f[i] \notin G}
<1>1. SUFFICES ASSUME Bad # {} PROVE FALSE
  OBVIOUS
<1>2. PICK m \in Bad : \A i \in Bad : m <= i
  <2>1. Bad \in SUBSET Nat OBVIOUS
  <2> HIDE DEF Bad
  <2> QED BY <1>1, <2>1, LeastNumber
<1>3. m \in 1 .. n
  BY <1>2
<1>4. m - 1 \notin Bad /\ m - 1 \in 0 .. n
  BY <1>2, <1>3
<1> QED BY <1>2, <1>3, <1>4

\* The course g of a loop of n turns from S.
IsLoop(n, G, S, turn) == n \in Nat /\ S \in G /\ turn \in [1 .. n -> [G -> G]]
IsCourse(g, n, G, S, turn) ==
    g \in [0 .. n -> G] /\ g[0] = S /\ \A i \in 1 .. n : g[i] = turn[i][g[i - 1]]

\* A loop whose turns lead from good states to good states has a course.
LEMMA LoopRuns ==
    ASSUME NEW G, NEW n, NEW S, NEW turn, IsLoop(n, G, S, turn)
    PROVE  \E g : IsCourse(g, n, G, S, turn)
<1>0. n \in Nat /\ S \in G /\ turn \in [1 .. n -> [G -> G]]
  BY DEF IsLoop
<1> DEFINE Runs(g, m) == \A i \in 0 .. m : g[i] = IF i = 0 THEN S ELSE turn[i][g[i - 1]]
           Bad == {m \in 0 .. n : ~\E g \in [0 .. m -> G] : Runs(g, m)}
<1>1. Bad = {}
  <2>1. SUFFICES ASSUME Bad # {} PROVE FALSE
    OBVIOUS
  <2>2. PICK m \in Bad : \A i \in Bad : m <= i
    <3>1. Bad \in SUBSET Nat BY <1>0
    <3> HIDE DEF Bad
    <3> QED BY <2>1, <3>1, LeastNumber
  <2>3. CASE m = 0
    <3> DEFINE g == [i \in 0 .. 0 |-> S]
    <3>1. g \in [0 .. m -> G] BY <1>0, <2>3
    <3>2. Runs(g, m) BY <2>3
    <3> HIDE DEF g, Runs
    <3> QED BY <3>1, <3>2, <2>2
  <2>4. CASE m # 0
    <3>1. m \in 1 .. n /\ m - 1 \in 0 .. n /\ m - 1 \in Nat /\ ~(m <= m - 1)
      BY <1>0, <2>4, <2>2
    <3>2. PICK g \in [0 .. m - 1 -> G] : Runs(g, m - 1)
      <4>1. m - 1 \notin Bad BY <2>2, <3>1
      <4> HIDE DEF Runs
      <4> QED BY <4>1, <3>1
    <3> DEFINE h == [i \in 0 .. m |-> IF i = m THEN turn[m][g[m - 1]] ELSE g[i]]
    <3>3. g[m - 1] \in G /\ turn[m][g[m - 1]] \in G
      <4>1. m - 1 \in 0 .. m - 1 BY <3>1
      <4>2. g[m - 1] \in G BY <4>1
      <4> QED BY <1>0, <4>2, <3>1
    <3>4. h \in [0 .. m -> G]
      <4>1. ASSUME NEW i \in 0 .. m, i # m PROVE i \in 0 .. m - 1
        BY <4>1, <3>1
      <4> QED BY <4>1, <3>3
    <3>5. Runs(h, m)
      <4> SUFFICES ASSUME NEW i \in 0 .. m
                   PROVE h[i] = IF i = 0 THEN S ELSE turn[i][h[i - 1]]
        OBVIOUS
      <4>1. CASE i = m
        <5>1. i # 0 /\ i - 1 \in 0 .. m /\ i - 1 # m BY <4>1, <3>1
        <5> QED BY <5>1, <4>1
      <4>2. CASE i # m /\ i # 0
        <5>1. i \in 0 .. m - 1 /\ i - 1 \in 0 .. m /\ i - 1 # m BY <4>2, <3>1
        <5> QED BY <5>1, <4>2, <3>2
      <4>3. CASE i # m /\ i = 0
        <5>1. i \in 0 .. m - 1 BY <4>3, <3>1
        <5> QED BY <5>1, <4>3, <3>2
      <4> QED BY <4>1, <4>2, <4>3
    <3> HIDE DEF h, Runs
    <3> QED BY <3>4, <3>5, <2>2
  <2> QED BY <2>3, <2>4
<1>2. PICK g \in [0 .. n -> G] : Runs(g, n)
  <2>1. n \in 0 .. n BY <1>0
  <2> HIDE DEF Runs
  <2> QED BY <2>1, <1>1
<1>3. g[0] = S /\ \A i \in 1 .. n : g[i] = turn[i][g[i - 1]]
  BY <1>0, <1>2
<1> QED BY <1>2, <1>3 DEF IsCourse
=============================================================================
