------------------------- MODULE HeaderUpdateProofs -------------------------
(***************************************************************************)
(* Theorems about HeaderUpdate, for ranges and cmdlists of any size, any   *)
(* group and whatever the server says of it.                               *)
(***************************************************************************)
EXTENDS HeaderUpdate, TLAPS

States == {"active", "crunching", "paused", "error", "complete"}

-----------------------------------------------------------------------------
(* The inductive invariant.  NothingForgotten holds because the numbers    *)
(* that were asked for are one interval, which grows at its two ends.      *)

Bounds ==
    /\ asked \cup start \subseteq Interval(xover)
    /\ InHand \subseteq asked
    /\ xover.first <= xover.last + 1
    /\ xover.last = 0 => asked = {} /\ start = {}
    /\ remote.last # 0 => xover.last # 0

\* What is recorded is an interval, and what has not begun has no header.
Recorded ==
    /\ \A l \in {local, nfo} : l.last # 0 => l.first <= l.last
    /\ local.last = 0 => local.first = MaxNumber
    /\ nfo.last = 0 => nfo \in {NoFile, CutFile}

\* Without a task there is no update.
Idle ==
    status = "none" =>
        /\ remote = [first |-> 0, last |-> 0]
        /\ local = [first |-> MaxNumber, last |-> 0]
        /\ xover = [first |-> 0, last |-> 0]
        /\ start = {} /\ asked = {} /\ lost = {}

IInv == TypeOK /\ NothingForgotten /\ RecordedEnds /\ Bounds /\ Recorded /\ Idle

-----------------------------------------------------------------------------
(* Arithmetic.                                                             *)

LEMMA Multiples ==
    ASSUME NEW S \in Nat, NEW i \in Nat, NEW j \in Nat, i < j
    PROVE  i * S + S <= j * S
<1>1. (j - i - 1) \in Nat
  OBVIOUS
<1>2. (j - i - 1) * S >= 0
  BY <1>1
<1>3. j * S = i * S + S + (j - i - 1) * S
  OBVIOUS
<1>4. QED BY <1>2, <1>3

LEMMA Quotient ==
    ASSUME NEW S \in Nat \ {0}, NEW m \in Nat
    PROVE  \E i \in Nat : i * S <= m /\ m < i * S + S
<1>1. m \div S \in Nat
  OBVIOUS
<1>2. (m \div S) * S <= m /\ m < (m \div S) * S + S
  OBVIOUS
<1>3. QED BY <1>1, <1>2

LEMMA Successor ==
    ASSUME NEW S \in Nat, NEW i \in Nat
    PROVE  /\ (i + 1) * S = i * S + S
           /\ i * S \in Nat
  OBVIOUS

LEMMA Apart ==
    ASSUME NEW a \in Int, NEW b \in Int, NEW c \in Int, NEW d \in Int, b < c
    PROVE  (a .. b) \cap (c .. d) = {}
  OBVIOUS

LEMMA Within ==
    ASSUME NEW a \in Int, NEW b \in Int, NEW c \in Int, NEW d \in Int, c <= a, b <= d
    PROVE  a .. b \subseteq c .. d
  OBVIOUS

-----------------------------------------------------------------------------
(* The ranges of a cmdlist.                                                *)

Sound(R, span) ==
    /\ UNION R = span
    /\ \A r \in R : r \subseteq Nat
    /\ \A r \in R : \E f \in r : r \subseteq f .. f + RangeSize - 1
    /\ Overlapping(R) = {}

LEMMA NewerRangesSound ==
    ASSUME TypeOK, UpdateAssumption, xover.last < remote.last
    PROVE  /\ Sound(NewerRanges, xover.last + 1 .. Newest)
           /\ Newest \in Nat /\ Newest > xover.last /\ Newest <= remote.last
<1> DEFINE S == RangeSize
           x == xover.last
           K == RangesPerCmdlist
           Lo(i) == x + 1 + i * S
           Hi(i) == Lesser(x + (i + 1) * S, remote.last)
           I == {j \in 0 .. K - 1 : x + j * S < remote.last}
<1>1. /\ S \in Nat \ {0} /\ K \in Nat \ {0} /\ x \in Nat /\ remote.last \in Nat
  BY DEF UpdateAssumption, TypeOK
<1>2. NewerRanges = {Lo(i) .. Hi(i) : i \in I}
  BY DEF NewerRanges
<1>3. K * S \in Nat /\ K * S >= S
  BY <1>1, Multiples, 0 < K
<1>4. Newest \in Nat /\ Newest > x /\ Newest <= remote.last /\ Newest <= x + K * S
  BY <1>1, <1>3 DEF Newest, Lesser
<1>5. ASSUME NEW i \in I
      PROVE  /\ i \in Nat /\ i * S \in Nat /\ (i + 1) * S = i * S + S
             /\ i * S + S <= K * S
             /\ Lo(i) \in Int /\ Hi(i) \in Int
             /\ Lo(i) \in Nat /\ Hi(i) \in Nat
             /\ Lo(i) <= Hi(i) /\ Hi(i) <= x + i * S + S
             /\ Lo(i) > x /\ Hi(i) <= Newest
  <2>1. i \in Nat /\ i < K /\ x + i * S < remote.last
    BY <1>1
  <2>2. i * S \in Nat /\ (i + 1) * S = i * S + S /\ i * S + S <= K * S
    BY <2>1, <1>1, Successor, Multiples
  <2> HIDE DEF S, x, K
  <2>3. QED BY <2>1, <2>2, <1>1, <1>3 DEF Newest, Lesser, S, x, K
<1>6. \A r \in NewerRanges : r \subseteq x + 1 .. Newest
  <2>1. SUFFICES ASSUME NEW i \in I PROVE Lo(i) .. Hi(i) \subseteq x + 1 .. Newest
    BY <1>2
  <2>2. Lo(i) \in Int /\ Hi(i) \in Int /\ x + 1 <= Lo(i) /\ Hi(i) <= Newest
    BY <1>5, <1>1
  <2> HIDE DEF Lo, Hi
  <2>3. QED BY <2>2, <1>1, <1>4, Within
<1>7. ASSUME NEW n \in x + 1 .. Newest PROVE \E i \in I : n \in Lo(i) .. Hi(i)
  <2>1. n - x - 1 \in Nat /\ n - x - 1 < K * S /\ n - x - 1 < remote.last - x
    BY <1>1, <1>3, <1>4
  <2>2. PICK i \in Nat : i * S <= n - x - 1 /\ n - x - 1 < i * S + S
    BY <2>1, <1>1, Quotient
  <2>3. i * S \in Nat /\ (i + 1) * S = i * S + S
    BY <1>1, Successor
  <2>4. i < K
    <3>1. SUFFICES ASSUME ~(i < K) PROVE FALSE
      OBVIOUS
    <3>2. K * S <= i * S
      <4>1. CASE i = K
        BY <4>1, <2>3
      <4>2. CASE K < i
        BY <4>2, <1>1, <1>3, <2>3, Multiples
      <4>3. QED BY <4>1, <4>2, <3>1, <1>1
    <3>3. QED BY <3>2, <2>1, <2>2, <2>3, <1>3
  <2>5. i \in I
    BY <2>1, <2>2, <2>3, <2>4, <1>1
  <2>6. n \in Lo(i) .. Hi(i)
    BY <2>1, <2>2, <2>3, <1>1, <1>4 DEF Lesser
  <2>7. QED BY <2>5, <2>6
<1>8. UNION NewerRanges = x + 1 .. Newest
  BY <1>2, <1>6, <1>7
<1>9. \A r \in NewerRanges : \E f \in r : r \subseteq f .. f + S - 1
  <2>1. SUFFICES ASSUME NEW i \in I
                 PROVE \E f \in Lo(i) .. Hi(i) : Lo(i) .. Hi(i) \subseteq f .. f + S - 1
    BY <1>2
  <2>2. Lo(i) \in Lo(i) .. Hi(i)
    BY <1>5
  <2>3. Hi(i) <= Lo(i) + S - 1
    BY <1>5, <1>1
  <2>4. QED BY <2>2, <2>3, <1>5, <1>1
<1>10. ASSUME NEW i \in I, NEW j \in I, i < j
       PROVE (Lo(i) .. Hi(i)) \cap (Lo(j) .. Hi(j)) = {}
  <2>1. i * S + S <= j * S
    BY <1>5, <1>1, <1>10, Multiples
  <2>2. Hi(i) < Lo(j)
    BY <2>1, <1>5, <1>1
  <2>3. Lo(i) \in Int /\ Hi(i) \in Int /\ Lo(j) \in Int /\ Hi(j) \in Int
    <3> HIDE DEF Lo, Hi
    <3>1. QED BY <1>5
  <2>4. QED BY <2>2, <2>3, Apart
<1>11. Overlapping(NewerRanges) = {}
  <2>1. SUFFICES ASSUME NEW i \in I, NEW j \in I, Lo(i) .. Hi(i) # Lo(j) .. Hi(j)
                 PROVE (Lo(i) .. Hi(i)) \cap (Lo(j) .. Hi(j)) = {}
    BY <1>2 DEF Overlapping
  <2>2. i \in Nat /\ j \in Nat /\ (i < j \/ j < i)
    BY <2>1, <1>5
  <2>3. QED BY <2>2, <1>10
<1>12. QED BY <1>1, <1>4, <1>6, <1>8, <1>9, <1>11 DEF Sound

LEMMA OlderRangesSound ==
    ASSUME TypeOK, UpdateAssumption, xover.first > remote.first
    PROVE  /\ Sound(OlderRanges, Oldest .. xover.first - 1)
           /\ Oldest \in Nat /\ Oldest < xover.first /\ remote.first <= Oldest
<1> DEFINE S == RangeSize
           x == xover.first
           K == RangesPerCmdlist
           Lo(i) == Greater(x - (i + 1) * S, remote.first)
           Hi(i) == x - 1 - i * S
           I == {j \in 0 .. K - 1 : x - j * S > remote.first}
<1>1. /\ S \in Nat \ {0} /\ K \in Nat \ {0} /\ x \in Nat /\ remote.first \in Nat
  BY DEF UpdateAssumption, TypeOK
<1>2. OlderRanges = {Lo(i) .. Hi(i) : i \in I}
  BY DEF OlderRanges
<1>3. K * S \in Nat /\ K * S >= S
  BY <1>1, Multiples, 0 < K
<1>4. Oldest \in Nat /\ Oldest < x /\ remote.first <= Oldest /\ Oldest >= x - K * S
  BY <1>1, <1>3 DEF Oldest, Greater
<1>5. ASSUME NEW i \in I
      PROVE  /\ i \in Nat /\ i * S \in Nat /\ (i + 1) * S = i * S + S
             /\ i * S + S <= K * S
             /\ Lo(i) \in Int /\ Hi(i) \in Int
             /\ Lo(i) \in Nat /\ Hi(i) \in Nat
             /\ Lo(i) <= Hi(i) /\ x - i * S - S <= Lo(i)
             /\ Hi(i) < x /\ Oldest <= Lo(i)
  <2>1. i \in Nat /\ i < K /\ x - i * S > remote.first
    BY <1>1
  <2>2. i * S \in Nat /\ (i + 1) * S = i * S + S /\ i * S + S <= K * S
    BY <2>1, <1>1, Successor, Multiples
  <2> HIDE DEF S, x, K
  <2>3. QED BY <2>1, <2>2, <1>1, <1>3 DEF Oldest, Greater, S, x, K
<1>6. \A r \in OlderRanges : r \subseteq Oldest .. x - 1
  <2>1. SUFFICES ASSUME NEW i \in I PROVE Lo(i) .. Hi(i) \subseteq Oldest .. x - 1
    BY <1>2
  <2>2. Lo(i) \in Int /\ Hi(i) \in Int /\ Oldest <= Lo(i) /\ Hi(i) <= x - 1
    BY <1>5, <1>1
  <2> HIDE DEF Lo, Hi
  <2>3. QED BY <2>2, <1>1, <1>4, Within
<1>7. ASSUME NEW n \in Oldest .. x - 1 PROVE \E i \in I : n \in Lo(i) .. Hi(i)
  <2>1. x - 1 - n \in Nat /\ x - 1 - n < K * S /\ x - 1 - n < x - remote.first
    BY <1>1, <1>3, <1>4
  <2>2. PICK i \in Nat : i * S <= x - 1 - n /\ x - 1 - n < i * S + S
    BY <2>1, <1>1, Quotient
  <2>3. i * S \in Nat /\ (i + 1) * S = i * S + S
    BY <1>1, Successor
  <2>4. i < K
    <3>1. SUFFICES ASSUME ~(i < K) PROVE FALSE
      OBVIOUS
    <3>2. K * S <= i * S
      <4>1. CASE i = K
        BY <4>1, <2>3
      <4>2. CASE K < i
        BY <4>2, <1>1, <1>3, <2>3, Multiples
      <4>3. QED BY <4>1, <4>2, <3>1, <1>1
    <3>3. QED BY <3>2, <2>1, <2>2, <2>3, <1>3
  <2>5. i \in I
    BY <2>1, <2>2, <2>3, <2>4, <1>1
  <2>6. n \in Lo(i) .. Hi(i)
    BY <2>1, <2>2, <2>3, <1>1, <1>4 DEF Greater
  <2>7. QED BY <2>5, <2>6
<1>8. UNION OlderRanges = Oldest .. x - 1
  BY <1>2, <1>6, <1>7
<1>9. \A r \in OlderRanges : \E f \in r : r \subseteq f .. f + S - 1
  <2>1. SUFFICES ASSUME NEW i \in I
                 PROVE \E f \in Lo(i) .. Hi(i) : Lo(i) .. Hi(i) \subseteq f .. f + S - 1
    BY <1>2
  <2>2. Lo(i) \in Lo(i) .. Hi(i)
    BY <1>5
  <2>3. Hi(i) <= Lo(i) + S - 1
    BY <1>5, <1>1
  <2>4. QED BY <2>2, <2>3, <1>5, <1>1
<1>10. ASSUME NEW i \in I, NEW j \in I, i < j
       PROVE (Lo(i) .. Hi(i)) \cap (Lo(j) .. Hi(j)) = {}
  <2>1. i * S + S <= j * S
    BY <1>5, <1>1, <1>10, Multiples
  <2>2. Hi(j) < Lo(i)
    <3>1. x - i * S - S <= Lo(i) /\ i * S \in Nat /\ j * S \in Nat /\ Lo(i) \in Int
      <4> HIDE DEF Lo
      <4>1. QED BY <1>5
    <3>2. x \in Int /\ S \in Int
      BY <1>1
    <3> HIDE DEF Lo, x, S
    <3>3. QED BY <2>1, <3>1, <3>2
  <2>3. Lo(i) \in Int /\ Hi(i) \in Int /\ Lo(j) \in Int /\ Hi(j) \in Int
    <3> HIDE DEF Lo, Hi
    <3>1. QED BY <1>5
  <2>4. QED BY <2>2, <2>3, Apart
<1>11. Overlapping(OlderRanges) = {}
  <2>1. SUFFICES ASSUME NEW i \in I, NEW j \in I, Lo(i) .. Hi(i) # Lo(j) .. Hi(j)
                 PROVE (Lo(i) .. Hi(i)) \cap (Lo(j) .. Hi(j)) = {}
    BY <1>2 DEF Overlapping
  <2>2. i \in Nat /\ j \in Nat /\ (i < j \/ j < i)
    BY <2>1, <1>5
  <2>3. QED BY <2>2, <1>10
<1>12. QED BY <1>1, <1>4, <1>6, <1>8, <1>9, <1>11 DEF Sound

-----------------------------------------------------------------------------
(* What the end of a handler does.                                         *)

LEMMA CanceledFacts ==
    ASSUME NEW l \in SUBSET Cmdlists, NEW k, k = {[c EXCEPT !.canceled = TRUE] : c \in l}
    PROVE  /\ k \in SUBSET Cmdlists
           /\ NumbersOf(k) = NumbersOf(l)
           /\ \A c \in k : c.canceled
<1>1. \A c \in l : /\ [c EXCEPT !.canceled = TRUE] \in Cmdlists
                   /\ [c EXCEPT !.canceled = TRUE].ranges = c.ranges
                   /\ [c EXCEPT !.canceled = TRUE].canceled
  BY DEF Cmdlists
<1>2. k \subseteq Cmdlists /\ \A c \in k : c.canceled
  BY <1>1
<1>3. {UNION c.ranges : c \in k} = {UNION c.ranges : c \in l}
  <2>1. \A c \in l : \E d \in k : d.ranges = c.ranges
    BY <1>1
  <2>2. \A d \in k : \E c \in l : d.ranges = c.ranges
    BY <1>1
  <2>3. QED BY <2>1, <2>2
<1>4. QED BY <1>2, <1>3 DEF NumbersOf

LEMMA CancelListsFacts ==
    ASSUME NEW l \in SUBSET Cmdlists, NEW m, CancelLists(l, m)
    PROVE  /\ lists' \in SUBSET Cmdlists
           /\ NumbersOf(lists') \cup lost' = NumbersOf(l) \cup m
           /\ NumbersOf(lists') \subseteq NumbersOf(l)
           /\ \A c \in lists' : c.canceled
<1>1. PICK gone \in SUBSET Out(l) :
        /\ lists' = {[c EXCEPT !.canceled = TRUE] : c \in l \ gone}
        /\ lost' = m \cup NumbersOf(gone)
  BY DEF CancelLists
<1>2. l \ gone \in SUBSET Cmdlists /\ gone \subseteq l
  BY <1>1 DEF Out
<1>3. NumbersOf(l) = NumbersOf(l \ gone) \cup NumbersOf(gone)
  BY <1>2 DEF NumbersOf
<1>4. /\ lists' \in SUBSET Cmdlists
      /\ NumbersOf(lists') = NumbersOf(l \ gone)
      /\ \A c \in lists' : c.canceled
  BY <1>1, <1>2, CanceledFacts
<1>5. QED BY <1>1, <1>3, <1>4

LEMMA GotoErrorFacts ==
    ASSUME NEW l \in SUBSET Cmdlists, GotoError(l)
    PROVE  /\ lists' \in SUBSET Cmdlists
           /\ NumbersOf(lists') = NumbersOf(l)
           /\ \A c \in lists' : c.canceled
           /\ status' = "error" /\ nfo' = nfo
  BY CanceledFacts DEF GotoError

LEMMA SettleFacts ==
    ASSUME NEW l \in SUBSET Cmdlists, NEW w, NEW m, Settle(l, w, m), status \in States
    PROVE  /\ lists' \in SUBSET Cmdlists /\ work' = w
           /\ NumbersOf(lists') \cup lost' = NumbersOf(l) \cup m
           /\ NumbersOf(lists') \subseteq NumbersOf(l)
           /\ \A c \in lists' : c.canceled \/ c \in l
           /\ status' \in States
           /\ nfo' = nfo \/ nfo' = Commit(local')
<1>1. CASE status' = "crunching" /\ CancelLists(l, m) /\ UNCHANGED nfo
  BY <1>1, CancelListsFacts DEF Settle, States
<1>2. CASE /\ lists' = l /\ lost' = m
           /\ \/ UNCHANGED <<status, nfo>>
              \/ status' = Waits(status) /\ UNCHANGED nfo
              \/ status' = "complete" /\ nfo' = Commit(local')
  BY <1>2 DEF Settle, States, Waits
<1>3. QED BY <1>1, <1>2 DEF Settle

-----------------------------------------------------------------------------
(* A step of a handler: the ranges move on, and what has been stored may   *)
(* be recorded.                                                            *)

Kept ==
    /\ UNCHANGED <<xover, start, asked>>
    /\ remote' = remote \/ (remote' \in Replies /\ xover.last # 0)
    /\ stored \subseteq stored' /\ stored' \subseteq Existing
    /\ InHand' \subseteq InHand
    /\ (InHand \cup stored \cup lost) \cap Existing \subseteq InHand' \cup stored' \cup lost'
    /\ lost' \subseteq Nat
    /\ lists' \subseteq Cmdlists /\ work' \subseteq Actions
    /\ status' \in States
    /\ \/ local' = local
       \/ \E k, m \in stored' \cap asked :
            k <= m /\ local' = [first |-> Lesser(local.first, k), last |-> Greater(local.last, m)]
    /\ nfo' = nfo \/ nfo' = Commit(local')

LEMMA KeptIsEnough ==
    ASSUME UpdateAssumption, IInv, status # "none", Kept
    PROVE  IInv'
<1> USE DEF IInv
<1>1. /\ TypeOK /\ NothingForgotten /\ RecordedEnds /\ Bounds /\ Recorded
      /\ UpdateAssumption
  OBVIOUS
<1>2. /\ local \in [first : Nat, last : Nat] /\ nfo \in [first : Nat, last : Nat]
      /\ xover \in [first : Nat, last : Nat] /\ xover' = xover
      /\ MaxNumber \in Nat
      /\ \A n \in Existing : n \in Nat /\ 0 < n /\ n < MaxNumber
  BY DEF TypeOK, UpdateAssumption, Kept
<1> DEFINE LocalIsRight ==
      /\ local' \in [first : Nat, last : Nat]
      /\ local'.last # 0 => local'.first <= local'.last
      /\ local'.last # 0 => local'.first \in stored' /\ local'.last \in stored'
      /\ local'.last # 0 => xover.first <= local'.first /\ local'.last <= xover.last
      /\ local'.last = 0 => local'.first = MaxNumber
<1>3. LocalIsRight
  <2>1. CASE local' = local
    BY <2>1, <1>1, <1>2 DEF RecordedEnds, Recorded, Kept
  <2>2. ASSUME NEW k \in stored' \cap asked, NEW m \in stored' \cap asked, k <= m,
               local' = [first |-> Lesser(local.first, k), last |-> Greater(local.last, m)]
        PROVE LocalIsRight
    <3>1. /\ k \in Existing /\ m \in Existing /\ k \in asked /\ m \in asked
      BY <2>2 DEF Kept
    <3>2. /\ k \in Nat /\ m \in Nat /\ 0 < k /\ 0 < m /\ k < MaxNumber
          /\ xover.first <= k /\ m <= xover.last
      BY <3>1, <1>1, <1>2 DEF Bounds, Interval
    <3>3. /\ local'.first = Lesser(local.first, k) /\ local'.last = Greater(local.last, m)
          /\ local'.first \in Nat /\ local'.last \in Nat
      BY <2>2, <3>2, <1>2 DEF Lesser, Greater
    <3>4. stored \subseteq stored'
      BY DEF Kept
    <3>5. CASE local.last = 0
      BY <3>2, <3>3, <3>5, <2>2, <1>1, <1>2 DEF Lesser, Greater, Recorded
    <3>6. CASE local.last # 0
      BY <3>2, <3>3, <3>4, <3>6, <2>2, <1>1, <1>2 DEF Lesser, Greater, Recorded, RecordedEnds
    <3>7. QED BY <3>5, <3>6
  <2>3. QED BY <2>1, <2>2 DEF Kept
<1>4. /\ nfo' \in [first : Nat, last : Nat]
      /\ nfo'.last # 0 => nfo'.first <= nfo'.last
      /\ nfo'.last # 0 => nfo'.first \in stored' /\ nfo'.last \in stored'
      /\ nfo'.last = 0 => nfo' \in {NoFile, CutFile}
  <2>1. CASE nfo' = nfo
    BY <2>1, <1>1, <1>2 DEF RecordedEnds, Recorded, Kept, NoFile, CutFile
  <2>2. CASE nfo' = local' /\ local'.last # 0
    BY <2>2, <1>3
  <2>3. QED BY <2>1, <2>2, <1>2 DEF Kept, Commit
<1>5. TypeOK'
  <2>1. status' \in States /\ status' # "none"
    BY DEF Kept, States
  <2>2. /\ remote' \in [first : Nat, last : Nat]
        /\ xover' = xover /\ start' = start /\ asked' = asked
        /\ stored' \subseteq Existing /\ lost' \subseteq Nat
        /\ lists' \subseteq Cmdlists /\ work' \subseteq Actions
    BY <1>1 DEF Kept, UpdateAssumption, TypeOK
  <2>3. QED BY <2>1, <2>2, <1>1, <1>3, <1>4 DEF TypeOK, States, Cmdlists, Actions
<1>6. NothingForgotten'
  BY <1>1 DEF NothingForgotten, Kept, Interval
<1>7. RecordedEnds'
  BY <1>2, <1>3, <1>4 DEF RecordedEnds
<1>8. Bounds'
  BY <1>1 DEF Bounds, Kept, Interval
<1>9. Recorded'
  BY <1>3, <1>4 DEF Recorded
<1>10. Idle'
  BY DEF Idle, Kept, States
<1>11. QED BY <1>5, <1>6, <1>7, <1>8, <1>9, <1>10

NoNewCmdlist == \A c \in lists' \ lists : c.canceled

\* The numbers of a cmdlist that leaves, and of an action.
LEMMA Leaves ==
    ASSUME NEW l, NEW c \in l
    PROVE  NumbersOf(l) = NumbersOf(l \ {c}) \cup UNION c.ranges
  BY DEF NumbersOf

LEMMA OverviewKeeps ==
    ASSUME UpdateAssumption, IInv, NEW c \in lists, Overview(c), status # "none"
    PROVE  Kept /\ NoNewCmdlist
<1>1. PICK got \in SUBSET c.ranges :
        Settle(lists \ {c}, work \cup {[type |-> "parse", range |-> r] : r \in got},
               lost \cup UNION (c.ranges \ got))
  BY DEF Overview
<1> DEFINE l == lists \ {c}
           new == {[type |-> "parse", range |-> r] : r \in got}
           gone == UNION (c.ranges \ got)
<1>2. /\ lists \in SUBSET Cmdlists /\ l \in SUBSET Cmdlists /\ c \in Cmdlists
      /\ work \subseteq Actions /\ lost \subseteq Nat /\ status \in States
  BY DEF IInv, TypeOK, States
<1>3. /\ UNION c.ranges = (UNION got) \cup gone
      /\ UNION {a.range : a \in new} = UNION got
      /\ gone \subseteq Nat /\ new \subseteq Actions
  <2>1. {a.range : a \in new} = got
    <3>1. ASSUME NEW r \in got PROVE \E a \in new : a.range = r
      <4>1. [type |-> "parse", range |-> r] \in new
        OBVIOUS
      <4>2. [type |-> "parse", range |-> r].range = r
        OBVIOUS
      <4> HIDE DEF new
      <4>3. QED BY <4>1, <4>2
    <3>2. \A a \in new : a.range \in got
      OBVIOUS
    <3>3. QED BY <3>1, <3>2
  <2>2. c.ranges \in SUBSET SUBSET Nat
    BY <1>2 DEF Cmdlists
  <2>3. \A r \in got : [type |-> "parse", range |-> r] \in Actions
    BY <2>2 DEF Actions
  <2>4. QED BY <2>1, <2>2, <2>3
<1>4. /\ lists' \in SUBSET Cmdlists /\ work' = work \cup new
      /\ NumbersOf(lists') \cup lost' = NumbersOf(l) \cup lost \cup gone
      /\ NumbersOf(lists') \subseteq NumbersOf(l)
      /\ \A d \in lists' : d.canceled \/ d \in l
      /\ status' \in States
      /\ nfo' = nfo \/ nfo' = Commit(local')
  <2> DEFINE w == work \cup new
             m == lost \cup gone
  <2>1. Settle(l, w, m)
    BY <1>1
  <2>2. l \in SUBSET Cmdlists /\ status \in States
    BY <1>2
  <2> HIDE DEF l, new, gone, w, m
  <2>3. /\ lists' \in SUBSET Cmdlists /\ work' = w
        /\ NumbersOf(lists') \cup lost' = NumbersOf(l) \cup m
        /\ NumbersOf(lists') \subseteq NumbersOf(l)
        /\ \A d \in lists' : d.canceled \/ d \in l
        /\ status' \in States
        /\ nfo' = nfo \/ nfo' = Commit(local')
    BY <2>1, <2>2, SettleFacts
  <2>4. QED BY <2>3 DEF w, m
<1>5. NumbersOf(lists) = NumbersOf(l) \cup UNION c.ranges
  BY Leaves
<1>6. UNION {a.range : a \in work'} = (UNION {a.range : a \in work}) \cup UNION got
  BY <1>3, <1>4
<1>7. /\ UNCHANGED <<remote, local, xover, stored, start, asked>>
  BY DEF Overview
<1>8. NumbersOf(l) \subseteq Nat /\ stored \subseteq Existing
  BY <1>2 DEF NumbersOf, Cmdlists, IInv, TypeOK
<1> HIDE DEF l, new, gone
<1>9. lost' \subseteq Nat
  BY <1>2, <1>3, <1>4, <1>8
<1>10. /\ InHand' \subseteq InHand
       /\ (InHand \cup stored \cup lost) \subseteq InHand' \cup stored' \cup lost'
  BY <1>3, <1>4, <1>5, <1>6, <1>7 DEF InHand
<1>11. NoNewCmdlist
  BY <1>4 DEF NoNewCmdlist, l
<1>12. work' \subseteq Actions
  BY <1>2, <1>3, <1>4
<1>13. QED BY <1>4, <1>7, <1>8, <1>9, <1>10, <1>11, <1>12 DEF Kept

LEMMA FailuresKeep ==
    ASSUME UpdateAssumption, IInv, NEW c \in lists, status # "none",
           NoGroupInfo(c) \/ Refused(c) \/ DataError(c) \/ Dropped(c)
    PROVE  Kept /\ NoNewCmdlist
<1> DEFINE l == lists \ {c}
<1>1. /\ lists \in SUBSET Cmdlists /\ l \in SUBSET Cmdlists /\ c \in Cmdlists
      /\ work \subseteq Actions /\ lost \subseteq Nat /\ status \in States
      /\ stored \subseteq Existing /\ UNION c.ranges \subseteq Nat
  BY DEF IInv, TypeOK, States, Cmdlists
<1>2. /\ UNCHANGED <<remote, local, xover, work, stored, start, asked>>
      /\ nfo' = nfo
      /\ lost' = lost \cup UNION c.ranges
      /\ \/ GotoError(l)
         \/ lists' = l /\ status' = status
  <2>1. CASE NoGroupInfo(c)
    <3>1. c.type = "groupinfo" /\ GotoError(l) /\ lost' = lost
      BY <2>1 DEF NoGroupInfo, history
    <3>2. UNION c.ranges = {}
      BY <1>1, <3>1 DEF Cmdlists
    <3>3. QED BY <2>1, <3>1, <3>2 DEF NoGroupInfo, GotoError, history
  <2>2. CASE Refused(c)
    BY <2>2 DEF Refused, disk
  <2>3. CASE DataError(c)
    BY <2>3 DEF DataError, GotoError
  <2>4. CASE Dropped(c)
    BY <2>4 DEF Dropped, disk
  <2>5. QED BY <2>1, <2>2, <2>3, <2>4
<1>3. /\ lists' \in SUBSET Cmdlists /\ NumbersOf(lists') = NumbersOf(l)
      /\ \A d \in lists' : d.canceled \/ d \in l
      /\ status' \in States
  BY <1>1, <1>2, GotoErrorFacts DEF States
<1>4. NumbersOf(lists) = NumbersOf(l) \cup UNION c.ranges
  BY Leaves
<1>5. NoNewCmdlist
  BY <1>3 DEF NoNewCmdlist
<1> HIDE DEF l
<1>6. /\ InHand' \subseteq InHand
      /\ (InHand \cup stored \cup lost) \subseteq InHand' \cup stored' \cup lost'
  BY <1>2, <1>3, <1>4 DEF InHand
<1>7. QED BY <1>1, <1>2, <1>3, <1>5, <1>6 DEF Kept

\* The numbers of the actions, when one of them has been performed.
LEMMA RangesOf ==
    ASSUME NEW w, NEW a \in w, NEW b
    PROVE  /\ UNION {d.range : d \in w} = (UNION {d.range : d \in w \ {a}}) \cup a.range
           /\ UNION {d.range : d \in (w \ {a}) \cup {b}}
                = (UNION {d.range : d \in w \ {a}}) \cup b.range
  OBVIOUS

LEMMA ParsedKeeps ==
    ASSUME UpdateAssumption, IInv, NEW a \in work, Parsed(a), status # "none"
    PROVE  Kept /\ NoNewCmdlist
<1> DEFINE b == [a EXCEPT !.type = "store"]
           w == (work \ {a}) \cup {b}
<1>1. /\ lists \in SUBSET Cmdlists /\ a \in Actions /\ b \in Actions
      /\ b.range = a.range /\ a.range \subseteq Nat
      /\ work \subseteq Actions /\ lost \subseteq Nat /\ status \in States
      /\ stored \subseteq Existing
  BY DEF IInv, TypeOK, States, Actions
<1>2. UNION {d.range : d \in w} = UNION {d.range : d \in work}
  <2>1. b.range = a.range
    BY <1>1
  <2> HIDE DEF b
  <2>2. /\ UNION {d.range : d \in work} = (UNION {d.range : d \in work \ {a}}) \cup a.range
        /\ UNION {d.range : d \in (work \ {a}) \cup {b}}
             = (UNION {d.range : d \in work \ {a}}) \cup b.range
    BY RangesOf
  <2>3. QED BY <2>1, <2>2
<1>3. UNION {d.range : d \in work} = (UNION {d.range : d \in work \ {a}}) \cup a.range
  BY RangesOf
<1>4. UNCHANGED <<remote, local, xover, stored, start, asked>>
  BY DEF Parsed
<1> HIDE DEF b
<1>5. CASE status = "error"
  <2>1. /\ work' = work \ {a} /\ lost' = lost \cup a.range
        /\ UNCHANGED <<status, lists, nfo>>
    BY <1>5 DEF Parsed
  <2>2. /\ InHand' \subseteq InHand
        /\ (InHand \cup stored \cup lost) \subseteq InHand' \cup stored' \cup lost'
    BY <2>1, <1>3, <1>4 DEF InHand
  <2>3. QED BY <2>1, <2>2, <1>1, <1>4 DEF Kept, NoNewCmdlist
<1>6. CASE status # "error"
  <2>1. Settle(lists, w, lost)
    BY <1>6 DEF Parsed, b
  <2> HIDE DEF w
  <2>2. /\ lists' \in SUBSET Cmdlists /\ work' = w
        /\ NumbersOf(lists') \cup lost' = NumbersOf(lists) \cup lost
        /\ NumbersOf(lists') \subseteq NumbersOf(lists)
        /\ \A d \in lists' : d.canceled \/ d \in lists
        /\ status' \in States
        /\ nfo' = nfo \/ nfo' = Commit(local')
    BY <2>1, <1>1, SettleFacts
  <2>3. /\ InHand' \subseteq InHand
        /\ (InHand \cup stored \cup lost) \subseteq InHand' \cup stored' \cup lost'
    BY <2>2, <1>2, <1>4 DEF InHand
  <2>4. NumbersOf(lists) \subseteq Nat
    BY <1>1 DEF NumbersOf, Cmdlists
  <2>5. lost' \subseteq Nat
    BY <2>2, <2>4, <1>1
  <2>6. work' \subseteq Actions
    BY <2>2, <1>1 DEF w
  <2>7. QED BY <2>2, <2>3, <2>5, <2>6, <1>1, <1>4 DEF Kept, NoNewCmdlist
<1>7. QED BY <1>5, <1>6

LEMMA StoresKeep ==
    ASSUME UpdateAssumption, IInv, NEW a \in work, Stored(a) \/ StoreFailed(a), status # "none"
    PROVE  Kept /\ NoNewCmdlist
<1> DEFINE n == a.range \cap Existing
           w == work \ {a}
<1>1. /\ lists \in SUBSET Cmdlists /\ a \in Actions /\ a.range \subseteq Nat
      /\ work \subseteq Actions /\ w \subseteq Actions /\ lost \subseteq Nat
      /\ status \in States /\ stored \subseteq Existing
  BY DEF IInv, TypeOK, States, Actions
<1>2. UNION {d.range : d \in work} = (UNION {d.range : d \in w}) \cup a.range
  BY RangesOf
<1>3. a.range \subseteq asked
  BY <1>2 DEF IInv, Bounds, InHand
<1>4. NumbersOf(lists) \subseteq Nat
  BY <1>1 DEF NumbersOf, Cmdlists
<1>5. CASE Stored(a) /\ status = "error"
  <2>1. /\ work' = w /\ stored' = stored \cup n
        /\ UNCHANGED <<status, local, lists, nfo, lost, remote, xover, start, asked>>
    BY <1>5 DEF Stored
  <2> HIDE DEF w
  <2>2. /\ InHand' \subseteq InHand
        /\ (InHand \cup stored \cup lost) \cap Existing \subseteq InHand' \cup stored' \cup lost'
    BY <2>1, <1>2 DEF InHand
  <2>3. QED BY <2>1, <2>2, <1>1 DEF Kept, NoNewCmdlist
<1>6. CASE Stored(a) /\ status # "error"
  <2>1. /\ stored' = stored \cup n
        /\ local' \in Extended(local, n) /\ Settle(lists, w, lost)
        /\ UNCHANGED <<remote, xover, start, asked>>
    BY <1>6 DEF Stored
  <2> HIDE DEF w
  <2>2. /\ lists' \in SUBSET Cmdlists /\ work' = w
        /\ NumbersOf(lists') \cup lost' = NumbersOf(lists) \cup lost
        /\ NumbersOf(lists') \subseteq NumbersOf(lists)
        /\ \A d \in lists' : d.canceled \/ d \in lists
        /\ status' \in States
        /\ nfo' = nfo \/ nfo' = Commit(local')
    BY <2>1, <1>1, SettleFacts
  <2>3. /\ InHand' \subseteq InHand
        /\ (InHand \cup stored \cup lost) \cap Existing \subseteq InHand' \cup stored' \cup lost'
    BY <2>1, <2>2, <1>2 DEF InHand
  <2>4. \/ local' = local
        \/ \E k, m \in stored' \cap asked :
             k <= m /\ local' = [first |-> Lesser(local.first, k), last |-> Greater(local.last, m)]
    <3>1. CASE n = {}
      BY <3>1, <2>1 DEF Extended
    <3>2. CASE n # {}
      <4>1. PICK k \in Lowest(n), m \in Highest(n) :
              local' = [first |-> Lesser(local.first, k), last |-> Greater(local.last, m)]
        <5>1. local' \in Extended(local, n)
          BY <2>1
        <5> HIDE DEF n
        <5>2. local' \in {[first |-> Lesser(local.first, k), last |-> Greater(local.last, m)] :
                             k \in Lowest(n), m \in Highest(n)}
          BY <5>1, <3>2 DEF Extended
        <5>3. QED BY <5>2
      <4>2. k \in n /\ m \in n /\ k <= m
        BY <4>1 DEF Lowest, Highest
      <4>3. k \in stored' \cap asked /\ m \in stored' \cap asked
        BY <4>2, <2>1, <1>3
      <4>4. QED BY <4>1, <4>2, <4>3
    <3>3. QED BY <3>1, <3>2
  <2>5. lost' \subseteq Nat
    BY <2>2, <1>4, <1>1
  <2>6. QED BY <2>1, <2>2, <2>3, <2>4, <2>5, <1>1 DEF Kept, NoNewCmdlist
<1>7. CASE StoreFailed(a)
  <2>1. PICK m \in SUBSET n : stored' = stored \cup m
    BY <1>7 DEF StoreFailed
  <2>2. /\ work' = w /\ lost' = lost \cup a.range /\ GotoError(lists)
        /\ UNCHANGED <<remote, local, xover, start, asked>>
    BY <1>7 DEF StoreFailed
  <2> HIDE DEF w
  <2>3. /\ lists' \in SUBSET Cmdlists /\ NumbersOf(lists') = NumbersOf(lists)
        /\ \A c \in lists' : c.canceled
        /\ status' \in States /\ nfo' = nfo
    BY <2>2, <1>1, GotoErrorFacts DEF States
  <2>4. /\ InHand' \subseteq InHand
        /\ (InHand \cup stored \cup lost) \cap Existing \subseteq InHand' \cup stored' \cup lost'
    BY <2>1, <2>2, <2>3, <1>2 DEF InHand
  <2>5. lost' \subseteq Nat /\ stored' \subseteq Existing
    BY <2>1, <2>2, <1>1
  <2>6. QED BY <2>1, <2>2, <2>3, <2>4, <2>5, <1>1 DEF Kept, NoNewCmdlist
<1>8. QED BY <1>5, <1>6, <1>7

LEMMA CommandsKeep ==
    ASSUME UpdateAssumption, IInv, Pause \/ Resume, status # "none"
    PROVE  Kept /\ NoNewCmdlist
<1>1. /\ lists \in SUBSET Cmdlists /\ work \subseteq Actions /\ lost \subseteq Nat
      /\ stored \subseteq Existing /\ NumbersOf(lists) \subseteq Nat
  BY DEF IInv, TypeOK, Cmdlists, NumbersOf
<1>2. CASE Pause
  <2>1. /\ CancelLists(lists, lost) /\ status' \in States /\ nfo' = nfo
        /\ UNCHANGED <<remote, local, xover, work, stored, start, asked>>
    BY <1>2 DEF Pause, disk, States
  <2>2. /\ lists' \in SUBSET Cmdlists
        /\ NumbersOf(lists') \cup lost' = NumbersOf(lists) \cup lost
        /\ NumbersOf(lists') \subseteq NumbersOf(lists)
        /\ \A c \in lists' : c.canceled
    BY <2>1, <1>1, CancelListsFacts
  <2>3. /\ InHand' \subseteq InHand
        /\ (InHand \cup stored \cup lost) \subseteq InHand' \cup stored' \cup lost'
    BY <2>1, <2>2 DEF InHand
  <2>4. QED BY <2>1, <2>2, <2>3, <1>1 DEF Kept, NoNewCmdlist
<1>3. CASE Resume
  <2>1. /\ UNCHANGED <<remote, local, xover, lists, work, stored, start, asked, lost>>
        /\ status' \in States
        /\ nfo' = nfo \/ nfo' = Commit(local')
    BY <1>3 DEF Resume, history, States
  <2>2. QED BY <2>1, <1>1 DEF Kept, NoNewCmdlist, InHand
<1>4. QED BY <1>2, <1>3

-----------------------------------------------------------------------------
(* The steps that are not of this form.                                    *)

\* The first reply places the interval: nothing has been asked for yet.
LEMMA GroupInfoKeeps ==
    ASSUME UpdateAssumption, IInv, NEW c \in lists, GroupInfo(c), status # "none"
    PROVE  IInv' /\ NoNewCmdlist
<1> DEFINE l == lists \ {c}
<1>1. /\ lists \in SUBSET Cmdlists /\ l \in SUBSET Cmdlists /\ c \in Cmdlists
      /\ work \subseteq Actions /\ lost \subseteq Nat /\ status \in States
      /\ stored \subseteq Existing /\ UNION c.ranges = {}
  BY DEF IInv, TypeOK, States, Cmdlists, GroupInfo
<1>2. /\ remote' \in Replies
      /\ UNCHANGED <<local, stored, start, asked>>
      /\ Settle(l, work, lost)
  BY DEF GroupInfo
<1>3. /\ lists' \in SUBSET Cmdlists /\ work' = work
      /\ NumbersOf(lists') \cup lost' = NumbersOf(l) \cup lost
      /\ NumbersOf(lists') \subseteq NumbersOf(l)
      /\ \A d \in lists' : d.canceled \/ d \in l
      /\ status' \in States
      /\ nfo' = nfo \/ nfo' = Commit(local')
  <2>1. l \in SUBSET Cmdlists /\ status \in States /\ Settle(l, work, lost)
    BY <1>1, <1>2
  <2> HIDE DEF l
  <2>2. QED BY <2>1, SettleFacts
<1>4. NumbersOf(lists) = NumbersOf(l) /\ NumbersOf(lists) \subseteq Nat
  <2>1. NumbersOf(lists) = NumbersOf(l) \cup UNION c.ranges
    BY Leaves
  <2>2. QED BY <2>1, <1>1 DEF NumbersOf, Cmdlists
<1>5. NoNewCmdlist
  BY <1>3 DEF NoNewCmdlist
<1> HIDE DEF l
<1>6. /\ InHand' \subseteq InHand
      /\ (InHand \cup stored \cup lost) \subseteq InHand' \cup stored' \cup lost'
      /\ lost' \subseteq Nat
  BY <1>1, <1>2, <1>3, <1>4 DEF InHand
<1>7. CASE xover.last # 0
  <2>1. xover' = xover
    BY <1>7 DEF GroupInfo
  <2>2. Kept
    BY <2>1, <1>1, <1>2, <1>3, <1>6, <1>7 DEF Kept
  <2>3. QED BY <2>2, <1>5, KeptIsEnough
<1>8. CASE xover.last = 0
  <2>1. /\ TypeOK /\ RecordedEnds /\ Bounds /\ Recorded
    BY DEF IInv
  <2>2. /\ xover' = [first |-> remote'.last + 1, last |-> remote'.last]
        /\ remote' \in [first : Nat, last : Nat] /\ xover' \in [first : Nat, last : Nat]
        /\ xover'.first = xover'.last + 1 /\ xover'.last = remote'.last
    BY <1>2, <1>8 DEF GroupInfo, UpdateAssumption
  <2>3. asked = {} /\ start = {} /\ InHand = {}
    BY <2>1, <1>8 DEF Bounds
  <2>4. local.last = 0 /\ local' = local
    BY <2>1, <1>8, <1>1, <1>2 DEF RecordedEnds, TypeOK, States
  <2>5. nfo' = nfo
    BY <2>4, <1>3 DEF Commit
  <2>6. TypeOK'
    BY <2>1, <2>2, <2>4, <2>5, <1>1, <1>2, <1>3, <1>6
       DEF TypeOK, States, Cmdlists, Actions
  <2>7. Interval(xover') = {}
    BY <2>2 DEF Interval
  <2>8. NothingForgotten'
    BY <2>7 DEF NothingForgotten, Interval
  <2>9. RecordedEnds'
    BY <2>1, <2>4, <2>5, <1>2 DEF RecordedEnds
  <2>10. Bounds'
    BY <2>2, <2>3, <1>2, <1>6 DEF Bounds
  <2>11. Recorded'
    BY <2>1, <2>4, <2>5 DEF Recorded
  <2>12. Idle'
    BY <1>3 DEF Idle, States
  <2>13. QED BY <2>6, <2>8, <2>9, <2>10, <2>11, <2>12, <1>5 DEF IInv
<1>9. QED BY <1>7, <1>8

\* The ranges of a new cmdlist adjoin the interval that was asked for.
LEMMA RunAsksOnce ==
    ASSUME UpdateAssumption, IInv, NEW id \in Slots, Run(id)
    PROVE  \/ /\ lists' = lists \cup {Cmdlist(id, "groupinfo", {})}
              /\ UNCHANGED <<xover, asked>>
           \/ \E R \in SUBSET SUBSET Nat, f, g \in Nat :
                /\ remote.last # 0
                /\ lists' = lists \cup {Cmdlist(id, "overview", R)}
                /\ Sound(R, f .. g)
                /\ asked' = asked \cup UNION R
                /\ f <= g + 1
                /\ \/ f = xover.last + 1 /\ xover' = [xover EXCEPT !.last = g]
                   \/ g = xover.first - 1 /\ xover' = [xover EXCEPT !.first = f]
<1>1. TypeOK /\ xover \in [first : Nat, last : Nat] /\ remote \in [first : Nat, last : Nat]
  BY DEF IInv, TypeOK
<1>2. CASE /\ lists' = lists \cup {Cmdlist(id, "groupinfo", {})}
           /\ UNCHANGED <<xover, asked>>
  BY <1>2
<1>3. CASE /\ remote.last # 0 /\ xover.last < remote.last
           /\ lists' = lists \cup {Cmdlist(id, "overview", NewerRanges)}
           /\ asked' = asked \cup UNION NewerRanges
           /\ xover' = [xover EXCEPT !.last = Newest]
  <2>1. /\ Sound(NewerRanges, xover.last + 1 .. Newest)
        /\ Newest \in Nat /\ Newest > xover.last
    BY <1>1, <1>3, NewerRangesSound
  <2>2. NewerRanges \in SUBSET SUBSET Nat
    BY <2>1 DEF Sound
  <2>3. xover.last + 1 \in Nat /\ xover.last + 1 <= Newest + 1
    BY <1>1, <2>1
  <2>4. QED BY <1>3, <2>1, <2>2, <2>3
<1>4. CASE /\ remote.last # 0 /\ xover.last >= remote.last
           /\ lists' = lists \cup {Cmdlist(id, "overview", OlderRanges)}
           /\ asked' = asked \cup UNION OlderRanges
           /\ xover' = [xover EXCEPT !.first = Oldest]
  <2>1. xover.first > remote.first
    BY <1>1, <1>4 DEF Run, HasCommands
  <2>2. /\ Sound(OlderRanges, Oldest .. xover.first - 1)
        /\ Oldest \in Nat /\ Oldest < xover.first
    BY <1>1, <2>1, OlderRangesSound
  <2>3. OlderRanges \in SUBSET SUBSET Nat
    BY <2>2 DEF Sound
  <2>4. xover.first - 1 \in Nat /\ Oldest <= xover.first - 1 + 1
    BY <1>1, <2>2
  <2>5. QED BY <1>4, <2>2, <2>3, <2>4
<1>5. QED BY <1>2, <1>3, <1>4 DEF Run

LEMMA RunKeeps ==
    ASSUME UpdateAssumption, IInv, NEW id \in Slots, Run(id)
    PROVE  IInv'
<1>1. /\ TypeOK /\ NothingForgotten /\ RecordedEnds /\ Bounds /\ Recorded
      /\ status # "none" /\ status' = status
      /\ UNCHANGED <<remote, local, work, nfo, stored, start, lost>>
  BY DEF IInv, Run, disk
<1>2. /\ xover \in [first : Nat, last : Nat] /\ lists \subseteq Cmdlists
      /\ work \subseteq Actions /\ asked \subseteq Nat
  BY <1>1 DEF TypeOK
<1>3. Recorded' /\ Idle'
  BY <1>1 DEF Recorded, Idle
<1>4. CASE /\ lists' = lists \cup {Cmdlist(id, "groupinfo", {})}
           /\ UNCHANGED <<xover, asked>>
  <2>1. Cmdlist(id, "groupinfo", {}) \in Cmdlists /\ Cmdlist(id, "groupinfo", {}).ranges = {}
    BY DEF Cmdlist, Cmdlists
  <2>2. NumbersOf(lists') = NumbersOf(lists)
    BY <2>1, <1>4 DEF NumbersOf
  <2>3. InHand' = InHand
    BY <2>2, <1>1 DEF InHand
  <2>4. lists' \subseteq Cmdlists
    BY <2>1, <1>2, <1>4
  <2>5. TypeOK'
    BY <2>4, <1>1, <1>4 DEF TypeOK, Cmdlists, Actions
  <2>6. NothingForgotten' /\ RecordedEnds' /\ Bounds'
    BY <2>3, <1>1, <1>4 DEF NothingForgotten, RecordedEnds, Bounds, Interval
  <2>7. QED BY <2>5, <2>6, <1>3 DEF IInv
<1>5. ASSUME NEW R \in SUBSET SUBSET Nat, NEW f \in Nat, NEW g \in Nat,
             remote.last # 0,
             lists' = lists \cup {Cmdlist(id, "overview", R)},
             Sound(R, f .. g),
             asked' = asked \cup UNION R,
             f <= g + 1,
             \/ f = xover.last + 1 /\ xover' = [xover EXCEPT !.last = g]
             \/ g = xover.first - 1 /\ xover' = [xover EXCEPT !.first = f]
      PROVE  IInv'
  <2>1. /\ Cmdlist(id, "overview", R) \in Cmdlists
        /\ Cmdlist(id, "overview", R).ranges = R
    BY DEF Cmdlist, Cmdlists
  <2>2. NumbersOf(lists') = NumbersOf(lists) \cup UNION R
    BY <2>1, <1>5 DEF NumbersOf
  <2>3. InHand' = InHand \cup UNION R
    BY <2>2, <1>1 DEF InHand
  <2>4. UNION R = f .. g
    BY <1>5 DEF Sound
  <2>5. xover.last # 0 /\ xover.first <= xover.last + 1
    BY <1>1, <1>5 DEF Bounds
  <2>6. /\ xover' \in [first : Nat, last : Nat] /\ xover'.last # 0
        /\ xover'.first <= xover.first /\ xover.last <= xover'.last
        /\ xover'.first <= xover'.last + 1
        /\ Interval(xover') = Interval(xover) \cup (f .. g)
    <3>1. xover.first \in Nat /\ xover.last \in Nat
      BY <1>2
    <3>2. CASE f = xover.last + 1 /\ xover' = [xover EXCEPT !.last = g]
      <4>1. xover'.first = xover.first /\ xover'.last = g
        BY <3>2, <1>2
      <4>2. /\ xover' \in [first : Nat, last : Nat] /\ xover'.last # 0
            /\ xover'.first <= xover.first /\ xover.last <= xover'.last
            /\ xover'.first <= xover'.last + 1
        BY <4>1, <3>1, <3>2, <2>5, <1>2, <1>5
      <4>3. Interval(xover') = Interval(xover) \cup (f .. g)
        BY <4>1, <3>1, <3>2, <2>5, <1>5 DEF Interval
      <4>4. QED BY <4>2, <4>3
    <3>3. CASE g = xover.first - 1 /\ xover' = [xover EXCEPT !.first = f]
      <4>1. xover'.first = f /\ xover'.last = xover.last
        BY <3>3, <1>2
      <4>2. /\ xover' \in [first : Nat, last : Nat] /\ xover'.last # 0
            /\ xover'.first <= xover.first /\ xover.last <= xover'.last
            /\ xover'.first <= xover'.last + 1
        <5>1. xover' \in [first : Nat, last : Nat]
          BY <3>3, <1>2
        <5>2. f <= xover.first
          BY <3>1, <3>3, <1>5
        <5>3. QED BY <5>1, <5>2, <4>1, <3>1, <2>5
      <4>3. Interval(xover') = Interval(xover) \cup (f .. g)
        BY <4>1, <3>1, <3>3, <2>5, <1>5 DEF Interval
      <4>4. QED BY <4>2, <4>3
    <3>4. QED BY <3>2, <3>3, <1>5
  <2>7. lists' \subseteq Cmdlists /\ asked' \subseteq Nat
    BY <2>1, <1>2, <1>5
  <2>8. TypeOK'
    BY <2>6, <2>7, <1>1 DEF TypeOK, Cmdlists, Actions
  <2>9. NothingForgotten'
    <3>1. Existing \cap Interval(xover) \subseteq start \cup stored \cup lost \cup InHand
      BY <1>1 DEF NothingForgotten
    <3>2. Existing \cap Interval(xover') \subseteq start' \cup stored' \cup lost' \cup InHand'
      BY <3>1, <2>3, <2>4, <2>6, <1>1
    <3>3. QED BY <3>2 DEF NothingForgotten, Interval
  <2>10. RecordedEnds'
    <3>1. /\ local' = local /\ nfo' = nfo /\ stored' = stored
          /\ local \in [first : Nat, last : Nat]
      BY <1>1 DEF TypeOK
    <3>2. local.last # 0 => xover'.first <= local.first /\ local.last <= xover'.last
      BY <3>1, <2>6, <1>1, <1>2 DEF RecordedEnds
    <3>3. QED BY <3>1, <3>2, <1>1 DEF RecordedEnds
  <2>11. Bounds'
    <3>1. asked' \cup start' \subseteq Interval(xover')
      BY <2>4, <2>6, <1>1, <1>5 DEF Bounds
    <3>2. InHand' \subseteq asked'
      BY <2>3, <1>1, <1>5 DEF Bounds
    <3>3. QED BY <3>1, <3>2, <2>6 DEF Bounds, Interval
  <2>12. QED BY <2>8, <2>9, <2>10, <2>11, <1>3 DEF IInv
<1>6. QED BY <1>4, <1>5, RunAsksOnce

LEMMA OpenKeeps ==
    ASSUME UpdateAssumption, IInv, Open
    PROVE  IInv'
<1>1. /\ TypeOK /\ RecordedEnds /\ Recorded /\ Idle
      /\ status = "none" /\ status' = "active"
      /\ UNCHANGED <<remote, lists, work, nfo, stored, asked, lost>>
  BY DEF IInv, Open, disk
<1>2. /\ lists = {} /\ work = {} /\ asked = {} /\ start = {} /\ remote.last = 0
      /\ local = [first |-> MaxNumber, last |-> 0] /\ xover = [first |-> 0, last |-> 0]
  BY <1>1 DEF TypeOK, Idle
<1>3. nfo \in [first : Nat, last : Nat] /\ remote \in [first : Nat, last : Nat] /\ MaxNumber \in Nat
  BY <1>1 DEF TypeOK, UpdateAssumption
<1>4. InHand' = {}
  BY <1>1, <1>2 DEF InHand, NumbersOf
<1>5. \/ nfo = NoFile /\ local' = local /\ xover' = xover /\ start' = {}
      \/ nfo.last # 0 /\ local' = nfo /\ xover' = nfo /\ start' = Interval(nfo)
  BY <1>1, <1>2 DEF Open, Recorded
<1>6. CASE nfo = NoFile /\ local' = local /\ xover' = xover /\ start' = {}
  <2>1. TypeOK'
    BY <1>1, <1>6 DEF TypeOK, Cmdlists, Actions
  <2>2. xover'.first = 0 /\ xover'.last = 0
    BY <1>2, <1>6
  <2>3. NothingForgotten'
    <3>1. Existing \cap Interval(xover') = {}
      BY <2>2 DEF Interval, UpdateAssumption
    <3>2. QED BY <3>1 DEF NothingForgotten, Interval
  <2>4. RecordedEnds' /\ Recorded' /\ Idle'
    BY <1>1, <1>2, <1>6 DEF RecordedEnds, Recorded, Idle, NoFile
  <2>5. Bounds'
    BY <2>2, <1>1, <1>2, <1>4, <1>6 DEF Bounds
  <2>6. QED BY <2>1, <2>3, <2>4, <2>5 DEF IInv
<1>7. CASE nfo.last # 0 /\ local' = nfo /\ xover' = nfo /\ start' = Interval(nfo)
  <2>1. Interval(nfo) \subseteq Nat
    BY <1>3 DEF Interval
  <2>2. TypeOK'
    BY <2>1, <1>1, <1>7 DEF TypeOK, Cmdlists, Actions
  <2>3. NothingForgotten'
    BY <1>7 DEF NothingForgotten, Interval
  <2>4. RecordedEnds' /\ Recorded' /\ Idle'
    BY <1>1, <1>3, <1>7 DEF RecordedEnds, Recorded, Idle
  <2>5. nfo.first <= nfo.last
    BY <1>1, <1>7 DEF Recorded
  <2>6. Bounds'
    BY <2>5, <1>1, <1>2, <1>3, <1>4, <1>7 DEF Bounds, Interval
  <2>7. QED BY <2>2, <2>3, <2>4, <2>6 DEF IInv
<1>8. QED BY <1>5, <1>6, <1>7

\* What a killed task or a crash leaves is on the disk.
LEMMA EndsKeep ==
    ASSUME UpdateAssumption, IInv, Kill \/ Crash
    PROVE  IInv' /\ lists' = {}
<1>1. TypeOK /\ RecordedEnds /\ Recorded /\ status # "none" /\ Gone
  BY DEF IInv, Kill, Crash
<1>2. nfo' = nfo \/ (nfo' = local /\ local.last # 0) \/ nfo' = CutFile
  BY DEF Kill, Crash, Commit
<1>3. /\ status' = "none"
      /\ remote' = [first |-> 0, last |-> 0]
      /\ local' = [first |-> MaxNumber, last |-> 0]
      /\ xover' = [first |-> 0, last |-> 0]
      /\ lists' = {} /\ work' = {} /\ start' = {} /\ asked' = {} /\ lost' = {}
      /\ stored \subseteq stored' /\ stored' \subseteq Existing
  BY <1>1 DEF Gone, NoUpdate, TypeOK
<1>4. /\ nfo \in [first : Nat, last : Nat] /\ local \in [first : Nat, last : Nat]
      /\ MaxNumber \in Nat
  BY <1>1 DEF TypeOK, UpdateAssumption
<1>5. /\ nfo' \in [first : Nat, last : Nat]
      /\ nfo'.last # 0 => /\ nfo'.first <= nfo'.last
                          /\ nfo'.first \in stored' /\ nfo'.last \in stored'
      /\ nfo'.last = 0 => nfo' \in {NoFile, CutFile}
  BY <1>1, <1>2, <1>3, <1>4 DEF RecordedEnds, Recorded, CutFile
<1>6. TypeOK'
  BY <1>3, <1>4, <1>5 DEF TypeOK
<1>7. InHand' = {}
  BY <1>3 DEF InHand, NumbersOf
<1>8. NothingForgotten' /\ Idle'
  BY <1>3 DEF NothingForgotten, Idle
<1>9. RecordedEnds' /\ Recorded'
  BY <1>3, <1>5 DEF RecordedEnds, Recorded
<1>10. Bounds'
  BY <1>3, <1>7 DEF Bounds
<1>11. QED BY <1>3, <1>6, <1>8, <1>9, <1>10 DEF IInv

-----------------------------------------------------------------------------
(* The theorems.                                                           *)

LEMMA Start ==
    ASSUME UpdateAssumption, Init
    PROVE  IInv
<1>1. NoFile \in [first : Nat, last : Nat] /\ MaxNumber \in Nat
  BY DEF NoFile, UpdateAssumption
<1>2. TypeOK
  BY <1>1 DEF Init, TypeOK
<1>3. NothingForgotten /\ RecordedEnds /\ Recorded /\ Idle
  BY DEF Init, NothingForgotten, RecordedEnds, Recorded, Idle, NoFile
<1>4. InHand = {}
  BY DEF Init, InHand, NumbersOf
<1>5. Bounds
  BY <1>4 DEF Init, Bounds
<1>6. QED BY <1>2, <1>3, <1>5 DEF IInv

\* Without a task, no handler runs.
LEMMA Handles ==
    ASSUME IInv, (\E c \in lists : Returned(c)) \/ (\E a \in work : Performed(a))
                   \/ Pause \/ Resume
    PROVE  status # "none"
  BY DEF IInv, TypeOK, Pause, Resume

LEMMA Step ==
    ASSUME UpdateAssumption, IInv, [Next]_vars
    PROVE  IInv' /\ (NoNewCmdlist \/ \E id \in Slots : Run(id))
<1>1. CASE Open
  <2>1. lists' = lists
    BY <1>1 DEF Open
  <2>2. QED BY <2>1, <1>1, OpenKeeps DEF NoNewCmdlist
<1>2. CASE \E id \in Slots : Run(id)
  BY <1>2, RunKeeps
<1>3. ASSUME NEW c \in lists, Returned(c)
      PROVE  IInv' /\ NoNewCmdlist
  <2>1. status # "none"
    BY <1>3, Handles
  <2>2. CASE GroupInfo(c)
    BY <2>1, <2>2, GroupInfoKeeps
  <2>3. CASE Overview(c)
    BY <2>1, <2>3, OverviewKeeps, KeptIsEnough
  <2>4. CASE NoGroupInfo(c) \/ Refused(c) \/ DataError(c) \/ Dropped(c)
    BY <2>1, <2>4, FailuresKeep, KeptIsEnough
  <2>5. QED BY <1>3, <2>2, <2>3, <2>4 DEF Returned
<1>4. ASSUME NEW a \in work, Performed(a)
      PROVE  IInv' /\ NoNewCmdlist
  <2>1. status # "none"
    BY <1>4, Handles
  <2>2. QED BY <1>4, <2>1, ParsedKeeps, StoresKeep, KeptIsEnough DEF Performed
<1>5. CASE Pause \/ Resume
  BY <1>5, Handles, CommandsKeep, KeptIsEnough
<1>6. CASE Kill \/ Crash
  BY <1>6, EndsKeep DEF NoNewCmdlist
<1>7. CASE UNCHANGED vars
  <2>1. UNCHANGED <<status, remote, local, xover, lists, work, nfo, stored, start, asked, lost>>
    BY <1>7 DEF vars, task, disk, history
  <2>2. TypeOK'
    BY <2>1 DEF IInv, TypeOK, Cmdlists, Actions
  <2>3. /\ NothingForgotten' /\ RecordedEnds' /\ Bounds' /\ Recorded' /\ Idle'
    BY <2>1 DEF IInv, NothingForgotten, RecordedEnds, Bounds, Recorded, Idle,
                Interval, InHand, NumbersOf
  <2>4. QED BY <2>1, <2>2, <2>3 DEF IInv, NoNewCmdlist
<1>8. QED BY <1>1, <1>2, <1>3, <1>4, <1>5, <1>6, <1>7 DEF Next

LEMMA Invariant == Spec => []IInv
<1>1. Init => IInv
  BY Start, UpdateAssumption
<1>2. IInv /\ [Next]_vars => IInv'
  BY Step, UpdateAssumption
<1>3. QED BY <1>1, <1>2, PTL DEF Spec

\* The state of an update always has its types, and a killed update leaves
\* neither cmdlists nor actions behind.
THEOREM TypeCorrect == Spec => []TypeOK
<1>1. IInv => TypeOK
  BY DEF IInv
<1>2. QED BY <1>1, Invariant, PTL

\* No handler of the task drops a range, and create_commands leaves nothing
\* out between two ranges.
THEOREM HeadersNotForgotten == Spec => []NothingForgotten
<1>1. IInv => NothingForgotten
  BY DEF IInv
<1>2. QED BY <1>1, Invariant, PTL

\* What commit and the constructor hand from one update to the next, over
\* kills and crashes, begins and ends with stored headers.
THEOREM RecordIsStored == Spec => []RecordedEnds
<1>1. IInv => RecordedEnds
  BY DEF IInv
<1>2. QED BY <1>1, Invariant, PTL

\* An update that is complete has asked for the whole group.
THEOREM CompleteUpdates == Spec => []CompleteHasAll
<1>1. ASSUME IInv
      PROVE  CompleteHasAll
  <2>1. SUFFICES ASSUME status = "complete", ~HasCommands(remote, xover)
                 PROVE  Existing \cap Interval(remote)
                          \subseteq start \cup stored \cup lost \cup InHand
    BY DEF CompleteHasAll
  <2>2. remote \in [first : Nat, last : Nat] /\ xover \in [first : Nat, last : Nat]
    BY <1>1 DEF IInv, TypeOK
  <2>3. xover.first <= remote.first /\ remote.last <= xover.last
    BY <2>1, <2>2 DEF HasCommands
  <2>4. Interval(remote) \subseteq Interval(xover)
    BY <2>2, <2>3 DEF Interval
  <2>5. QED BY <2>1, <2>4, <1>1 DEF IInv, NothingForgotten
<1>2. IInv => CompleteHasAll
  BY <1>1
<1>3. QED BY <1>2, Invariant, PTL

\* No header is forgotten (HeadersKept), whatever the order in which the ranges
\* are received and stored and wherever the program is killed.
THEOREM HeadersAreKept == Spec => []HeadersKept
<1>1. QED
  BY HeadersNotForgotten, CompleteUpdates, RecordIsStored, PTL DEF HeadersKept

\* A header is asked for once, in ranges of at most RangeSize that do not
\* overlap, whatever the server says of the group meanwhile.
THEOREM HeadersAskedOnce == Spec => AskedOnce
<1> DEFINE Once == \A c \in lists' \ lists : ~c.canceled =>
                      /\ (UNION c.ranges) \cap (asked \cup start) = {}
                      /\ \A r \in c.ranges : \E f \in r : r \subseteq f .. f + RangeSize - 1
                      /\ Overlapping(c.ranges) = {}
<1>1. ASSUME IInv, [Next]_vars
      PROVE  Once
  <2>1. CASE NoNewCmdlist
    BY <2>1 DEF NoNewCmdlist
  <2>2. ASSUME NEW id \in Slots, Run(id)
        PROVE  Once
    <3>1. CASE lists' = lists \cup {Cmdlist(id, "groupinfo", {})}
      BY <3>1 DEF Cmdlist, Overlapping
    <3>2. ASSUME NEW R \in SUBSET SUBSET Nat, NEW f \in Nat, NEW g \in Nat,
                 lists' = lists \cup {Cmdlist(id, "overview", R)},
                 Sound(R, f .. g),
                 f = xover.last + 1 \/ g = xover.first - 1
          PROVE  Once
      <4>1. /\ UNION R = f .. g
            /\ \A r \in R : \E k \in r : r \subseteq k .. k + RangeSize - 1
            /\ Overlapping(R) = {}
        BY <3>2 DEF Sound
      <4>2. (f .. g) \cap (asked \cup start) = {}
        <5>1. asked \cup start \subseteq Interval(xover) /\ xover \in [first : Nat, last : Nat]
          BY <1>1 DEF IInv, Bounds, TypeOK
        <5>2. (f .. g) \cap Interval(xover) = {}
          BY <5>1, <3>2 DEF Interval
        <5>3. QED BY <5>1, <5>2
      <4>3. \A c \in lists' \ lists : c.ranges = R
        BY <3>2 DEF Cmdlist
      <4>4. QED BY <4>1, <4>2, <4>3
    <3>3. QED BY <3>1, <3>2, <2>2, <1>1, RunAsksOnce, UpdateAssumption
  <2>3. QED BY <2>1, <2>2, <1>1, Step, UpdateAssumption
<1>2. IInv /\ [Next]_vars => [Once]_vars
  BY <1>1
<1>3. QED BY <1>2, Invariant, PTL DEF Spec, AskedOnce
=============================================================================
