-------------------------- MODULE WebEngineProofs --------------------------
(***************************************************************************)
(* Theorems about WebEngine, for any queries, clients and timeouts and     *)
(* callbacks nested to any depth.                                          *)
(***************************************************************************)
EXTENDS WebEngine, CollectionFacts

-----------------------------------------------------------------------------
(* The inductive invariant, on the record of the variables (Now) that the  *)
(* operators of WebEngine map to another one.                              *)

QueryRecords == [submitted : BOOLEAN, active : BOOLEAN, aborted : BOOLEAN,
                 finished : BOOLEAN, ticks : Nat]
Frames == [q : Queries, at : Nat, clears : Nat, submits : SUBSET Queries]
WebRecords == [live : Seq(Queries), dead : Seq(Queries), timer : BOOLEAN,
               query : [Queries -> QueryRecords], replied : [Queries -> Nat],
               held : SUBSET Queries, frames : Seq(Frames), clears : Nat,
               early : SUBSET Queries]

OnList(s) == Range(s.live) \cup Range(s.dead)

\* A query is in one place, only if it was submitted, and not in m_live when its
\* reply has finished.
Placed(s) ==
    /\ IsInjective(s.live) /\ IsInjective(s.dead)
    /\ Range(s.live) \cap Range(s.dead) = {}
    /\ \A q \in OnList(s) : s.query[q].submitted
    /\ \A q \in Range(s.live) : ~s.query[q].finished

\* A callback is the end of the reply, and an aborted query has none.
Called(s) ==
    \A q \in Queries : /\ s.replied[q] <= 1
                       /\ s.replied[q] = 1 => s.query[q].finished /\ ~s.query[q].aborted
                       /\ s.query[q].finished \/ s.query[q].aborted => s.query[q].submitted
                       /\ q \in s.early => s.query[q].finished

\* A query whose reply is still to come.
Due(s, q) == ~s.query[q].aborted /\ ~s.query[q].finished /\ q \in OnList(s)

\* A client holds what is due, and what was called back before it knew of it.
Holds(s) == \A q \in s.held : IF q \in s.early THEN q \notin OnList(s) ELSE Due(s, q)

\* The clients of S wait for submit to return: no other submit is of the same
\* query, and it is due if it was not called back.
Awaits(s, S) ==
    \A q \in S : s.query[q].submitted /\ q \notin s.held /\ (q \in s.early \/ Due(s, q))
Awaited(s, S) ==
    /\ Awaits(s, S)
    /\ \A k \in 1 .. Len(s.frames) :
         /\ Awaits(s, s.frames[k].submits) /\ S \cap s.frames[k].submits = {}
         /\ \A l \in 1 .. Len(s.frames) :
              l # k => s.frames[l].submits \cap s.frames[k].submits = {}

\* A heartbeat that waits for a callback has nothing left to call at or before
\* the position it goes on from, unless m_dead was cleared meanwhile.
Walked(s) ==
    \A k \in 1 .. Len(s.frames) :
        /\ s.frames[k].clears <= s.clears
        /\ s.frames[k].clears = s.clears =>
              /\ s.frames[k].at <= Len(s.dead)
              /\ \A j \in 1 .. s.frames[k].at :
                    s.query[s.dead[j]].aborted \/ s.query[s.dead[j]].finished

\* S has the query whose submit is being performed, or none.
Sound(s, S) ==
    /\ s \in WebRecords /\ S \in SUBSET Queries
    /\ Placed(s) /\ Called(s) /\ Holds(s) /\ Awaited(s, S) /\ Walked(s)

\* With a timeout n that was never lowered: queries are activated and ticked one
\* after the other, none below a and no two as often, so that one at most is late
\* at a heartbeat. Each is held by its client, or is the one of a submit (S).
Ordered(s, n, a, S) ==
    /\ n \in Nat /\ n > 1 /\ s.early = {}
    /\ \A k \in 1 .. Len(s.frames) : s.frames[k].submits = {}
    /\ \A q \in Range(s.live) : /\ ~s.query[q].aborted => q \in s.held \cup S
                                /\ s.query[q].active => s.query[q].ticks \in a .. n - 1
    /\ \A p, q \in Range(s.live) :
         s.query[p].active /\ s.query[q].active /\ s.query[p].ticks = s.query[q].ticks => p = q
    /\ \A q \in Queries : /\ ~s.query[q].active => s.query[q].ticks = 0
                          /\ ~s.query[q].submitted => ~s.query[q].active

\* What is in m_dead has been called back, between the heartbeats.
Steady(s, n) ==
    /\ Ordered(s, n, 1, {})
    /\ \A q \in Range(s.dead) : s.query[q].aborted \/ s.query[q].finished

IInv ==
    /\ timeout \in Timeouts /\ steady \in BOOLEAN
    /\ status \in {"up", "gone", "aborted", "undefined"}
    /\ status = "up" =>
          Sound(Now, {}) /\ ~Fails(Now) /\ (steady => Steady(Now, timeout))
    /\ status # "up" => TypeOK /\ \A q \in Queries : replied[q] <= 1
    /\ steady => early = {} /\ status # "aborted"

-----------------------------------------------------------------------------
(* What the operators change.                                              *)

LEMMA NewRecord ==
    ASSUME NEW l \in Seq(Queries), NEW d \in Seq(Queries), NEW t \in BOOLEAN,
           NEW y \in [Queries -> QueryRecords], NEW p \in [Queries -> Nat],
           NEW h \in SUBSET Queries, NEW f \in Seq(Frames), NEW c \in Nat,
           NEW e \in SUBSET Queries
    PROVE  [live |-> l, dead |-> d, timer |-> t, query |-> y, replied |-> p,
            held |-> h, frames |-> f, clears |-> c, early |-> e] \in WebRecords
  BY DEF WebRecords

LEMMA RecordFields ==
    ASSUME NEW s \in WebRecords
    PROVE  /\ s.live \in Seq(Queries) /\ s.dead \in Seq(Queries) /\ s.timer \in BOOLEAN
           /\ s.query \in [Queries -> QueryRecords] /\ s.replied \in [Queries -> Nat]
           /\ s.held \in SUBSET Queries /\ s.frames \in Seq(Frames) /\ s.clears \in Nat
           /\ s.early \in SUBSET Queries
           /\ Range(s.live) \subseteq Queries /\ Range(s.dead) \subseteq Queries
           /\ \A j \in 1 .. Len(s.live) : s.live[j] \in Queries
           /\ \A j \in 1 .. Len(s.dead) : s.dead[j] \in Queries
           /\ \A k \in 1 .. Len(s.frames) : s.frames[k] \in Frames
<1>1. s.live \in Seq(Queries) /\ s.dead \in Seq(Queries)
  BY DEF WebRecords
<1>2. Range(s.live) \subseteq Queries /\ Range(s.dead) \subseteq Queries
  BY <1>1, RangeFacts
<1> QED BY <1>1, <1>2 DEF WebRecords

\* The flags of all queries are the same.
SameFlags(r, s) ==
    \A p \in Queries : /\ r.query[p].submitted = s.query[p].submitted
                       /\ r.query[p].aborted = s.query[p].aborted
                       /\ r.query[p].finished = s.query[p].finished

\* What receive makes of s.
Received(s, r, q, at, S) ==
    /\ r \in WebRecords
    /\ r.live = s.live /\ r.dead = s.dead /\ r.clears = s.clears
    /\ \A p \in Queries : /\ r.query[p].submitted = s.query[p].submitted
                          /\ r.query[p].aborted = s.query[p].aborted
                          /\ r.query[p].finished = (p = q \/ s.query[p].finished)
                          /\ r.query[p].active = s.query[p].active
                          /\ r.query[p].ticks = s.query[p].ticks
    /\ s.query[q].aborted =>
          /\ r.replied = s.replied /\ r.held = s.held /\ r.frames = s.frames
          /\ r.early = s.early
    /\ ~s.query[q].aborted =>
          /\ \A p \in Queries :
                r.replied[p] = IF p = q THEN s.replied[p] + 1 ELSE s.replied[p]
          /\ r.held = s.held \ {q}
          /\ r.early = IF q \in s.held THEN s.early ELSE s.early \cup {q}
          /\ r.frames = Append(s.frames, [q |-> q, at |-> at, clears |-> s.clears,
                                          submits |-> S])

LEMMA ReceiveFacts ==
    ASSUME NEW s \in WebRecords, NEW q \in Queries, NEW at \in Nat, NEW S \in SUBSET Queries
    PROVE  Received(s, Receive(s, q, at, S), q, at, S)
<1> DEFINE r == Receive(s, q, at, S)
           f == [q |-> q, at |-> at, clears |-> s.clears, submits |-> S]
           e == IF q \in s.held THEN s.early ELSE s.early \cup {q}
<1>1. /\ s.query \in [Queries -> QueryRecords] /\ s.replied \in [Queries -> Nat]
      /\ s.live \in Seq(Queries) /\ s.dead \in Seq(Queries) /\ s.timer \in BOOLEAN
      /\ s.held \in SUBSET Queries /\ s.frames \in Seq(Frames) /\ s.clears \in Nat
      /\ s.early \in SUBSET Queries /\ e \in SUBSET Queries
  BY DEF WebRecords
<1>2. s = [live |-> s.live, dead |-> s.dead, timer |-> s.timer, query |-> s.query,
           replied |-> s.replied, held |-> s.held, frames |-> s.frames, clears |-> s.clears,
           early |-> s.early]
  BY DEF WebRecords
<1>3. f \in Frames
  BY <1>1 DEF Frames
<1>4. Append(s.frames, f) \in Seq(Frames)
  BY <1>1, <1>3
<1> DEFINE fin == [s.query EXCEPT ![q].finished = TRUE]
<1>5. /\ fin \in [Queries -> QueryRecords]
      /\ \A p \in Queries : /\ fin[p].submitted = s.query[p].submitted
                            /\ fin[p].aborted = s.query[p].aborted
                            /\ fin[p].finished = (p = q \/ s.query[p].finished)
                            /\ fin[p].active = s.query[p].active
                            /\ fin[p].ticks = s.query[p].ticks
  BY <1>1 DEF QueryRecords
<1>6. CASE s.query[q].aborted
  <2>1. r = [s EXCEPT !.query = fin]
    BY <1>6, <1>2 DEF Receive
  <2> HIDE DEF fin
  <2>2. /\ r.live = s.live /\ r.dead = s.dead /\ r.timer = s.timer /\ r.query = fin
        /\ r.replied = s.replied /\ r.held = s.held /\ r.frames = s.frames
        /\ r.clears = s.clears /\ r.early = s.early
    BY <2>1, <1>2
  <2>3. r \in WebRecords
    BY <2>1, <1>5 DEF WebRecords
  <2> HIDE DEF r
  <2>4. Received(s, r, q, at, S)
    BY <2>2, <2>3, <1>5, <1>6 DEF Received
  <2> QED BY <2>4 DEF r
<1>7. CASE ~s.query[q].aborted
  <2> DEFINE rep == [s.replied EXCEPT ![q] = @ + 1]
  <2>1. r = [s EXCEPT !.query = fin, !.replied = rep, !.early = e, !.held = s.held \ {q},
                      !.frames = Append(s.frames, f)]
    BY <1>7, <1>2 DEF Receive
  <2>2. /\ rep \in [Queries -> Nat]
        /\ \A p \in Queries : rep[p] = IF p = q THEN s.replied[p] + 1 ELSE s.replied[p]
    BY <1>1
  <2> HIDE DEF rep, fin, f, e
  <2>3. /\ r.live = s.live /\ r.dead = s.dead /\ r.timer = s.timer /\ r.query = fin
        /\ r.replied = rep /\ r.held = s.held \ {q} /\ r.frames = Append(s.frames, f)
        /\ r.clears = s.clears /\ r.early = e
    BY <2>1, <1>2
  <2>4. r = [live |-> s.live, dead |-> s.dead, timer |-> s.timer, query |-> fin,
             replied |-> rep, held |-> s.held \ {q}, frames |-> Append(s.frames, f),
             clears |-> s.clears, early |-> e]
    BY <2>1, <1>2
  <2> HIDE DEF r
  <2>5. s.held \ {q} \in SUBSET Queries
    BY <1>1
  <2>6. r \in WebRecords
    BY <2>2, <2>4, <2>5, <1>1, <1>4, <1>5, NewRecord
  <2>7. Received(s, r, q, at, S)
    BY <2>2, <2>3, <2>6, <1>5, <1>7 DEF f, e, Received
  <2> QED BY <2>7 DEF r
<1> QED BY <1>6, <1>7 DEF r

\* The record when q was taken off m_live.
Taken(t, s, q) ==
    /\ s \in WebRecords /\ IsInjective(s.live) /\ Range(s.live) = Range(t.live) \ {q}
    /\ s.dead = t.dead /\ s.query = t.query /\ s.replied = t.replied /\ s.held = t.held
    /\ s.frames = t.frames /\ s.clears = t.clears /\ s.early = t.early

\* The heartbeat that calls q back is at its position of m_dead, and nothing is
\* left before it.
IsAt(s, q, at) ==
    /\ at \in 0 .. Len(s.dead)
    /\ \A j \in 1 .. at : s.dead[j] = q \/ s.query[s.dead[j]].aborted
                                        \/ s.query[s.dead[j]].finished

LEMMA ReceiveSound ==
    ASSUME NEW t, NEW S, Sound(t, S), NEW q \in Queries, q \in OnList(t), ~t.query[q].finished,
           NEW s, Taken(t, s, q), NEW at, IsAt(s, q, at), NEW r, Received(s, r, q, at, S)
    PROVE  Sound(r, {})
<1>1. /\ s.live \in Seq(Queries) /\ s.dead \in Seq(Queries) /\ at \in Nat
      /\ s.held \in SUBSET Queries /\ s.frames \in Seq(Frames) /\ s.clears \in Nat
      /\ s.replied \in [Queries -> Nat] /\ s.query \in [Queries -> QueryRecords]
      /\ Range(s.live) \subseteq Queries /\ Range(s.dead) \subseteq Queries
      /\ S \in SUBSET Queries /\ s.early \in SUBSET Queries
      /\ \A k \in 1 .. Len(s.frames) : s.frames[k] \in Frames
  BY RecordFields DEF Taken, IsAt, Sound
<1>2. /\ r \in WebRecords
      /\ r.live = s.live /\ r.dead = s.dead /\ r.clears = s.clears
      /\ \A p \in Queries : /\ r.query[p].submitted = s.query[p].submitted
                            /\ r.query[p].aborted = s.query[p].aborted
                            /\ r.query[p].finished = (p = q \/ s.query[p].finished)
      /\ s.query[q].aborted =>
            /\ r.replied = s.replied /\ r.held = s.held /\ r.frames = s.frames
            /\ r.early = s.early
      /\ ~s.query[q].aborted =>
            /\ \A p \in Queries :
                  r.replied[p] = IF p = q THEN s.replied[p] + 1 ELSE s.replied[p]
            /\ r.held = s.held \ {q}
            /\ r.early = IF q \in s.held THEN s.early ELSE s.early \cup {q}
            /\ r.frames = Append(s.frames, [q |-> q, at |-> at, clears |-> s.clears,
                                            submits |-> S])
  BY DEF Received
<1>3. /\ Placed(t) /\ Called(t) /\ Holds(t) /\ Awaited(t, S) /\ Walked(t)
      /\ IsInjective(s.live) /\ Range(s.live) = Range(t.live) \ {q}
      /\ s.dead = t.dead /\ s.query = t.query /\ s.replied = t.replied /\ s.held = t.held
      /\ s.frames = t.frames /\ s.clears = t.clears /\ s.early = t.early
  BY DEF Sound, Taken
<1>4. /\ s.query[q].submitted /\ ~s.query[q].finished /\ q \notin s.early
      /\ q \in s.held => ~s.query[q].aborted
  BY <1>3 DEF Placed, Called, Holds, Due
<1>5. Placed(r)
  <2>1. \A p \in OnList(r) : p \in Queries /\ p \in OnList(t)
    BY <1>1, <1>2, <1>3 DEF OnList
  <2>2. \A p \in Range(r.live) : p # q /\ p \in Range(t.live) /\ p \in Queries
    BY <1>1, <1>2, <1>3
  <2>3. /\ IsInjective(r.live) /\ IsInjective(r.dead) /\ Range(r.live) \cap Range(r.dead) = {}
    BY <1>2, <1>3 DEF Placed
  <2> QED BY <2>1, <2>2, <2>3, <1>2, <1>3 DEF Placed
<1>6. Called(r)
  <2> SUFFICES ASSUME NEW p \in Queries
               PROVE  /\ r.replied[p] <= 1
                      /\ r.replied[p] = 1 => r.query[p].finished /\ ~r.query[p].aborted
                      /\ r.query[p].finished \/ r.query[p].aborted => r.query[p].submitted
                      /\ p \in r.early => r.query[p].finished
    BY DEF Called
  <2>1. /\ s.replied[p] \in Nat /\ s.replied[p] <= 1
        /\ s.replied[p] = 1 => s.query[p].finished /\ ~s.query[p].aborted
        /\ s.query[p].finished \/ s.query[p].aborted => s.query[p].submitted
        /\ p \in s.early => s.query[p].finished
    BY <1>1, <1>3 DEF Called
  <2>2. CASE s.query[q].aborted BY <2>1, <2>2, <1>2, <1>4
  <2>3. CASE ~s.query[q].aborted /\ p # q BY <2>1, <2>3, <1>2
  <2>4. CASE ~s.query[q].aborted /\ p = q
    <3>1. s.replied[p] = 0 BY <2>1, <2>4, <1>4
    <3>2. r.replied[p] = s.replied[p] + 1 BY <2>4, <1>2
    <3>3. r.query[p].finished /\ ~r.query[p].aborted /\ r.query[p].submitted BY <2>4, <1>2, <1>4
    <3> QED BY <3>1, <3>2, <3>3
  <2> QED BY <2>2, <2>3, <2>4
<1>7. \A p \in Queries : p # q =>
         /\ p \in r.early <=> p \in t.early
         /\ p \in r.held <=> p \in t.held
         /\ p \in OnList(r) <=> p \in OnList(t)
         /\ Due(t, p) => Due(r, p)
         /\ r.query[p].submitted = t.query[p].submitted
  BY <1>2, <1>3 DEF OnList, Due
<1>8. Holds(r)
  <2> SUFFICES ASSUME NEW p \in r.held
               PROVE  IF p \in r.early THEN p \notin OnList(r) ELSE Due(r, p)
    BY DEF Holds
  <2>1. p \in t.held /\ p \in Queries
    BY <1>1, <1>2, <1>3
  <2>2. p # q
    BY <2>1, <1>2, <1>3, <1>4
  <2> QED BY <2>1, <2>2, <1>3, <1>7 DEF Holds
<1>9. ASSUME NEW T \in SUBSET Queries, Awaits(t, T) PROVE Awaits(r, T)
  <2> SUFFICES ASSUME NEW p \in T
               PROVE  r.query[p].submitted /\ p \notin r.held /\ (p \in r.early \/ Due(r, p))
    BY DEF Awaits
  <2>1. p \in Queries /\ t.query[p].submitted /\ p \notin t.held /\ (p \in t.early \/ Due(t, p))
    BY <1>9 DEF Awaits
  <2>2. CASE p # q
    BY <2>1, <2>2, <1>7
  <2>3. CASE p = q
    <3>1. q \notin s.held /\ ~s.query[q].aborted
      BY <2>1, <2>3, <1>3, <1>4 DEF Due
    <3>2. q \in r.early /\ q \notin r.held
      BY <3>1, <1>2
    <3> QED BY <2>3, <3>2, <1>2, <1>4
  <2> QED BY <2>2, <2>3
<1>10. \A k \in 1 .. Len(s.frames) : s.frames[k].submits \in SUBSET Queries
  BY <1>1 DEF Frames
<1>11. /\ Awaits(r, S)
       /\ \A k \in 1 .. Len(s.frames) :
            /\ Awaits(r, s.frames[k].submits) /\ S \cap s.frames[k].submits = {}
            /\ \A l \in 1 .. Len(s.frames) :
                 l # k => s.frames[l].submits \cap s.frames[k].submits = {}
  BY <1>1, <1>3, <1>9, <1>10 DEF Awaited
<1>12. Awaits(r, {})
  BY DEF Awaits
<1>13. ASSUME NEW k \in 1 .. Len(s.frames)
       PROVE  /\ s.frames[k].clears <= r.clears
              /\ s.frames[k].clears = r.clears =>
                    /\ s.frames[k].at <= Len(r.dead)
                    /\ \A j \in 1 .. s.frames[k].at :
                          r.query[r.dead[j]].aborted \/ r.query[r.dead[j]].finished
  <2>1. /\ s.frames[k].clears <= s.clears /\ s.frames[k] \in Frames
        /\ s.frames[k].clears = s.clears =>
              /\ s.frames[k].at <= Len(s.dead)
              /\ \A j \in 1 .. s.frames[k].at :
                    s.query[s.dead[j]].aborted \/ s.query[s.dead[j]].finished
    BY <1>1, <1>3 DEF Walked
  <2>2. s.frames[k].at \in Nat
    BY <2>1 DEF Frames
  <2>3. s.frames[k].at <= Len(s.dead) => \A j \in 1 .. s.frames[k].at : s.dead[j] \in Queries
    BY <1>1, <2>2
  <2>4. \A p \in Queries : s.query[p].aborted \/ s.query[p].finished
                             => r.query[p].aborted \/ r.query[p].finished
    BY <1>2
  <2> QED BY <2>1, <2>3, <2>4, <1>2
<1>14. CASE s.query[q].aborted
  <2>1. r.frames = s.frames
    BY <1>2, <1>14
  <2>2. Awaited(r, {}) /\ Walked(r)
    BY <2>1, <1>11, <1>12, <1>13 DEF Awaited, Walked
  <2> QED BY <2>2, <1>2, <1>5, <1>6, <1>8 DEF Sound
<1>15. CASE ~s.query[q].aborted
  <2> DEFINE f == [q |-> q, at |-> at, clears |-> s.clears, submits |-> S]
             n == Len(s.frames)
  <2>1. /\ n \in Nat /\ Len(r.frames) = n + 1 /\ r.frames[n + 1] = f
        /\ \A k \in 1 .. n : r.frames[k] = s.frames[k]
    BY <1>1, <1>2, <1>15
  <2>2. \A k \in 1 .. n + 1 : k \in 1 .. n \/ k = n + 1
    BY <2>1
  <2>3. f.clears = s.clears /\ f.at = at /\ f.submits = S
    OBVIOUS
  <2> HIDE DEF f, n
  <2>4. /\ \A k \in 1 .. n : s.frames[k].submits \cap S = {}
        /\ \A k \in 1 .. n, l \in 1 .. n : l # k => s.frames[l].submits \cap s.frames[k].submits = {}
        /\ \A k \in 1 .. n : Awaits(r, s.frames[k].submits)
    BY <1>11 DEF n
  <2>5. Awaited(r, {})
    <3>1. ASSUME NEW k \in 1 .. n + 1 PROVE Awaits(r, r.frames[k].submits)
      BY <2>1, <2>2, <2>3, <2>4, <1>11
    <3>2. ASSUME NEW k \in 1 .. n + 1, NEW l \in 1 .. n + 1, l # k
          PROVE  r.frames[l].submits \cap r.frames[k].submits = {}
      <4>1. CASE k \in 1 .. n /\ l \in 1 .. n
        BY <4>1, <3>2, <2>1, <2>4
      <4>2. CASE k = n + 1 /\ l \in 1 .. n
        BY <4>2, <2>1, <2>3, <2>4
      <4>3. CASE k \in 1 .. n /\ l = n + 1
        BY <4>3, <2>1, <2>3, <2>4
      <4> QED BY <4>1, <4>2, <4>3, <3>2, <2>2
    <3> QED BY <3>1, <3>2, <2>1, <1>12 DEF Awaited
  <2>6. /\ f.clears <= r.clears /\ f.at <= Len(r.dead)
        /\ \A j \in 1 .. f.at : r.query[r.dead[j]].aborted \/ r.query[r.dead[j]].finished
    <3>1. \A j \in 1 .. at : s.dead[j] \in Queries
      BY <1>1 DEF IsAt
    <3>2. \A j \in 1 .. at : r.query[s.dead[j]].aborted \/ r.query[s.dead[j]].finished
      BY <1>2, <3>1 DEF IsAt
    <3>3. r.clears <= r.clears BY <1>1, <1>2
    <3>4. at <= Len(s.dead)
      BY <1>1 DEF IsAt
    <3> QED BY <2>3, <3>2, <3>3, <3>4, <1>2
  <2>7. Walked(r)
    <3> SUFFICES ASSUME NEW k \in 1 .. n + 1
                 PROVE  /\ r.frames[k].clears <= r.clears
                        /\ r.frames[k].clears = r.clears =>
                              /\ r.frames[k].at <= Len(r.dead)
                              /\ \A j \in 1 .. r.frames[k].at :
                                    r.query[r.dead[j]].aborted \/ r.query[r.dead[j]].finished
      BY <2>1 DEF Walked
    <3>1. CASE k \in 1 .. n
      BY <3>1, <2>1, <1>13 DEF n
    <3>2. CASE k = n + 1
      <4>1. r.frames[k] = f BY <3>2, <2>1
      <4> QED BY <4>1, <2>6
    <3> QED BY <3>1, <3>2, <2>2
  <2> QED BY <2>5, <2>7, <1>2, <1>5, <1>6, <1>8 DEF Sound
<1> QED BY <1>14, <1>15

-----------------------------------------------------------------------------
(* The steps of a heartbeat.                                               *)

\* r is s with some queries of m_live in m_dead (gone) and some that are aborted
\* in neither; the timer and the ticks may be others.
Moved(s, r, gone) ==
    /\ s \in WebRecords /\ r \in WebRecords /\ gone \in Seq(Queries)
    /\ r.replied = s.replied /\ r.held = s.held /\ r.frames = s.frames
    /\ r.clears = s.clears /\ r.early = s.early /\ r.dead = s.dead \o gone
    /\ SameFlags(r, s)
    /\ IsInjective(r.live) /\ IsInjective(gone) /\ Range(r.live) \cap Range(gone) = {}
    /\ Range(r.live) \subseteq Range(s.live) /\ Range(gone) \subseteq Range(s.live)
    /\ \A q \in Range(s.live) :
         ~s.query[q].aborted => q \in Range(r.live) \/ q \in Range(gone)

LEMMA MovedSound ==
    ASSUME NEW s, NEW S, Sound(s, S), NEW gone, NEW r, Moved(s, r, gone)
    PROVE  Sound(r, S)
<1>1. /\ s \in WebRecords /\ r \in WebRecords /\ S \in SUBSET Queries
      /\ Placed(s) /\ Called(s) /\ Holds(s) /\ Awaited(s, S) /\ Walked(s)
  BY DEF Sound, Moved
<1>2. /\ s.live \in Seq(Queries) /\ s.dead \in Seq(Queries) /\ gone \in Seq(Queries)
      /\ s.frames \in Seq(Frames) /\ s.held \in SUBSET Queries
      /\ \A j \in 1 .. Len(s.dead) : s.dead[j] \in Queries
      /\ \A k \in 1 .. Len(s.frames) : s.frames[k] \in Frames
      /\ Range(s.live) \subseteq Queries /\ Range(s.dead) \subseteq Queries
  BY <1>1, RecordFields DEF Moved
<1>3. /\ r.replied = s.replied /\ r.held = s.held /\ r.frames = s.frames
      /\ r.clears = s.clears /\ r.early = s.early /\ r.dead = s.dead \o gone
      /\ IsInjective(r.live) /\ IsInjective(gone) /\ Range(r.live) \cap Range(gone) = {}
      /\ Range(r.live) \subseteq Range(s.live) /\ Range(gone) \subseteq Range(s.live)
  BY DEF Moved
<1>4. \A p \in Queries : /\ r.query[p].submitted = s.query[p].submitted
                         /\ r.query[p].aborted = s.query[p].aborted
                         /\ r.query[p].finished = s.query[p].finished
  BY DEF Moved, SameFlags
<1>5. /\ Range(r.dead) = Range(s.dead) \cup Range(gone) /\ IsInjective(r.dead)
  <2>1. IsInjective(s.dead) /\ Range(s.dead) \cap Range(gone) = {}
    BY <1>1, <1>3 DEF Placed
  <2> QED BY <2>1, <1>2, <1>3, ConcatFacts
<1>6. /\ OnList(r) \subseteq OnList(s) /\ OnList(s) \subseteq Queries
      /\ \A q \in OnList(s) : ~s.query[q].aborted => q \in OnList(r)
  BY <1>2, <1>3, <1>5 DEF OnList, Moved
<1>7. Placed(r)
  <2>1. \A q \in OnList(r) : r.query[q].submitted
    BY <1>1, <1>4, <1>6 DEF Placed
  <2>2. \A q \in Range(r.live) : ~r.query[q].finished
    BY <1>1, <1>2, <1>3, <1>4 DEF Placed
  <2>3. Range(r.live) \cap Range(r.dead) = {}
    BY <1>1, <1>3, <1>5 DEF Placed
  <2> QED BY <2>1, <2>2, <2>3, <1>3, <1>5 DEF Placed
<1>8. Called(r)
  BY <1>1, <1>3, <1>4 DEF Called
<1>9. \A q \in Queries : Due(s, q) => Due(r, q)
  BY <1>4, <1>6 DEF Due
<1>10. Holds(r)
  BY <1>1, <1>2, <1>3, <1>6, <1>9 DEF Holds
<1>11. ASSUME NEW T \in SUBSET Queries, Awaits(s, T) PROVE Awaits(r, T)
  BY <1>3, <1>4, <1>9, <1>11 DEF Awaits
<1>12. Awaited(r, S)
  <2>1. \A k \in 1 .. Len(s.frames) : s.frames[k].submits \in SUBSET Queries
    BY <1>2 DEF Frames
  <2> QED BY <2>1, <1>1, <1>3, <1>11 DEF Awaited
<1>13. Walked(r)
  <2> SUFFICES ASSUME NEW k \in 1 .. Len(s.frames), s.frames[k].clears = s.clears
               PROVE  /\ s.frames[k].at <= Len(r.dead)
                      /\ \A j \in 1 .. s.frames[k].at :
                            r.query[r.dead[j]].aborted \/ r.query[r.dead[j]].finished
    BY <1>1, <1>3 DEF Walked
  <2>1. /\ s.frames[k].at <= Len(s.dead) /\ s.frames[k] \in Frames
        /\ \A j \in 1 .. s.frames[k].at :
              s.query[s.dead[j]].aborted \/ s.query[s.dead[j]].finished
    BY <1>1, <1>2 DEF Walked
  <2>2. s.frames[k].at \in Nat
    BY <2>1 DEF Frames
  <2>3. /\ Len(r.dead) = Len(s.dead) + Len(gone) /\ Len(gone) \in Nat /\ Len(s.dead) \in Nat
        /\ \A j \in 1 .. Len(s.dead) : r.dead[j] = s.dead[j]
    BY <1>2, <1>3
  <2>4. s.frames[k].at <= Len(r.dead)
    BY <2>1, <2>2, <2>3
  <2>5. ASSUME NEW j \in 1 .. s.frames[k].at
        PROVE  r.query[r.dead[j]].aborted \/ r.query[r.dead[j]].finished
    <3>1. j \in 1 .. Len(s.dead)
      BY <2>1, <2>2, <2>3, <2>5
    <3>2. r.dead[j] = s.dead[j] /\ s.dead[j] \in Queries
      BY <3>1, <2>3, <1>2
    <3> QED BY <3>2, <2>1, <2>5, <1>4
  <2> QED BY <2>4, <2>5
<1> QED BY <1>1, <1>7, <1>8, <1>10, <1>12, <1>13 DEF Sound

\* m_timer.stop(), and nothing else.
LEMMA FinishFacts ==
    ASSUME NEW s \in WebRecords
    PROVE  /\ Finish(s) \in WebRecords
           /\ Finish(s).live = s.live /\ Finish(s).dead = s.dead
           /\ Finish(s).query = s.query /\ Finish(s).replied = s.replied
           /\ Finish(s).held = s.held /\ Finish(s).frames = s.frames
           /\ Finish(s).clears = s.clears /\ Finish(s).early = s.early
  BY DEF Finish, WebRecords

LEMMA FinishSound ==
    ASSUME NEW s, NEW S, Sound(s, S)
    PROVE  Sound(Finish(s), S)
<1>1. s \in WebRecords /\ Placed(s)
  BY DEF Sound
<1>2. s.dead \in Seq(Queries)
  BY <1>1, RecordFields
<1>3. <<>> \in Seq(Queries) /\ Range(<<>>) = {} /\ IsInjective(<<>>) /\ s.dead = s.dead \o <<>>
  <2>1. DOMAIN <<>> = {} OBVIOUS
  <2> QED BY <2>1, <1>2 DEF Range, IsInjective
<1> DEFINE r == Finish(s)
<1>4. /\ r \in WebRecords /\ r.live = s.live /\ r.dead = s.dead /\ r.query = s.query
      /\ r.replied = s.replied /\ r.held = s.held /\ r.frames = s.frames
      /\ r.clears = s.clears /\ r.early = s.early
  BY <1>1, FinishFacts
<1> HIDE DEF r
<1>5. Moved(s, r, <<>>)
  BY <1>1, <1>3, <1>4 DEF Moved, SameFlags, Placed
<1>6. Sound(r, S)
  BY <1>5, MovedSound
<1> QED BY <1>6 DEF r

\* What is left to call of m_dead, when nothing before i is.
IsPassed(s, i) ==
    /\ i \in 1 .. Len(s.dead) + 1
    /\ \A j \in 1 .. i - 1 : s.query[s.dead[j]].aborted \/ s.query[s.dead[j]].finished

\* The walk calls the first one back that is left.
LEMMA WalkCalls ==
    ASSUME NEW s \in WebRecords, NEW i, IsPassed(s, i), Calling(s, i) # {}, NEW S
    PROVE  \E m \in 1 .. Len(s.dead) :
              /\ Walk(s, i, S) = Receive(s, s.dead[m], m, S)
              /\ ~s.query[s.dead[m]].aborted /\ ~s.query[s.dead[m]].finished
              /\ IsAt(s, s.dead[m], m)
<1> DEFINE m == Min(Calling(s, i))
<1>1. Calling(s, i) \in SUBSET Nat /\ s.dead \in Seq(Queries) /\ i \in 1 .. Len(s.dead) + 1
  BY RecordFields DEF Calling, IsPassed
<1>2. m \in Calling(s, i) /\ \A j \in Calling(s, i) : m <= j
  BY <1>1, MinFacts
<1>3. Walk(s, i, S) = Receive(s, s.dead[m], m, S)
  BY DEF Walk
<1> HIDE DEF m
<1>4. /\ m \in i .. Len(s.dead) /\ m \in 1 .. Len(s.dead) /\ m \in 0 .. Len(s.dead)
      /\ ~s.query[s.dead[m]].aborted /\ ~s.query[s.dead[m]].finished
  BY <1>1, <1>2 DEF Calling
<1>5. ASSUME NEW j \in 1 .. m
      PROVE  s.dead[j] = s.dead[m] \/ s.query[s.dead[j]].aborted \/ s.query[s.dead[j]].finished
  <2>1. CASE j = m BY <2>1
  <2>2. CASE j < i
    <3>1. j \in 1 .. i - 1 BY <2>2, <1>1
    <3> QED BY <3>1 DEF IsPassed
  <2>3. CASE j >= i /\ j # m
    <3>1. j \in i .. Len(s.dead) /\ j \notin Calling(s, i)
      BY <2>3, <1>1, <1>2, <1>4
    <3> QED BY <3>1 DEF Calling
  <2> QED BY <2>1, <2>2, <2>3, <1>1, <1>4
<1> QED BY <1>3, <1>4, <1>5 DEF IsAt

\* A heartbeat has ended, and so has the submit that called it: m_dead is empty,
\* and the client of a submit has its pointer.
Stored(s, r, S) ==
    /\ s \in WebRecords /\ r \in WebRecords
    /\ r.live = s.live /\ r.query = s.query /\ r.replied = s.replied
    /\ r.held = s.held \cup S /\ r.frames = s.frames /\ r.early = s.early
    /\ \/ /\ r.dead = <<>> /\ r.clears = s.clears + 1
          /\ \A q \in Range(s.dead) : s.query[q].aborted \/ s.query[q].finished
       \/ /\ r.dead = s.dead /\ r.clears = s.clears
          /\ s.dead = <<>> \/ S \cap s.early = {}

LEMMA WalkEnds ==
    ASSUME NEW s \in WebRecords, NEW i, IsPassed(s, i), Calling(s, i) = {}, NEW S \in SUBSET Queries
    PROVE  \E r : Stored(s, r, S) /\ r.dead = <<>> /\ Walk(s, i, S) = Finish(r)
<1> DEFINE r == [s EXCEPT !.dead = <<>>, !.clears = @ + 1, !.held = @ \cup S]
<1>1. s.dead \in Seq(Queries) /\ s.clears \in Nat /\ s.held \in SUBSET Queries
  BY RecordFields
<1>2. <<>> \in Seq(Queries) /\ s.clears + 1 \in Nat /\ s.held \cup S \in SUBSET Queries
  BY <1>1
<1>3. Walk(s, i, S) = Finish(r)
  BY DEF Walk
<1>4. ASSUME NEW q \in Range(s.dead) PROVE s.query[q].aborted \/ s.query[q].finished
  <2>1. PICK j \in 1 .. Len(s.dead) : q = s.dead[j]
    BY <1>1, <1>4, RangeFacts
  <2>2. CASE j < i
    <3>1. j \in 1 .. i - 1 BY <2>2, <1>1 DEF IsPassed
    <3> QED BY <3>1, <2>1 DEF IsPassed
  <2>3. CASE j >= i
    <3>1. j \in i .. Len(s.dead) BY <2>3, <1>1 DEF IsPassed
    <3> QED BY <3>1, <2>1 DEF Calling
  <2> QED BY <2>2, <2>3, <1>1 DEF IsPassed
<1>5. /\ r \in WebRecords /\ r.live = s.live /\ r.dead = <<>> /\ r.query = s.query
      /\ r.replied = s.replied /\ r.held = s.held \cup S /\ r.frames = s.frames
      /\ r.clears = s.clears + 1 /\ r.early = s.early
  BY <1>2 DEF WebRecords
<1> HIDE DEF r
<1>6. Stored(s, r, S)
  BY <1>4, <1>5 DEF Stored
<1> QED BY <1>3, <1>5, <1>6

LEMMA StoredSound ==
    ASSUME NEW s, NEW S, Sound(s, S), NEW r, Stored(s, r, S)
    PROVE  Sound(r, {})
<1>1. /\ r.live = s.live /\ r.query = s.query /\ r.replied = s.replied
      /\ r.held = s.held \cup S /\ r.frames = s.frames /\ r.early = s.early
      /\ r \in WebRecords /\ s \in WebRecords /\ S \in SUBSET Queries
      /\ Placed(s) /\ Called(s) /\ Holds(s) /\ Awaited(s, S) /\ Walked(s)
  BY DEF Stored, Sound
<1>2. /\ s.frames \in Seq(Frames) /\ s.clears \in Nat /\ s.held \in SUBSET Queries
      /\ \A k \in 1 .. Len(s.frames) : s.frames[k] \in Frames
  BY <1>1, RecordFields
<1>3. Range(<<>>) = {} /\ IsInjective(<<>>)
  <2>1. DOMAIN <<>> = {} OBVIOUS
  <2> QED BY <2>1 DEF Range, IsInjective
<1>4. Range(r.dead) \subseteq Range(s.dead) /\ IsInjective(r.dead)
  BY <1>1, <1>3 DEF Stored, Placed
<1>5. Placed(r) /\ Called(r)
  BY <1>1, <1>4 DEF Placed, Called, OnList
<1>6. /\ OnList(r) \subseteq OnList(s)
      /\ \A q \in Queries : Due(s, q) => Due(r, q)
  BY <1>1, <1>4 DEF OnList, Due, Stored
<1>7. Holds(r)
  <2> SUFFICES ASSUME NEW q \in r.held
               PROVE  IF q \in r.early THEN q \notin OnList(r) ELSE Due(r, q)
    BY DEF Holds
  <2>1. CASE q \in s.held
    BY <2>1, <1>1, <1>2, <1>6 DEF Holds
  <2>2. CASE q \in S
    <3>1. q \in Queries /\ (q \in s.early \/ Due(s, q))
      BY <2>2, <1>1 DEF Awaited, Awaits
    <3>2. CASE q \in s.early
      <4>1. q \notin Range(r.live)
        BY <3>1, <3>2, <1>1 DEF Placed, Called
      <4>2. Range(r.dead) = {}
        BY <2>2, <3>2, <1>3 DEF Stored
      <4> QED BY <4>1, <4>2, <3>2, <1>1 DEF OnList
    <3> QED BY <3>1, <3>2, <1>1, <1>6
  <2> QED BY <2>1, <2>2, <1>1
<1>8. ASSUME NEW T \in SUBSET Queries, Awaits(s, T), T \cap S = {} PROVE Awaits(r, T)
  BY <1>1, <1>6, <1>8 DEF Awaits
<1>9. Awaited(r, {})
  <2>1. \A k \in 1 .. Len(s.frames) : s.frames[k].submits \in SUBSET Queries
    BY <1>2 DEF Frames
  <2>2. Awaits(r, {})
    BY DEF Awaits
  <2>3. \A k \in 1 .. Len(s.frames) :
          Awaits(s, s.frames[k].submits) /\ s.frames[k].submits \cap S = {}
    BY <1>1 DEF Awaited
  <2>4. \A k \in 1 .. Len(r.frames) :
          \A l \in 1 .. Len(r.frames) :
            l # k => r.frames[l].submits \cap r.frames[k].submits = {}
    BY <1>1 DEF Awaited
  <2>5. \A k \in 1 .. Len(r.frames) : Awaits(r, r.frames[k].submits)
    BY <2>1, <2>3, <1>1, <1>8
  <2> QED BY <2>2, <2>4, <2>5 DEF Awaited
<1>10. Walked(r)
  <2>1. CASE r.clears = s.clears /\ r.dead = s.dead
    BY <2>1, <1>1 DEF Walked
  <2>2. CASE r.clears = s.clears + 1
    <3> SUFFICES ASSUME NEW k \in 1 .. Len(s.frames)
                 PROVE  s.frames[k].clears <= s.clears + 1 /\ s.frames[k].clears # s.clears + 1
      BY <2>2, <1>1 DEF Walked
    <3>1. s.frames[k].clears <= s.clears /\ s.frames[k] \in Frames
      BY <1>1, <1>2 DEF Walked
    <3>2. s.frames[k].clears \in Nat
      BY <3>1 DEF Frames
    <3> QED BY <3>1, <3>2, <1>2
  <2> QED BY <2>1, <2>2 DEF Stored
<1> QED BY <1>1, <1>5, <1>7, <1>9, <1>10 DEF Sound

LEMMA WalkSound ==
    ASSUME NEW s, NEW S, Sound(s, S), NEW i, IsPassed(s, i)
    PROVE  Sound(Walk(s, i, S), {})
<1>1. s \in WebRecords /\ Placed(s) /\ S \in SUBSET Queries
  BY DEF Sound
<1>2. CASE Calling(s, i) # {}
  <2>1. PICK m \in 1 .. Len(s.dead) :
              /\ Walk(s, i, S) = Receive(s, s.dead[m], m, S)
              /\ ~s.query[s.dead[m]].aborted /\ ~s.query[s.dead[m]].finished
              /\ IsAt(s, s.dead[m], m)
    BY <1>1, <1>2, WalkCalls
  <2>2. PICK q \in Queries : q = s.dead[m]
    BY <1>1, RecordFields
  <2>3. q \in Range(s.dead) /\ m \in Nat
    <3>1. s.dead \in Seq(Queries) BY <1>1, RecordFields
    <3> QED BY <3>1, <2>2, RangeFacts
  <2>4. Taken(s, s, q)
    BY <2>3, <1>1 DEF Taken, Placed
  <2>5. PICK r : r = Receive(s, q, m, S)
    OBVIOUS
  <2>6. Received(s, r, q, m, S)
    BY <2>3, <2>5, <1>1, ReceiveFacts
  <2>7. q \in OnList(s) /\ ~s.query[q].finished /\ IsAt(s, q, m)
    BY <2>1, <2>2, <2>3 DEF OnList
  <2>8. Sound(r, {})
    BY <2>4, <2>6, <2>7, ReceiveSound
  <2> QED BY <2>1, <2>2, <2>5, <2>8
<1>3. CASE Calling(s, i) = {}
  <2>1. PICK r : Stored(s, r, S) /\ Walk(s, i, S) = Finish(r)
    BY <1>1, <1>3, WalkEnds
  <2>2. Sound(r, {})
    BY <2>1, StoredSound
  <2> QED BY <2>1, <2>2, FinishSound
<1> QED BY <1>2, <1>3

\* One query of m_live at most is submitted; the others stay as they are.
Activates(s, r) ==
    /\ Moved(s, r, <<>>) /\ r.live = s.live
    /\ \A p \in Queries : /\ r.query[p].ticks = s.query[p].ticks
                          /\ s.query[p].active => r.query[p].active
                          /\ r.query[p].active /\ ~s.query[p].active => p \in Range(s.live)
    /\ \A p, q \in Queries : /\ r.query[p].active /\ ~s.query[p].active
                             /\ r.query[q].active /\ ~s.query[q].active
                             => p = q

LEMMA SubmitNextFacts ==
    ASSUME NEW s \in WebRecords, Placed(s)
    PROVE  Activates(s, SubmitNext(s))
<1> DEFINE waiting == {i \in 1 .. Len(s.live) : ~s.query[s.live[i]].active
                                               /\ ~s.query[s.live[i]].aborted}
           q == s.live[Min(waiting)]
           r == [s EXCEPT !.query[q].active = TRUE]
<1>0. /\ <<>> \in Seq(Queries) /\ Range(<<>>) = {} /\ IsInjective(<<>>)
      /\ s.dead = s.dead \o <<>> /\ s.live \in Seq(Queries)
      /\ s.query \in [Queries -> QueryRecords]
  <2>1. DOMAIN <<>> = {} OBVIOUS
  <2>2. s.dead \in Seq(Queries) BY RecordFields
  <2> QED BY <2>1, <2>2, RecordFields DEF Range, IsInjective
<1>1. CASE waiting = {}
  <2>1. SubmitNext(s) = s
    BY <1>1 DEF SubmitNext
  <2>2. Moved(s, s, <<>>)
    BY <1>0 DEF Moved, SameFlags, Placed
  <2>3. Activates(s, s)
    BY <2>2 DEF Activates
  <2> QED BY <2>1, <2>3
<1>2. CASE waiting # {}
  <2>1. Min(waiting) \in 1 .. Len(s.live) /\ ~s.query[q].active
    <3>1. waiting \in SUBSET Nat OBVIOUS
    <3>2. PICK m : m = Min(waiting) OBVIOUS
    <3> HIDE DEF waiting
    <3>3. m \in waiting BY <3>1, <3>2, <1>2, MinFacts
    <3> QED BY <3>2, <3>3 DEF waiting
  <2>2. q \in Queries /\ q \in Range(s.live)
    <3>1. PICK m \in 1 .. Len(s.live) : m = Min(waiting)
      BY <2>1
    <3>2. s.live[m] \in Queries /\ s.live[m] \in Range(s.live)
      BY <1>0, RangeFacts
    <3> QED BY <3>1, <3>2
  <2>3. SubmitNext(s) = r
    BY <1>2 DEF SubmitNext
  <2> HIDE DEF q
  <2> DEFINE y == [s.query EXCEPT ![q].active = TRUE]
  <2>4. r = [s EXCEPT !.query = y]
    BY <1>0
  <2>5. /\ y \in [Queries -> QueryRecords]
        /\ \A p \in Queries : /\ y[p].submitted = s.query[p].submitted
                              /\ y[p].aborted = s.query[p].aborted
                              /\ y[p].finished = s.query[p].finished
                              /\ y[p].ticks = s.query[p].ticks
                              /\ y[p].active = (p = q \/ s.query[p].active)
    BY <2>2, <1>0 DEF QueryRecords
  <2> HIDE DEF y, r
  <2>6. /\ r \in WebRecords /\ r.live = s.live /\ r.dead = s.dead /\ r.replied = s.replied
        /\ r.held = s.held /\ r.frames = s.frames /\ r.clears = s.clears
        /\ r.early = s.early /\ r.query = y
    BY <2>4, <2>5 DEF WebRecords
  <2>7. SameFlags(r, s)
    BY <2>5, <2>6 DEF SameFlags
  <2>8. Moved(s, r, <<>>)
    BY <2>6, <2>7, <1>0 DEF Moved, Placed
  <2>9. Activates(s, r)
    BY <2>1, <2>2, <2>5, <2>6, <2>8 DEF Activates
  <2> QED BY <2>3, <2>9
<1> QED BY <1>1, <1>2

LEMMA RemoveAbortedFacts ==
    ASSUME NEW s \in WebRecords, Placed(s)
    PROVE  /\ Moved(s, RemoveAborted(s), <<>>) /\ RemoveAborted(s).query = s.query
           /\ \A q \in Range(RemoveAborted(s).live) : ~s.query[q].aborted
<1> DEFINE A == {q \in Queries : s.query[q].aborted}
           r == RemoveAborted(s)
<1>1. /\ <<>> \in Seq(Queries) /\ Range(<<>>) = {} /\ IsInjective(<<>>)
      /\ s.dead = s.dead \o <<>> /\ s.live \in Seq(Queries) /\ Range(s.live) \subseteq Queries
  <2>1. DOMAIN <<>> = {} OBVIOUS
  <2>2. s.dead \in Seq(Queries) BY RecordFields
  <2> QED BY <2>1, <2>2, RecordFields DEF Range, IsInjective
<1>2. r = [s EXCEPT !.live = Without(s.live, A)]
  BY DEF RemoveAborted
<1>3. PICK a : a = A
  OBVIOUS
<1>4. /\ Without(s.live, a) \in Seq(Queries) /\ Range(Without(s.live, a)) = Range(s.live) \ a
      /\ IsInjective(Without(s.live, a))
  BY <1>1, WithoutFacts DEF Placed
<1>5. \A q \in Range(s.live) : q \in a <=> s.query[q].aborted
  BY <1>1, <1>3
<1>6. r = [s EXCEPT !.live = Without(s.live, a)]
  BY <1>2, <1>3
<1> HIDE DEF A, r
<1>7. /\ r \in WebRecords /\ r.live = Without(s.live, a) /\ r.dead = s.dead
      /\ r.replied = s.replied /\ r.held = s.held /\ r.frames = s.frames
      /\ r.clears = s.clears /\ r.early = s.early /\ r.query = s.query
  BY <1>4, <1>6 DEF WebRecords
<1>8. Moved(s, r, <<>>)
  BY <1>1, <1>4, <1>5, <1>7 DEF Moved, SameFlags
<1>9. \A q \in Range(r.live) : ~s.query[q].aborted
  BY <1>4, <1>5, <1>7
<1> QED BY <1>7, <1>8, <1>9 DEF r

\* The active queries of m_live are ticked, and the late ones are in m_dead.
Ticks(s, r, gone) ==
    /\ Moved(s, r, gone)
    /\ \A p \in Queries : r.query[p].active = s.query[p].active
    /\ \A p \in Queries :
         r.query[p].ticks = IF p \in Range(s.live) /\ s.query[p].active
                            THEN s.query[p].ticks + 1 ELSE s.query[p].ticks
    /\ \A p \in Range(gone) : s.query[p].active /\ r.query[p].ticks >= timeout
    /\ \A p \in Range(r.live) : s.query[p].active => ~(r.query[p].ticks >= timeout)

LEMMA TickFacts ==
    ASSUME NEW s \in WebRecords, Placed(s)
    PROVE  \E gone : Ticks(s, Tick(s), gone)
<1> DEFINE r == Tick(s)
<1>1. /\ s.live \in Seq(Queries) /\ s.dead \in Seq(Queries) /\ IsInjective(s.live)
      /\ s.query \in [Queries -> QueryRecords] /\ Range(s.live) \subseteq Queries
  BY RecordFields DEF Placed
<1>2. PICK L : L = Late(s)
  OBVIOUS
<1>3. PICK left : left = Without(s.live, L)
  OBVIOUS
<1>4. PICK gone : gone = Only(s.live, L)
  OBVIOUS
<1>5. /\ left \in Seq(Queries) /\ Range(left) = Range(s.live) \ L /\ IsInjective(left)
      /\ gone \in Seq(Queries) /\ Range(gone) = Range(s.live) \cap L /\ IsInjective(gone)
  BY <1>1, <1>3, <1>4, WithoutFacts, OnlyFacts
<1>6. PICK y : y = Ticked(s)
  OBVIOUS
<1>7. r = [s EXCEPT !.query = y, !.live = left, !.dead = s.dead \o gone]
  BY <1>2, <1>3, <1>4, <1>6 DEF Tick
<1>8. /\ y \in [Queries -> QueryRecords]
      /\ \A p \in Queries :
           /\ y[p].submitted = s.query[p].submitted /\ y[p].aborted = s.query[p].aborted
           /\ y[p].finished = s.query[p].finished /\ y[p].active = s.query[p].active
           /\ y[p].ticks = IF p \in Range(s.live) /\ s.query[p].active
                           THEN s.query[p].ticks + 1 ELSE s.query[p].ticks
  <2>1. ASSUME NEW p \in Queries
        PROVE  LET x == [s.query[p] EXCEPT !.ticks = @ + 1] IN
               /\ s.query[p] \in QueryRecords /\ x \in QueryRecords
               /\ x.submitted = s.query[p].submitted /\ x.aborted = s.query[p].aborted
               /\ x.finished = s.query[p].finished /\ x.active = s.query[p].active
               /\ x.ticks = s.query[p].ticks + 1
    <3>1. s.query[p] \in QueryRecords
      BY <1>1
    <3> QED BY <3>1 DEF QueryRecords
  <2>2. \A p \in Queries :
          /\ y[p] \in QueryRecords
          /\ y[p].submitted = s.query[p].submitted /\ y[p].aborted = s.query[p].aborted
          /\ y[p].finished = s.query[p].finished /\ y[p].active = s.query[p].active
          /\ y[p].ticks = IF p \in Range(s.live) /\ s.query[p].active
                          THEN s.query[p].ticks + 1 ELSE s.query[p].ticks
    BY <2>1, <1>6 DEF Ticked
  <2> QED BY <2>2, <1>6 DEF Ticked
<1>9. \A p \in Range(s.live) : p \in L <=> s.query[p].active /\ y[p].ticks >= timeout
  BY <1>2, <1>6 DEF Late
<1>10. s.dead \o gone \in Seq(Queries)
  BY <1>1, <1>5
<1> HIDE DEF r
<1>11. /\ r \in WebRecords /\ r.live = left /\ r.dead = s.dead \o gone
       /\ r.replied = s.replied /\ r.held = s.held /\ r.frames = s.frames
       /\ r.clears = s.clears /\ r.early = s.early /\ r.query = y
  BY <1>5, <1>7, <1>8, <1>10 DEF WebRecords
<1>12. Moved(s, r, gone)
  <2>1. SameFlags(r, s)
    BY <1>8, <1>11 DEF SameFlags
  <2> QED BY <2>1, <1>5, <1>11 DEF Moved
<1>13. /\ \A p \in Queries : r.query[p].active = s.query[p].active
       /\ \A p \in Queries :
            r.query[p].ticks = IF p \in Range(s.live) /\ s.query[p].active
                               THEN s.query[p].ticks + 1 ELSE s.query[p].ticks
  BY <1>8, <1>11
<1>14. /\ \A p \in Range(gone) : s.query[p].active /\ r.query[p].ticks >= timeout
       /\ \A p \in Range(r.live) : s.query[p].active => ~(r.query[p].ticks >= timeout)
  BY <1>5, <1>9, <1>11
<1>15. Ticks(s, r, gone)
  BY <1>12, <1>13, <1>14 DEF Ticks
<1> QED BY <1>15 DEF r

\* A heartbeat activates a query (b), removes those that are aborted (c) and
\* ticks the others (t), before it calls back who is late.
Beat(s, S, b, c, t) ==
    /\ Activates(s, b)
    /\ Moved(b, c, <<>>) /\ c.query = b.query
    /\ \A q \in Range(c.live) : ~c.query[q].aborted
    /\ \E gone : Ticks(c, t, gone)
    /\ \/ heartbeat(s, S) = Walk(t, 1, S)
       \/ \E u : Stored(t, u, S) /\ u.dead = <<>> /\ heartbeat(s, S) = Finish(u)

LEMMA BeatFacts ==
    ASSUME NEW s, NEW S, Sound(s, S)
    PROVE  \E b, c, t : Beat(s, S, b, c, t) /\ Sound(b, S) /\ Sound(c, S) /\ Sound(t, S)
<1>1. PICK b : b = SubmitNext(s)
  OBVIOUS
<1>2. Activates(s, b)
  BY <1>1, SubmitNextFacts DEF Sound
<1>3. Sound(b, S)
  BY <1>2, MovedSound DEF Activates
<1>4. PICK c : c = RemoveAborted(b)
  OBVIOUS
<1>5. /\ Moved(b, c, <<>>) /\ c.query = b.query
      /\ \A q \in Range(c.live) : ~c.query[q].aborted
  BY <1>3, <1>4, RemoveAbortedFacts DEF Sound
<1>6. Sound(c, S)
  BY <1>3, <1>5, MovedSound
<1>7. PICK t : t = Tick(c)
  OBVIOUS
<1>8. PICK gone : Ticks(c, t, gone)
  BY <1>6, <1>7, TickFacts DEF Sound
<1>9. Sound(t, S)
  BY <1>6, <1>8, MovedSound DEF Ticks
<1>10. /\ t.dead # <<>> => heartbeat(s, S) = Walk(t, 1, S)
       /\ t.dead = <<>> => heartbeat(s, S) = Finish([t EXCEPT !.held = @ \cup S])
  BY <1>1, <1>4, <1>7 DEF heartbeat
<1>11. t.dead = <<>> =>
         \E u : Stored(t, u, S) /\ u.dead = <<>> /\ heartbeat(s, S) = Finish(u)
  <2> SUFFICES ASSUME t.dead = <<>>
               PROVE  \E u : Stored(t, u, S) /\ u.dead = <<>> /\ heartbeat(s, S) = Finish(u)
    OBVIOUS
  <2> DEFINE u == [t EXCEPT !.held = @ \cup S]
  <2>1. t \in WebRecords /\ t.held \cup S \in SUBSET Queries
    BY <1>9, RecordFields DEF Sound
  <2>2. /\ u \in WebRecords /\ u.live = t.live /\ u.dead = t.dead /\ u.query = t.query
        /\ u.replied = t.replied /\ u.held = t.held \cup S /\ u.frames = t.frames
        /\ u.clears = t.clears /\ u.early = t.early
    BY <2>1 DEF WebRecords
  <2>3. heartbeat(s, S) = Finish(u)
    BY <1>10
  <2> HIDE DEF u
  <2>4. Stored(t, u, S)
    BY <2>1, <2>2 DEF Stored
  <2> QED BY <2>2, <2>3, <2>4
<1>12. Beat(s, S, b, c, t)
  BY <1>2, <1>5, <1>8, <1>10, <1>11 DEF Beat
<1> QED BY <1>3, <1>6, <1>9, <1>12

LEMMA HeartbeatSound ==
    ASSUME NEW s, NEW S, Sound(s, S)
    PROVE  Sound(heartbeat(s, S), {})
<1>1. PICK b, c, t : Beat(s, S, b, c, t) /\ Sound(t, S)
  BY BeatFacts
<1>2. t.dead \in Seq(Queries)
  BY <1>1, RecordFields DEF Sound
<1>3. IsPassed(t, 1)
  BY <1>2 DEF IsPassed
<1>4. Sound(Walk(t, 1, S), {})
  BY <1>1, <1>3, WalkSound
<1>5. \A u : Stored(t, u, S) => Sound(Finish(u), {})
  <2> TAKE u
  <2>1. Stored(t, u, S) => Sound(u, {})
    BY <1>1, StoredSound
  <2> QED BY <2>1, FinishSound
<1> QED BY <1>1, <1>4, <1>5 DEF Beat

-----------------------------------------------------------------------------
(* A timeout that was never lowered.                                       *)

LEMMA ActivatesOrdered ==
    ASSUME NEW s, NEW n, NEW S, Sound(s, S), Ordered(s, n, 1, S), NEW r, Activates(s, r)
    PROVE  Ordered(r, n, 0, S)
<1>1. /\ s \in WebRecords /\ Placed(s) /\ s.query \in [Queries -> QueryRecords]
      /\ Range(s.live) \subseteq Queries
  BY RecordFields DEF Sound
<1>2. /\ r.live = s.live /\ r.held = s.held /\ r.frames = s.frames /\ r.early = s.early
      /\ \A p \in Queries : /\ r.query[p].submitted = s.query[p].submitted
                            /\ r.query[p].aborted = s.query[p].aborted
                            /\ r.query[p].ticks = s.query[p].ticks
                            /\ s.query[p].active => r.query[p].active
                            /\ r.query[p].active /\ ~s.query[p].active => p \in Range(s.live)
      /\ \A p, q \in Queries : /\ r.query[p].active /\ ~s.query[p].active
                               /\ r.query[q].active /\ ~s.query[q].active
                               => p = q
  BY DEF Activates, Moved, SameFlags
<1>3. /\ n \in Nat /\ n > 1 /\ s.early = {}
      /\ \A k \in 1 .. Len(s.frames) : s.frames[k].submits = {}
      /\ \A q \in Range(s.live) : /\ ~s.query[q].aborted => q \in s.held \cup S
                                  /\ s.query[q].active => s.query[q].ticks \in 1 .. n - 1
      /\ \A p, q \in Range(s.live) :
           s.query[p].active /\ s.query[q].active /\ s.query[p].ticks = s.query[q].ticks => p = q
      /\ \A q \in Queries : /\ ~s.query[q].active => s.query[q].ticks = 0
                            /\ ~s.query[q].submitted => ~s.query[q].active
  BY DEF Ordered
<1>4. \A q \in Range(s.live) : /\ ~r.query[q].aborted => q \in r.held \cup S
                               /\ r.query[q].active => r.query[q].ticks \in 0 .. n - 1
  <2> TAKE q \in Range(s.live)
  <2>1. q \in Queries
    BY <1>1
  <2>2. CASE s.query[q].active
    BY <2>1, <2>2, <1>2, <1>3
  <2>3. CASE ~s.query[q].active
    <3>1. r.query[q].ticks = 0
      BY <2>1, <2>3, <1>2, <1>3
    <3> QED BY <3>1, <2>1, <1>2, <1>3
  <2> QED BY <2>2, <2>3
<1>5. ASSUME NEW p \in Range(s.live), NEW q \in Range(s.live), r.query[p].active,
             r.query[q].active, r.query[p].ticks = r.query[q].ticks
      PROVE  p = q
  <2>1. p \in Queries /\ q \in Queries /\ s.query[p].ticks = s.query[q].ticks
    BY <1>1, <1>2, <1>5
  <2>2. CASE s.query[p].active /\ s.query[q].active
    BY <2>1, <2>2, <1>3
  <2>3. CASE ~s.query[p].active /\ ~s.query[q].active
    BY <2>1, <2>3, <1>2, <1>5
  <2>4. CASE s.query[p].active /\ ~s.query[q].active
    <3>1. s.query[p].ticks \in 1 .. n - 1 /\ s.query[q].ticks = 0
      BY <2>1, <2>4, <1>3
    <3> QED BY <3>1, <2>1, <1>3
  <2>5. CASE ~s.query[p].active /\ s.query[q].active
    <3>1. s.query[q].ticks \in 1 .. n - 1 /\ s.query[p].ticks = 0
      BY <2>1, <2>5, <1>3
    <3> QED BY <3>1, <2>1, <1>3
  <2> QED BY <2>2, <2>3, <2>4, <2>5
<1>6. \A q \in Queries : /\ ~r.query[q].active => r.query[q].ticks = 0
                         /\ ~r.query[q].submitted => ~r.query[q].active
  <2> TAKE q \in Queries
  <2>1. q \in Range(s.live) => s.query[q].submitted
    BY <1>1 DEF Placed, OnList
  <2> QED BY <2>1, <1>2, <1>3
<1> QED BY <1>2, <1>3, <1>4, <1>5, <1>6 DEF Ordered

LEMMA RemovedOrdered ==
    ASSUME NEW s, NEW n, NEW a, NEW S, Ordered(s, n, a, S), NEW r, Moved(s, r, <<>>),
           r.query = s.query
    PROVE  Ordered(r, n, a, S)
  BY DEF Ordered, Moved

\* One query at most is left to call back; no submit waits then, and the client
\* holds it.
OneLeft(s, S) ==
    /\ \A q \in Range(s.dead) :
         s.query[q].aborted \/ s.query[q].finished \/ (q \in s.held /\ S = {})
    /\ \A p, q \in Range(s.dead) : \/ s.query[p].aborted \/ s.query[p].finished
                                   \/ s.query[q].aborted \/ s.query[q].finished
                                   \/ p = q

LEMMA TicksOrdered ==
    ASSUME NEW s, NEW S, Sound(s, S), Ordered(s, timeout, 0, S),
           \A q \in Range(s.live) : ~s.query[q].aborted,
           \A q \in Range(s.dead) : s.query[q].aborted \/ s.query[q].finished,
           S # {} => \A q \in Range(s.live) : s.query[q].ticks = 0,
           NEW r, NEW gone, Ticks(s, r, gone)
    PROVE  Ordered(r, timeout, 1, S) /\ OneLeft(r, S)
<1>1. /\ s \in WebRecords /\ s.query \in [Queries -> QueryRecords]
      /\ Range(s.live) \subseteq Queries /\ Range(s.dead) \subseteq Queries
      /\ s.dead \in Seq(Queries)
  BY RecordFields DEF Sound
<1>2. /\ r.held = s.held /\ r.frames = s.frames /\ r.early = s.early
      /\ r.dead = s.dead \o gone /\ gone \in Seq(Queries)
      /\ Range(r.live) \subseteq Range(s.live) /\ Range(gone) \subseteq Range(s.live)
      /\ \A p \in Queries : /\ r.query[p].submitted = s.query[p].submitted
                            /\ r.query[p].aborted = s.query[p].aborted
                            /\ r.query[p].finished = s.query[p].finished
                            /\ r.query[p].active = s.query[p].active
      /\ \A p \in Queries :
           r.query[p].ticks = IF p \in Range(s.live) /\ s.query[p].active
                              THEN s.query[p].ticks + 1 ELSE s.query[p].ticks
      /\ \A p \in Range(gone) : s.query[p].active /\ r.query[p].ticks >= timeout
      /\ \A p \in Range(r.live) : s.query[p].active => ~(r.query[p].ticks >= timeout)
  BY DEF Ticks, Moved, SameFlags
<1>3. /\ timeout \in Nat /\ timeout > 1 /\ s.early = {}
      /\ \A k \in 1 .. Len(s.frames) : s.frames[k].submits = {}
      /\ \A q \in Range(s.live) : /\ ~s.query[q].aborted => q \in s.held \cup S
                                  /\ s.query[q].active => s.query[q].ticks \in 0 .. timeout - 1
      /\ \A p, q \in Range(s.live) :
           s.query[p].active /\ s.query[q].active /\ s.query[p].ticks = s.query[q].ticks => p = q
      /\ \A q \in Queries : /\ ~s.query[q].active => s.query[q].ticks = 0
                            /\ ~s.query[q].submitted => ~s.query[q].active
  BY DEF Ordered
<1>4. \A q \in Range(r.live) : /\ ~r.query[q].aborted => q \in r.held \cup S
                               /\ r.query[q].active => r.query[q].ticks \in 1 .. timeout - 1
  <2> TAKE q \in Range(r.live)
  <2>1. q \in Queries /\ q \in Range(s.live)
    BY <1>1, <1>2
  <2>2. CASE s.query[q].active
    <3>1. r.query[q].ticks = s.query[q].ticks + 1 /\ ~(r.query[q].ticks >= timeout)
      BY <2>1, <2>2, <1>2
    <3>2. s.query[q].ticks \in 0 .. timeout - 1
      BY <2>1, <2>2, <1>3
    <3> QED BY <3>1, <3>2, <2>1, <1>2, <1>3
  <2>3. CASE ~s.query[q].active
    BY <2>1, <2>3, <1>2, <1>3
  <2> QED BY <2>2, <2>3
<1>5. ASSUME NEW p \in Range(r.live), NEW q \in Range(r.live), r.query[p].active,
             r.query[q].active, r.query[p].ticks = r.query[q].ticks
      PROVE  p = q
  <2>1. /\ p \in Queries /\ q \in Queries /\ p \in Range(s.live) /\ q \in Range(s.live)
        /\ s.query[p].active /\ s.query[q].active
    BY <1>1, <1>2, <1>5
  <2>2. s.query[p].ticks + 1 = s.query[q].ticks + 1
    BY <2>1, <1>2, <1>5
  <2>3. s.query[p].ticks \in 0 .. timeout - 1 /\ s.query[q].ticks \in 0 .. timeout - 1
    BY <2>1, <1>3
  <2>4. s.query[p].ticks = s.query[q].ticks
    BY <2>2, <2>3, <1>3
  <2> QED BY <2>1, <2>4, <1>3
<1>6. \A q \in Queries : /\ ~r.query[q].active => r.query[q].ticks = 0
                         /\ ~r.query[q].submitted => ~r.query[q].active
  BY <1>2, <1>3
<1>7. Ordered(r, timeout, 1, S)
  BY <1>2, <1>3, <1>4, <1>5, <1>6 DEF Ordered
<1>8. Range(r.dead) = Range(s.dead) \cup Range(gone)
  BY <1>1, <1>2, ConcatFacts
<1>9. ASSUME NEW q \in Range(gone)
      PROVE  q \in Queries /\ q \in Range(s.live) /\ s.query[q].active
             /\ s.query[q].ticks = timeout - 1 /\ S = {} /\ q \in s.held
  <2>1. q \in Queries /\ q \in Range(s.live) /\ s.query[q].active /\ r.query[q].ticks >= timeout
    BY <1>1, <1>2, <1>9
  <2>2. r.query[q].ticks = s.query[q].ticks + 1 /\ s.query[q].ticks \in 0 .. timeout - 1
    BY <2>1, <1>2, <1>3
  <2>3. s.query[q].ticks = timeout - 1
    BY <2>1, <2>2, <1>3
  <2>4. S = {}
    BY <2>1, <2>3, <1>3
  <2>5. q \in s.held
    BY <2>1, <2>4, <1>3
  <2> QED BY <2>1, <2>3, <2>4, <2>5
<1>10. ASSUME NEW q \in Range(s.dead) PROVE r.query[q].aborted \/ r.query[q].finished
  BY <1>1, <1>2, <1>10
<1>11. OneLeft(r, S)
  BY <1>2, <1>3, <1>8, <1>9, <1>10 DEF OneLeft
<1> QED BY <1>7, <1>11

\* The reply of a query that is not in m_live, and that its client holds.
LEMMA ReceivedOrdered ==
    ASSUME NEW s \in WebRecords, NEW n, Ordered(s, n, 1, {}), NEW q \in Queries,
           q \notin Range(s.live), s.query[q].aborted \/ q \in s.held,
           NEW at, NEW r, Received(s, r, q, at, {})
    PROVE  Ordered(r, n, 1, {})
<1>1. /\ s.frames \in Seq(Frames) /\ Range(s.live) \subseteq Queries
  BY RecordFields
<1>2. /\ r.live = s.live
      /\ \A p \in Queries : /\ r.query[p].submitted = s.query[p].submitted
                            /\ r.query[p].aborted = s.query[p].aborted
                            /\ r.query[p].active = s.query[p].active
                            /\ r.query[p].ticks = s.query[p].ticks
  BY DEF Received
<1>3. /\ n \in Nat /\ n > 1 /\ s.early = {}
      /\ \A k \in 1 .. Len(s.frames) : s.frames[k].submits = {}
      /\ \A p \in Range(s.live) : /\ ~s.query[p].aborted => p \in s.held
                                  /\ s.query[p].active => s.query[p].ticks \in 1 .. n - 1
      /\ \A p, l \in Range(s.live) :
           s.query[p].active /\ s.query[l].active /\ s.query[p].ticks = s.query[l].ticks => p = l
      /\ \A p \in Queries : /\ ~s.query[p].active => s.query[p].ticks = 0
                            /\ ~s.query[p].submitted => ~s.query[p].active
  BY DEF Ordered
<1>4. r.early = {} /\ s.held \ {q} \subseteq r.held
  BY <1>3 DEF Received
<1>5. \A k \in 1 .. Len(r.frames) : r.frames[k].submits = {}
  <2>1. CASE s.query[q].aborted
    BY <2>1, <1>3 DEF Received
  <2>2. CASE ~s.query[q].aborted
    <3> DEFINE f == [q |-> q, at |-> at, clears |-> s.clears, submits |-> {}]
    <3>1. r.frames = Append(s.frames, f)
      BY <2>2 DEF Received
    <3>2. f.submits = {}
      OBVIOUS
    <3> HIDE DEF f
    <3>3. /\ Len(r.frames) = Len(s.frames) + 1 /\ r.frames[Len(s.frames) + 1] = f
          /\ \A k \in 1 .. Len(s.frames) : r.frames[k] = s.frames[k]
          /\ \A k \in 1 .. Len(r.frames) : k \in 1 .. Len(s.frames) \/ k = Len(s.frames) + 1
      BY <3>1, <1>1
    <3> QED BY <3>2, <3>3, <1>3
  <2> QED BY <2>1, <2>2
<1>6. \A p \in Range(r.live) : /\ ~r.query[p].aborted => p \in r.held \cup {}
                               /\ r.query[p].active => r.query[p].ticks \in 1 .. n - 1
  BY <1>1, <1>2, <1>3, <1>4
<1>7. \A p, l \in Range(r.live) :
         r.query[p].active /\ r.query[l].active /\ r.query[p].ticks = r.query[l].ticks => p = l
  BY <1>1, <1>2, <1>3
<1>8. \A p \in Queries : /\ ~r.query[p].active => r.query[p].ticks = 0
                         /\ ~r.query[p].submitted => ~r.query[p].active
  BY <1>2, <1>3
<1> QED BY <1>3, <1>4, <1>5, <1>6, <1>7, <1>8 DEF Ordered

LEMMA StoredSteady ==
    ASSUME NEW s \in WebRecords, NEW n, NEW S, Ordered(s, n, 1, S), NEW r, Stored(s, r, S),
           \A q \in Range(r.dead) : r.query[q].aborted \/ r.query[q].finished
    PROVE  Steady(r, n)
<1>1. /\ r.live = s.live /\ r.query = s.query
      /\ r.held = s.held \cup S /\ r.frames = s.frames /\ r.early = s.early
  BY DEF Stored
<1>2. Ordered(r, n, 1, {})
  BY <1>1 DEF Ordered
<1> QED BY <1>2 DEF Steady

LEMMA EndsSteady ==
    ASSUME NEW s \in WebRecords, NEW n, NEW S, Ordered(s, n, 1, S), NEW r, Stored(s, r, S),
           r.dead = <<>>
    PROVE  Steady(Finish(r), n)
<1>1. Range(r.dead) = {}
  BY DEF Range
<1>2. Steady(r, n)
  BY <1>1, StoredSteady
<1>3. PICK f : f = Finish(r)
  OBVIOUS
<1>4. /\ f.live = r.live /\ f.dead = r.dead /\ f.query = r.query /\ f.held = r.held
      /\ f.frames = r.frames /\ f.early = r.early
  BY <1>3, FinishFacts DEF Stored
<1>5. Steady(f, n)
  BY <1>2, <1>4 DEF Steady, Ordered
<1> QED BY <1>3, <1>5

LEMMA WalkSteady ==
    ASSUME NEW s, NEW n, NEW S, Sound(s, S), Ordered(s, n, 1, S), OneLeft(s, S),
           NEW i, IsPassed(s, i)
    PROVE  Steady(Walk(s, i, S), n)
<1>1. s \in WebRecords /\ Placed(s) /\ S \in SUBSET Queries
  BY DEF Sound
<1>2. CASE Calling(s, i) # {}
  <2>1. PICK m \in 1 .. Len(s.dead) :
              /\ Walk(s, i, S) = Receive(s, s.dead[m], m, S)
              /\ ~s.query[s.dead[m]].aborted /\ ~s.query[s.dead[m]].finished
    BY <1>1, <1>2, WalkCalls
  <2>2. PICK q \in Queries : q = s.dead[m]
    BY <1>1, RecordFields
  <2>3. q \in Range(s.dead) /\ m \in Nat
    <3>1. s.dead \in Seq(Queries) BY <1>1, RecordFields
    <3> QED BY <3>1, <2>2, RangeFacts
  <2>4. q \in s.held /\ S = {} /\ q \notin Range(s.live)
    BY <2>1, <2>2, <2>3, <1>1 DEF OneLeft, Placed
  <2>5. PICK r : r = Receive(s, q, m, S)
    OBVIOUS
  <2>6. Received(s, r, q, m, {})
    BY <2>3, <2>4, <2>5, <1>1, ReceiveFacts
  <2>7. Ordered(r, n, 1, {})
    BY <2>4, <2>6, <1>1, ReceivedOrdered
  <2>8. \A p \in Range(r.dead) : r.query[p].aborted \/ r.query[p].finished
    <3>1. Range(s.dead) \subseteq Queries
      BY <1>1, RecordFields
    <3> QED BY <3>1, <2>1, <2>2, <2>3, <2>6 DEF Received, OneLeft
  <2> QED BY <2>1, <2>2, <2>5, <2>7, <2>8 DEF Steady
<1>3. CASE Calling(s, i) = {}
  <2>1. PICK r : Stored(s, r, S) /\ r.dead = <<>> /\ Walk(s, i, S) = Finish(r)
    BY <1>1, <1>3, WalkEnds
  <2> QED BY <2>1, <1>1, EndsSteady
<1> QED BY <1>2, <1>3

LEMMA HeartbeatSteady ==
    ASSUME NEW s, NEW S, Sound(s, S), Ordered(s, timeout, 1, S),
           \A q \in Range(s.dead) : s.query[q].aborted \/ s.query[q].finished,
           S # {} => \A q \in Range(s.live) : s.query[q].ticks = 0
    PROVE  Steady(heartbeat(s, S), timeout)
<1>1. PICK b, c, t : Beat(s, S, b, c, t) /\ Sound(b, S) /\ Sound(c, S) /\ Sound(t, S)
  BY BeatFacts
<1>2. /\ Activates(s, b) /\ Moved(s, b, <<>>) /\ Moved(b, c, <<>>) /\ c.query = b.query
      /\ \A q \in Range(c.live) : ~c.query[q].aborted
  BY <1>1 DEF Beat, Activates
<1>3. /\ Range(s.live) \subseteq Queries /\ Range(s.dead) \subseteq Queries
      /\ s.dead \in Seq(Queries) /\ b.dead \in Seq(Queries) /\ t.dead \in Seq(Queries)
      /\ t \in WebRecords
  BY <1>1, RecordFields DEF Sound
<1>4. Ordered(c, timeout, 0, S)
  <2>1. Ordered(b, timeout, 0, S)
    BY <1>2, ActivatesOrdered
  <2> QED BY <2>1, <1>2, RemovedOrdered
<1>5. c.dead = s.dead
  <2>1. b.dead = s.dead \o <<>> /\ c.dead = b.dead \o <<>>
    BY <1>2 DEF Moved
  <2> QED BY <2>1, <1>3
<1>6. /\ \A q \in Range(c.dead) : c.query[q].aborted \/ c.query[q].finished
      /\ S # {} => \A q \in Range(c.live) : c.query[q].ticks = 0
  BY <1>2, <1>3, <1>5 DEF Activates, Moved, SameFlags
<1>7. Ordered(t, timeout, 1, S) /\ OneLeft(t, S)
  <2>1. PICK gone : Ticks(c, t, gone)
    BY <1>1 DEF Beat
  <2> QED BY <2>1, <1>1, <1>2, <1>4, <1>6, TicksOrdered
<1>8. IsPassed(t, 1)
  BY <1>3 DEF IsPassed
<1>9. Steady(Walk(t, 1, S), timeout)
  BY <1>1, <1>7, <1>8, WalkSteady
<1>10. \A u : Stored(t, u, S) /\ u.dead = <<>> => Steady(Finish(u), timeout)
  BY <1>3, <1>7, EndsSteady
<1> QED BY <1>1, <1>9, <1>10 DEF Beat

-----------------------------------------------------------------------------
(* What the invariant says.                                                *)

LEMMA NowFields ==
    /\ Now.live = live /\ Now.dead = dead /\ Now.timer = timer /\ Now.query = query
    /\ Now.replied = replied /\ Now.held = held /\ Now.frames = frames /\ Now.clears = clears
    /\ Now.early = early
  BY DEF Now

LEMMA BecomesIs ==
    ASSUME NEW r \in WebRecords, Becomes(r)
    PROVE  Now' = r
  BY DEF Now, Becomes, WebRecords

LEMMA SoundIsSafe ==
    Sound(Now, {}) /\ timeout \in Timeouts =>
        /\ TypeOK
        /\ \A q \in held : q \in Range(live) \cup Range(dead) \/ q \in early
        /\ \A q \in Queries : replied[q] <= 1 /\ (query[q].aborted => replied[q] = 0)
<1> SUFFICES ASSUME Sound(Now, {}), timeout \in Timeouts
             PROVE  /\ TypeOK
                    /\ \A q \in held : q \in Range(live) \cup Range(dead) \/ q \in early
                    /\ \A q \in Queries : replied[q] <= 1 /\ (query[q].aborted => replied[q] = 0)
  OBVIOUS
<1>1. Now \in WebRecords /\ Placed(Now) /\ Called(Now) /\ Holds(Now)
  BY DEF Sound
<1>2. /\ live \in Seq(Queries) /\ dead \in Seq(Queries) /\ timer \in BOOLEAN
      /\ held \in SUBSET Queries /\ replied \in [Queries -> Nat] /\ frames \in Seq(Frames)
  BY <1>1, RecordFields, NowFields
<1>3. /\ IsInjective(live) /\ IsInjective(dead) /\ Range(live) \cap Range(dead) = {}
      /\ \A q \in Range(live) \cup Range(dead) : query[q].submitted
  BY <1>1, NowFields DEF Placed, OnList
<1>4. IsInjective(live \o dead) /\ Range(live \o dead) = Range(live) \cup Range(dead)
  BY <1>2, <1>3, ConcatFacts
<1>5. \A i \in 1 .. Len(frames) : frames[i].at \in Nat
  <2> TAKE i \in 1 .. Len(frames)
  <2>1. frames[i] \in Frames BY <1>2
  <2> QED BY <2>1 DEF Frames
<1>6. TypeOK
  BY <1>2, <1>3, <1>4, <1>5 DEF TypeOK
<1>7. \A q \in held : q \in Range(live) \cup Range(dead) \/ q \in early
  BY <1>1, NowFields DEF Holds, Due, OnList
<1>8. ASSUME NEW q \in Queries
      PROVE  replied[q] <= 1 /\ (query[q].aborted => replied[q] = 0)
  <2>1. replied[q] \in Nat /\ replied[q] <= 1 /\ (replied[q] = 1 => ~query[q].aborted)
    BY <1>1, <1>2, NowFields DEF Called
  <2> QED BY <2>1
<1> QED BY <1>6, <1>7, <1>8

\* Where every action but the destructor leads.
Leads(r) ==
    /\ Sound(r, {}) /\ Becomes(r)
    /\ timeout' \in Timeouts /\ steady' \in BOOLEAN
    /\ status' \in {"up", "aborted", "undefined"}
    /\ status' = "up" => ~Fails(r)
    /\ steady' => Steady(r, timeout') /\ status' # "aborted"

LEMMA LeadsToInv ==
    ASSUME NEW r, Leads(r)
    PROVE  IInv'
<1>1. Now' = r
  BY BecomesIs DEF Leads, Sound
<1>2. (Sound(Now, {}) /\ timeout \in Timeouts)'
  BY <1>1 DEF Leads
<1>3. (/\ TypeOK
       /\ \A q \in held : q \in Range(live) \cup Range(dead) \/ q \in early
       /\ \A q \in Queries : replied[q] <= 1 /\ (query[q].aborted => replied[q] = 0))'
  BY <1>2, SoundIsSafe, PTL
<1>4. early' = r.early
  BY DEF Leads, Becomes
<1> QED BY <1>1, <1>2, <1>3, <1>4 DEF Leads, IInv, Steady, Ordered

\* A step that goes on unless an ENDCHECK fails.
LEMMA GoesOnLeads ==
    ASSUME IInv, status = "up", NEW r, Sound(r, {}), steady => Steady(r, timeout), GoesOn(r),
           UNCHANGED <<timeout, steady>>
    PROVE  IInv'
<1>1. steady => ~Fails(r)
  BY DEF Steady, Ordered, Fails
<1>2. Leads(r)
  BY <1>1 DEF Leads, GoesOn, IInv
<1> QED BY <1>2, LeadsToInv

-----------------------------------------------------------------------------
(* The actions.                                                            *)

LEMMA HeartbeatKeeps ==
    ASSUME IInv, Heartbeat
    PROVE  IInv'
<1>1. /\ status = "up" /\ Sound(Now, {}) /\ (steady => Steady(Now, timeout))
      /\ GoesOn(heartbeat(Now, {})) /\ UNCHANGED <<timeout, steady>>
  BY DEF IInv, Heartbeat, Runs
<1>2. Sound(heartbeat(Now, {}), {})
  BY <1>1, HeartbeatSound
<1>3. steady => Steady(heartbeat(Now, {}), timeout)
  BY <1>1, HeartbeatSteady DEF Steady
<1> QED BY <1>1, <1>2, <1>3, GoesOnLeads

LEMMA FinishedKeeps ==
    ASSUME IInv, NEW q \in Queries, Finished(q)
    PROVE  IInv'
<1>1. PICK t : t = Now
  OBVIOUS
<1> DEFINE s == [t EXCEPT !.live = Without(@, {q})]
<1>2. /\ status = "up" /\ Sound(t, {}) /\ (steady => Steady(t, timeout))
      /\ ~t.query[q].finished /\ q \in OnList(t)
      /\ GoesOn(Receive(s, q, 0, {})) /\ UNCHANGED <<timeout, steady>>
  BY <1>1, NowFields DEF IInv, Finished, Runs, OnList
<1>3. t \in WebRecords /\ Placed(t) /\ Holds(t)
  BY <1>2 DEF Sound
<1>4. t.live \in Seq(Queries) /\ t.dead \in Seq(Queries) /\ IsInjective(t.live)
      /\ Range(t.live) \subseteq Queries
  BY <1>3, RecordFields DEF Placed
<1>5. PICK Q : Q = {q}
  OBVIOUS
<1>6. /\ Without(t.live, Q) \in Seq(Queries) /\ Range(Without(t.live, Q)) = Range(t.live) \ Q
      /\ IsInjective(Without(t.live, Q))
  BY <1>4, WithoutFacts
<1>7. /\ s \in WebRecords /\ s.live = Without(t.live, Q) /\ s.dead = t.dead
      /\ s.query = t.query /\ s.replied = t.replied /\ s.held = t.held
      /\ s.frames = t.frames /\ s.clears = t.clears /\ s.early = t.early
  BY <1>3, <1>5, <1>6 DEF WebRecords
<1> HIDE DEF s
<1>8. Taken(t, s, q)
  BY <1>5, <1>6, <1>7 DEF Taken
<1>9. IsAt(s, q, 0)
  <2>1. s.dead \in Seq(Queries) BY <1>4, <1>7
  <2> QED BY <2>1 DEF IsAt
<1>10. PICK r : r = Receive(s, q, 0, {})
  OBVIOUS
<1>11. Received(s, r, q, 0, {})
  BY <1>7, <1>10, ReceiveFacts
<1>12. Sound(r, {})
  BY <1>2, <1>8, <1>9, <1>11, ReceiveSound
<1>13. ASSUME steady PROVE Steady(r, timeout)
  <2>1. Steady(t, timeout)
    BY <1>2, <1>13
  <2>2. Ordered(s, timeout, 1, {})
    BY <2>1, <1>5, <1>6, <1>7 DEF Steady, Ordered
  <2>3. q \notin Range(s.live) /\ (s.query[q].aborted \/ q \in s.held)
    BY <2>1, <1>2, <1>5, <1>6, <1>7 DEF Steady, Ordered, OnList
  <2>4. Ordered(r, timeout, 1, {})
    BY <2>2, <2>3, <1>7, <1>11, ReceivedOrdered
  <2>5. Range(t.dead) \subseteq Queries
    BY <1>3, RecordFields
  <2>6. \A p \in Range(r.dead) : r.query[p].aborted \/ r.query[p].finished
    BY <2>1, <2>5, <1>7, <1>11 DEF Steady, Received
  <2> QED BY <2>4, <2>6 DEF Steady
<1> QED BY <1>2, <1>10, <1>12, <1>13, GoesOnLeads

\* A query that was just appended to m_live.
Submits(s, r, q) ==
    /\ r \in WebRecords /\ r.live = Append(s.live, q)
    /\ \A p \in Queries : /\ r.query[p].submitted = (p = q \/ s.query[p].submitted)
                          /\ r.query[p].aborted = s.query[p].aborted
                          /\ r.query[p].finished = s.query[p].finished
                          /\ r.query[p].active = s.query[p].active
                          /\ r.query[p].ticks = s.query[p].ticks
    /\ r.dead = s.dead /\ r.replied = s.replied /\ r.held = s.held
    /\ r.frames = s.frames /\ r.clears = s.clears /\ r.early = s.early

LEMMA SubmitsSound ==
    ASSUME NEW s, Sound(s, {}), NEW q \in Queries, ~s.query[q].submitted, NEW r, Submits(s, r, q),
           NEW S, S = {q}
    PROVE  Sound(r, S) /\ q \notin Range(s.live) /\ q \notin r.early
<1>1. s \in WebRecords /\ Placed(s) /\ Called(s) /\ Holds(s) /\ Awaited(s, {}) /\ Walked(s)
  BY DEF Sound
<1>2. /\ s.live \in Seq(Queries) /\ s.dead \in Seq(Queries)
      /\ s.query \in [Queries -> QueryRecords] /\ s.frames \in Seq(Frames)
      /\ s.held \in SUBSET Queries /\ s.early \in SUBSET Queries
      /\ \A j \in 1 .. Len(s.dead) : s.dead[j] \in Queries
      /\ \A k \in 1 .. Len(s.frames) : s.frames[k] \in Frames
      /\ Range(s.live) \subseteq Queries /\ Range(s.dead) \subseteq Queries
  BY <1>1, RecordFields
<1>3. /\ r \in WebRecords /\ r.live = Append(s.live, q)
      /\ \A p \in Queries : /\ r.query[p].submitted = (p = q \/ s.query[p].submitted)
                            /\ r.query[p].aborted = s.query[p].aborted
                            /\ r.query[p].finished = s.query[p].finished
      /\ r.dead = s.dead /\ r.replied = s.replied /\ r.held = s.held
      /\ r.frames = s.frames /\ r.clears = s.clears /\ r.early = s.early
  BY DEF Submits
<1>4. q \notin Range(s.live) /\ q \notin Range(s.dead)
  BY <1>1 DEF Placed, OnList
<1>5. /\ ~s.query[q].aborted /\ ~s.query[q].finished /\ q \notin s.early
  BY <1>1, <1>2 DEF Called
<1>6. q \notin s.held
  BY <1>1, <1>4, <1>5 DEF Holds, Due, OnList
<1>7. Range(r.live) = Range(s.live) \cup {q} /\ IsInjective(r.live)
  BY <1>1, <1>2, <1>3, <1>4, AppendFacts DEF Placed
<1>8. Placed(r)
  <2>1. \A p \in OnList(r) : p \in Queries /\ r.query[p].submitted
    BY <1>1, <1>2, <1>3, <1>7 DEF Placed, OnList
  <2>2. \A p \in Range(r.live) : ~r.query[p].finished
    BY <1>1, <1>2, <1>3, <1>5, <1>7 DEF Placed
  <2>3. IsInjective(r.dead) /\ Range(r.live) \cap Range(r.dead) = {}
    BY <1>1, <1>3, <1>4, <1>7 DEF Placed
  <2> QED BY <2>1, <2>2, <2>3, <1>7 DEF Placed
<1>9. Called(r)
  BY <1>1, <1>3 DEF Called
<1>10. /\ OnList(r) = OnList(s) \cup {q}
       /\ \A p \in Queries : Due(s, p) => Due(r, p)
       /\ Due(r, q)
  BY <1>3, <1>5, <1>7 DEF OnList, Due
<1>11. Holds(r)
  BY <1>1, <1>2, <1>3, <1>6, <1>10 DEF Holds
<1>12. ASSUME NEW T \in SUBSET Queries, Awaits(s, T) PROVE Awaits(r, T) /\ T \cap S = {}
  BY <1>3, <1>10, <1>12 DEF Awaits
<1>13. Awaited(r, S)
  <2>1. \A k \in 1 .. Len(s.frames) : s.frames[k].submits \in SUBSET Queries
    BY <1>2 DEF Frames
  <2>2. Awaits(r, S)
    BY <1>3, <1>6, <1>10 DEF Awaits
  <2>3. \A k \in 1 .. Len(s.frames) :
          Awaits(r, s.frames[k].submits) /\ s.frames[k].submits \cap S = {}
    BY <2>1, <1>1, <1>12 DEF Awaited
  <2> QED BY <2>2, <2>3, <1>1, <1>3 DEF Awaited
<1>14. Walked(r)
  <2> SUFFICES ASSUME NEW k \in 1 .. Len(s.frames), s.frames[k].at <= Len(s.dead)
               PROVE  \A j \in 1 .. s.frames[k].at :
                          /\ r.query[s.dead[j]].aborted = s.query[s.dead[j]].aborted
                          /\ r.query[s.dead[j]].finished = s.query[s.dead[j]].finished
    BY <1>1, <1>3 DEF Walked
  <2>1. s.frames[k].at \in Nat
    BY <1>2 DEF Frames
  <2> QED BY <2>1, <1>2, <1>3
<1> QED BY <1>3, <1>4, <1>5, <1>8, <1>9, <1>11, <1>13, <1>14 DEF Sound

LEMMA SubmitsOrdered ==
    ASSUME NEW s \in WebRecords, NEW n, Ordered(s, n, 1, {}), NEW q \in Queries,
           q \notin Range(s.live), ~s.query[q].submitted, NEW r, Submits(s, r, q),
           NEW S, S = {q}
    PROVE  Ordered(r, n, 1, S)
<1>1. s.live \in Seq(Queries) /\ Range(s.live) \subseteq Queries
  BY RecordFields
<1>2. Range(r.live) = Range(s.live) \cup {q}
  BY <1>1, AppendFacts DEF Submits
<1>3. ~r.query[q].active
  BY DEF Submits, Ordered
<1>4. /\ r.held = s.held /\ r.frames = s.frames /\ r.early = s.early
      /\ \A p \in Queries : /\ r.query[p].submitted = (p = q \/ s.query[p].submitted)
                            /\ r.query[p].aborted = s.query[p].aborted
                            /\ r.query[p].active = s.query[p].active
                            /\ r.query[p].ticks = s.query[p].ticks
  BY DEF Submits
<1> QED BY <1>1, <1>2, <1>3, <1>4 DEF Ordered

LEMMA SubmitKeeps ==
    ASSUME IInv, NEW q \in Queries, Submit(q)
    PROVE  IInv'
<1>1. PICK s : s = Now
  OBVIOUS
<1>2. PICK S : S = {q}
  OBVIOUS
<1> DEFINE r == [s EXCEPT !.live = Append(@, q), !.timer = TRUE, !.query[q].submitted = TRUE]
<1>3. /\ status = "up" /\ Sound(s, {}) /\ (steady => Steady(s, timeout))
      /\ ~s.query[q].submitted /\ UNCHANGED <<timeout, steady>>
      /\ GoesOn(IF Len(r.live) = 1 THEN heartbeat(r, S) ELSE [r EXCEPT !.held = @ \cup S])
  BY <1>1, <1>2, NowFields DEF IInv, Submit, Runs
<1>4. s \in WebRecords
  BY <1>3 DEF Sound
<1>5. /\ s.live \in Seq(Queries) /\ s.query \in [Queries -> QueryRecords]
      /\ Append(s.live, q) \in Seq(Queries)
  BY <1>4, RecordFields
<1> DEFINE y == [s.query EXCEPT ![q].submitted = TRUE]
<1>6. /\ y \in [Queries -> QueryRecords]
      /\ \A p \in Queries : /\ y[p].submitted = (p = q \/ s.query[p].submitted)
                            /\ y[p].aborted = s.query[p].aborted
                            /\ y[p].finished = s.query[p].finished
                            /\ y[p].active = s.query[p].active
                            /\ y[p].ticks = s.query[p].ticks
  BY <1>5 DEF QueryRecords
<1>7. r = [s EXCEPT !.live = Append(s.live, q), !.timer = TRUE, !.query = y]
  OBVIOUS
<1> HIDE DEF y, r
<1>8. /\ r \in WebRecords /\ r.live = Append(s.live, q) /\ r.dead = s.dead
      /\ r.replied = s.replied /\ r.held = s.held /\ r.frames = s.frames
      /\ r.clears = s.clears /\ r.early = s.early /\ r.query = y
  BY <1>4, <1>5, <1>6, <1>7 DEF WebRecords
<1>9. Submits(s, r, q)
  BY <1>6, <1>8 DEF Submits
<1>10. Sound(r, S) /\ q \notin Range(s.live) /\ q \notin r.early
  BY <1>2, <1>3, <1>9, SubmitsSound
<1>11. /\ steady => /\ Ordered(r, timeout, 1, S)
                    /\ \A p \in Range(r.dead) : r.query[p].aborted \/ r.query[p].finished
  <2> SUFFICES ASSUME steady
               PROVE  /\ Ordered(r, timeout, 1, S)
                      /\ \A p \in Range(r.dead) : r.query[p].aborted \/ r.query[p].finished
    OBVIOUS
  <2>1. Ordered(r, timeout, 1, S)
    BY <1>2, <1>3, <1>4, <1>9, <1>10, SubmitsOrdered DEF Steady
  <2>2. Range(s.dead) \subseteq Queries
    BY <1>4, RecordFields
  <2>3. \A p \in Range(r.dead) : r.query[p].aborted \/ r.query[p].finished
    BY <2>2, <1>3, <1>6, <1>8 DEF Steady
  <2> QED BY <2>1, <2>3
<1>12. CASE Len(r.live) = 1
  <2>1. Sound(heartbeat(r, S), {})
    BY <1>10, HeartbeatSound
  <2>2. steady => \A p \in Range(r.live) : r.query[p].ticks = 0
    <3>1. Len(s.live) = 0
      BY <1>5, <1>8, <1>12
    <3>2. Range(r.live) = {q}
      <4>1. Range(s.live) = {}
        BY <3>1, <1>5, RangeFacts
      <4> QED BY <4>1, <1>5, <1>8, AppendFacts
    <3>3. steady => r.query[q].ticks = 0
      BY <1>3, <1>6, <1>8 DEF Steady, Ordered
    <3> QED BY <3>2, <3>3
  <2>3. steady => Steady(heartbeat(r, S), timeout)
    BY <2>2, <1>10, <1>11, HeartbeatSteady
  <2> QED BY <2>1, <2>3, <1>3, <1>12, GoesOnLeads
<1>13. CASE Len(r.live) # 1
  <2>1. PICK u : u = [r EXCEPT !.held = @ \cup S]
    OBVIOUS
  <2>2. r.held \cup S \in SUBSET Queries
    BY <1>2, <1>8, RecordFields
  <2>3. /\ u \in WebRecords /\ u.live = r.live /\ u.dead = r.dead /\ u.query = r.query
        /\ u.replied = r.replied /\ u.held = r.held \cup S /\ u.frames = r.frames
        /\ u.clears = r.clears /\ u.early = r.early
    BY <2>1, <2>2, <1>8 DEF WebRecords
  <2>4. Stored(r, u, S)
    BY <2>3, <1>2, <1>8, <1>10 DEF Stored
  <2>5. Sound(u, {})
    BY <2>4, <1>10, StoredSound
  <2>6. steady => Steady(u, timeout)
    BY <2>3, <2>4, <1>8, <1>11, StoredSteady
  <2>7. GoesOn(u)
    BY <2>1, <1>3, <1>13
  <2> QED BY <2>5, <2>6, <2>7, <1>3, GoesOnLeads
<1> QED BY <1>12, <1>13

\* A client aborts what it holds: that has a query that does not exist any more
\* only if one was called back before submit had returned.
LEMMA StopKeeps ==
    ASSUME IInv, NEW c, Stop(c)
    PROVE  IInv'
<1>1. PICK mine : mine = {q \in held : Client[q] = c}
  OBVIOUS
<1>2. PICK s : s = Now
  OBVIOUS
<1>3. /\ status = "up" /\ Sound(s, {}) /\ ~Fails(s) /\ (steady => Steady(s, timeout))
      /\ timeout \in Timeouts /\ steady \in BOOLEAN
  BY <1>2 DEF IInv, Stop
<1>4. /\ query' = [q \in Queries |-> IF q \in mine THEN [query[q] EXCEPT !.aborted = TRUE]
                                                     ELSE query[q]]
      /\ held' = held \ mine /\ mine \subseteq held
      /\ live' = live /\ dead' = dead /\ timer' = timer /\ replied' = replied
      /\ frames' = frames /\ clears' = clears /\ early' = early /\ timeout' = timeout
      /\ steady' = steady
      /\ status' = IF mine \subseteq Range(live) \cup Range(dead) THEN status ELSE "undefined"
  BY <1>1 DEF Stop
<1>5. s \in WebRecords /\ Placed(s) /\ Called(s) /\ Holds(s) /\ Awaited(s, {}) /\ Walked(s)
  BY <1>3 DEF Sound
<1>6. /\ s.live \in Seq(Queries) /\ s.dead \in Seq(Queries) /\ s.timer \in BOOLEAN
      /\ s.query \in [Queries -> QueryRecords] /\ s.frames \in Seq(Frames)
      /\ s.held \in SUBSET Queries /\ s.replied \in [Queries -> Nat] /\ s.clears \in Nat
      /\ s.early \in SUBSET Queries
      /\ \A j \in 1 .. Len(s.dead) : s.dead[j] \in Queries
      /\ \A k \in 1 .. Len(s.frames) : s.frames[k] \in Frames
      /\ Range(s.live) \subseteq Queries /\ Range(s.dead) \subseteq Queries
  BY <1>5, RecordFields
<1>7. s.query = query /\ s.held = held /\ s.live = live /\ s.dead = dead /\ s.early = early
  BY <1>2, NowFields
<1>8. /\ query' \in [Queries -> QueryRecords]
      /\ \A p \in Queries : /\ query'[p].submitted = query[p].submitted
                            /\ query'[p].aborted = (p \in mine \/ query[p].aborted)
                            /\ query'[p].finished = query[p].finished
                            /\ query'[p].active = query[p].active
                            /\ query'[p].ticks = query[p].ticks
  <2>1. \A p \in Queries :
          LET x == [query[p] EXCEPT !.aborted = TRUE] IN
          /\ query[p] \in QueryRecords /\ x \in QueryRecords
          /\ x.submitted = query[p].submitted /\ x.aborted
          /\ x.finished = query[p].finished /\ x.active = query[p].active
          /\ x.ticks = query[p].ticks
    <3> TAKE p \in Queries
    <3>1. query[p] \in QueryRecords
      BY <1>6, <1>7
    <3> QED BY <3>1 DEF QueryRecords
  <2>2. \A p \in Queries : /\ query'[p] \in QueryRecords
                           /\ query'[p].submitted = query[p].submitted
                           /\ query'[p].aborted = (p \in mine \/ query[p].aborted)
                           /\ query'[p].finished = query[p].finished
                           /\ query'[p].active = query[p].active
                           /\ query'[p].ticks = query[p].ticks
    <3> TAKE p \in Queries
    <3>1. CASE p \in mine BY <3>1, <2>1, <1>4 DEF QueryRecords
    <3>2. CASE p \notin mine BY <3>2, <2>1, <1>4 DEF QueryRecords
    <3> QED BY <3>1, <3>2
  <2> QED BY <2>2, <1>4
<1>9. PICK r : r = Now'
  OBVIOUS
<1>10. /\ r.live = s.live /\ r.dead = s.dead /\ r.timer = s.timer /\ r.query = query'
       /\ r.replied = s.replied /\ r.held = s.held \ mine /\ r.frames = s.frames
       /\ r.clears = s.clears /\ r.early = s.early
  BY <1>2, <1>4, <1>9 DEF Now
<1>11. r \in WebRecords /\ Becomes(r)
  <2>1. s.held \ mine \in SUBSET Queries
    BY <1>6
  <2>2. r = [live |-> s.live, dead |-> s.dead, timer |-> s.timer, query |-> query',
             replied |-> s.replied, held |-> s.held \ mine, frames |-> s.frames,
             clears |-> s.clears, early |-> s.early]
    BY <1>2, <1>4, <1>9 DEF Now
  <2>3. r \in WebRecords
    BY <2>1, <2>2, <1>6, <1>8, NewRecord
  <2>4. Becomes(r)
    BY <1>9 DEF Now, Becomes
  <2> QED BY <2>3, <2>4
<1>12. \A p \in Queries : /\ r.query[p].submitted = s.query[p].submitted
                          /\ r.query[p].aborted = (p \in mine \/ s.query[p].aborted)
                          /\ r.query[p].finished = s.query[p].finished
                          /\ r.query[p].active = s.query[p].active
                          /\ r.query[p].ticks = s.query[p].ticks
  BY <1>7, <1>8, <1>10
<1>13. mine \subseteq s.held
  BY <1>4, <1>7
<1>14. CASE ~(mine \subseteq OnList(s))
  <2>1. status' = "undefined"
    BY <1>4, <1>7, <1>14 DEF OnList
  <2>2. TypeOK /\ \A q \in Queries : replied[q] <= 1
    BY <1>2, <1>3, SoundIsSafe
  <2>3. live \o dead \in Seq(Queries)
    BY <1>6, <1>7
  <2>4. Range(live \o dead) \subseteq Queries
    BY <2>3, RangeFacts
  <2>5. TypeOK'
    BY <2>2, <2>4, <1>4, <1>8 DEF TypeOK
  <2>6. steady => early = {}
    BY DEF IInv
  <2> QED BY <2>1, <2>2, <2>5, <2>6, <1>3, <1>4 DEF IInv
<1>15. CASE mine \subseteq OnList(s)
  <2>1. status' = "up"
    BY <1>3, <1>4, <1>7, <1>15 DEF OnList
  <2>2. \A p \in mine : /\ Due(s, p) /\ p \in Queries /\ s.replied[p] # 1
                        /\ s.query[p].submitted
    BY <1>5, <1>6, <1>13, <1>15 DEF Called, Holds, Due, Placed
  <2>3. Placed(r)
    BY <1>5, <1>6, <1>10, <1>12 DEF Placed, OnList
  <2>4. Called(r)
    <3>1. ASSUME NEW p \in Queries
          PROVE  /\ r.replied[p] <= 1
                 /\ r.replied[p] = 1 => r.query[p].finished /\ ~r.query[p].aborted
                 /\ r.query[p].finished \/ r.query[p].aborted => r.query[p].submitted
                 /\ p \in r.early => r.query[p].finished
      <4>1. /\ s.replied[p] <= 1
            /\ s.replied[p] = 1 => s.query[p].finished /\ ~s.query[p].aborted
            /\ s.query[p].finished \/ s.query[p].aborted => s.query[p].submitted
            /\ p \in s.early => s.query[p].finished
        BY <1>5 DEF Called
      <4> QED BY <4>1, <2>2, <1>10, <1>12
    <3> QED BY <3>1 DEF Called
  <2>5. /\ OnList(r) = OnList(s)
        /\ \A p \in Queries : Due(s, p) /\ p \notin mine => Due(r, p)
    BY <1>10, <1>12 DEF OnList, Due
  <2>6. Holds(r)
    BY <2>5, <1>5, <1>6, <1>10 DEF Holds
  <2>7. ASSUME NEW T \in SUBSET Queries, Awaits(s, T) PROVE Awaits(r, T)
    BY <2>5, <2>7, <1>10, <1>12, <1>13 DEF Awaits
  <2>8. Awaited(r, {})
    <3>1. \A k \in 1 .. Len(s.frames) : s.frames[k].submits \in SUBSET Queries
      BY <1>6 DEF Frames
    <3>2. Awaits(r, {})
      BY DEF Awaits
    <3> QED BY <3>1, <3>2, <2>7, <1>5, <1>10 DEF Awaited
  <2>9. Walked(r)
    <3> SUFFICES ASSUME NEW k \in 1 .. Len(s.frames), s.frames[k].clears = s.clears
                 PROVE  /\ s.frames[k].at <= Len(s.dead)
                        /\ \A j \in 1 .. s.frames[k].at :
                              r.query[s.dead[j]].aborted \/ r.query[s.dead[j]].finished
      BY <1>5, <1>10 DEF Walked
    <3>1. /\ s.frames[k].at <= Len(s.dead) /\ s.frames[k] \in Frames
          /\ \A j \in 1 .. s.frames[k].at :
                s.query[s.dead[j]].aborted \/ s.query[s.dead[j]].finished
      BY <1>5, <1>6 DEF Walked
    <3>2. s.frames[k].at \in Nat
      BY <3>1 DEF Frames
    <3>3. \A j \in 1 .. s.frames[k].at : s.dead[j] \in Queries
      BY <3>1, <3>2, <1>6
    <3> QED BY <3>1, <3>3, <1>12
  <2>10. Sound(r, {})
    BY <2>3, <2>4, <2>6, <2>8, <2>9, <1>11 DEF Sound
  <2>11. steady => Steady(r, timeout)
    <3> SUFFICES ASSUME steady PROVE Steady(r, timeout)
      OBVIOUS
    <3>1. Steady(s, timeout)
      BY <1>3
    <3>2. Ordered(r, timeout, 1, {})
      BY <3>1, <1>6, <1>10, <1>12 DEF Steady, Ordered
    <3>3. \A p \in Range(r.dead) : r.query[p].aborted \/ r.query[p].finished
      BY <3>1, <1>6, <1>10, <1>12 DEF Steady
    <3> QED BY <3>2, <3>3 DEF Steady
  <2>12. ~Fails(r)
    BY <1>3, <1>10 DEF Fails
  <2>13. Leads(r)
    BY <2>1, <2>10, <2>11, <2>12, <1>3, <1>4, <1>11 DEF Leads
  <2> QED BY <2>13, LeadsToInv
<1> QED BY <1>14, <1>15

\* s without its last callback, which had waited with submits.
Returned(s, r) ==
    /\ s \in WebRecords /\ r \in WebRecords
    /\ r.live = s.live /\ r.dead = s.dead /\ r.query = s.query /\ r.replied = s.replied
    /\ r.held = s.held /\ r.clears = s.clears /\ r.early = s.early
    /\ Len(s.frames) > 0 /\ Len(r.frames) = Len(s.frames) - 1
    /\ \A k \in 1 .. Len(r.frames) : r.frames[k] = s.frames[k]

LEMMA ReturnedSound ==
    ASSUME NEW s, Sound(s, {}), NEW r, Returned(s, r), NEW f, f = s.frames[Len(s.frames)]
    PROVE  Sound(r, f.submits) /\ Sound(r, {})
<1>1. /\ s \in WebRecords /\ r \in WebRecords
      /\ Placed(s) /\ Called(s) /\ Holds(s) /\ Awaited(s, {}) /\ Walked(s)
      /\ r.live = s.live /\ r.dead = s.dead /\ r.query = s.query /\ r.replied = s.replied
      /\ r.held = s.held /\ r.clears = s.clears /\ r.early = s.early
  BY DEF Sound, Returned
<1>2. /\ s.frames \in Seq(Frames) /\ r.frames \in Seq(Frames)
      /\ \A k \in 1 .. Len(s.frames) : s.frames[k] \in Frames
  BY <1>1, RecordFields
<1> DEFINE n == Len(s.frames)
<1>3. /\ n \in Nat /\ n \in 1 .. n /\ Len(r.frames) = n - 1
      /\ \A k \in 1 .. n - 1 : k \in 1 .. n /\ k # n /\ r.frames[k] = s.frames[k]
  BY <1>2 DEF Returned
<1>4. f \in Frames /\ f.submits \in SUBSET Queries
  BY <1>2, <1>3 DEF Frames
<1> HIDE DEF n
<1>5. Placed(r) /\ Called(r) /\ Holds(r)
  BY <1>1 DEF Placed, Called, Holds, Due, OnList
<1>6. Walked(r)
  BY <1>1, <1>3 DEF Walked, n
<1>7. \A T : Awaits(s, T) => Awaits(r, T)
  BY <1>1 DEF Awaits, Due, OnList
<1>8. \A k \in 1 .. n : /\ Awaits(s, s.frames[k].submits)
                        /\ \A l \in 1 .. n :
                             l # k => s.frames[l].submits \cap s.frames[k].submits = {}
  BY <1>1 DEF Awaited, n
<1>9. Awaits(r, f.submits) /\ Awaits(r, {})
  BY <1>3, <1>7, <1>8 DEF Awaits, n
<1>10. \A k \in 1 .. n - 1 : Awaits(r, r.frames[k].submits)
  BY <1>3, <1>7, <1>8
<1>11. \A k \in 1 .. n - 1 : f.submits \cap r.frames[k].submits = {}
  BY <1>3, <1>8 DEF n
<1>12. \A k \in 1 .. n - 1 :
         \A l \in 1 .. n - 1 : l # k => r.frames[l].submits \cap r.frames[k].submits = {}
  <2> TAKE k \in 1 .. n - 1
  <2> TAKE l \in 1 .. n - 1
  <2>1. /\ k \in 1 .. n /\ l \in 1 .. n
        /\ r.frames[k] = s.frames[k] /\ r.frames[l] = s.frames[l]
    BY <1>3
  <2> QED BY <2>1, <1>8
<1>13. Awaited(r, f.submits) /\ Awaited(r, {})
  BY <1>3, <1>9, <1>10, <1>11, <1>12 DEF Awaited
<1> QED BY <1>1, <1>4, <1>5, <1>6, <1>13 DEF Sound

\* A return leads to an undefined state only when m_dead was cleared meanwhile.
LEMMA ReturnKeeps ==
    ASSUME IInv, Return
    PROVE  IInv'
<1>1. PICK s : s = Now
  OBVIOUS
<1> DEFINE r == [s EXCEPT !.frames = Front(@)]
<1>2. PICK f : f = Last(s.frames)
  OBVIOUS
<1>3. /\ status = "up" /\ Sound(s, {}) /\ ~Fails(s) /\ (steady => Steady(s, timeout))
      /\ s.frames # <<>> /\ UNCHANGED <<timeout, steady>>
      /\ timeout \in Timeouts /\ steady \in BOOLEAN
      /\ \/ GoesOn(r)
         \/ Becomes(r) /\ status' = "undefined"
         \/ f.at # 0 /\ f.clears = s.clears /\ GoesOn(Walk(r, f.at + 1, f.submits))
  BY <1>1, <1>2, NowFields DEF IInv, Return
<1>4. s \in WebRecords /\ Walked(s)
  BY <1>3 DEF Sound
<1>5. s.frames \in Seq(Frames) /\ s.dead \in Seq(Queries)
  BY <1>4, RecordFields
<1>6. /\ f = s.frames[Len(s.frames)] /\ f \in Frames
      /\ Front(s.frames) \in Seq(Frames) /\ Len(Front(s.frames)) = Len(s.frames) - 1
      /\ \A k \in 1 .. Len(s.frames) - 1 : Front(s.frames)[k] = s.frames[k]
  BY <1>2, <1>3, <1>5, LastFrontFacts
<1>7. /\ r \in WebRecords /\ r.live = s.live /\ r.dead = s.dead
      /\ r.replied = s.replied /\ r.held = s.held /\ r.frames = Front(s.frames)
      /\ r.clears = s.clears /\ r.query = s.query /\ r.early = s.early
  BY <1>4, <1>6 DEF WebRecords
<1> HIDE DEF r
<1>8. Len(s.frames) > 0 /\ Len(s.frames) \in 1 .. Len(s.frames)
  BY <1>3, <1>5
<1>9. Returned(s, r)
  BY <1>4, <1>6, <1>7, <1>8 DEF Returned
<1>10. Sound(r, f.submits) /\ Sound(r, {})
  BY <1>3, <1>6, <1>9, ReturnedSound
<1>11. steady => Steady(r, timeout) /\ f.submits = {}
  <2> SUFFICES ASSUME steady PROVE Steady(r, timeout) /\ f.submits = {}
    OBVIOUS
  <2>1. Steady(s, timeout)
    BY <1>3
  <2>2. \A k \in 1 .. Len(r.frames) : k \in 1 .. Len(s.frames) /\ r.frames[k] = s.frames[k]
    BY <1>5, <1>6, <1>7
  <2>3. Steady(r, timeout)
    BY <2>1, <2>2, <1>7 DEF Steady, Ordered
  <2>4. f.submits = {}
    BY <2>1, <1>6, <1>8 DEF Steady, Ordered
  <2> QED BY <2>3, <2>4
<1>12. CASE GoesOn(r)
  BY <1>3, <1>10, <1>11, <1>12, GoesOnLeads
<1>13. CASE Becomes(r) /\ status' = "undefined"
  <2>1. Leads(r)
    BY <1>3, <1>10, <1>11, <1>13 DEF Leads
  <2> QED BY <2>1, LeadsToInv
<1>14. CASE f.at # 0 /\ f.clears = s.clears /\ GoesOn(Walk(r, f.at + 1, f.submits))
  <2>1. /\ f.at <= Len(s.dead) /\ f.at \in Nat
        /\ \A j \in 1 .. f.at : s.query[s.dead[j]].aborted \/ s.query[s.dead[j]].finished
    BY <1>4, <1>6, <1>8, <1>14 DEF Walked, Frames
  <2>2. PICK i : i = f.at + 1
    OBVIOUS
  <2>3. PICK S : S = f.submits
    OBVIOUS
  <2>4. i \in 1 .. Len(r.dead) + 1 /\ i - 1 = f.at
    BY <2>1, <2>2, <1>5, <1>7
  <2>5. IsPassed(r, i)
    BY <2>1, <2>4, <1>7 DEF IsPassed
  <2>6. PICK w : w = Walk(r, i, S)
    OBVIOUS
  <2>7. Sound(w, {})
    BY <2>3, <2>5, <2>6, <1>10, WalkSound
  <2>8. steady => Steady(w, timeout)
    <3> SUFFICES ASSUME steady PROVE Steady(w, timeout)
      OBVIOUS
    <3>1. Ordered(r, timeout, 1, S) /\ OneLeft(r, S)
      BY <2>3, <1>11 DEF Steady, OneLeft
    <3> QED BY <3>1, <2>3, <2>5, <2>6, <1>10, WalkSteady
  <2> QED BY <2>2, <2>3, <2>6, <2>7, <2>8, <1>3, <1>14, GoesOnLeads
<1> QED BY <1>3, <1>12, <1>13, <1>14

LEMMA SetTimeoutKeeps ==
    ASSUME IInv, NEW n \in Timeouts, SetTimeout(n)
    PROVE  IInv'
<1>1. PICK s : s = Now
  OBVIOUS
<1>2. /\ status = "up" /\ Sound(s, {}) /\ ~Fails(s) /\ (steady => Steady(s, timeout))
      /\ timeout \in Timeouts /\ timeout' = n /\ steady' = (steady /\ n > timeout)
      /\ Becomes(s) /\ status' = status /\ n \in Nat
  BY <1>1, WebAssumption DEF IInv, SetTimeout, Becomes, Now
<1>3. ASSUME steady, n > timeout PROVE Steady(s, n)
  <2>1. Steady(s, timeout)
    BY <1>2, <1>3
  <2>2. \A q \in Range(s.live) : s.query[q].active => s.query[q].ticks \in 1 .. n - 1
    BY <2>1, <1>2, <1>3 DEF Steady, Ordered
  <2>3. n > 1
    BY <2>1, <1>2, <1>3 DEF Steady, Ordered
  <2> QED BY <2>1, <2>2, <2>3, <1>2 DEF Steady, Ordered
<1>4. steady' \in BOOLEAN
  BY <1>2
<1>5. Leads(s)
  BY <1>2, <1>3, <1>4 DEF Leads
<1> QED BY <1>5, LeadsToInv

LEMMA DestroyKeeps ==
    ASSUME IInv, Destroy
    PROVE  IInv'
<1>1. /\ status = "up" /\ Sound(Now, {}) /\ timeout \in Timeouts
      /\ steady \in BOOLEAN /\ (steady => early = {})
  BY DEF IInv, Destroy
<1>2. TypeOK /\ \A q \in Queries : replied[q] <= 1
  BY <1>1, SoundIsSafe
<1>3. /\ live' = live /\ dead' = dead /\ timer' = FALSE /\ timeout' = timeout
      /\ held' = held /\ frames' = frames /\ replied' = replied /\ status' = "gone"
      /\ early' = early /\ steady' = steady
      /\ query' = [q \in Queries |-> IF q \in Range(live)
                                     THEN [query[q] EXCEPT !.aborted = TRUE] ELSE query[q]]
  BY DEF Destroy
<1>4. /\ live \in Seq(Queries) /\ dead \in Seq(Queries) /\ query \in [Queries -> QueryRecords]
  BY <1>1, RecordFields, NowFields DEF Sound
<1>5. Range(live \o dead) \subseteq Queries
  <2>1. live \o dead \in Seq(Queries) BY <1>4
  <2> QED BY <2>1, RangeFacts
<1>6. \A q \in Queries : query'[q].submitted = query[q].submitted
  <2> TAKE q \in Queries
  <2>1. query[q] \in QueryRecords BY <1>4
  <2> QED BY <2>1, <1>3 DEF QueryRecords
<1>7. TypeOK'
  BY <1>2, <1>3, <1>5, <1>6 DEF TypeOK
<1> QED BY <1>1, <1>2, <1>3, <1>7 DEF IInv

-----------------------------------------------------------------------------
(* The theorems.                                                           *)

LEMMA InitInv == Init => IInv
<1> SUFFICES ASSUME Init PROVE IInv
  OBVIOUS
<1>1. PICK s : s = Now
  OBVIOUS
<1>2. /\ s.live = <<>> /\ s.dead = <<>> /\ s.timer = FALSE
      /\ s.query = [q \in Queries |-> [submitted |-> FALSE, active |-> FALSE, aborted |-> FALSE,
                                       finished |-> FALSE, ticks |-> 0]]
      /\ s.replied = [q \in Queries |-> 0] /\ s.held = {} /\ s.frames = <<>>
      /\ s.clears = 0 /\ s.early = {}
      /\ status = "up" /\ timeout \in Timeouts /\ timeout \in Nat /\ steady = (timeout > 1)
      /\ early = {}
  BY <1>1, WebAssumption DEF Init, Now
<1>3. s \in WebRecords
  <2>1. s.query \in [Queries -> QueryRecords]
    BY <1>2 DEF QueryRecords
  <2>2. s.replied \in [Queries -> Nat]
    BY <1>2
  <2>3. /\ s.live \in Seq(Queries) /\ s.dead \in Seq(Queries) /\ s.timer \in BOOLEAN
        /\ s.held \in SUBSET Queries /\ s.frames \in Seq(Frames) /\ s.clears \in Nat
        /\ s.early \in SUBSET Queries
    <3>1. /\ s.live = <<>> /\ s.dead = <<>> /\ s.held = {}
          /\ s.frames = <<>> /\ s.clears = 0 /\ s.early = {}
      BY <1>2
    <3>2. <<>> \in Seq(Queries) /\ <<>> \in Seq(Frames)
      OBVIOUS
    <3>3. s.timer \in BOOLEAN
      BY <1>2
    <3>4. s.live \in Seq(Queries) /\ s.dead \in Seq(Queries) /\ s.frames \in Seq(Frames)
      BY <3>1, <3>2, Zenon
    <3>5. s.held \in SUBSET Queries /\ s.clears \in Nat /\ s.early \in SUBSET Queries
      BY <3>1
    <3> QED BY <3>3, <3>4, <3>5
  <2>4. s = [live |-> s.live, dead |-> s.dead, timer |-> s.timer, query |-> s.query,
             replied |-> s.replied, held |-> s.held, frames |-> s.frames, clears |-> s.clears,
             early |-> s.early]
    BY <1>1 DEF Now
  <2>5. [live |-> s.live, dead |-> s.dead, timer |-> s.timer, query |-> s.query,
         replied |-> s.replied, held |-> s.held, frames |-> s.frames, clears |-> s.clears,
         early |-> s.early] \in WebRecords
    BY <2>1, <2>2, <2>3, NewRecord
  <2> QED BY <2>4, <2>5
<1>4. Range(<<>>) = {} /\ IsInjective(<<>>)
  <2>1. DOMAIN <<>> = {} OBVIOUS
  <2> QED BY <2>1 DEF Range, IsInjective
<1>5. Placed(s)
  BY <1>2, <1>4 DEF Placed, OnList
<1>6. Called(s)
  BY <1>2 DEF Called
<1>7. Holds(s) /\ Awaited(s, {}) /\ Walked(s)
  BY <1>2 DEF Holds, Awaited, Awaits, Walked
<1>8. steady => Steady(s, timeout)
  <2>1. Range(s.live) = {} /\ Range(s.dead) = {} /\ Len(s.frames) = 0
    BY <1>2, <1>4
  <2>2. \A q \in Queries : ~s.query[q].active /\ s.query[q].ticks = 0
    BY <1>2
  <2>3. timeout \in Nat /\ s.early = {} /\ (steady => timeout > 1)
    BY <1>2
  <2> QED BY <2>1, <2>2, <2>3 DEF Steady, Ordered
<1>9. ~Fails(s)
  BY <1>2 DEF Fails
<1>10. Sound(s, {})
  BY <1>3, <1>5, <1>6, <1>7 DEF Sound
<1>11. steady \in BOOLEAN
  BY <1>2
<1> QED BY <1>1, <1>2, <1>8, <1>9, <1>10, <1>11 DEF IInv

LEMMA NextInv == IInv /\ [Next]_vars => IInv'
<1> SUFFICES ASSUME IInv, [Next]_vars PROVE IInv'
  OBVIOUS
<1>1. CASE UNCHANGED vars
  <2>1. Now' = Now
    BY <1>1 DEF vars, Now
  <2> QED BY <2>1, <1>1 DEF vars, IInv, TypeOK
<1>2. CASE Next
  <2>1. ASSUME NEW q \in Queries, Submit(q) PROVE IInv'
    BY <2>1, SubmitKeeps
  <2>2. ASSUME NEW q \in Queries, Finished(q) PROVE IInv'
    BY <2>2, FinishedKeeps
  <2>3. ASSUME NEW c \in Range(Client), Stop(c) PROVE IInv'
    BY <2>3, StopKeeps
  <2>4. ASSUME NEW n \in Timeouts, SetTimeout(n) PROVE IInv'
    BY <2>4, SetTimeoutKeeps
  <2>5. CASE Heartbeat
    BY <2>5, HeartbeatKeeps
  <2>6. CASE Return
    BY <2>6, ReturnKeeps
  <2>7. CASE Destroy
    BY <2>7, DestroyKeeps
  <2> QED BY <1>2, <2>1, <2>2, <2>3, <2>4, <2>5, <2>6, <2>7 DEF Next
<1> QED BY <1>1, <1>2

LEMMA Invariant == Spec => []IInv
<1>1. Init => IInv BY InitInv
<1>2. IInv /\ [Next]_vars => IInv' BY NextInv
<1> QED BY <1>1, <1>2, PTL DEF Spec

\* A query is on one of the lists at most, and what a client holds is on one,
\* unless it was called back before submit had returned and the client does not
\* look; with a timeout that is never lowered no query is called back so early,
\* and no ENDCHECK fails.
THEOREM QueriesAreOnTheLists == Spec => []ListsSound
<1>1. IInv => ListsSound
  <2> SUFFICES ASSUME IInv PROVE ListsSound
    OBVIOUS
  <2>1. TypeOK
    BY SoundIsSafe DEF IInv
  <2>2. HeldIsValid
    <3> SUFFICES ASSUME status = "up", NEW q \in held
                 PROVE  q \in Range(live) \cup Range(dead)
                        \/ (q \in early /\ Client[q] \notin Checking)
      BY DEF HeldIsValid
    <3>1. q \in Range(live) \cup Range(dead) \/ q \in early
      BY SoundIsSafe DEF IInv
    <3>2. q \in early => Client[q] \notin Checking
      BY NowFields DEF IInv, Fails
    <3> QED BY <3>1, <3>2
  <2>3. KnownInTime
    BY DEF IInv, KnownInTime
  <2> QED BY <2>1, <2>2, <2>3 DEF ListsSound
<1> QED BY <1>1, Invariant, PTL

\* OnReply is called once at most for each query, and never after an abort,
\* whether reply, timeout or abort comes first and however callbacks nest.
THEOREM CalledBackOnce == Spec => []RepliedOnce
<1>1. IInv => RepliedOnce
  BY SoundIsSafe DEF IInv, RepliedOnce
<1> QED BY <1>1, Invariant, PTL
=============================================================================
