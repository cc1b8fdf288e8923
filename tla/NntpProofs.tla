----------------------------- MODULE NntpProofs -----------------------------
(***************************************************************************)
(* Proofs about NntpProperties: responses stay with their commands and a   *)
(* cmdlist that is complete has its answers, for any cmdlists, any server  *)
(* and any number of connections that are lost.                            *)
(***************************************************************************)
EXTENDS NntpProperties, CollectionFacts

-----------------------------------------------------------------------------
(* The inductive invariant: types. *)

Kinds == {"welcome", "getcaps", "authuser", "authpass", "modereader", "xfeature",
          "group", "body", "xover", "list", "quit"}
Commands == [kind : Kinds, arg : STRING]
Statuses == {"none", "success", "unavailable", "error"}
Buffers  == [status : Statuses, of : Commands \cup {NoCommand}]
Errors   == {"none", "rejected", "no_permission"}
Sessions == [send : Seq(Commands), recv : Seq(Commands), group : STRING,
             have_caps : BOOLEAN, error : Errors, pipelining : BOOLEAN,
             compression : BOOLEAN]

\* What the server says of a group, and what cannot be inflated.
Responses ==
    {r \in [to : Commands, code : AnyCode, good : BOOLEAN] :
        /\ r.code = 411 => r.to.kind = "group" /\ r.to.arg \notin Carried
        /\ r.code = 211 => r.to.kind = "group"
        /\ ~r.good => r.to.kind = "xover" /\ r.code = 224}

Outcomes == {"unwanted", "new", "dropped", "failed", "done"}
CancelTypes ==
    /\ buffers \in [Cmdlists -> Seq(Buffers)]
    /\ outcome \in [Cmdlists -> Outcomes]
    /\ canceled \in [Cmdlists -> BOOLEAN]
    /\ cancel \in BOOLEAN
Types ==
    /\ ses \in Sessions
    /\ pc \in {"closed", "init", "idle", "configure", "config", "submit", "data",
               "ping", "quit"}
    /\ waiting \in BOOLEAN
    /\ recvbuf \in Seq(Responses) /\ wire \in Seq(Responses) /\ net \in Seq(Commands)
    /\ config \in Statuses /\ try \in Nat /\ list \in SUBSET Cmdlists
    /\ server \in [authenticated : BOOLEAN, group : STRING]
    /\ CancelTypes

-----------------------------------------------------------------------------
(* Responses and commands: q are the outstanding commands, b is the receive *)
(* buffer, w the responses and n the commands on their way.                 *)

\* The outstanding commands whose response is no longer on its way.
Before(q, w, n) == Len(q) - (Len(w) + Len(n))

\* What comes is for the last of the outstanding commands.
InOrder(q, w, n) ==
    /\ Len(w) + Len(n) <= Len(q)
    /\ \A i \in 1 .. Len(w) : w[i].to = q[Before(q, w, n) + i]
    /\ \A i \in 1 .. Len(n) : n[i] = q[Len(q) - Len(n) + i]

\* A response that parse leaves at the head of the receive buffer.
Sticks(b) == b # <<>> /\ (b[1].code = 411 \/ ~b[1].good)

\* The receive buffer has the responses of the first outstanding commands, or
\* too many after one that was left in it.
InBuffer(q, b, w, n) ==
    \/ Len(b) = Before(q, w, n) /\ \A i \in 1 .. Len(b) : b[i].to = q[i]
    \/ Len(b) > Before(q, w, n) /\ Sticks(b)

\* The commands that have no answer yet.
Unanswered(s) == s.recv \o s.send

\* The command c comes last; what precedes it authenticates.
Finally(u, c) ==
    u # <<>> => /\ u[Len(u)] = c
                /\ \A i \in 1 .. Len(u) - 1 : u[i].kind \in {"authuser", "authpass", "getcaps"}

InitKinds == {"welcome", "getcaps", "modereader", "xfeature", "authuser", "authpass"}

OneAnswer(c) == cmdtype[c] \in {"listing", "groupinfo"}
Pipelined    == pc = "data" /\ \E c \in list : ~OneAnswer(c)

\* One command at a time.
OneByOne ==
    Len(ses.recv) <= 1 /\ Before(ses.recv, wire, net) = 0 /\ (~waiting => ses.recv = <<>>)

Conversation ==
    /\ InOrder(ses.recv, wire, net)
    /\ pc \in {"idle", "closed"} => recvbuf = <<>> /\ ~waiting
    /\ pc = "idle" /\ ~cancel => Unanswered(ses) = <<>>
    /\ pc = "closed" => Unanswered(ses) = <<>> /\ server.group = NoGroup
    /\ pc \in {"configure", "submit"} => ~waiting /\ Unanswered(ses) = <<>>
    /\ pc \in {"data", "ping", "quit"} => Unanswered(ses) # <<>>
    /\ waiting => ses.recv # <<>>
    /\ pc \notin {"idle", "closed"} => InBuffer(ses.recv, recvbuf, wire, net)
    /\ pc \notin {"idle", "closed"} /\ (~Pipelined \/ ~ses.pipelining) => OneByOne
    /\ recvbuf # <<>> => \E c \in list : ~OneAnswer(c)
    /\ pc = "init" => \A i \in 1 .. Len(Unanswered(ses)) : Unanswered(ses)[i].kind \in InitKinds
    /\ pc = "ping" => Finally(Unanswered(ses), Command("group", PingGroup))
    /\ pc = "quit" => Finally(Unanswered(ses), Command("quit", NoGroup))

-----------------------------------------------------------------------------
(* Cmdlists: u are the commands without an answer, bs is cmdlist::buffers_. *)

\* The buffers that have no status yet.
Unfilled(bs, c) ==
    {i \in 1 .. Len(commands[c]) : i > Len(bs) \/ bs[i].status = "none"}

\* The commands without an answer are those for the buffers w, from the first.
AsksFor(u, bs, c, w) ==
    /\ \A k \in 1 .. Len(u) : u[k] = Asked(c, w[k])
    /\ Unfilled(bs, c) = {w[k] : k \in 1 .. Len(u)}
    /\ \A k, l \in 1 .. Len(u) : k < l => w[k] < w[l]

AsksForAll(u, bs, c) ==
    \E w \in [1 .. Len(u) -> 1 .. Len(commands[c])] : AsksFor(u, bs, c, w)

NoAnswer(bs) == Len(bs) <= 1 /\ \A i \in 1 .. Len(bs) : bs[i].status = "none"

\* An article or a range has a buffer of its own.
Buffered(c) ==
    /\ ~OneAnswer(c) => Len(buffers[c]) <= Len(commands[c])
    /\ OneAnswer(c) /\ outcome[c] = "new" => NoAnswer(buffers[c])

Executing == {"configure", "config", "submit", "data"}

Executes ==
    /\ pc \notin Executing => list = {} /\ try = 0
    /\ pc \in Executing => \E c \in Cmdlists : list = {c}
    /\ \A c \in list :
           /\ outcome[c] = "new"
           /\ pc \in {"configure", "config"} => ~OneAnswer(c)
           /\ pc = "configure" => try <= Len(groups[c])
           /\ pc = "config" => try < Len(groups[c])
                               /\ Finally(Unanswered(ses), Command("group", groups[c][try + 1]))
           /\ pc = "data" => IF OneAnswer(c) THEN Finally(Unanswered(ses), Asked(c, 1))
                             ELSE AsksForAll(Unanswered(ses), buffers[c], c)

Stored == BuffersMatch /\ DoneIsAnswered /\ \A c \in Cmdlists : Buffered(c)

-----------------------------------------------------------------------------
(* Groups. *)

\* The session's group is the server's, but for one the server has selected
\* and not yet said so.
SameGroup(g, h, told) ==
    /\ \A i \in 1 .. Len(told) : told[i].code = 211 => h = told[i].to.arg
    /\ g \in Carried => g = h \/ \E i \in 1 .. Len(told) : told[i].code = 211
Selected == SameGroup(ses.group, server.group, recvbuf \o wire)

Refused411 == recvbuf # <<>> /\ recvbuf[1].code = 411

\* Where a 411 is left in the buffer.
Refusals ==
    /\ pc \in {"configure", "config", "submit"} /\ recvbuf # <<>> => Refused411
    /\ pc = "data" => Refused411 \/ \A i \in 1 .. Len(recvbuf) : recvbuf[i].code # 211
    /\ pc = "config" /\ Refused411 =>
          /\ config # "success"
          /\ Unanswered(ses) = <<>> => \A c \in list : ses.group = groups[c][try + 1]
          /\ try = 0 => Unanswered(ses) = <<>> /\ ses.group \notin Carried
          /\ Len(Unanswered(ses)) <= 1
    /\ pc = "configure" /\ Refused411 =>
          /\ try # 0 /\ \A c \in list : ses.group = groups[c][try]
          /\ try = 1 => ses.group \notin Carried
    /\ pc \in {"submit", "data"} /\ Refused411 => \A c \in list : ~IsInjective(groups[c])

\* Where the session may be wrong about the group.
Misreads ==
    \/ MayHaveMisread
    \/ pc = "idle" /\ pending(ses)
    \/ pc = "quit"
    \/ Refused411 /\ pc = "config" /\ try >= 1
    \/ Refused411 /\ pc = "configure" /\ try >= 2
    \/ Refused411 /\ pc \in {"submit", "data"}

Groups == Refusals /\ (Selected \/ Misreads)

IInv == Types /\ Conversation /\ Executes /\ Stored /\ Groups

-----------------------------------------------------------------------------
(* Sequences. *)

LEMMA TailFacts ==
    ASSUME NEW X, NEW s \in Seq(X), s # <<>>
    PROVE  /\ Head(s) = s[1] /\ s[1] \in X /\ Len(s) \in Nat \ {0}
           /\ Tail(s) \in Seq(X) /\ Len(Tail(s)) = Len(s) - 1
           /\ \A i \in 1 .. Len(s) - 1 : Tail(s)[i] = s[i + 1]
  OBVIOUS

LEMMA EmptyFacts ==
    ASSUME NEW X, NEW s \in Seq(X)
    PROVE  /\ Len(s) \in Nat /\ (s = <<>> <=> Len(s) = 0)
           /\ \A i \in 1 .. Len(s) : s[i] \in X
  OBVIOUS

LEMMA JoinFacts ==
    ASSUME NEW X, NEW s \in Seq(X), NEW t \in Seq(X)
    PROVE  /\ s \o t \in Seq(X) /\ Len(s \o t) = Len(s) + Len(t)
           /\ \A i \in 1 .. Len(s) : (s \o t)[i] = s[i]
           /\ \A i \in 1 .. Len(t) : (s \o t)[Len(s) + i] = t[i]
           /\ \A i \in 1 .. Len(s) + Len(t) : 
                 \/ i \in 1 .. Len(s) /\ (s \o t)[i] = s[i]
                 \/ i - Len(s) \in 1 .. Len(t) /\ (s \o t)[i] = t[i - Len(s)]
           /\ s \o t = <<>> <=> s = <<>> /\ t = <<>>
           /\ s = <<>> => s \o t = t
           /\ t = <<>> => s \o t = s
  OBVIOUS

LEMMA SplitFacts ==
    ASSUME NEW X, NEW s \in Seq(X), NEW k \in 0 .. Len(s)
    PROVE  /\ SubSeq(s, 1, k) \in Seq(X) /\ Len(SubSeq(s, 1, k)) = k
           /\ \A i \in 1 .. k : SubSeq(s, 1, k)[i] = s[i]
           /\ SubSeq(s, k + 1, Len(s)) \in Seq(X) /\ Len(SubSeq(s, k + 1, Len(s))) = Len(s) - k
           /\ \A i \in 1 .. Len(s) - k : SubSeq(s, k + 1, Len(s))[i] = s[k + i]
  OBVIOUS

\* Taking the head of the outstanding commands, and sending some more.
LEMMA TailOfJoin ==
    ASSUME NEW X, NEW s \in Seq(X), NEW t \in Seq(X), s # <<>>
    PROVE  Tail(s) \o t = Tail(s \o t)
  OBVIOUS

LEMMA EqualSequences ==
    ASSUME NEW X, NEW s \in Seq(X), NEW t \in Seq(X), Len(s) = Len(t),
           \A i \in 1 .. Len(s) : s[i] = t[i]
    PROVE  s = t
  OBVIOUS

LEMMA JoinOfSplit ==
    ASSUME NEW X, NEW s \in Seq(X), NEW t \in Seq(X), NEW k \in 0 .. Len(t)
    PROVE  (s \o SubSeq(t, 1, k)) \o SubSeq(t, k + 1, Len(t)) = s \o t
<1> DEFINE a == SubSeq(t, 1, k)
           b == SubSeq(t, k + 1, Len(t))
           c == s \o a
           l == c \o b
           r == s \o t
<1>1. /\ a \in Seq(X) /\ b \in Seq(X) /\ Len(a) = k /\ Len(b) = Len(t) - k
      /\ \A i \in 1 .. k : a[i] = t[i]
      /\ \A i \in 1 .. Len(t) - k : b[i] = t[k + i]
      /\ Len(s) \in Nat /\ Len(t) \in Nat
  BY SplitFacts, EmptyFacts
<1> HIDE DEF a, b
<1>2. /\ c \in Seq(X) /\ Len(c) = Len(s) + k
      /\ \A i \in 1 .. Len(s) : c[i] = s[i]
      /\ \A i \in 1 .. k : c[Len(s) + i] = a[i]
  <2>1. /\ c \in Seq(X) /\ Len(c) = Len(s) + Len(a)
        /\ \A i \in 1 .. Len(s) : c[i] = s[i]
        /\ \A i \in 1 .. Len(a) : c[Len(s) + i] = a[i]
    <3>1. a \in Seq(X) BY <1>1
    <3> QED BY <3>1, JoinFacts
  <2> HIDE DEF c
  <2> QED BY <2>1, <1>1
<1> HIDE DEF c
<1>3. /\ l \in Seq(X) /\ Len(l) = Len(s) + k + (Len(t) - k)
      /\ \A i \in 1 .. Len(s) + k : l[i] = c[i]
      /\ \A i \in 1 .. Len(t) - k : l[Len(s) + k + i] = b[i]
  <2>1. /\ l \in Seq(X) /\ Len(l) = Len(c) + Len(b)
        /\ \A i \in 1 .. Len(c) : l[i] = c[i]
        /\ \A i \in 1 .. Len(b) : l[Len(c) + i] = b[i]
    <3>1. c \in Seq(X) /\ b \in Seq(X) BY <1>1, <1>2
    <3> QED BY <3>1, JoinFacts
  <2> HIDE DEF l
  <2> QED BY <2>1, <1>1, <1>2
<1>4. /\ r \in Seq(X) /\ Len(r) = Len(s) + Len(t)
      /\ \A i \in 1 .. Len(s) : r[i] = s[i]
      /\ \A i \in 1 .. Len(t) : r[Len(s) + i] = t[i]
  BY <1>1, JoinFacts
<1> HIDE DEF l, r
<1>5. ASSUME NEW i \in 1 .. Len(s) + Len(t) PROVE l[i] = r[i]
  <2>1. CASE i \in 1 .. Len(s)
    BY <2>1, <1>1, <1>2, <1>3, <1>4
  <2>2. CASE i \in Len(s) + 1 .. Len(s) + k
    <3>1. i - Len(s) \in 1 .. k /\ Len(s) + (i - Len(s)) = i /\ i - Len(s) \in 1 .. Len(t) BY <2>2, <1>1
    <3>2. c[Len(s) + (i - Len(s))] = a[i - Len(s)] BY <3>1, <1>2
    <3>3. r[Len(s) + (i - Len(s))] = t[i - Len(s)] BY <3>1, <1>4
    <3>4. i \in 1 .. Len(s) + k BY <2>2, <1>1
    <3> QED BY <3>1, <3>2, <3>3, <3>4, <1>1, <1>3
  <2>3. CASE i \in Len(s) + k + 1 .. Len(s) + Len(t)
    <3>1. /\ i - (Len(s) + k) \in 1 .. Len(t) - k /\ Len(s) + k + (i - (Len(s) + k)) = i
          /\ i - Len(s) \in 1 .. Len(t) /\ Len(s) + (i - Len(s)) = i
          /\ k + (i - (Len(s) + k)) = i - Len(s) 
      BY <2>3, <1>1
    <3>2. l[Len(s) + k + (i - (Len(s) + k))] = b[i - (Len(s) + k)] BY <3>1, <1>3
    <3>3. r[Len(s) + (i - Len(s))] = t[i - Len(s)] BY <3>1, <1>4
    <3>4. b[i - (Len(s) + k)] = t[k + (i - (Len(s) + k))] BY <3>1, <1>1
    <3> QED BY <3>1, <3>2, <3>3, <3>4
  <2> QED BY <2>1, <2>2, <2>3, <1>1
<1>6. Len(l) = Len(r)
  BY <1>1, <1>3, <1>4
<1>7. l = r
  BY <1>3, <1>4, <1>5, <1>6, EqualSequences
<1> QED BY <1>7 DEF l, r, c, a, b

-----------------------------------------------------------------------------
(* Responses stay in order. *)

LEMMA NothingComes ==
    ASSUME NEW w \in Seq(Responses), NEW n \in Seq(Commands), InOrder(<<>>, w, n)
    PROVE  w = <<>> /\ n = <<>>
  BY EmptyFacts DEF InOrder

LEMMA NothingOutstanding ==
    InOrder(<<>>, <<>>, <<>>) /\ InBuffer(<<>>, <<>>, <<>>, <<>>) /\ Before(<<>>, <<>>, <<>>) = 0
<1> DEFINE l == Len(<<>>)
<1>1. l = 0
  OBVIOUS
<1>2. Before(<<>>, <<>>, <<>>) = 0
  <2>1. Before(<<>>, <<>>, <<>>) = l - (l + l) BY DEF Before
  <2> HIDE DEF l
  <2> QED BY <2>1, <1>1
<1>3. InOrder(<<>>, <<>>, <<>>)
  BY <1>1 DEF InOrder
<1>4. InBuffer(<<>>, <<>>, <<>>, <<>>)
  BY <1>1, <1>2 DEF InBuffer
<1> QED BY <1>2, <1>3, <1>4

LEMMA SendKeepsOrder ==
    ASSUME NEW q \in Seq(Commands), NEW b \in Seq(Responses), NEW w \in Seq(Responses),
           NEW n \in Seq(Commands), NEW x \in Seq(Commands), InOrder(q, w, n)
    PROVE  /\ InOrder(q \o x, w, n \o x)
           /\ Before(q \o x, w, n \o x) = Before(q, w, n)
           /\ InBuffer(q, b, w, n) => InBuffer(q \o x, b, w, n \o x)
<1> DEFINE e == Before(q, w, n)
<1>1. /\ Len(q) \in Nat /\ Len(b) \in Nat /\ Len(w) \in Nat /\ Len(n) \in Nat /\ Len(x) \in Nat
      /\ Len(q \o x) = Len(q) + Len(x) /\ Len(n \o x) = Len(n) + Len(x)
  BY JoinFacts, EmptyFacts
<1>2. Before(q \o x, w, n \o x) = e /\ e \in Nat /\ e <= Len(q) /\ e + Len(w) + Len(n) = Len(q)
  BY <1>1 DEF Before, InOrder
<1>3. \A i \in 1 .. Len(w) : w[i].to = (q \o x)[e + i]
  <2> TAKE i \in 1 .. Len(w)
  <2>1. e + i \in 1 .. Len(q) BY <1>1, <1>2
  <2>2. (q \o x)[e + i] = q[e + i] BY <2>1, JoinFacts
  <2> QED BY <2>2 DEF InOrder
<1>4. \A i \in 1 .. Len(n \o x) : (n \o x)[i] = (q \o x)[Len(q \o x) - Len(n \o x) + i]
  <2> TAKE i \in 1 .. Len(n \o x)
  <2>0. Len(q \o x) - Len(n \o x) = Len(q) - Len(n) BY <1>1
  <2>1. CASE i \in 1 .. Len(n)
    <3>1. Len(q) - Len(n) + i \in 1 .. Len(q) BY <2>1, <1>1, <1>2
    <3>2. (n \o x)[i] = n[i] /\ n[i] = q[Len(q) - Len(n) + i] BY <2>1, JoinFacts DEF InOrder
    <3>3. (q \o x)[Len(q) - Len(n) + i] = q[Len(q) - Len(n) + i] BY <3>1, JoinFacts
    <3> QED BY <3>2, <3>3, <2>0
  <2>2. CASE i - Len(n) \in 1 .. Len(x)
    <3>1. (n \o x)[Len(n) + (i - Len(n))] = x[i - Len(n)] BY <2>2, JoinFacts
    <3>2. (q \o x)[Len(q) + (i - Len(n))] = x[i - Len(n)] BY <2>2, JoinFacts
    <3>3. Len(n) + (i - Len(n)) = i /\ Len(q) + (i - Len(n)) = Len(q) - Len(n) + i BY <1>1
    <3> QED BY <3>1, <3>2, <3>3, <2>0
  <2>3. i \in 1 .. Len(n) \/ i - Len(n) \in 1 .. Len(x) BY <1>1
  <2> HIDE DEF e
  <2> QED BY <2>1, <2>2, <2>3
<1>5. InOrder(q \o x, w, n \o x)
  <2>1. Len(w) + Len(n \o x) <= Len(q \o x) BY <1>1 DEF InOrder
  <2> QED BY <2>1, <1>2, <1>3, <1>4 DEF InOrder
<1>6. ASSUME InBuffer(q, b, w, n) PROVE InBuffer(q \o x, b, w, n \o x)
  <2>1. CASE Len(b) = e /\ \A i \in 1 .. Len(b) : b[i].to = q[i]
    <3>1. \A i \in 1 .. Len(b) : (q \o x)[i] = q[i]
      <4> TAKE i \in 1 .. Len(b)
      <4>1. i \in 1 .. Len(q) BY <2>1, <1>1, <1>2
      <4> QED BY <4>1, JoinFacts
    <3> QED BY <2>1, <3>1, <1>2 DEF InBuffer
  <2>2. CASE Len(b) > e /\ Sticks(b)
    BY <2>2, <1>2 DEF InBuffer
  <2> QED BY <2>1, <2>2, <1>6 DEF InBuffer
<1> QED BY <1>2, <1>5, <1>6

LEMMA AnswerKeepsOrder ==
    ASSUME NEW q \in Seq(Commands), NEW b \in Seq(Responses), NEW w \in Seq(Responses),
           NEW n \in Seq(Commands), n # <<>>, NEW r \in Responses, r.to = Head(n),
           InOrder(q, w, n)
    PROVE  /\ InOrder(q, Append(w, r), Tail(n))
           /\ Before(q, Append(w, r), Tail(n)) = Before(q, w, n)
           /\ InBuffer(q, b, w, n) => InBuffer(q, b, Append(w, r), Tail(n))
<1> DEFINE v == Append(w, r)
           m == Tail(n)
           e == Before(q, w, n)
<1>1. /\ Len(q) \in Nat /\ Len(b) \in Nat /\ Len(w) \in Nat /\ Len(n) \in Nat \ {0}
      /\ Len(m) = Len(n) - 1 /\ Head(n) = n[1] /\ \A i \in 1 .. Len(n) - 1 : m[i] = n[i + 1]
  BY TailFacts, EmptyFacts
<1>2. Len(v) = Len(w) + 1 /\ v[Len(w) + 1] = r /\ \A i \in 1 .. Len(w) : v[i] = w[i]
  OBVIOUS
<1> HIDE DEF v, m
<1>3. Before(q, v, m) = e /\ e \in Nat /\ Len(q) - Len(n) = e + Len(w) /\ Len(q) - Len(m) = e + Len(w) + 1
  BY <1>1, <1>2 DEF Before, InOrder
<1>4. \A i \in 1 .. Len(v) : v[i].to = q[e + i]
  <2> TAKE i \in 1 .. Len(v)
  <2>1. CASE i \in 1 .. Len(w)
    BY <2>1, <1>2 DEF InOrder
  <2>2. CASE i = Len(w) + 1
    <3>1. n[1] = q[Len(q) - Len(n) + 1] BY <1>1 DEF InOrder
    <3>2. Len(q) - Len(n) + 1 = e + i BY <1>1, <1>3, <2>2
    <3> QED BY <3>1, <3>2, <2>2, <1>1, <1>2
  <2> QED BY <2>1, <2>2, <1>1, <1>2
<1>5. \A i \in 1 .. Len(m) : m[i] = q[Len(q) - Len(m) + i]
  <2> TAKE i \in 1 .. Len(m)
  <2>1. i + 1 \in 1 .. Len(n) /\ Len(q) - Len(n) + (i + 1) = Len(q) - Len(m) + i BY <1>1
  <2>2. m[i] = n[i + 1] BY <1>1
  <2>3. n[i + 1] = q[Len(q) - Len(n) + (i + 1)] BY <2>1 DEF InOrder
  <2> QED BY <2>1, <2>2, <2>3
<1>6. Len(v) + Len(m) <= Len(q) BY <1>1, <1>2 DEF InOrder
<1>7. InOrder(q, v, m) BY <1>3, <1>4, <1>5, <1>6 DEF InOrder
<1>8. InBuffer(q, b, w, n) => InBuffer(q, b, v, m) BY <1>3 DEF InBuffer
<1> QED BY <1>3, <1>7, <1>8 DEF v, m

LEMMA ReceiveKeepsOrder ==
    ASSUME NEW q \in Seq(Commands), q # <<>>, NEW w \in Seq(Responses),
           NEW n \in Seq(Commands), NEW k \in 1 .. Len(w), InOrder(q, w, n)
    PROVE  /\ InOrder(Tail(q), SubSeq(w, k + 1, Len(w)), n)
           /\ Before(Tail(q), SubSeq(w, k + 1, Len(w)), n) = Before(q, w, n) + k - 1
           /\ Len(q) = 1 => SubSeq(w, k + 1, Len(w)) = <<>> /\ n = <<>>
<1> DEFINE v == SubSeq(w, k + 1, Len(w))
           p == Tail(q)
           e == Before(q, w, n)
<1>1. /\ Len(q) \in Nat \ {0} /\ Len(p) = Len(q) - 1 /\ \A i \in 1 .. Len(q) - 1 : p[i] = q[i + 1]
      /\ Len(w) \in Nat /\ Len(n) \in Nat /\ k \in 0 .. Len(w)
  BY TailFacts, EmptyFacts
<1>2. v \in Seq(Responses) /\ Len(v) = Len(w) - k /\ \A i \in 1 .. Len(w) - k : v[i] = w[k + i]
  BY <1>1, SplitFacts
<1> HIDE DEF v, p
<1>3. e \in Nat /\ Before(p, v, n) = e + k - 1 /\ Len(v) + Len(n) <= Len(p) /\ e + Len(w) <= Len(q)
  BY <1>1, <1>2 DEF Before, InOrder
<1>4. \A i \in 1 .. Len(v) : v[i].to = p[Before(p, v, n) + i]
  <2> TAKE i \in 1 .. Len(v)
  <2>0. /\ Len(v) = Len(w) - k /\ e + Len(w) <= Len(q)
        /\ e \in Nat /\ Len(w) \in Nat /\ Len(q) \in Nat
    BY <1>1, <1>2, <1>3
  <2>1. k + i \in 1 .. Len(w) /\ e + k - 1 + i \in 1 .. Len(q) - 1 BY <2>0
  <2>2. w[k + i].to = q[e + (k + i)] BY <2>1 DEF InOrder
  <2>3. p[e + k - 1 + i] = q[e + k - 1 + i + 1] BY <2>1, <1>1
  <2>4. e + k - 1 + i + 1 = e + (k + i) BY <1>1, <1>3
  <2> QED BY <2>2, <2>3, <2>4, <1>2, <1>3
<1>5. \A i \in 1 .. Len(n) : n[i] = p[Len(p) - Len(n) + i]
  <2> TAKE i \in 1 .. Len(n)
  <2>1. Len(p) - Len(n) + i \in 1 .. Len(q) - 1 /\ Len(p) - Len(n) + i + 1 = Len(q) - Len(n) + i
    BY <1>1, <1>2, <1>3
  <2>2. p[Len(p) - Len(n) + i] = q[Len(p) - Len(n) + i + 1] BY <2>1, <1>1
  <2> QED BY <2>1, <2>2 DEF InOrder
<1>6. InOrder(p, v, n) BY <1>3, <1>4, <1>5 DEF InOrder
<1>7. Len(q) = 1 => v = <<>> /\ n = <<>>
  BY <1>1, <1>2, EmptyFacts DEF InOrder
<1> QED BY <1>3, <1>6, <1>7 DEF v, p

-----------------------------------------------------------------------------
(* The commands without an answer. *)

LEMMA JoinIsAssociative ==
    ASSUME NEW X, NEW s \in Seq(X), NEW t \in Seq(X), NEW u \in Seq(X)
    PROVE  (s \o t) \o u = s \o (t \o u)
<1> DEFINE a == s \o t
           b == t \o u
           l == a \o u
           r == s \o b
<1>0. Len(s) \in Nat /\ Len(t) \in Nat /\ Len(u) \in Nat
  BY EmptyFacts
<1>1. /\ a \in Seq(X) /\ Len(a) = Len(s) + Len(t)
      /\ \A i \in 1 .. Len(s) : a[i] = s[i]
      /\ \A i \in 1 .. Len(t) : a[Len(s) + i] = t[i]
  BY JoinFacts
<1>2. /\ b \in Seq(X) /\ Len(b) = Len(t) + Len(u)
      /\ \A i \in 1 .. Len(t) : b[i] = t[i]
      /\ \A i \in 1 .. Len(u) : b[Len(t) + i] = u[i]
  BY JoinFacts
<1>a. a \in Seq(X) /\ b \in Seq(X) BY <1>1, <1>2
<1> HIDE DEF a, b
<1>3. /\ l \in Seq(X) /\ Len(l) = Len(a) + Len(u)
      /\ \A i \in 1 .. Len(a) : l[i] = a[i]
      /\ \A i \in 1 .. Len(u) : l[Len(a) + i] = u[i]
  BY <1>a, JoinFacts
<1>4. /\ r \in Seq(X) /\ Len(r) = Len(s) + Len(b)
      /\ \A i \in 1 .. Len(s) : r[i] = s[i]
      /\ \A i \in 1 .. Len(b) : r[Len(s) + i] = b[i]
  BY <1>a, JoinFacts
<1> HIDE DEF l, r
<1>5. Len(l) = Len(s) + Len(t) + Len(u) /\ Len(r) = Len(l)
  BY <1>0, <1>1, <1>2, <1>3, <1>4
<1>6. ASSUME NEW i \in 1 .. Len(l) PROVE l[i] = r[i]
  <2>1. CASE i \in 1 .. Len(s)
    BY <2>1, <1>0, <1>1, <1>3, <1>4
  <2>2. CASE i \in Len(s) + 1 .. Len(s) + Len(t)
    <3>1. i - Len(s) \in 1 .. Len(t) /\ Len(s) + (i - Len(s)) = i /\ i - Len(s) \in 1 .. Len(b)
          /\ i \in 1 .. Len(a)
      BY <2>2, <1>0, <1>1, <1>2
    <3>2. a[Len(s) + (i - Len(s))] = t[i - Len(s)] BY <3>1, <1>1
    <3>3. r[Len(s) + (i - Len(s))] = b[i - Len(s)] BY <3>1, <1>4
    <3> QED BY <3>1, <3>2, <3>3, <1>2, <1>3
  <2>3. CASE i \in Len(s) + Len(t) + 1 .. Len(s) + Len(t) + Len(u)
    <3> DEFINE j == i - (Len(s) + Len(t))
    <3>1. j \in 1 .. Len(u) /\ Len(a) + j = i /\ Len(t) + j \in 1 .. Len(b) /\ Len(s) + (Len(t) + j) = i
      BY <2>3, <1>0, <1>1, <1>2
    <3> HIDE DEF j
    <3>2. l[Len(a) + j] = u[j] BY <3>1, <1>3
    <3>3. r[Len(s) + (Len(t) + j)] = b[Len(t) + j] BY <3>1, <1>4
    <3>4. b[Len(t) + j] = u[j] BY <3>1, <1>2
    <3> QED BY <3>1, <3>2, <3>3, <3>4
  <2> QED BY <2>1, <2>2, <2>3, <1>0, <1>5
<1>7. l = r
  BY <1>3, <1>4, <1>5, <1>6, EqualSequences
<1> QED BY <1>7 DEF l, r, a, b

Authenticating(p) ==
    p # <<>> /\ \A i \in 1 .. Len(p) : p[i].kind \in {"authuser", "authpass", "getcaps"}

LEMMA FinallyTail ==
    ASSUME NEW u \in Seq(Commands), NEW c, u # <<>>, Finally(u, c)
    PROVE  /\ Finally(Tail(u), c)
           /\ (u[1] = c /\ Tail(u) = <<>>) \/ u[1].kind \in {"authuser", "authpass", "getcaps"}
<1> DEFINE t == Tail(u)
<1>1. /\ Len(u) \in Nat \ {0} /\ t \in Seq(Commands) /\ Len(t) = Len(u) - 1
      /\ \A i \in 1 .. Len(u) - 1 : t[i] = u[i + 1]
      /\ t = <<>> <=> Len(t) = 0
  BY TailFacts, EmptyFacts
<1> HIDE DEF t
<1>2. u[Len(u)] = c /\ \A i \in 1 .. Len(u) - 1 : u[i].kind \in {"authuser", "authpass", "getcaps"}
  BY DEF Finally
<1>3. CASE Len(u) = 1
  BY <1>3, <1>1, <1>2 DEF Finally, t
<1>4. CASE Len(u) > 1
  <2>1. t[Len(t)] = u[Len(u)]
    BY <1>4, <1>1
  <2>2. ASSUME NEW i \in 1 .. Len(t) - 1 PROVE t[i].kind \in {"authuser", "authpass", "getcaps"}
    <3>1. i + 1 \in 1 .. Len(u) - 1 /\ t[i] = u[i + 1] BY <1>1
    <3> QED BY <3>1, <1>2
  <2>3. u[1].kind \in {"authuser", "authpass", "getcaps"} BY <1>4, <1>1, <1>2
  <2> QED BY <2>1, <2>2, <2>3, <1>2 DEF Finally, t
<1> QED BY <1>1, <1>3, <1>4

LEMMA FinallyPrefix ==
    ASSUME NEW u \in Seq(Commands), NEW c, u # <<>>, Finally(u, c),
           NEW p \in Seq(Commands), Authenticating(p)
    PROVE  Finally(p \o u, c)
<1> DEFINE t == p \o u
<1>1. Len(p) \in Nat /\ Len(u) \in Nat /\ Len(u) # 0
  BY EmptyFacts
<1>2. /\ t \in Seq(Commands) /\ Len(t) = Len(p) + Len(u)
      /\ \A i \in 1 .. Len(p) : t[i] = p[i]
      /\ \A i \in 1 .. Len(u) : t[Len(p) + i] = u[i]
  BY JoinFacts
<1> HIDE DEF t
<1>3. u[Len(u)] = c /\ \A i \in 1 .. Len(u) - 1 : u[i].kind \in {"authuser", "authpass", "getcaps"}
  BY DEF Finally
<1>4. t[Len(t)] = c
  BY <1>1, <1>2, <1>3
<1>5. ASSUME NEW i \in 1 .. Len(t) - 1 PROVE t[i].kind \in {"authuser", "authpass", "getcaps"}
  <2>1. CASE i \in 1 .. Len(p)
    BY <2>1, <1>2 DEF Authenticating
  <2>2. CASE i \in Len(p) + 1 .. Len(p) + Len(u) - 1
    <3>1. i - Len(p) \in 1 .. Len(u) - 1 /\ i - Len(p) \in 1 .. Len(u) /\ Len(p) + (i - Len(p)) = i BY <2>2, <1>1
    <3>2. t[Len(p) + (i - Len(p))] = u[i - Len(p)] BY <3>1, <1>2
    <3> QED BY <3>1, <3>2, <1>3
  <2> QED BY <2>1, <2>2, <1>1, <1>2
<1> QED BY <1>4, <1>5 DEF Finally, t

-----------------------------------------------------------------------------
(* The session. *)

LEMMA SessionFacts ==
    ASSUME NEW s \in Sessions
    PROVE  /\ s.send \in Seq(Commands) /\ s.recv \in Seq(Commands) /\ s.group \in STRING
           /\ s.have_caps \in BOOLEAN /\ s.error \in Errors /\ s.pipelining \in BOOLEAN
           /\ s.compression \in BOOLEAN
           /\ Unanswered(s) \in Seq(Commands)
           /\ Len(Unanswered(s)) = Len(s.recv) + Len(s.send)
           /\ Unanswered(s) = <<>> <=> s.recv = <<>> /\ s.send = <<>>
           /\ pending(s) <=> Unanswered(s) # <<>>
<1>1. s.send \in Seq(Commands) /\ s.recv \in Seq(Commands)
  BY DEF Sessions
<1>2. /\ Unanswered(s) \in Seq(Commands)
      /\ Len(Unanswered(s)) = Len(s.recv) + Len(s.send)
      /\ Unanswered(s) = <<>> <=> s.recv = <<>> /\ s.send = <<>>
  BY <1>1, JoinFacts DEF Unanswered
<1> QED BY <1>1, <1>2 DEF Sessions, pending

LEMMA NewSessionFacts ==
    ASSUME NEW p \in BOOLEAN, NEW z \in BOOLEAN
    PROVE  /\ NewSession(p, z) \in Sessions /\ Unanswered(NewSession(p, z)) = <<>>
           /\ NewSession(p, z).recv = <<>> /\ NewSession(p, z).group = NoGroup
           /\ NewSession(p, z).send = <<>>
<1>1. NewSession(p, z) \in Sessions
  <2>1. NoGroup \in STRING BY ConnectionAssumption
  <2>2. <<>> \in Seq(Commands) OBVIOUS
  <2> QED BY <2>1, <2>2 DEF NewSession, Sessions, Errors
<1>2. /\ NewSession(p, z).recv = <<>> /\ NewSession(p, z).group = NoGroup
      /\ NewSession(p, z).send = <<>>
  BY DEF NewSession
<1> QED BY <1>1, <1>2, SessionFacts

LEMMA CommandFacts ==
    ASSUME NEW k \in Kinds, NEW a \in STRING
    PROVE  Command(k, a) \in Commands /\ Command(k, a).kind = k /\ Command(k, a).arg = a
  BY DEF Command, Commands

LEMMA StartFacts ==
    ASSUME NEW p \in BOOLEAN, NEW z \in BOOLEAN
    PROVE  LET s == start(NewSession(p, z))
           IN  /\ s \in Sessions /\ s.recv = <<>> /\ s.group = NoGroup
               /\ Unanswered(s) = s.send
               /\ \A i \in 1 .. Len(s.send) : s.send[i].kind \in InitKinds
<1> DEFINE n == NewSession(p, z)
           s == start(n)
           w == <<Command("welcome", NoGroup), Command("getcaps", NoGroup), Command("modereader", NoGroup)>>
           x == IF z THEN <<Command("xfeature", NoGroup)>> ELSE <<>>
<1>1. n \in Sessions /\ n.send = <<>> /\ n.recv = <<>> /\ n.group = NoGroup /\ n.compression = z
  BY NewSessionFacts DEF NewSession
<1>2. w \in Seq(Commands) /\ x \in Seq(Commands)
  <2>1. \A k \in Kinds : Command(k, NoGroup) \in Commands BY CommandFacts, ConnectionAssumption
  <2> QED BY <2>1 DEF Kinds
<1>3. \A i \in 1 .. Len(w \o x) : (w \o x)[i].kind \in InitKinds
  <2>1. \A i \in 1 .. Len(w) : w[i].kind \in InitKinds BY DEF Command, InitKinds
  <2>2. \A i \in 1 .. Len(x) : x[i].kind \in InitKinds BY DEF Command, InitKinds
  <2> HIDE DEF w, x
  <2>3. \A i \in 1 .. Len(w) + Len(x) : \/ i \in 1 .. Len(w) /\ (w \o x)[i] = w[i]
                                        \/ i - Len(w) \in 1 .. Len(x) /\ (w \o x)[i] = x[i - Len(w)]
    BY <1>2, JoinFacts
  <2>4. Len(w \o x) = Len(w) + Len(x) BY <1>2, JoinFacts
  <2> QED BY <2>1, <2>2, <2>3, <2>4
<1>4. w \o x \in Seq(Commands) /\ <<>> \o (w \o x) = w \o x /\ <<>> \in Seq(Commands)
  <2> HIDE DEF w, x
  <2> QED BY <1>2, JoinFacts
<1>5. s.send = n.send \o w \o x /\ s.recv = <<>> /\ s.group = NoGroup
  BY <1>1 DEF start, NewSession
<1>6. (n.send \o w) \o x = w \o x
  <2> HIDE DEF w, x, n
  <2>1. <<>> \o w = w BY <1>2, <1>4, JoinFacts
  <2> QED BY <2>1, <1>1
<1>7. s = [n EXCEPT !.send = n.send \o w \o x]
  BY <1>1 DEF start
<1>8. s \in Sessions
  <2> HIDE DEF w, x, n, s
  <2>1. n.send \o w \o x \in Seq(Commands) BY <1>4, <1>6
  <2> QED BY <2>1, <1>1, <1>7 DEF Sessions
<1>9. Unanswered(s) = s.send
  <2> HIDE DEF w, x, n, s
  <2> QED BY <1>5, <1>8, JoinFacts, SessionFacts DEF Unanswered
<1> HIDE DEF w, x
<1> QED BY <1>3, <1>5, <1>6, <1>8, <1>9

LEMMA QueueFacts ==
    ASSUME NEW s \in Sessions, NEW k \in Kinds, NEW a \in STRING
    PROVE  /\ Queue(s, k, a) \in Sessions
           /\ Queue(s, k, a).send = Append(s.send, Command(k, a))
           /\ Queue(s, k, a).recv = s.recv /\ Queue(s, k, a).group = s.group
           /\ Queue(s, k, a).pipelining = s.pipelining
           /\ Unanswered(Queue(s, k, a)) # <<>>
           /\ Unanswered(s) = <<>> => Unanswered(Queue(s, k, a)) = <<Command(k, a)>>
<1> DEFINE t == Queue(s, k, a)
           c == Command(k, a)
<1>1. c \in Commands BY CommandFacts
<1>2. s.send \in Seq(Commands) /\ s.recv \in Seq(Commands)
  BY SessionFacts
<1> HIDE DEF c
<1>3. t = [s EXCEPT !.send = Append(s.send, c)]
  BY DEF Queue, c
<1>4. Append(s.send, c) \in Seq(Commands) /\ Append(s.send, c) # <<>>
      /\ (s.send = <<>> => Append(s.send, c) = <<c>>)
  <2> DEFINE x == s.send
  <2>1. x \in Seq(Commands) BY <1>2
  <2> HIDE DEF x
  <2>2. Append(x, c) \in Seq(Commands) /\ Append(x, c) # <<>>
    <3>1. Append(x, c) \in Seq(Commands) /\ Len(Append(x, c)) = Len(x) + 1 /\ Len(x) \in Nat
      BY <1>1, <2>1
    <3> QED BY <3>1, EmptyFacts
  <2>3. x = <<>> => Append(x, c) = <<c>> BY <1>1, <2>1
  <2> QED BY <2>2, <2>3 DEF x
<1>5. /\ t \in Sessions /\ t.send = Append(s.send, c) /\ t.recv = s.recv /\ t.group = s.group
      /\ t.pipelining = s.pipelining
  BY <1>3, <1>4 DEF Sessions
<1> HIDE DEF t
<1>6. Unanswered(t) # <<>>
  BY <1>5, <1>4, SessionFacts
<1>7. Unanswered(s) = <<>> => Unanswered(t) = <<c>>
  <2> HAVE Unanswered(s) = <<>>
  <2>1. s.recv = <<>> /\ s.send = <<>> BY SessionFacts
  <2>2. t.send = <<c>> /\ t.recv = <<>> BY <2>1, <1>4, <1>5
  <2> QED BY <2>2 DEF Unanswered
<1> QED BY <1>5, <1>6, <1>7 DEF t, c

\* What send_next sends is the first commands of the queue, in their order.
LEMMA SendNextFacts ==
    ASSUME NEW s \in Sessions, MaySend(s)
    PROVE  /\ send_next(s) \in Sessions
           /\ OnSend(s) \in Seq(Commands) /\ OnSend(s) # <<>>
           /\ send_next(s).recv = s.recv \o OnSend(s)
           /\ send_next(s).group = s.group /\ send_next(s).pipelining = s.pipelining
           /\ Unanswered(send_next(s)) = Unanswered(s)
           /\ (\A i \in 2 .. Len(s.send) : ~can_pipeline(s.send[i])) => Len(OnSend(s)) = 1
           /\ ~s.pipelining => Len(OnSend(s)) = 1
<1> DEFINE n == Burst(s)
           P(m) == /\ \A i \in 2 .. m : can_pipeline(s.send[i])
                   /\ m = Len(s.send) \/ ~can_pipeline(s.send[m + 1])
           T == {m \in 1 .. Len(s.send) : m = Len(s.send) \/ ~can_pipeline(s.send[m + 1])}
<1>1. /\ s.send \in Seq(Commands) /\ s.recv \in Seq(Commands) /\ s.send # <<>>
      /\ Len(s.send) \in Nat \ {0} /\ s.pipelining \in BOOLEAN
  <2>1. s.send \in Seq(Commands) /\ s.recv \in Seq(Commands) /\ s.send # <<>> /\ s.pipelining \in BOOLEAN
    BY SessionFacts DEF MaySend
  <2> QED BY <2>1, EmptyFacts
<1>2. \E m \in 1 .. Len(s.send) : P(m)
  <2>1. T \in SUBSET Nat /\ Len(s.send) \in T BY <1>1
  <2>2. T # {} BY <2>1
  <2> HIDE DEF T
  <2>3. PICK m \in T : \A j \in T : m <= j BY <2>1, <2>2, LeastNumber
  <2>4. m \in 1 .. Len(s.send) /\ (m = Len(s.send) \/ ~can_pipeline(s.send[m + 1])) BY <2>3 DEF T
  <2>5. ASSUME NEW i \in 2 .. m PROVE can_pipeline(s.send[i])
    <3>1. i - 1 \in 1 .. Len(s.send) /\ i - 1 < m /\ i - 1 # Len(s.send) /\ i - 1 + 1 = i BY <2>4, <1>1
    <3>2. i - 1 \notin T BY <3>1, <2>3, <2>4, <1>1
    <3> QED BY <3>1, <3>2 DEF T
  <2> QED BY <2>4, <2>5
<1>3. s.pipelining => n \in 1 .. Len(s.send) /\ P(n)
  BY <1>2 DEF Burst
<1>4. ~s.pipelining => n = 1
  BY DEF Burst
<1>5. n \in 1 .. Len(s.send)
  BY <1>1, <1>3, <1>4
<1> HIDE DEF n
<1>6. /\ OnSend(s) = SubSeq(s.send, 1, n)
      /\ OnSend(s) \in Seq(Commands) /\ Len(OnSend(s)) = n /\ OnSend(s) # <<>>
  <2>1. n \in 0 .. Len(s.send) /\ n # 0 BY <1>5
  <2>2. OnSend(s) = SubSeq(s.send, 1, n) BY DEF OnSend, n
  <2>3. OnSend(s) \in Seq(Commands) /\ Len(OnSend(s)) = n BY <2>1, <2>2, <1>1, SplitFacts
  <2> QED BY <2>1, <2>2, <2>3, EmptyFacts
<1>7. SubSeq(s.send, n + 1, Len(s.send)) \in Seq(Commands)
  <2>1. n \in 0 .. Len(s.send) BY <1>5
  <2> QED BY <2>1, <1>1, SplitFacts
<1> DEFINE x == OnSend(s)
           y == SubSeq(s.send, n + 1, Len(s.send))
<1>8. send_next(s) = [s EXCEPT !.recv = s.recv \o x, !.send = y]
  BY DEF send_next, n
<1>9. s.recv \o x \in Seq(Commands)
  BY <1>1, <1>6, JoinFacts
<1>10. (s.recv \o x) \o y = s.recv \o s.send
  <2> DEFINE q == s.recv
             z == s.send
  <2>1. n \in 0 .. Len(z) /\ q \in Seq(Commands) /\ z \in Seq(Commands) BY <1>1, <1>5
  <2>2. x = SubSeq(z, 1, n) BY <1>6
  <2> HIDE DEF q, z, x
  <2>3. (q \o SubSeq(z, 1, n)) \o SubSeq(z, n + 1, Len(z)) = q \o z BY <2>1, JoinOfSplit
  <2>4. (q \o x) \o y = q \o z BY <2>2, <2>3 DEF z
  <2> QED BY <2>4 DEF q, z
<1> HIDE DEF x, y
<1>11. /\ send_next(s) \in Sessions /\ send_next(s).recv = s.recv \o x /\ send_next(s).send = y
       /\ send_next(s).group = s.group /\ send_next(s).pipelining = s.pipelining
  <2>1. y \in Seq(Commands) BY <1>7 DEF y
  <2> QED BY <2>1, <1>8, <1>9 DEF Sessions
<1>12. Unanswered(send_next(s)) = Unanswered(s)
  BY <1>10, <1>11 DEF Unanswered
<1>13. (\A i \in 2 .. Len(s.send) : ~can_pipeline(s.send[i])) => n = 1
  <2> HAVE \A i \in 2 .. Len(s.send) : ~can_pipeline(s.send[i])
  <2>1. CASE s.pipelining
    <3>1. \A i \in 2 .. n : can_pipeline(s.send[i]) BY <2>1, <1>3
    <3>2. ASSUME n # 1 PROVE FALSE
      <4>1. 2 \in 2 .. n /\ 2 \in 2 .. Len(s.send) BY <3>2, <1>5, <1>1
      <4> QED BY <4>1, <3>1
    <3> QED BY <3>2
  <2> QED BY <2>1, <1>1, <1>4
<1> QED
  <2>1. Len(x) = n /\ x \in Seq(Commands) /\ x # <<>> BY <1>6 DEF x
  <2> QED BY <2>1, <1>4, <1>11, <1>12, <1>13 DEF x

Requeued(s, q, x) == [s EXCEPT !.recv = q, !.send = x]

LEMMA RequeuedFacts ==
    ASSUME NEW s \in Sessions, NEW q \in Seq(Commands), NEW x \in Seq(Commands)
    PROVE  /\ Requeued(s, q, x) \in Sessions
           /\ Requeued(s, q, x).recv = q /\ Requeued(s, q, x).send = x
           /\ Requeued(s, q, x).error = s.error
           /\ Requeued(s, q, x).pipelining = s.pipelining /\ Requeued(s, q, x).group = s.group
  BY DEF Sessions, Requeued

\* What recv_next does with the commands: it gives up at an error, sends the
\* command again after authenticating, or takes it off.
LEMMA RecvNextFacts ==
    ASSUME NEW s \in Sessions, s.recv # <<>>, NEW r \in Responses,
           NEW credential, ~Throws(s, r, credential)
    PROVE  LET t == recv_next(s, r)
               c == Head(s.recv)
               u == Unanswered(s)
           IN  /\ t \in Sessions /\ t.pipelining = s.pipelining
               /\ t.group = IF c.kind = "group" /\ r.code # 480 THEN c.arg ELSE s.group
               /\ u # <<>> /\ c = s.recv[1] /\ c = u[1] /\ c \in Commands
               /\ \/ t.error # "none" /\ Unanswered(t) = <<>> /\ t.recv = <<>>
                  \/ /\ ~Challenged(c, r.code)
                     /\ t.recv = Tail(s.recv) /\ Unanswered(t) = Tail(u)
                  \/ /\ Challenged(c, r.code) /\ Len(s.recv) = 1 /\ t.recv = <<>>
                     /\ \E p \in Seq(Commands) : Authenticating(p) /\ Unanswered(t) = p \o u
<1> DEFINE t == recv_next(s, r)
           c == Head(s.recv)
           u == Unanswered(s)
           q == s.recv
           x == s.send
           z == Tail(q)
           d == Parsed(s, c, r.code)
           a == <<Command("authuser", NoGroup), Command("authpass", NoGroup)>>
           g == IF d.have_caps THEN <<>> ELSE <<Command("getcaps", NoGroup)>>
           one == <<c>>
           p == a \o g
           again == p \o one
           y == again \o x
           none == <<>>
<1>1. /\ q \in Seq(Commands) /\ x \in Seq(Commands) /\ s.group \in STRING
      /\ u \in Seq(Commands) /\ u # <<>> /\ q # <<>> /\ none \in Seq(Commands)
  <2>1. s.recv \in Seq(Commands) /\ s.send \in Seq(Commands) /\ s.group \in STRING
        /\ Unanswered(s) \in Seq(Commands) /\ Unanswered(s) # <<>>
    BY SessionFacts
  <2>2. <<>> \in Seq(Commands) OBVIOUS
  <2> QED BY <2>1, <2>2
<1>2. c = Head(q) /\ s.recv = q /\ s.send = x /\ u = q \o x
  BY DEF Unanswered
<1> HIDE DEF c, q, x, u
<1>3. /\ c = q[1] /\ c \in Commands /\ z \in Seq(Commands)
      /\ Len(q) \in Nat \ {0} /\ Len(z) = Len(q) - 1
  BY <1>1, <1>2, TailFacts
<1> HIDE DEF z
<1>4. c = u[1]
  <2>1. 1 \in 1 .. Len(q) BY <1>3
  <2>2. (q \o x)[1] = q[1] BY <2>1, <1>1, JoinFacts
  <2> QED BY <2>2, <1>2, <1>3
<1>5. /\ d \in Sessions /\ d.send = x /\ d.recv = q /\ d.pipelining = s.pipelining
      /\ d.group = IF c.kind = "group" /\ r.code # 480 THEN c.arg ELSE s.group
  <2> DEFINE e0 == IF AuthError(c, r.code) # "none" THEN AuthError(c, r.code) ELSE s.error
             g0 == IF c.kind = "group" /\ r.code # 480 THEN c.arg ELSE s.group
             h0 == s.have_caps \/ (c.kind = "getcaps" /\ r.code = 101)
             z0 == s.compression /\ (c.kind = "xfeature" => r.code \in {200, 480})
  <2>1. c.arg \in STRING BY <1>3 DEF Commands
  <2>2. AuthError(c, r.code) \in Errors BY DEF AuthError, Errors
  <2>3. e0 \in Errors
    BY <2>2, SessionFacts
  <2>4. g0 \in STRING
    BY <2>1, <1>1
  <2>5. h0 \in BOOLEAN /\ z0 \in BOOLEAN
    BY SessionFacts
  <2>6. d = [s EXCEPT !.group = g0, !.have_caps = h0, !.compression = z0, !.error = e0]
    BY DEF Parsed
  <2> HIDE DEF g0, e0, h0, z0, d
  <2>8. d \in Sessions /\ d.send = s.send /\ d.recv = s.recv /\ d.pipelining = s.pipelining /\ d.group = g0
    BY <2>3, <2>4, <2>5, <2>6 DEF Sessions
  <2> QED BY <2>8, <1>2 DEF g0
<1>6. CASE d.error # "none"
  <2>1. t = [d EXCEPT !.send = <<>>, !.recv = <<>>]
    BY <1>6, Zenon DEF recv_next, c, d, clear
  <2> HIDE DEF t, d
  <2>2. t = Requeued(d, none, none) BY <2>1, <1>5 DEF Sessions, Requeued
  <2> HIDE DEF none
  <2>3. /\ t \in Sessions /\ t.send = none /\ t.recv = none /\ t.error = d.error
        /\ t.pipelining = d.pipelining /\ t.group = d.group
    <3>1. none \in Seq(Commands) /\ d \in Sessions BY <1>1, <1>5
    <3> QED BY <3>1, <2>2, RequeuedFacts
  <2>4. Unanswered(t) = <<>> /\ t.recv = <<>> BY <2>3, SessionFacts DEF none
  <2> QED BY <2>3, <2>4, <1>1, <1>2, <1>3, <1>4, <1>5, <1>6 DEF t, c, u
<1>7. CASE d.error = "none" /\ ~Challenged(c, r.code)
  <2>1. t = [d EXCEPT !.recv = Tail(d.recv)]
    BY <1>7 DEF recv_next, c, d
  <2> HIDE DEF t, d
  <2>2. t = Requeued(d, z, x)
    BY <2>1, <1>5 DEF Sessions, Requeued, z
  <2>3. /\ t \in Sessions /\ t.send = x /\ t.recv = z
        /\ t.pipelining = d.pipelining /\ t.group = d.group
    <3>1. z \in Seq(Commands) /\ x \in Seq(Commands) /\ d \in Sessions BY <1>1, <1>3, <1>5
    <3> QED BY <3>1, <2>2, RequeuedFacts
  <2>4. Unanswered(t) = Tail(u)
    <3>1. z \o x = Tail(q \o x)
      BY <1>1, TailOfJoin DEF z
    <3> QED BY <3>1, <2>3, <1>2 DEF Unanswered
  <2>5. t.recv = Tail(s.recv) BY <2>3, <1>2 DEF z
  <2> QED BY <2>3, <2>4, <2>5, <1>1, <1>2, <1>3, <1>4, <1>5, <1>7 DEF t, c, u
<1>8. CASE d.error = "none" /\ Challenged(c, r.code)
  <2>1. t = [d EXCEPT !.recv = Tail(d.recv), !.send = again \o d.send]
    BY <1>8 DEF recv_next, c, d
  <2>2. Len(q) = 1
    BY <1>8 DEF Throws, c, q
  <2>3. z = none /\ q = one
    BY <1>1, <1>3, <2>2, EmptyFacts
  <2>4. a \in Seq(Commands) /\ g \in Seq(Commands) /\ one \in Seq(Commands)
    <3>1. \A k \in Kinds : Command(k, NoGroup) \in Commands BY CommandFacts, ConnectionAssumption
    <3> QED BY <3>1, <1>3 DEF Kinds
  <2>5. /\ a # <<>> /\ \A i \in 1 .. Len(a) : a[i].kind \in {"authuser", "authpass", "getcaps"}
        /\ \A i \in 1 .. Len(g) : g[i].kind \in {"authuser", "authpass", "getcaps"}
    BY DEF Command
  <2> HIDE DEF a, g, one, d, t
  <2>6. p \in Seq(Commands) /\ Authenticating(p)
    <3>1. \A i \in 1 .. Len(a) + Len(g) : \/ i \in 1 .. Len(a) /\ p[i] = a[i]
                                          \/ i - Len(a) \in 1 .. Len(g) /\ p[i] = g[i - Len(a)]
      BY <2>4, JoinFacts
    <3>2. p \in Seq(Commands) /\ p # <<>> /\ Len(p) = Len(a) + Len(g) BY <2>4, <2>5, JoinFacts
    <3> HIDE DEF p
    <3> QED BY <3>1, <3>2, <2>5 DEF Authenticating
  <2> HIDE DEF p
  <2>7. y = p \o u /\ again \in Seq(Commands)
    <3>1. (p \o one) \o x = p \o (one \o x)
      <4>1. p \in Seq(Commands) /\ one \in Seq(Commands) /\ x \in Seq(Commands)
        BY <2>4, <2>6, <1>1
      <4> QED BY <4>1, JoinIsAssociative
    <3>2. p \o one \in Seq(Commands)
      BY <2>4, <2>6, JoinFacts
    <3> QED BY <3>1, <3>2, <2>3, <1>2
  <2>8. y \in Seq(Commands)
    <3>1. p \o u \in Seq(Commands) BY <2>6, <1>1, JoinFacts
    <3> QED BY <3>1, <2>7
  <2>9. t = Requeued(d, none, y)
    <3>1. Tail(q) = none BY <2>3 DEF z
    <3> HIDE DEF again
    <3> QED BY <3>1, <2>1, <1>5 DEF Requeued
  <2> HIDE DEF y
  <2>10. /\ t \in Sessions /\ t.send = y /\ t.recv = none
         /\ t.pipelining = d.pipelining /\ t.group = d.group
    <3> HIDE DEF none
    <3>1. none \in Seq(Commands) /\ y \in Seq(Commands) /\ d \in Sessions BY <2>8, <1>1, <1>5
    <3> QED BY <3>1, <2>9, RequeuedFacts
  <2>11. Unanswered(t) = p \o u
    <3>1. Unanswered(t) = none \o y BY <2>10 DEF Unanswered
    <3>2. none \o y = y BY <1>1, <2>8, JoinFacts
    <3> QED BY <3>1, <3>2, <2>7
  <2> QED BY <2>2, <2>6, <2>10, <2>11, <1>1, <1>2, <1>3, <1>4, <1>5, <1>8 DEF t, c, u
<1> QED BY <1>6, <1>7, <1>8

\* What parse leaves of the receive buffer and makes of the response.
LEMMA OutputFacts ==
    ASSUME NEW c \in Commands, NEW r \in Responses, r.code \in Accepts(c)
    PROVE  LET b == Output(c, r)
           IN  /\ b \in Buffers
               /\ b.status \in {"success", "unavailable"} => b.of = r.to /\ r.good
               /\ c.kind \in InitKinds => b = EmptyBuffer
               /\ Challenged(c, r.code) /\ c.kind \in {"group", "list"} => b = EmptyBuffer
               /\ c.kind \in {"body", "xover"} => b.status # "none" /\ ~Challenged(c, r.code)
               /\ c.kind \in {"group", "list"} /\ ~Challenged(c, r.code) => b.status # "none"
               /\ r.code = 411 /\ c.kind = "group" => b.status # "success"
<1>1. EmptyBuffer \in Buffers /\ EmptyBuffer.status = "none"
  BY DEF EmptyBuffer, Buffer, Buffers, Statuses
<1>2. r.to \in Commands /\ r.code \in AnyCode /\ r.good \in BOOLEAN
  BY DEF Responses
<1>3. \A st \in Statuses : Buffer(st, r.to) \in Buffers /\ Buffer(st, r.to).status = st
                           /\ Buffer(st, r.to).of = r.to
  BY <1>2 DEF Buffer, Buffers
<1>4. CASE ~Splits(c, r.code)
  <2>1. Output(c, r) = EmptyBuffer BY <1>4 DEF Output
  <2>2. c.kind \notin {"body", "xover"}
        /\ (c.kind \in {"group", "list"} => Challenged(c, r.code))
    BY <1>4 DEF Splits, Accepts, Challenged
  <2>3. ~(r.code = 411 /\ c.kind = "group") BY <1>4 DEF Splits
  <2> QED BY <2>1, <2>2, <2>3, <1>1
<1>5. CASE Splits(c, r.code)
  <2>0. /\ c.kind \notin InitKinds /\ c.kind \in {"group", "body", "xover", "list"}
        /\ ~Challenged(c, r.code)
    BY <1>5 DEF Splits, InitKinds, Challenged
  <2>1. CASE ~r.good
    <3>1. Output(c, r) = Buffer("error", r.to) BY <1>5, <2>1 DEF Output
    <3> QED BY <3>1, <2>0, <1>3 DEF Statuses
  <2>2. CASE r.good /\ r.code \in {411, 430}
    <3>1. Output(c, r) = Buffer("unavailable", r.to) BY <1>5, <2>2 DEF Output
    <3> QED BY <3>1, <2>0, <2>2, <1>3 DEF Statuses
  <2>3. CASE r.good /\ r.code \notin {411, 430}
    <3>1. Output(c, r) = Buffer("success", r.to) BY <1>5, <2>3 DEF Output
    <3> QED BY <3>1, <2>0, <2>3, <1>3 DEF Statuses
  <2> QED BY <2>1, <2>2, <2>3, <1>2
<1> QED BY <1>4, <1>5

LEMMA RestFacts ==
    ASSUME NEW c \in Commands, NEW b \in Seq(Responses), b # <<>>,
           b[1].code \in Accepts(c)
    PROVE  /\ Rest(c, b) \in Seq(Responses)
           /\ c.kind \in {"body", "xover"} =>
                 b[1].code # 411 /\ Rest(c, b) = IF Sticks(b) THEN b ELSE Tail(b)
           /\ c.kind \in InitKinds => Rest(c, b) = <<>>
           /\ c.kind \in {"group", "list"} /\ Challenged(c, b[1].code) => Rest(c, b) = <<>>
           /\ c.kind \in {"group", "list"} /\ ~Challenged(c, b[1].code) =>
                 Rest(c, b) = IF c.kind = "group" /\ b[1].code = 411 THEN b ELSE Tail(b)
<1>1. /\ Head(b) = b[1] /\ b[1] \in Responses /\ Tail(b) \in Seq(Responses) /\ <<>> \in Seq(Responses)
  BY TailFacts
<1>2. b[1].to \in Commands /\ b[1].good \in BOOLEAN
  BY <1>1 DEF Responses
<1> DEFINE r == b[1]
           t == Tail(b)
<1>3. Rest(c, b) = IF Leaves(c, r) THEN b ELSE IF Splits(c, r.code) THEN t ELSE <<>>
  BY <1>1 DEF Rest
<1>4. t \in Seq(Responses) /\ <<>> \in Seq(Responses) /\ r.code \in Accepts(c) /\ (Sticks(b) <=> (r.code = 411 \/ ~r.good))
  BY <1>1 DEF Sticks
<1>a. ~r.good => r.code = 224
  BY <1>1 DEF Responses
<1> HIDE DEF r, t
<1>5. Rest(c, b) \in Seq(Responses)
  BY <1>3, <1>4
<1>6. c.kind \in {"body", "xover"} =>
         r.code # 411 /\ Splits(c, r.code) /\ (Leaves(c, r) <=> ~r.good)
  BY <1>4, <1>a DEF Splits, Leaves, Accepts
<1>7. c.kind \in InitKinds => ~Splits(c, r.code) /\ ~Leaves(c, r)
  BY DEF Splits, Leaves, InitKinds
<1>8. c.kind \in {"group", "list"} /\ Challenged(c, r.code) => ~Splits(c, r.code) /\ ~Leaves(c, r)
  BY DEF Splits, Leaves, Challenged
<1>9. c.kind \in {"group", "list"} /\ ~Challenged(c, r.code) =>
         Splits(c, r.code) /\ (Leaves(c, r) <=> c.kind = "group" /\ r.code = 411)
  BY DEF Splits, Leaves, Challenged
<1>10. c.kind \in {"body", "xover"} =>
          r.code # 411 /\ Rest(c, b) = IF Sticks(b) THEN b ELSE t
  <2> HAVE c.kind \in {"body", "xover"}
  <2>1. r.code # 411 /\ Splits(c, r.code) /\ (Leaves(c, r) <=> ~r.good) BY <1>6
  <2>2. CASE ~r.good
    <3>1. Sticks(b) /\ Leaves(c, r) BY <2>1, <2>2, <1>4
    <3> QED BY <3>1, <2>1, <1>3
  <2>3. CASE r.good
    <3>1. ~Sticks(b) /\ ~Leaves(c, r) BY <2>1, <2>3, <1>4
    <3> QED BY <3>1, <2>1, <1>3
  <2> QED BY <2>2, <2>3
<1>11. c.kind \in InitKinds => Rest(c, b) = <<>>
  BY <1>3, <1>7
<1>12. c.kind \in {"group", "list"} /\ Challenged(c, r.code) => Rest(c, b) = <<>>
  BY <1>3, <1>8
<1>13. c.kind \in {"group", "list"} /\ ~Challenged(c, r.code) =>
         Rest(c, b) = IF c.kind = "group" /\ r.code = 411 THEN b ELSE t
  BY <1>3, <1>9
<1> QED BY <1>5, <1>10, <1>11, <1>12, <1>13 DEF r, t

-----------------------------------------------------------------------------
(* The cmdlists. *)

LEMMA CmdlistFacts ==
    ASSUME NEW c \in Cmdlists
    PROVE  /\ commands[c] \in Seq(STRING) /\ groups[c] \in Seq(STRING)
           /\ Len(commands[c]) \in Nat /\ Len(groups[c]) \in Nat
           /\ cmdtype[c] \in {"body", "xover", "listing", "groupinfo"}
           /\ OneAnswer(c) => Asked(c, 1) \in Commands /\ Asked(c, 1).kind \in {"group", "list"}
           /\ ~OneAnswer(c) =>
                 /\ cmdtype[c] \in {"body", "xover"}
                 /\ \A i \in 1 .. Len(commands[c]) :
                        /\ Asked(c, i) = Command(cmdtype[c], commands[c][i])
                        /\ Asked(c, i) \in Commands /\ Asked(c, i).kind \in {"body", "xover"}
           /\ \A i \in 1 .. Len(groups[c]) :
                 /\ groups[c][i] \in STRING
                 /\ Command("group", groups[c][i]) \in Commands
<1>1. /\ commands[c] \in Seq(STRING) /\ groups[c] \in Seq(STRING)
      /\ cmdtype[c] \in {"body", "xover", "listing", "groupinfo"}
      /\ NoGroup \in STRING /\ (cmdtype[c] = "groupinfo" => groups[c] # <<>>)
  <2>1. NoGroup \in STRING BY ConnectionAssumption
  <2>2. groups \in [Cmdlists -> Seq(STRING)] BY ConnectionAssumption
  <2>3. commands \in [Cmdlists -> Seq(STRING)] BY ConnectionAssumption
  <2>a. \A d \in Cmdlists : /\ cmdtype[d] \in {"body", "xover", "listing", "groupinfo"}
                            /\ cmdtype[d] = "groupinfo" => groups[d] # <<>>
    BY ConnectionAssumption
  <2>4. cmdtype[c] \in {"body", "xover", "listing", "groupinfo"} BY <2>a
  <2>5. cmdtype[c] = "groupinfo" => groups[c] # <<>> BY <2>a
  <2>6. groups[c] \in Seq(STRING) BY <2>2
  <2>7. commands[c] \in Seq(STRING) BY <2>3
  <2> QED BY <2>1, <2>4, <2>5, <2>6, <2>7
<1>2. /\ Len(commands[c]) \in Nat /\ Len(groups[c]) \in Nat
      /\ \A i \in 1 .. Len(commands[c]) : commands[c][i] \in STRING
      /\ \A i \in 1 .. Len(groups[c]) : groups[c][i] \in STRING
  BY <1>1, EmptyFacts
<1>3. OneAnswer(c) => Asked(c, 1) \in Commands /\ Asked(c, 1).kind \in {"group", "list"}
  <2>1. CASE cmdtype[c] = "listing"
    <3>1. Asked(c, 1) = Command("list", NoGroup) BY <2>1 DEF Asked
    <3>2. "list" \in Kinds BY DEF Kinds
    <3>3. Command("list", NoGroup) \in Commands /\ Command("list", NoGroup).kind = "list"
      BY <3>2, <1>1, CommandFacts
    <3> QED BY <3>1, <3>3
  <2>2. CASE cmdtype[c] = "groupinfo"
    <3>1. Asked(c, 1) = Command("group", groups[c][1]) BY <2>2 DEF Asked
    <3>2. "group" \in Kinds BY DEF Kinds
    <3>3. Len(groups[c]) # 0 BY <2>2, <1>1, EmptyFacts
    <3>4. groups[c][1] \in STRING BY <3>3, <1>2
    <3> DEFINE g == groups[c][1]
    <3>5. g \in STRING BY <3>4
    <3> HIDE DEF g
    <3>6. Command("group", g) \in Commands /\ Command("group", g).kind = "group"
      BY <3>2, <3>5, CommandFacts
    <3> QED BY <3>1, <3>6 DEF g
  <2> QED BY <2>1, <2>2 DEF OneAnswer
<1>4. ASSUME ~OneAnswer(c)
      PROVE  /\ cmdtype[c] \in {"body", "xover"}
             /\ \A i \in 1 .. Len(commands[c]) :
                    /\ Asked(c, i) = Command(cmdtype[c], commands[c][i])
                    /\ Asked(c, i) \in Commands /\ Asked(c, i).kind \in {"body", "xover"}
  <2>1. cmdtype[c] \in {"body", "xover"} /\ cmdtype[c] \in Kinds
    BY <1>4, <1>1 DEF OneAnswer, Kinds
  <2>2. \A i : Asked(c, i) = Command(cmdtype[c], commands[c][i])
    BY <2>1 DEF Asked
  <2>3. ASSUME NEW i \in 1 .. Len(commands[c])
        PROVE  Asked(c, i) \in Commands /\ Asked(c, i).kind \in {"body", "xover"}
    <3> DEFINE k == cmdtype[c]
               a == commands[c][i]
    <3>1. k \in {"body", "xover"} /\ k \in Kinds /\ a \in STRING BY <2>1, <1>2
    <3>2. Asked(c, i) = Command(k, a) BY <2>2
    <3> HIDE DEF k, a
    <3> QED BY <3>1, <3>2, CommandFacts
  <2> QED BY <2>1, <2>2, <2>3
<1>5. \A i \in 1 .. Len(groups[c]) : Command("group", groups[c][i]) \in Commands
  <2>1. "group" \in Kinds BY DEF Kinds
  <2> QED BY <2>1, <1>2, CommandFacts
<1> QED BY <1>1, <1>2, <1>3, <1>4, <1>5

\* submit_data_commands asks for the buffers without a status, in their order.
LEMMA SubmitAsks ==
    ASSUME NEW c \in Cmdlists, ~OneAnswer(c), buffers[c] \in Seq(Buffers),
           Len(buffers[c]) <= Len(commands[c])
    PROVE  LET u  == [k \in 1 .. Len(Wanted(c)) |-> Command(cmdtype[c], commands[c][Wanted(c)[k]])]
               bs == Resubmitted(c)
           IN  /\ u \in Seq(Commands) /\ AsksForAll(u, bs, c)
               /\ bs \in Seq(Buffers) /\ Len(bs) = Len(buffers[c])
               /\ \A i \in 1 .. Len(bs) : bs[i] = buffers[c][i] \/ bs[i].status = "none"
<1> DEFINE n == Len(commands[c])
           b == buffers[c]
           bs == Resubmitted(c)
           id == [i \in 1 .. n |-> i]
           S == {i \in 1 .. n : i > Len(b) \/ b[i].status # "success"}
           w == Wanted(c)
           u == [k \in 1 .. Len(w) |-> Command(cmdtype[c], commands[c][w[k]])]
<1>1. n \in Nat /\ cmdtype[c] \in {"body", "xover"} /\ Len(b) \in Nat /\ Len(b) <= n
  BY CmdlistFacts, EmptyFacts
<1>2. /\ \A i \in 1 .. n : Asked(c, i) = Command(cmdtype[c], commands[c][i]) /\ Asked(c, i) \in Commands
  BY CmdlistFacts
<1>3. /\ Len(w) \in Nat /\ S = {w[k] : k \in 1 .. Len(w)}
      /\ \A k \in 1 .. Len(w) : w[k] \in 1 .. n
      /\ \A k, l \in 1 .. Len(w) : k < l => w[k] < w[l]
  <2> DEFINE m == Cardinality(At(id, S))
  <2>1. w = Only(id, S) BY DEF Wanted
  <2>2. id \in Seq(Nat) /\ Len(id) = n /\ \A i \in 1 .. n : id[i] = i BY <1>1
  <2>3. S \subseteq 1 .. n OBVIOUS
  <2> HIDE DEF id, S, n
  <2>4. At(id, S) = S BY <2>2, <2>3 DEF At
  <2>5. /\ m \in Nat
        /\ \A k \in 1 .. m : Nth(id, S, k) \in At(id, S)
        /\ \A i \in At(id, S) : \E k \in 1 .. m : Nth(id, S, k) = i
        /\ \A k, l \in 1 .. m : k < l => Nth(id, S, k) < Nth(id, S, l)
    BY <2>2, NthFacts
  <2> HIDE DEF m, w
  <2>6. w = [k \in 1 .. m |-> id[Nth(id, S, k)]] BY <2>1 DEF Only, m
  <2>7. Len(w) = m BY <2>5, <2>6
  <2>8. \A k \in 1 .. m : w[k] = Nth(id, S, k) /\ w[k] \in S
    <3> TAKE k \in 1 .. m
    <3>1. Nth(id, S, k) \in S BY <2>4, <2>5
    <3>2. id[Nth(id, S, k)] = Nth(id, S, k) BY <3>1, <2>2, <2>3
    <3> QED BY <3>1, <3>2, <2>6
  <2>9. ASSUME NEW i \in S PROVE \E k \in 1 .. m : w[k] = i
    <3>1. PICK k \in 1 .. m : Nth(id, S, k) = i BY <2>4, <2>5
    <3> QED BY <3>1, <2>8
  <2>10. \A k, l \in 1 .. m : k < l => w[k] < w[l] BY <2>5, <2>8
  <2>11. S = {w[k] : k \in 1 .. m} BY <2>8, <2>9
  <2> QED BY <2>3, <2>5, <2>7, <2>8, <2>10, <2>11
<1> HIDE DEF w
<1>4. /\ bs \in Seq(Buffers) /\ Len(bs) = Len(b)
      /\ \A i \in 1 .. Len(bs) : IF b[i].status = "success" THEN bs[i] = b[i]
                                 ELSE bs[i] = EmptyBuffer /\ bs[i].status = "none"
  <2>1. EmptyBuffer \in Buffers /\ EmptyBuffer.status = "none"
    BY DEF EmptyBuffer, Buffer, Buffers, Statuses
  <2>2. bs = [i \in 1 .. Len(b) |-> IF b[i].status = "success" THEN b[i] ELSE EmptyBuffer]
    BY <1>1 DEF Resubmitted
  <2>3. \A i \in 1 .. Len(b) : b[i] \in Buffers BY EmptyFacts
  <2> HIDE DEF bs, b
  <2> QED BY <2>1, <2>2, <2>3, <1>1
<1>5. Unfilled(bs, c) = S
  <2> HIDE DEF bs, b, n
  <2>1. \A i \in 1 .. n : i <= Len(b) => (bs[i].status = "none" <=> b[i].status # "success")
    BY <1>1, <1>4
  <2> QED BY <2>1, <1>1, <1>4 DEF Unfilled, n, S
<1>6. u \in Seq(Commands) /\ Len(u) = Len(w) /\ \A k \in 1 .. Len(w) : u[k] = Asked(c, w[k])
  <2>1. \A k \in 1 .. Len(w) : Command(cmdtype[c], commands[c][w[k]]) = Asked(c, w[k])
                               /\ Asked(c, w[k]) \in Commands
    BY <1>2, <1>3
  <2> QED BY <2>1, <1>3
<1>7. AsksForAll(u, bs, c)
  <2> DEFINE v == [k \in 1 .. Len(w) |-> w[k]]
  <2> HIDE DEF u, bs, S
  <2>1. v \in [1 .. Len(u) -> 1 .. n] BY <1>3, <1>6
  <2>2. \A k \in 1 .. Len(u) : v[k] = w[k] BY <1>6
  <2> HIDE DEF v
  <2>3. AsksFor(u, bs, c, v) BY <2>2, <1>3, <1>5, <1>6 DEF AsksFor
  <2> QED BY <2>1, <2>3 DEF AsksForAll
<1>8. \A i \in 1 .. Len(bs) : bs[i] = b[i] \/ bs[i].status = "none"
  BY <1>4
<1> QED BY <1>4, <1>6, <1>7, <1>8 DEF w

\* receive_data_buffer stores in the buffer of the first command without an answer.
LEMMA ReceiveAsks ==
    ASSUME NEW c \in Cmdlists, ~OneAnswer(c), NEW bs \in Seq(Buffers), NEW b \in Buffers,
           Len(bs) <= Len(commands[c]), NEW u \in Seq(Commands), u # <<>>,
           AsksForAll(u, bs, c), b.status # "none"
    PROVE  LET nb == receive_data_buffer(bs, b)
           IN  /\ nb \in Seq(Buffers) /\ Len(nb) <= Len(commands[c])
               /\ AsksForAll(Tail(u), nb, c)
               /\ u[1].kind \in {"body", "xover"}
               /\ \A i \in 1 .. Len(nb) : \/ i \in 1 .. Len(bs) /\ nb[i] = bs[i]
                                          \/ nb[i] = b /\ Asked(c, i) = u[1]
<1> DEFINE n == Len(commands[c])
           m == Len(u)
           nb == receive_data_buffer(bs, b)
           free == {i \in 1 .. Len(bs) : bs[i].status = "none"}
<1>1. n \in Nat /\ m \in Nat \ {0} /\ Len(bs) \in Nat /\ Len(bs) <= n
      /\ Tail(u) \in Seq(Commands) /\ Len(Tail(u)) = m - 1
      /\ \A i \in 1 .. m - 1 : Tail(u)[i] = u[i + 1]
  BY CmdlistFacts, EmptyFacts, TailFacts
<1>2. PICK w \in [1 .. m -> 1 .. n] : AsksFor(u, bs, c, w)
  BY DEF AsksForAll
<1>3. /\ \A k \in 1 .. m : u[k] = Asked(c, w[k])
      /\ Unfilled(bs, c) = {w[k] : k \in 1 .. m}
      /\ \A k, l \in 1 .. m : k < l => w[k] < w[l]
      /\ \A k \in 1 .. m : w[k] \in 1 .. n
  BY <1>2 DEF AsksFor
<1> DEFINE f == w[1]
<1>4. f \in 1 .. n /\ f \in Unfilled(bs, c) /\ \A i \in Unfilled(bs, c) : f <= i
  <2>1. 1 \in 1 .. m BY <1>1
  <2>2. \A k \in 1 .. m : w[1] <= w[k]
    BY <2>1, <1>1, <1>3
  <2> QED BY <2>1, <2>2, <1>3
<1>5. u[1] = Asked(c, f) /\ u[1].kind \in {"body", "xover"}
  <2>1. u[1] = Asked(c, f) BY <1>1, <1>3
  <2> QED BY <2>1, <1>4, CmdlistFacts
<1> HIDE DEF f
<1>6. /\ nb \in Seq(Buffers) /\ Len(nb) <= n /\ Len(nb) >= Len(bs) /\ f \in 1 .. Len(nb) /\ nb[f] = b
      /\ \A i \in 1 .. Len(nb) : i # f => i \in 1 .. Len(bs) /\ nb[i] = bs[i]
  <2>1. CASE free = {}
    <3>1. nb = Append(bs, b) BY <2>1 DEF receive_data_buffer
    <3>2. f > Len(bs) BY <2>1, <1>1, <1>4 DEF Unfilled
    <3>3. Len(bs) + 1 \in 1 .. n BY <3>2, <1>1, <1>4
    <3>4. Len(bs) + 1 \in Unfilled(bs, c) BY <3>3, <1>1 DEF Unfilled
    <3>5. f = Len(bs) + 1 BY <3>2, <3>3, <3>4, <1>1, <1>4
    <3>6. nb \in Seq(Buffers) /\ Len(nb) = Len(bs) + 1 /\ nb[Len(bs) + 1] = b
          /\ \A i \in 1 .. Len(bs) : nb[i] = bs[i]
      BY <3>1
    <3> HIDE DEF nb
    <3> QED BY <3>3, <3>5, <3>6, <1>1
  <2>2. CASE free # {}
    <3> DEFINE g == CHOOSE i \in free : \A j \in free : i <= j
    <3>1. free \in SUBSET Nat BY <1>1
    <3>2. \E i \in free : \A j \in free : i <= j
      <4> HIDE DEF free
      <4> QED BY <2>2, <3>1, LeastNumber
    <3>3. g \in free /\ \A j \in free : g <= j BY <3>2
    <3> HIDE DEF g
    <3>4. free \subseteq Unfilled(bs, c) BY <1>1 DEF Unfilled
    <3>5. f <= g BY <3>3, <3>4, <1>4
    <3>6. f \in free BY <3>3, <3>5, <1>1, <1>4 DEF Unfilled
    <3>7. f = g BY <3>3, <3>5, <3>6, <1>1
    <3>8. nb = [bs EXCEPT ![f] = b] BY <2>2, <3>7 DEF receive_data_buffer, g
    <3>9. nb \in Seq(Buffers) /\ Len(nb) = Len(bs) /\ nb[f] = b
          /\ \A i \in 1 .. Len(bs) : i # f => nb[i] = bs[i]
      BY <3>6, <3>8
    <3> HIDE DEF nb
    <3> QED BY <3>6, <3>9, <1>1
  <2> QED BY <2>1, <2>2
<1> HIDE DEF nb
<1>7. Unfilled(nb, c) = Unfilled(bs, c) \ {f}
  <2>0. Len(nb) \in Nat BY <1>6, EmptyFacts
  <2>1. ASSUME NEW i \in 1 .. n PROVE i \in Unfilled(nb, c) <=> i \in Unfilled(bs, c) /\ i # f
    <3>1. CASE i = f
      BY <3>1, <1>6, <2>0 DEF Unfilled
    <3>2. CASE i # f /\ i <= Len(nb)
      <4>1. i \in 1 .. Len(bs) /\ nb[i] = bs[i] BY <3>2, <1>6
      <4> QED BY <4>1, <3>2, <2>0, <1>1 DEF Unfilled
    <3>3. CASE i # f /\ i > Len(nb)
      BY <3>3, <1>6, <1>1, <2>0 DEF Unfilled
    <3> QED BY <3>1, <3>2, <3>3, <2>0
  <2>2. Unfilled(nb, c) \subseteq 1 .. n /\ Unfilled(bs, c) \subseteq 1 .. n BY DEF Unfilled
  <2> QED BY <2>1, <2>2
<1>8. AsksForAll(Tail(u), nb, c)
  <2> DEFINE v == [k \in 1 .. m - 1 |-> w[k + 1]]
  <2>1. v \in [1 .. Len(Tail(u)) -> 1 .. n]
    BY <1>1, <1>3
  <2>2. \A k \in 1 .. m - 1 : v[k] = w[k + 1] OBVIOUS
  <2> HIDE DEF v
  <2>3. \A k \in 1 .. m - 1 : Tail(u)[k] = Asked(c, v[k])
    BY <2>2, <1>1, <1>3
  <2>4. \A k, l \in 1 .. m - 1 : k < l => v[k] < v[l]
    BY <2>2, <1>1, <1>3
  <2>5. Unfilled(nb, c) = {v[k] : k \in 1 .. m - 1}
    <3>1. ASSUME NEW k \in 1 .. m - 1 PROVE v[k] \in Unfilled(nb, c)
      <4>1. w[1] < w[k + 1] /\ w[k + 1] \in Unfilled(bs, c) /\ w[1] \in 1 .. n /\ w[k + 1] \in 1 .. n
        BY <1>1, <1>3
      <4> QED BY <4>1, <2>2, <1>7 DEF f
    <3>2. ASSUME NEW i \in Unfilled(nb, c) PROVE \E k \in 1 .. m - 1 : v[k] = i
      <4>1. PICK l \in 1 .. m : w[l] = i BY <1>3, <1>7
      <4>2. l # 1 BY <4>1, <1>7 DEF f
      <4>3. l - 1 \in 1 .. m - 1 /\ l - 1 + 1 = l BY <4>2, <1>1
      <4> QED BY <4>1, <4>3, <2>2
    <3> QED BY <3>1, <3>2
  <2>6. AsksFor(Tail(u), nb, c, v)
    BY <2>3, <2>4, <2>5, <1>1 DEF AsksFor
  <2> QED BY <2>1, <2>6 DEF AsksForAll
<1>9. ASSUME NEW i \in 1 .. Len(nb)
      PROVE  (i \in 1 .. Len(bs) /\ nb[i] = bs[i]) \/ (nb[i] = b /\ Asked(c, i) = u[1])
  BY <1>5, <1>6
<1> QED BY <1>5, <1>6, <1>8, <1>9 DEF nb

\* Every buffer has a status when no command is left.
LEMMA NoneLeft ==
    ASSUME NEW c \in Cmdlists, NEW bs \in Seq(Buffers), Len(bs) <= Len(commands[c]),
           AsksForAll(<<>>, bs, c)
    PROVE  Len(bs) = Len(commands[c]) /\ \A i \in 1 .. Len(bs) : bs[i].status # "none"
<1>1. Len(commands[c]) \in Nat /\ Len(bs) \in Nat
  BY CmdlistFacts, EmptyFacts
<1>2. Unfilled(bs, c) = {}
  BY DEF AsksForAll, AsksFor
<1>3. \A i \in 1 .. Len(commands[c]) : i <= Len(bs) /\ bs[i].status # "none"
  BY <1>1, <1>2 DEF Unfilled
<1> QED BY <1>1, <1>3

-----------------------------------------------------------------------------
(* What the ends of an action keep. *)

LEMMA StoredUnchanged ==
    ASSUME Stored, buffers' = buffers, outcome' = outcome
    PROVE  Stored'
<1>1. BuffersMatch'
  BY DEF Stored, BuffersMatch, Asked
<1>2. DoneIsAnswered'
  BY DEF Stored, DoneIsAnswered
<1>3. (\A c \in Cmdlists : Buffered(c))'
  BY DEF Stored, Buffered, OneAnswer, NoAnswer
<1> QED BY <1>1, <1>2, <1>3 DEF Stored

\* A cmdlist that is given up.
LEMMA StoredGivenUp ==
    ASSUME Stored, NEW c \in Cmdlists, outcome \in [Cmdlists -> Outcomes],
           NEW o \in {"dropped", "failed"}, Outcome(c, o), buffers' = buffers
    PROVE  Stored' /\ outcome' \in [Cmdlists -> Outcomes]
<1>1. BuffersMatch'
  BY DEF Stored, BuffersMatch, Asked
<1>2. \A d \in Cmdlists : outcome'[d] \in {"new", "done"} => outcome'[d] = outcome[d]
  BY DEF Outcome
<1>3. DoneIsAnswered'
  BY <1>2 DEF Stored, DoneIsAnswered
<1>4. (\A d \in Cmdlists : Buffered(d))'
  BY <1>2 DEF Stored, Buffered, OneAnswer, NoAnswer
<1>5. outcome' \in [Cmdlists -> Outcomes]
  BY DEF Outcome, Outcomes
<1> QED BY <1>1, <1>3, <1>4, <1>5 DEF Stored

LEMMA MisreadStays ==
    ASSUME NEW c \in Cmdlists, outcome \in [Cmdlists -> Outcomes], outcome[c] = "new",
           NEW o, Outcome(c, o)
    PROVE  /\ MayHaveMisread => MayHaveMisread'
           /\ o = "failed" /\ Len(groups[c]) > 1 => MayHaveMisread'
           /\ o \in {"done", "dropped"} /\ ~IsInjective(groups[c]) => MayHaveMisread'
<1>1. outcome'[c] = o /\ \A d \in Cmdlists : d # c => outcome'[d] = outcome[d]
  BY DEF Outcome
<1>2. ASSUME MayHaveMisread PROVE MayHaveMisread'
  <2>1. PICK d \in Cmdlists : \/ outcome[d] = "failed" /\ Len(groups[d]) > 1
                              \/ outcome[d] \in {"done", "dropped"} /\ ~IsInjective(groups[d])
    BY <1>2 DEF MayHaveMisread
  <2>2. d # c BY <2>1
  <2>3. outcome'[d] = outcome[d] BY <2>2, <1>1
  <2> QED BY <2>1, <2>3 DEF MayHaveMisread
<1>3. ASSUME o = "failed", Len(groups[c]) > 1 PROVE MayHaveMisread'
  BY <1>1, <1>3 DEF MayHaveMisread
<1>4. ASSUME o \in {"done", "dropped"}, ~IsInjective(groups[c]) PROVE MayHaveMisread'
  BY <1>1, <1>4 DEF MayHaveMisread
<1> QED BY <1>2, <1>3, <1>4

LEMMA ClosesKeeps ==
    ASSUME NEW e, Closes(e), CancelTypes', Stored'
    PROVE  IInv'
<1> DEFINE n == NewSession(FALSE, FALSE)
<1>1. /\ ses' = n /\ pc' = "closed" /\ waiting' = FALSE /\ recvbuf' = <<>>
      /\ list' = {} /\ try' = 0 /\ config' = "none" /\ net' = <<>> /\ wire' = <<>>
      /\ server' = [authenticated |-> FALSE, group |-> NoGroup]
  BY DEF Closes, Leave
<1>2. n \in Sessions /\ Unanswered(n) = <<>> /\ n.recv = <<>> /\ n.group = NoGroup
  BY NewSessionFacts
<1> HIDE DEF n
<1>3. Types'
  <2>1. <<>> \in Seq(Responses) /\ <<>> \in Seq(Commands) /\ "none" \in Statuses /\ {} \in SUBSET Cmdlists
    BY DEF Statuses
  <2>2. [authenticated |-> FALSE, group |-> NoGroup] \in [authenticated : BOOLEAN, group : STRING]
    <3>1. NoGroup \in STRING BY ConnectionAssumption
    <3> QED BY <3>1
  <2> QED BY <2>1, <2>2, <1>1, <1>2 DEF Types
<1>4. Conversation'
  <2>1. InOrder(<<>>, <<>>, <<>>) BY DEF InOrder
  <2> QED BY <2>1, <1>1, <1>2 DEF Conversation
<1>5. Executes'
  BY <1>1 DEF Executes, Executing
<1>6. Groups'
  <2>1. Refusals' BY <1>1 DEF Refusals, Refused411
  <2>2. <<>> \o <<>> = <<>> OBVIOUS
  <2>3. Selected'
    <3>1. SameGroup(NoGroup, NoGroup, <<>>) BY DEF SameGroup
    <3>2. ses'.group = NoGroup /\ server'.group = NoGroup /\ recvbuf' \o wire' = <<>>
      BY <2>2, <1>1, <1>2
    <3> QED BY <3>1, <3>2 DEF Selected
  <2> QED BY <2>1, <2>3 DEF Groups
<1> QED BY <1>3, <1>4, <1>5, <1>6 DEF IInv

LEMMA ReturnsKeeps ==
    ASSUME Types, NEW s \in Sessions, NEW left \in Seq(Responses), Returns(s, left),
           InOrder(s.recv, left, net), CancelTypes', Stored',
           ~cancel' => Unanswered(s) = <<>>,
           MayHaveMisread' \/ Unanswered(s) # <<>> \/ SameGroup(s.group, server.group, left)
    PROVE  IInv'
<1>1. /\ ses' = s /\ pc' = "idle" /\ waiting' = FALSE /\ recvbuf' = <<>>
      /\ list' = {} /\ try' = 0 /\ config' = "none" /\ net' = net /\ wire' = left
      /\ server' = server
  BY DEF Returns, Leave
<1>3. Types'
  <2>1. <<>> \in Seq(Responses) /\ "none" \in Statuses /\ {} \in SUBSET Cmdlists
    BY DEF Statuses
  <2> QED BY <2>1, <1>1 DEF Types
<1>4. Conversation'
  BY <1>1 DEF Conversation
<1>5. Executes'
  BY <1>1 DEF Executes, Executing
<1>6. Groups'
  <2>1. Refusals' BY <1>1 DEF Refusals, Refused411
  <2>2. CASE MayHaveMisread'
    BY <2>1, <2>2 DEF Groups, Misreads
  <2>3. CASE Unanswered(s) # <<>>
    <3>1. pending(s) BY <2>3, SessionFacts
    <3>2. pending(ses)' BY <3>1, <1>1 DEF pending
    <3> QED BY <2>1, <3>2, <1>1 DEF Groups, Misreads
  <2>4. CASE SameGroup(s.group, server.group, left)
    <3>1. recvbuf' \o wire' = left
      <4>1. <<>> \in Seq(Responses) OBVIOUS
      <4>2. <<>> \o left = left BY <4>1, JoinFacts
      <4> QED BY <4>2, <1>1
    <3>2. Selected' BY <2>4, <3>1, <1>1 DEF Selected
    <3> QED BY <2>1, <3>2 DEF Groups
  <2> QED BY <2>2, <2>3, <2>4
<1> QED BY <1>3, <1>4, <1>5, <1>6 DEF IInv

-----------------------------------------------------------------------------
(* The initial states and the steps. *)

LEMMA InitIInv ==
    ASSUME Init
    PROVE  IInv
<1> DEFINE n == NewSession(FALSE, FALSE)
<1>1. /\ ses = n /\ pc = "closed" /\ waiting = FALSE /\ recvbuf = <<>>
      /\ list = {} /\ try = 0 /\ config = "none" /\ net = <<>> /\ wire = <<>>
      /\ server = [authenticated |-> FALSE, group |-> NoGroup]
      /\ buffers = [c \in Cmdlists |-> <<>>] /\ canceled = [c \in Cmdlists |-> FALSE]
      /\ cancel = FALSE
  BY DEF Init
<1>2. n \in Sessions /\ Unanswered(n) = <<>> /\ n.recv = <<>> /\ n.group = NoGroup
  BY NewSessionFacts
<1> HIDE DEF n
<1>3. outcome \in [Cmdlists -> {"unwanted", "new"}]
  BY DEF Init
<1>4. CancelTypes
  <2>1. <<>> \in Seq(Buffers) OBVIOUS
  <2>2. buffers \in [Cmdlists -> Seq(Buffers)] BY <1>1, <2>1
  <2>3. outcome \in [Cmdlists -> Outcomes] BY <1>3 DEF Outcomes
  <2>4. canceled \in [Cmdlists -> BOOLEAN] BY <1>1
  <2> QED BY <2>2, <2>3, <2>4, <1>1 DEF CancelTypes
<1>5. Types
  <2>1. <<>> \in Seq(Responses) /\ <<>> \in Seq(Commands) /\ "none" \in Statuses /\ {} \in SUBSET Cmdlists
    BY DEF Statuses
  <2>2. [authenticated |-> FALSE, group |-> NoGroup] \in [authenticated : BOOLEAN, group : STRING]
    <3>1. NoGroup \in STRING BY ConnectionAssumption
    <3> QED BY <3>1
  <2> QED BY <2>1, <2>2, <1>1, <1>2, <1>4 DEF Types
<1>6. Conversation
  <2>1. InOrder(<<>>, <<>>, <<>>) BY DEF InOrder
  <2> QED BY <2>1, <1>1, <1>2 DEF Conversation
<1>7. Executes
  BY <1>1 DEF Executes, Executing
<1>8. Stored
  <2>1. \A c \in Cmdlists : buffers[c] = <<>> /\ outcome[c] # "done" BY <1>1, <1>3
  <2>2. BuffersMatch BY <2>1 DEF BuffersMatch
  <2>3. DoneIsAnswered BY <2>1 DEF DoneIsAnswered
  <2>4. ASSUME NEW c \in Cmdlists PROVE Buffered(c)
    <3>1. Len(commands[c]) \in Nat BY CmdlistFacts
    <3> QED BY <3>1, <2>1 DEF Buffered, NoAnswer
  <2> QED BY <2>2, <2>3, <2>4 DEF Stored
<1>9. Groups
  <2>1. Refusals BY <1>1 DEF Refusals, Refused411
  <2>2. <<>> \o <<>> = <<>> OBVIOUS
  <2>3. SameGroup(NoGroup, NoGroup, <<>>) BY DEF SameGroup
  <2>4. ses.group = NoGroup /\ server.group = NoGroup /\ recvbuf \o wire = <<>>
    BY <2>2, <1>1, <1>2
  <2> QED BY <2>1, <2>3, <2>4 DEF Groups, Selected
<1> QED BY <1>5, <1>6, <1>7, <1>8, <1>9 DEF IInv

\* What holds when no command is without an answer.
LEMMA Quiet ==
    ASSUME Types, Conversation, Unanswered(ses) = <<>>
    PROVE  /\ ses.recv = <<>> /\ ses.send = <<>> /\ ~pending(ses) /\ ~waiting
           /\ wire = <<>> /\ net = <<>> /\ Before(ses.recv, wire, net) = 0
<1>1. ses \in Sessions /\ wire \in Seq(Responses) /\ net \in Seq(Commands)
  BY DEF Types
<1>2. ses.recv = <<>> /\ ses.send = <<>> /\ ~pending(ses)
  BY <1>1, SessionFacts
<1>3. wire = <<>> /\ net = <<>>
  BY <1>1, <1>2, NothingComes DEF Conversation
<1>4. ~waiting
  BY <1>2 DEF Conversation
<1> QED BY <1>2, <1>3, <1>4, NothingOutstanding

LEMMA ConnectKeeps ==
    ASSUME IInv, Connect
    PROVE  IInv'
<1>1. Types /\ Conversation /\ Executes /\ Stored
  BY DEF IInv
<1>2. /\ pc = "closed" /\ pc' = "init" /\ cancel' = FALSE /\ waiting' = waiting /\ recvbuf' = recvbuf
      /\ config' = config /\ try' = try /\ list' = list /\ buffers' = buffers /\ outcome' = outcome
      /\ canceled' = canceled /\ net' = net /\ wire' = wire /\ server' = server
  BY DEF Connect
<1>3. /\ Unanswered(ses) = <<>> /\ recvbuf = <<>> /\ ~waiting /\ server.group = NoGroup
      /\ wire = <<>> /\ net = <<>> /\ list = {} /\ try = 0
  BY <1>1, <1>2, Quiet DEF Conversation, Executes, Executing
<1>4. PICK p \in Pipelining, z \in Compression : ses' = start(NewSession(p, z))
  BY DEF Connect
<1>5. p \in BOOLEAN /\ z \in BOOLEAN
  <2>1. Pipelining \subseteq BOOLEAN /\ Compression \subseteq BOOLEAN BY ConnectionAssumption
  <2> QED BY <2>1
<1> DEFINE s == start(NewSession(p, z))
<1>6. /\ s \in Sessions /\ s.recv = <<>> /\ s.group = NoGroup /\ Unanswered(s) = s.send
      /\ \A i \in 1 .. Len(s.send) : s.send[i].kind \in InitKinds
  BY <1>5, StartFacts
<1>a. ses' = s
  BY <1>4
<1> HIDE DEF s
<1>7. Types'
  <2>1. CancelTypes' BY <1>1, <1>2 DEF Types, CancelTypes
  <2> QED BY <2>1, <1>1, <1>2, <1>6, <1>a DEF Types
<1>8. Conversation'
  <2>1. InOrder(<<>>, <<>>, <<>>) /\ InBuffer(<<>>, <<>>, <<>>, <<>>) /\ Before(<<>>, <<>>, <<>>) = 0
    BY NothingOutstanding
  <2>2. OneByOne' BY <2>1, <1>2, <1>3, <1>6, <1>a DEF OneByOne
  <2> QED BY <2>1, <2>2, <1>2, <1>3, <1>6, <1>a DEF Conversation
<1>9. Executes'
  BY <1>2, <1>3 DEF Executes, Executing
<1>10. Stored'
  BY <1>1, <1>2, StoredUnchanged
<1>11. Groups'
  <2>1. Refusals' BY <1>2, <1>3 DEF Refusals, Refused411
  <2>2. <<>> \o <<>> = <<>> OBVIOUS
  <2>3. SameGroup(NoGroup, NoGroup, <<>>) BY DEF SameGroup
  <2>4. ses'.group = NoGroup /\ server'.group = NoGroup /\ recvbuf' \o wire' = <<>>
    BY <2>2, <1>2, <1>3, <1>6, <1>a
  <2> QED BY <2>1, <2>3, <2>4 DEF Groups, Selected
<1> QED BY <1>7, <1>8, <1>9, <1>10, <1>11 DEF IInv

LEMMA ExecuteKeeps ==
    ASSUME IInv, NEW c \in Cmdlists, Execute(c)
    PROVE  IInv'
<1>1. Types /\ Conversation /\ Executes /\ Stored /\ Groups
  BY DEF IInv
<1>2. /\ pc = "idle" /\ ~cancel /\ outcome[c] = "new" /\ ses' = ses /\ waiting' = waiting
      /\ recvbuf' = recvbuf /\ config' = config /\ try' = try /\ buffers' = buffers
      /\ canceled' = canceled /\ cancel' = cancel /\ net' = net /\ wire' = wire /\ server' = server
  BY DEF Execute
<1>3. /\ Unanswered(ses) = <<>> /\ recvbuf = <<>> /\ ~waiting /\ list = {} /\ ~pending(ses)
      /\ wire = <<>> /\ net = <<>> /\ ses.recv = <<>> /\ try = 0
  BY <1>1, <1>2, Quiet DEF Conversation, Executes, Executing
<1>4. CASE canceled[c]
  <2>1. Outcome(c, "dropped") /\ pc' = pc /\ list' = list
    BY <1>4 DEF Execute
  <2>2. outcome \in [Cmdlists -> Outcomes] BY <1>1 DEF Types, CancelTypes
  <2>3. Stored' /\ outcome' \in [Cmdlists -> Outcomes]
    BY <2>1, <2>2, <1>1, <1>2, StoredGivenUp
  <2>4. Types'
    <3>1. CancelTypes' BY <2>3, <1>1, <1>2 DEF Types, CancelTypes
    <3> QED BY <3>1, <2>1, <1>1, <1>2 DEF Types
  <2>5. Conversation'
    BY <2>1, <1>1, <1>2, <1>3 DEF Conversation
  <2>6. Executes'
    BY <2>1, <1>2, <1>3 DEF Executes, Executing
  <2>7. Groups'
    <3>1. Refusals' BY <2>1, <1>2 DEF Refusals, Refused411
    <3>2. Selected \/ MayHaveMisread BY <1>1, <1>2, <1>3 DEF Groups, Misreads
    <3>3. MayHaveMisread => MayHaveMisread' BY <2>1, <2>2, <1>2, MisreadStays
    <3>4. Selected => Selected' BY <1>2 DEF Selected
    <3> QED BY <3>1, <3>2, <3>3, <3>4 DEF Groups, Misreads
  <2> QED BY <2>3, <2>4, <2>5, <2>6, <2>7 DEF IInv
<1>5. CASE ~canceled[c]
  <2>1. /\ list' = {c} /\ outcome' = outcome
        /\ pc' = IF cmdtype[c] \in {"body", "xover"} THEN "configure" ELSE "submit"
    BY <1>5 DEF Execute
  <2>2. pc' \in {"configure", "submit"} /\ (pc' = "configure" => ~OneAnswer(c))
    BY <2>1 DEF OneAnswer
  <2>3. Stored'
    BY <2>1, <1>1, <1>2, StoredUnchanged
  <2>4. Types'
    <3>1. CancelTypes' BY <2>1, <1>1, <1>2 DEF Types, CancelTypes
    <3> QED BY <3>1, <2>1, <2>2, <1>1, <1>2 DEF Types
  <2>5. Conversation'
    <3>1. InOrder(<<>>, <<>>, <<>>) /\ InBuffer(<<>>, <<>>, <<>>, <<>>) /\ Before(<<>>, <<>>, <<>>) = 0
      BY NothingOutstanding
    <3>2. OneByOne' BY <3>1, <1>2, <1>3 DEF OneByOne
    <3> QED BY <3>1, <3>2, <2>2, <1>2, <1>3 DEF Conversation
  <2>6. Executes'
    <3>1. try = 0 /\ Len(groups[c]) \in Nat BY <1>1, <1>2, CmdlistFacts DEF Executes, Executing
    <3>2. try' = 0 /\ try' <= Len(groups[c]) BY <3>1, <1>2
    <3> QED BY <3>2, <2>1, <2>2, <1>2 DEF Executes, Executing, OneAnswer
  <2>7. Groups'
    <3>1. Refusals' BY <2>2, <1>2, <1>3 DEF Refusals, Refused411
    <3>2. Selected \/ MayHaveMisread BY <1>1, <1>2, <1>3 DEF Groups, Misreads
    <3>3. MayHaveMisread => MayHaveMisread' BY <2>1 DEF MayHaveMisread
    <3>4. Selected => Selected' BY <1>2 DEF Selected
    <3> QED BY <3>1, <3>2, <3>3, <3>4 DEF Groups, Misreads
  <2> QED BY <2>3, <2>4, <2>5, <2>6, <2>7 DEF IInv
<1> QED BY <1>4, <1>5

LEMMA FinallyOne ==
    ASSUME NEW c
    PROVE  Finally(<<c>>, c)
<1>1. Len(<<c>>) = 1 /\ <<c>>[1] = c
  OBVIOUS
<1> QED BY <1>1 DEF Finally

\* A command is queued where none was without an answer.
LEMMA QueuedKeeps ==
    ASSUME IInv, Unanswered(ses) = <<>>, NEW s \in Sessions, s.recv = <<>>,
           ses' = s, waiting' = FALSE, recvbuf' = recvbuf, wire' = wire, net' = net
    PROVE  /\ InOrder(ses.recv, wire, net)' /\ OneByOne'
           /\ recvbuf = <<>> \/ Sticks(recvbuf) => InBuffer(ses.recv, recvbuf, wire, net)'
<1>1. Types /\ Conversation
  BY DEF IInv
<1>2. wire = <<>> /\ net = <<>> /\ recvbuf \in Seq(Responses)
  BY <1>1, Quiet DEF Types
<1>3. InOrder(<<>>, <<>>, <<>>) /\ InBuffer(<<>>, <<>>, <<>>, <<>>) /\ Before(<<>>, <<>>, <<>>) = 0
  BY NothingOutstanding
<1>4. InOrder(ses.recv, wire, net)'
  BY <1>2, <1>3
<1>5. OneByOne'
  BY <1>2, <1>3 DEF OneByOne
<1>6. ASSUME recvbuf = <<>> \/ Sticks(recvbuf) PROVE InBuffer(ses.recv, recvbuf, wire, net)'
  <2>1. CASE recvbuf = <<>>
    BY <2>1, <1>2, <1>3
  <2>2. CASE recvbuf # <<>> /\ Sticks(recvbuf)
    <3>1. Len(recvbuf) > 0 BY <2>2, <1>2, EmptyFacts
    <3>2. InBuffer(<<>>, recvbuf, <<>>, <<>>) BY <2>2, <3>1, <1>3 DEF InBuffer
    <3> QED BY <3>2, <1>2
  <2> QED BY <2>1, <2>2, <1>6
<1> QED BY <1>4, <1>5, <1>6

LEMMA PingKeeps ==
    ASSUME IInv, Ping
    PROVE  IInv'
<1>1. Types /\ Conversation /\ Executes /\ Stored /\ Groups
  BY DEF IInv
<1> DEFINE s == ping(ses)
           c == Command("group", PingGroup)
<1>2. /\ pc = "idle" /\ ~cancel /\ ses' = s /\ pc' = "ping" /\ waiting' = FALSE /\ wire' = wire
      /\ list' = list /\ net' = net /\ server' = server
      /\ recvbuf' = recvbuf /\ config' = config /\ try' = try /\ buffers' = buffers
      /\ outcome' = outcome /\ canceled' = canceled /\ cancel' = cancel
  BY DEF Ping, Goes, cvars
<1>3. /\ Unanswered(ses) = <<>> /\ recvbuf = <<>> /\ ~waiting /\ list = {} /\ ~pending(ses)
      /\ wire = <<>> /\ net = <<>> /\ ses.recv = <<>> /\ try = 0
  BY <1>1, <1>2, Quiet DEF Conversation, Executes, Executing
<1>4. /\ s \in Sessions /\ s.recv = <<>> /\ s.group = ses.group
      /\ Unanswered(s) = <<c>>
  <2>1. "group" \in Kinds BY DEF Kinds
  <2>2. PingGroup \in STRING BY ConnectionAssumption
  <2>3. ses \in Sessions BY <1>1 DEF Types
  <2>4. s = Queue(ses, "group", PingGroup) BY DEF ping
  <2> HIDE DEF s
  <2> QED BY <2>1, <2>2, <2>3, <2>4, <1>3, QueueFacts
<1> HIDE DEF s
<1>5. Types'
  <2>1. CancelTypes' BY <1>1, <1>2 DEF Types, CancelTypes
  <2> QED BY <2>1, <1>1, <1>2, <1>4 DEF Types
<1>6. Conversation'
  <2>1. InOrder(ses.recv, wire, net)' /\ OneByOne' /\ InBuffer(ses.recv, recvbuf, wire, net)'
    BY <1>2, <1>3, <1>4, QueuedKeeps
  <2>2. Finally(Unanswered(s), c) BY <1>4, FinallyOne
  <2>3. Unanswered(s) # <<>> BY <1>4
  <2> QED BY <2>1, <2>2, <2>3, <1>2, <1>3 DEF Conversation
<1>7. Executes'
  BY <1>2, <1>3 DEF Executes, Executing
<1>8. Stored'
  BY <1>1, <1>2, StoredUnchanged
<1>9. Groups'
  <2>1. Refusals' BY <1>2, <1>3 DEF Refusals, Refused411
  <2>2. Selected \/ MayHaveMisread BY <1>1, <1>2, <1>3 DEF Groups, Misreads
  <2>3. MayHaveMisread => MayHaveMisread' BY <1>2 DEF MayHaveMisread
  <2>4. Selected => Selected' BY <1>2, <1>4 DEF Selected
  <2> QED BY <2>1, <2>2, <2>3, <2>4 DEF Groups, Misreads
<1> QED BY <1>5, <1>6, <1>7, <1>8, <1>9 DEF IInv

LEMMA DisconnectKeeps ==
    ASSUME IInv, Disconnect
    PROVE  IInv'
<1>1. Types /\ Conversation /\ Executes /\ Stored /\ Groups
  BY DEF IInv
<1>2. /\ pc = "idle" /\ cancel' = cancel /\ buffers' = buffers
      /\ outcome' = outcome /\ canceled' = canceled
  BY DEF Disconnect, cvars
<1>3. CancelTypes' /\ Stored'
  BY <1>1, <1>2, StoredUnchanged DEF Types, CancelTypes
<1>4. CASE pending(ses)
  <2>1. Closes("none") BY <1>4 DEF Disconnect
  <2> QED BY <2>1, <1>3, ClosesKeeps
<1>5. CASE ~pending(ses)
  <2> DEFINE s == quit(ses)
             c == Command("quit", NoGroup)
  <2>1. /\ ses' = s /\ pc' = "quit" /\ waiting' = FALSE /\ wire' = wire /\ list' = list /\ net' = net
        /\ server' = server /\ recvbuf' = recvbuf /\ config' = config /\ try' = try
    BY <1>5 DEF Disconnect, Goes
  <2>2. ses \in Sessions BY <1>1 DEF Types
  <2>3. Unanswered(ses) = <<>> BY <2>2, <1>5, SessionFacts
  <2>4. /\ recvbuf = <<>> /\ list = {} /\ wire = <<>> /\ net = <<>> /\ ses.recv = <<>> /\ try = 0
    BY <2>3, <1>1, <1>2, Quiet DEF Conversation, Executes, Executing
  <2>5. s \in Sessions /\ s.recv = <<>> /\ Unanswered(s) = <<c>>
    <3>1. "quit" \in Kinds BY DEF Kinds
    <3>2. NoGroup \in STRING BY ConnectionAssumption
    <3>4. s = Queue(ses, "quit", NoGroup) BY DEF quit
    <3> HIDE DEF s
    <3> QED BY <3>1, <3>2, <3>4, <2>2, <2>3, <2>4, QueueFacts
  <2> HIDE DEF s
  <2>6. Types'
    BY <2>1, <2>5, <1>1, <1>3 DEF Types
  <2>7. Conversation'
    <3>1. InOrder(ses.recv, wire, net)' /\ OneByOne' /\ InBuffer(ses.recv, recvbuf, wire, net)'
      BY <2>1, <2>3, <2>4, <2>5, QueuedKeeps
    <3>2. Finally(Unanswered(s), c) BY <2>5, FinallyOne
    <3>3. Unanswered(s) # <<>> BY <2>5
    <3> QED BY <3>1, <3>2, <3>3, <2>1, <2>4 DEF Conversation
  <2>8. Executes'
    BY <2>1, <2>4 DEF Executes, Executing
  <2>9. Groups'
    <3>1. Refusals' BY <2>1, <2>4 DEF Refusals, Refused411
    <3> QED BY <3>1, <2>1 DEF Groups, Misreads
  <2> QED BY <2>6, <2>7, <2>8, <2>9, <1>3 DEF IInv
<1> QED BY <1>4, <1>5

LEMMA InitializedKeeps ==
    ASSUME IInv, Initialized
    PROVE  IInv'
<1>1. Types /\ Conversation /\ Executes /\ Stored /\ Groups
  BY DEF IInv
<1>2. /\ pc = "init" /\ ~waiting /\ ~MaySend(ses) /\ cancel' = cancel /\ buffers' = buffers
      /\ outcome' = outcome /\ canceled' = canceled
  BY DEF Initialized, cvars
<1>3. CancelTypes' /\ Stored'
  BY <1>1, <1>2, StoredUnchanged DEF Types, CancelTypes
<1>4. CASE ses.error # "none"
  <2>1. Closes(ses.error) BY <1>4 DEF Initialized
  <2> QED BY <2>1, <1>3, ClosesKeeps
<1>5. CASE ses.error = "none"
  <2>1. Returns(ses, wire) BY <1>5 DEF Initialized
  <2>2. ses \in Sessions /\ wire \in Seq(Responses) BY <1>1 DEF Types
  <2>3. ses.recv = <<>> BY <1>1, <1>2 DEF Conversation, OneByOne, Pipelined
  <2>4. Unanswered(ses) = <<>> BY <2>2, <2>3, <1>2, SessionFacts DEF MaySend
  <2>5. recvbuf = <<>> /\ recvbuf \o wire = wire
    <3>1. recvbuf = <<>> BY <1>1, <1>2 DEF Conversation, Executes, Executing
    <3>2. <<>> \in Seq(Responses) OBVIOUS
    <3>3. <<>> \o wire = wire BY <3>2, <2>2, JoinFacts
    <3> QED BY <3>1, <3>3
  <2>6. MayHaveMisread' \/ SameGroup(ses.group, server.group, wire)
    <3>1. Selected \/ MayHaveMisread BY <2>5, <1>1, <1>2 DEF Groups, Misreads, Refused411
    <3>2. MayHaveMisread => MayHaveMisread' BY <1>2 DEF MayHaveMisread
    <3> QED BY <3>1, <3>2, <2>5 DEF Selected
  <2>7. InOrder(ses.recv, wire, net) BY <1>1 DEF Conversation
  <2> QED BY <2>1, <2>2, <2>4, <2>6, <2>7, <1>1, <1>3, ReturnsKeeps
<1> QED BY <1>4, <1>5

\* One cmdlist has received something, and goes on or ends with it.
LEMMA StoredChanged ==
    ASSUME Stored, CancelTypes, NEW c \in Cmdlists, NEW o \in Outcomes, NEW nb \in Seq(Buffers),
           buffers' = [buffers EXCEPT ![c] = nb], outcome' = [outcome EXCEPT ![c] = o],
           canceled' = canceled, cancel' = cancel,
           \A i \in 1 .. Len(nb) : nb[i].status \in {"success", "unavailable"} => nb[i].of = Asked(c, i),
           o = "done" =>
              /\ Len(nb) = IF cmdtype[c] \in {"body", "xover"} THEN Len(commands[c]) ELSE 1
              /\ \A i \in 1 .. Len(nb) : nb[i].status # "none",
           ~OneAnswer(c) => Len(nb) <= Len(commands[c]),
           OneAnswer(c) /\ o = "new" => NoAnswer(nb)
    PROVE  Stored' /\ CancelTypes'
<1>1. /\ buffers'[c] = nb /\ outcome'[c] = o
      /\ \A d \in Cmdlists : d # c => buffers'[d] = buffers[d] /\ outcome'[d] = outcome[d]
  BY DEF CancelTypes
<1>2. CancelTypes'
  BY DEF CancelTypes
<1>3. BuffersMatch'
  <2>1. ASSUME NEW d \in Cmdlists, NEW i \in 1 .. Len(buffers'[d]),
               buffers'[d][i].status \in {"success", "unavailable"}
        PROVE  buffers'[d][i].of = Asked(d, i)
    <3>1. CASE d = c BY <3>1, <2>1, <1>1
    <3>2. CASE d # c BY <3>2, <2>1, <1>1 DEF Stored, BuffersMatch
    <3> QED BY <3>1, <3>2
  <2> QED BY <2>1 DEF BuffersMatch, Asked
<1>4. DoneIsAnswered'
  <2>1. ASSUME NEW d \in Cmdlists, outcome'[d] = "done"
        PROVE  /\ Len(buffers'[d]) = IF cmdtype[d] \in {"body", "xover"} THEN Len(commands[d]) ELSE 1
               /\ \A i \in 1 .. Len(buffers'[d]) : buffers'[d][i].status # "none"
    <3>1. CASE d = c
      <4>1. o = "done" BY <3>1, <2>1, <1>1
      <4>2. /\ Len(nb) = IF cmdtype[c] \in {"body", "xover"} THEN Len(commands[c]) ELSE 1
            /\ \A i \in 1 .. Len(nb) : nb[i].status # "none"
        BY <4>1
      <4>3. buffers'[d] = nb BY <3>1, <1>1
      <4> QED BY <4>2, <4>3, <3>1
    <3>2. CASE d # c BY <3>2, <2>1, <1>1 DEF Stored, DoneIsAnswered
    <3> QED BY <3>1, <3>2
  <2> QED BY <2>1 DEF DoneIsAnswered
<1>5. (\A d \in Cmdlists : Buffered(d))'
  <2>1. ASSUME NEW d \in Cmdlists
        PROVE  /\ ~OneAnswer(d) => Len(buffers'[d]) <= Len(commands[d])
               /\ OneAnswer(d) /\ outcome'[d] = "new" => NoAnswer(buffers'[d])
    <3>1. CASE d = c BY <3>1, <1>1
    <3>2. CASE d # c BY <3>2, <1>1 DEF Stored, Buffered
    <3> QED BY <3>1, <3>2
  <2> QED BY <2>1 DEF Buffered, OneAnswer, NoAnswer
<1> QED BY <1>2, <1>3, <1>4, <1>5 DEF Stored

\* What holds of the cmdlist that is executed.
LEMMA TheCmdlist ==
    ASSUME IInv, NEW c \in list
    PROVE  /\ c \in Cmdlists /\ list = {c} /\ outcome[c] = "new" /\ pc \in Executing
           /\ pc \in {"configure", "config"} => ~OneAnswer(c)
           /\ pc = "configure" => try <= Len(groups[c])
           /\ pc = "config" => try < Len(groups[c])
                               /\ Finally(Unanswered(ses), Command("group", groups[c][try + 1]))
           /\ pc = "data" => IF OneAnswer(c) THEN Finally(Unanswered(ses), Asked(c, 1))
                             ELSE AsksForAll(Unanswered(ses), buffers[c], c)
           /\ recvbuf # <<>> => ~OneAnswer(c)
           /\ Pipelined <=> pc = "data" /\ ~OneAnswer(c)
<1>1. Executes /\ Conversation
  BY DEF IInv
<1>2. pc \in Executing
  BY <1>1 DEF Executes
<1>3. PICK d \in Cmdlists : list = {d}
  BY <1>1, <1>2 DEF Executes
<1>4. c \in Cmdlists /\ list = {c}
  BY <1>3
<1>5. recvbuf # <<>> => ~OneAnswer(c)
  BY <1>1, <1>4 DEF Conversation
<1>6. Pipelined <=> pc = "data" /\ ~OneAnswer(c)
  BY <1>4 DEF Pipelined
<1> QED BY <1>1, <1>2, <1>4, <1>5, <1>6 DEF Executes

LEMMA ConfigureKeeps ==
    ASSUME IInv, NEW c \in Cmdlists, Configure(c)
    PROVE  IInv'
<1>1. Types /\ Conversation /\ Executes /\ Stored /\ Groups
  BY DEF IInv
<1>2. /\ pc = "configure" /\ c \in list /\ buffers' = buffers /\ canceled' = canceled /\ cancel' = cancel
  BY DEF Configure
<1>3. /\ list = {c} /\ outcome[c] = "new" /\ ~OneAnswer(c) /\ try <= Len(groups[c])
  BY <1>2, TheCmdlist
<1>4. /\ ses \in Sessions /\ wire \in Seq(Responses) /\ recvbuf \in Seq(Responses) /\ try \in Nat
      /\ outcome \in [Cmdlists -> Outcomes] /\ CancelTypes
  BY <1>1 DEF Types, CancelTypes
<1>5. /\ Unanswered(ses) = <<>> /\ ~waiting
  BY <1>1, <1>2 DEF Conversation
<1>6. /\ ses.recv = <<>> /\ ses.send = <<>> /\ ~pending(ses) /\ wire = <<>> /\ net = <<>>
  BY <1>1, <1>5, Quiet
<1>7. Len(groups[c]) \in Nat
  BY CmdlistFacts
<1>8. /\ recvbuf # <<>> => Refused411
      /\ Refused411 => try # 0 /\ ses.group = groups[c][try] /\ (try = 1 => ses.group \notin Carried)
  BY <1>1, <1>2 DEF Groups, Refusals
<1>9. CASE try = Len(groups[c])
  <2>1. Returns(ses, wire) /\ Outcome(c, "failed") BY <1>9 DEF Configure
  <2>2. Stored' /\ outcome' \in [Cmdlists -> Outcomes]
    BY <2>1, <1>1, <1>2, <1>4, StoredGivenUp
  <2>3. CancelTypes' BY <2>2, <1>2, <1>4 DEF CancelTypes
  <2>4. MayHaveMisread' \/ SameGroup(ses.group, server.group, wire)
    <3>1. MayHaveMisread => MayHaveMisread' BY <2>1, <1>3, <1>4, MisreadStays
    <3>2. CASE Refused411
      <4>1. CASE try = 1
        <5>1. ses.group \notin Carried BY <4>1, <3>2, <1>8
        <5>2. SameGroup(ses.group, server.group, <<>>) BY <5>1 DEF SameGroup
        <5> QED BY <5>2, <1>6
      <4>2. CASE try # 1
        <5>0. try # 0 BY <3>2, <1>8
        <5>a. try \in Nat BY <1>4
        <5>b. try > 1 BY <5>0, <5>a, <4>2
        <5>1. Len(groups[c]) > 1 BY <5>b, <1>9
        <5> QED BY <5>1, <2>1, <1>3, <1>4, MisreadStays
      <4> QED BY <4>1, <4>2
    <3>3. CASE ~Refused411
      <4>1. recvbuf = <<>> BY <3>3, <1>8
      <4>2. recvbuf \o wire = wire BY <4>1, <1>6
      <4>3. Selected \/ MayHaveMisread BY <3>3, <1>1, <1>2 DEF Groups, Misreads
      <4> QED BY <4>2, <4>3, <3>1 DEF Selected
    <3> QED BY <3>2, <3>3
  <2>5. InOrder(ses.recv, wire, net) BY <1>1 DEF Conversation
  <2> QED BY <2>1, <2>2, <2>3, <2>4, <2>5, <1>1, <1>4, <1>5, ReturnsKeeps
<1>10. CASE try # Len(groups[c])
  <2> DEFINE g == groups[c][try + 1]
             s == change_group(ses, g)
             at == IF pending(s) THEN "config" ELSE "submit"
             k == Command("group", g)
  <2>0. try + 1 \in 1 .. Len(groups[c]) BY <1>3, <1>4, <1>7, <1>10
  <2>1. g \in STRING /\ k \in Commands BY <2>0, CmdlistFacts
  <2>2. /\ ses' = s /\ pc' = at /\ waiting' = FALSE /\ wire' = wire /\ list' = list /\ net' = net
        /\ server' = server /\ config' = "none" /\ recvbuf' = recvbuf /\ try' = try /\ outcome' = outcome
    BY <1>10 DEF Configure, Goes
  <2> HIDE DEF g, k
  <2>3. s = IF g = ses.group THEN ses ELSE Queue(ses, "group", g) BY DEF change_group
  <2>4. s \in Sessions /\ s.recv = <<>> /\ s.group = ses.group
        /\ IF g = ses.group THEN Unanswered(s) = <<>> ELSE Unanswered(s) = <<k>>
    <3>1. CASE g = ses.group BY <3>1, <2>3, <1>4, <1>5, <1>6
    <3>2. CASE g # ses.group
      <4>1. "group" \in Kinds BY DEF Kinds
      <4> HIDE DEF s
      <4> QED BY <4>1, <3>2, <2>1, <2>3, <1>4, <1>5, <1>6, QueueFacts DEF k
    <3> QED BY <3>1, <3>2
  <2> HIDE DEF s
  <2>5. at = IF g = ses.group THEN "submit" ELSE "config"
    <3>1. pending(s) <=> Unanswered(s) # <<>> BY <2>4, SessionFacts
    <3>2. <<k>> # <<>> OBVIOUS
    <3> QED BY <3>1, <3>2, <2>4
  <2> HIDE DEF at
  <2>6. Types'
    <3>1. CancelTypes' BY <2>2, <1>2, <1>4 DEF CancelTypes
    <3>2. "none" \in Statuses BY DEF Statuses
    <3>3. at \in {"submit", "config"} BY <2>5
    <3> QED BY <3>1, <3>2, <3>3, <2>2, <2>4, <1>1 DEF Types
  <2>7. Conversation'
    <3>1. recvbuf = <<>> \/ Sticks(recvbuf) BY <1>8 DEF Refused411, Sticks
    <3>2. InOrder(ses.recv, wire, net)' /\ OneByOne' /\ InBuffer(ses.recv, recvbuf, wire, net)'
      BY <3>1, <2>2, <2>4, <1>5, QueuedKeeps
    <3>3. pc' \in {"submit", "config"} /\ (pc' = "submit" => Unanswered(s) = <<>>)
      BY <2>2, <2>4, <2>5
    <3>4. (recvbuf # <<>> => \E d \in list : ~OneAnswer(d))'
      BY <2>2, <1>2, <1>3 DEF OneAnswer
    <3> QED BY <3>2, <3>3, <3>4, <2>2 DEF Conversation
  <2>8. Executes'
    <3>1. pc' \in {"submit", "config"} /\ list' = {c} /\ outcome' = outcome /\ try' = try /\ ses' = s
      BY <2>2, <2>5, <1>3
    <3>2. pc' = "config" => Finally(Unanswered(s), k)
      BY <2>2, <2>4, <2>5, FinallyOne
    <3>3. try < Len(groups[c]) BY <2>0, <1>4, <1>7
    <3>4. pc' \in Executing BY <3>1 DEF Executing
    <3> QED BY <3>1, <3>2, <3>3, <3>4, <1>3 DEF Executes, OneAnswer, k, g
  <2>9. Stored'
    BY <2>2, <1>1, <1>2, StoredUnchanged
  <2>10. Groups'
    <3>1. Refused411' <=> Refused411 BY <2>2 DEF Refused411
    <3>2. MayHaveMisread' <=> MayHaveMisread BY <2>2 DEF MayHaveMisread
    <3>3. Selected' <=> Selected BY <2>2, <2>4 DEF Selected
    <3>4. ses' = s /\ recvbuf' = recvbuf /\ try' = try /\ list' = {c} /\ config' = "none"
      BY <2>2, <1>3
    <3>5. CASE g = ses.group
      <4>1. pc' = "submit" BY <3>5, <2>2, <2>5
      <4>2. Refused411 => ~IsInjective(groups[c])
        <5> SUFFICES ASSUME Refused411 PROVE ~IsInjective(groups[c])
          OBVIOUS
        <5>1. groups[c][try] = groups[c][try + 1] /\ try # 0 BY <3>5, <1>8 DEF g
        <5>2. groups[c] \in Seq(STRING) BY CmdlistFacts
        <5>3. DOMAIN groups[c] = 1 .. Len(groups[c]) BY <5>2
        <5>4. try \in 1 .. Len(groups[c]) /\ try # try + 1 BY <5>1, <1>3, <1>4, <1>7
        <5> QED BY <5>1, <5>3, <5>4, <2>0 DEF IsInjective
      <4>3. Refusals' BY <4>1, <4>2, <3>1, <3>4, <1>8 DEF Refusals
      <4>4. Selected \/ MayHaveMisread \/ Refused411 BY <1>1, <1>2 DEF Groups, Misreads
      <4> QED BY <4>1, <4>3, <4>4, <3>1, <3>2, <3>3 DEF Groups, Misreads
    <3>6. CASE g # ses.group
      <4>1. pc' = "config" BY <3>6, <2>2, <2>5
      <4>2. Unanswered(s) # <<>> /\ Len(Unanswered(s)) <= 1
        <5>1. Unanswered(s) = <<k>> BY <3>6, <2>4
        <5> QED BY <5>1
      <4>3. Refusals' BY <4>1, <4>2, <3>1, <3>4, <1>8 DEF Refusals
      <4>4. Selected \/ MayHaveMisread \/ (Refused411 /\ try >= 2) BY <1>1, <1>2 DEF Groups, Misreads
      <4>5. try >= 2 => try' >= 1 BY <3>4, <1>4
      <4> QED BY <4>1, <4>3, <4>4, <4>5, <3>1, <3>2, <3>3 DEF Groups, Misreads
    <3> QED BY <3>5, <3>6
  <2> QED BY <2>6, <2>7, <2>8, <2>9, <2>10 DEF IInv
<1> QED BY <1>9, <1>10

LEMMA ConfiguredKeeps ==
    ASSUME IInv, NEW c \in Cmdlists, Configured(c)
    PROVE  IInv'
<1>1. Types /\ Conversation /\ Executes /\ Stored /\ Groups
  BY DEF IInv
<1>2. /\ pc = "config" /\ c \in list /\ ~waiting /\ ~MaySend(ses) /\ cancel' = cancel
      /\ buffers' = buffers /\ outcome' = outcome /\ canceled' = canceled
  BY DEF Configured, cvars
<1>3. CancelTypes' /\ Stored'
  BY <1>1, <1>2, StoredUnchanged DEF Types, CancelTypes
<1>4. CASE ses.error # "none"
  <2>1. Closes(ses.error) BY <1>4 DEF Configured
  <2> QED BY <2>1, <1>3, ClosesKeeps
<1>5. CASE ses.error = "none"
  <2>1. /\ list = {c} /\ outcome[c] = "new" /\ ~OneAnswer(c) /\ try < Len(groups[c]) /\ ~Pipelined
    BY <1>2, TheCmdlist
  <2>2. ses \in Sessions /\ try \in Nat
    BY <1>1 DEF Types
  <2>3. OneByOne
    BY <2>1, <1>1, <1>2 DEF Conversation
  <2>4. ses.recv = <<>>
    BY <2>3, <1>2 DEF OneByOne
  <2>5. Unanswered(ses) = <<>> BY <2>2, <2>4, <1>2, SessionFacts DEF MaySend
  <2>6. /\ ses' = ses /\ waiting' = FALSE /\ wire' = wire /\ list' = list /\ net' = net
        /\ server' = server /\ config' = config /\ recvbuf' = recvbuf
        /\ IF config = "success" THEN pc' = "submit" /\ try' = try
                                 ELSE pc' = "configure" /\ try' = try + 1
    BY <1>5 DEF Configured, Goes
  <2>7. /\ recvbuf # <<>> => Refused411
        /\ Refused411 => config # "success" /\ ses.group = groups[c][try + 1]
                         /\ (try = 0 => ses.group \notin Carried)
    BY <2>5, <1>1, <1>2 DEF Groups, Refusals
  <2>8. Types'
    <3>1. try' \in Nat BY <2>2, <2>6
    <3> QED BY <3>1, <2>6, <1>1, <1>3 DEF Types
  <2>9. pc' \in {"submit", "configure"} BY <2>6
  <2>10. Conversation'
    <3>1. OneByOne' BY <2>3, <2>4, <2>6 DEF OneByOne
    <3>2. InOrder(ses.recv, wire, net)' BY <2>6, <1>1 DEF Conversation
    <3>3. InBuffer(ses.recv, recvbuf, wire, net)' BY <2>6, <1>1, <1>2 DEF Conversation
    <3>4. (recvbuf # <<>> => \E d \in list : ~OneAnswer(d))' BY <2>6, <2>1 DEF OneAnswer
    <3> QED BY <3>1, <3>2, <3>3, <3>4, <2>5, <2>6, <2>9 DEF Conversation
  <2>11. Executes'
    <3>1. pc' = "configure" => try' <= Len(groups[c])
      <4>1. Len(groups[c]) \in Nat BY CmdlistFacts
      <4> QED BY <4>1, <2>1, <2>2, <2>6
    <3>2. pc' \in Executing BY <2>9 DEF Executing
    <3> QED BY <3>1, <3>2, <2>1, <2>6, <2>9, <1>2 DEF Executes, OneAnswer
  <2>12. Groups'
    <3>1. Refused411' <=> Refused411 BY <2>6 DEF Refused411
    <3>2. MayHaveMisread' <=> MayHaveMisread BY <1>2 DEF MayHaveMisread
    <3>3. Selected' <=> Selected BY <2>6 DEF Selected
    <3>4. Selected \/ MayHaveMisread \/ (Refused411 /\ try >= 1) BY <1>1, <1>2 DEF Groups, Misreads
    <3>5. CASE config = "success"
      <4>1. ~Refused411 /\ recvbuf = <<>> /\ pc' = "submit" BY <3>5, <2>6, <2>7
      <4>2. Refusals' BY <4>1, <3>1, <2>6 DEF Refusals
      <4> QED BY <4>1, <4>2, <3>2, <3>3, <3>4 DEF Groups, Misreads
    <3>6. CASE config # "success"
      <4>1. pc' = "configure" /\ try' = try + 1 BY <3>6, <2>6
      <4>2. try' # 0 /\ (try' = 1 => try = 0) /\ (try >= 1 => try' >= 2) BY <4>1, <2>2
      <4>3. Refusals' BY <4>1, <4>2, <3>1, <2>1, <2>6, <2>7 DEF Refusals
      <4> QED BY <4>1, <4>2, <4>3, <3>1, <3>2, <3>3, <3>4 DEF Groups, Misreads
    <3> QED BY <3>5, <3>6
  <2> QED BY <2>8, <2>10, <2>11, <2>12, <1>3 DEF IInv
<1> QED BY <1>4, <1>5

\* A step that leaves the cmdlist and the commands without an answer alone.
LEMMA ExecutesUnchanged ==
    ASSUME Executes, pc' = pc, try' = try, list' = list, outcome' = outcome, buffers' = buffers,
           Unanswered(ses)' = Unanswered(ses)
    PROVE  Executes'
<1> DEFINE u == Unanswered(ses)
           Asking(c) == IF OneAnswer(c) THEN Finally(u, Asked(c, 1)) ELSE AsksForAll(u, buffers[c], c)
<1>1. u' = u
  OBVIOUS
<1>2. ASSUME NEW c PROVE Asking(c)' <=> Asking(c)
  <2> HIDE DEF u
  <2> QED BY <1>1 DEF OneAnswer, Asked, Finally, AsksForAll, AsksFor, Unfilled
<1>3. ASSUME NEW c \in list'
      PROVE  /\ outcome'[c] = "new"
             /\ pc' \in {"configure", "config"} => ~OneAnswer(c)
             /\ pc' = "configure" => try' <= Len(groups[c])
             /\ pc' = "config" => try' < Len(groups[c])
                                  /\ Finally(u, Command("group", groups[c][try' + 1]))
             /\ pc' = "data" => Asking(c)
  <2> USE DEF u
  <2> QED BY <1>3 DEF Executes
<1>4. /\ pc' \notin Executing => list' = {} /\ try' = 0
      /\ pc' \in Executing => \E c \in Cmdlists : list' = {c}
  BY DEF Executes
<1> QED
  <2> HIDE DEF u
  <2> QED BY <1>1, <1>2, <1>3, <1>4 DEF Executes, OneAnswer, Executing

\* What submit_data_commands queues is for the buffers without a status.
LEMMA SubmitQueues ==
    ASSUME NEW c \in Cmdlists, ses \in Sessions, Unanswered(ses) = <<>>,
           CancelTypes, Stored, outcome[c] = "new"
    PROVE  LET s  == submit_data_commands(ses, c)
               nb == Resubmitted(c)
           IN  /\ s \in Sessions /\ s.recv = <<>> /\ s.group = ses.group
               /\ nb \in Seq(Buffers)
               /\ \A i \in 1 .. Len(nb) : nb[i].status \in {"success", "unavailable"} => nb[i].of = Asked(c, i)
               /\ OneAnswer(c) => NoAnswer(nb) /\ Unanswered(s) = <<Asked(c, 1)>>
               /\ ~OneAnswer(c) => Len(nb) <= Len(commands[c]) /\ AsksForAll(Unanswered(s), nb, c)
<1> DEFINE s == submit_data_commands(ses, c)
           nb == Resubmitted(c)
<1>1. buffers[c] \in Seq(Buffers) BY DEF CancelTypes
<1>2. \A i \in 1 .. Len(buffers[c]) :
        buffers[c][i].status \in {"success", "unavailable"} => buffers[c][i].of = Asked(c, i)
  BY DEF Stored, BuffersMatch
<1>3. ses.recv = <<>> /\ ses.send = <<>>
  BY SessionFacts
<1>4. /\ OneAnswer(c) => NoAnswer(buffers[c])
      /\ ~OneAnswer(c) => Len(buffers[c]) <= Len(commands[c])
  BY DEF Stored, Buffered
<1>5. CASE OneAnswer(c)
  <2>1. nb = buffers[c] BY <1>5 DEF Resubmitted, OneAnswer
  <2>2. PICK k \in {"list", "group"}, a \in STRING : s = Queue(ses, k, a) /\ Asked(c, 1) = Command(k, a)
    <3>1. CASE cmdtype[c] = "listing"
      <4>1. s = Queue(ses, "list", NoGroup) /\ Asked(c, 1) = Command("list", NoGroup)
        BY <3>1 DEF submit_data_commands, retrieve_list, Asked
      <4>2. NoGroup \in STRING BY ConnectionAssumption
      <4> HIDE DEF s
      <4> QED BY <4>1, <4>2
    <3>2. CASE cmdtype[c] = "groupinfo"
      <4>1. s = Queue(ses, "group", groups[c][1]) /\ Asked(c, 1) = Command("group", groups[c][1])
        BY <3>2 DEF submit_data_commands, retrieve_group_info, Asked
      <4>2. groups[c][1] \in STRING
        <5>1. groups[c] # <<>>
          <6>1. \A d \in Cmdlists : cmdtype[d] = "groupinfo" => groups[d] # <<>> BY ConnectionAssumption
          <6> QED BY <6>1, <3>2
        <5>2. groups[c] \in Seq(STRING) BY CmdlistFacts
        <5> QED BY <5>1, <5>2, EmptyFacts
      <4> HIDE DEF s
      <4> QED BY <4>1, <4>2
    <3> QED BY <3>1, <3>2, <1>5 DEF OneAnswer
  <2>3. k \in Kinds BY DEF Kinds
  <2> HIDE DEF s
  <2>4. s \in Sessions /\ s.recv = <<>> /\ s.group = ses.group /\ Unanswered(s) = <<Command(k, a)>>
    BY <2>2, <2>3, <1>3, QueueFacts
  <2> HIDE DEF nb
  <2> QED BY <2>1, <2>2, <2>4, <1>1, <1>2, <1>4, <1>5 DEF s, nb
<1>6. CASE ~OneAnswer(c)
  <2> DEFINE u == [k \in 1 .. Len(Wanted(c)) |-> Command(cmdtype[c], commands[c][Wanted(c)[k]])]
  <2>1. /\ u \in Seq(Commands) /\ AsksForAll(u, nb, c)
        /\ nb \in Seq(Buffers) /\ Len(nb) = Len(buffers[c])
        /\ \A i \in 1 .. Len(nb) : nb[i] = buffers[c][i] \/ nb[i].status = "none"
    BY <1>1, <1>4, <1>6, SubmitAsks
  <2>2. s = [ses EXCEPT !.send = ses.send \o u]
    BY <1>6 DEF submit_data_commands, OneAnswer
  <2> HIDE DEF u, nb, s
  <2> DEFINE none == <<>>
  <2>3. none \in Seq(Commands) /\ none \o u = u
    <3>1. none \in Seq(Commands) OBVIOUS
    <3> QED BY <3>1, <2>1, JoinFacts
  <2> HIDE DEF none
  <2>4. s \in Sessions /\ s.recv = <<>> /\ s.send = u /\ s.group = ses.group
    <3>1. s = Requeued(ses, none, u) BY <2>2, <2>3, <1>3 DEF Requeued, Sessions, none
    <3>2. /\ Requeued(ses, none, u).group = ses.group /\ Requeued(ses, none, u) \in Sessions
          /\ Requeued(ses, none, u).recv = none /\ Requeued(ses, none, u).send = u
      <4>1. ses \in Sessions /\ none \in Seq(Commands) /\ u \in Seq(Commands) BY <2>1, <2>3
      <4> QED BY <4>1, RequeuedFacts
    <3> QED BY <3>1, <3>2 DEF none
  <2>5. Unanswered(s) = u BY <2>3, <2>4 DEF Unanswered, none
  <2>6. \A i \in 1 .. Len(nb) : nb[i].status \in {"success", "unavailable"} => nb[i].of = Asked(c, i)
    BY <2>1, <1>2
  <2> QED BY <2>1, <2>4, <2>5, <2>6, <1>4, <1>6 DEF s, nb
<1> QED BY <1>5, <1>6

LEMMA SubmitKeeps ==
    ASSUME IInv, NEW c \in Cmdlists, Submit(c)
    PROVE  IInv'
<1> DEFINE s == submit_data_commands(ses, c)
           nb == Resubmitted(c)
<1>1. Types /\ Conversation /\ Executes /\ Stored /\ Groups
  BY DEF IInv
<1>2. /\ pc = "submit" /\ c \in list /\ canceled' = canceled /\ cancel' = cancel
  BY DEF Submit
<1>3. /\ list = {c} /\ outcome[c] = "new" /\ (recvbuf # <<>> => ~OneAnswer(c))
  BY <1>2, TheCmdlist
<1>4. /\ ses \in Sessions /\ wire \in Seq(Responses) /\ recvbuf \in Seq(Responses)
      /\ outcome \in [Cmdlists -> Outcomes] /\ CancelTypes
  BY <1>1 DEF Types, CancelTypes
<1>5. /\ Unanswered(ses) = <<>> /\ ~waiting
  BY <1>1, <1>2 DEF Conversation
<1>6. /\ ses.recv = <<>> /\ ses.send = <<>> /\ ~pending(ses) /\ wire = <<>> /\ net = <<>>
  BY <1>1, <1>5, Quiet
<1>7. InOrder(<<>>, wire, net)
  BY <1>6, NothingOutstanding
<1>8. /\ recvbuf # <<>> => Refused411
      /\ Refused411 => ~IsInjective(groups[c])
      /\ Selected \/ MayHaveMisread \/ Refused411
  BY <1>1, <1>2 DEF Groups, Refusals, Misreads
<1>9. ASSUME NEW o \in {"dropped", "done"}, Outcome(c, o), NEW t \in Sessions, t.group = ses.group
      PROVE  MayHaveMisread' \/ SameGroup(t.group, server.group, wire)
  <2>1. MayHaveMisread => MayHaveMisread' BY <1>3, <1>4, <1>9, MisreadStays
  <2>2. CASE Refused411
    <3>1. ~IsInjective(groups[c]) BY <2>2, <1>8
    <3> QED BY <3>1, <1>3, <1>4, <1>9, MisreadStays
  <2>3. CASE ~Refused411
    <3>1. recvbuf = <<>> BY <2>3, <1>8
    <3>2. recvbuf \o wire = wire BY <3>1, <1>6
    <3> QED BY <3>2, <2>1, <2>3, <1>8, <1>9 DEF Selected
  <2> QED BY <2>2, <2>3
<1>10. CASE canceled[c]
  <2>1. Returns(ses, wire) /\ Outcome(c, "dropped") /\ buffers' = buffers BY <1>10 DEF Submit
  <2>2. Stored' /\ outcome' \in [Cmdlists -> Outcomes]
    BY <2>1, <1>1, <1>4, StoredGivenUp
  <2>3. CancelTypes' BY <2>1, <2>2, <1>2, <1>4 DEF CancelTypes
  <2>4. MayHaveMisread' \/ SameGroup(ses.group, server.group, wire)
    BY <2>1, <1>4, <1>9
  <2>5. InOrder(ses.recv, wire, net) BY <1>1 DEF Conversation
  <2> QED BY <2>1, <2>2, <2>3, <2>4, <2>5, <1>1, <1>4, <1>5, ReturnsKeeps
<1>11. CASE ~canceled[c]
  <2>1. /\ s \in Sessions /\ s.recv = <<>> /\ s.group = ses.group
        /\ nb \in Seq(Buffers)
        /\ \A i \in 1 .. Len(nb) : nb[i].status \in {"success", "unavailable"} => nb[i].of = Asked(c, i)
        /\ OneAnswer(c) => NoAnswer(nb) /\ Unanswered(s) = <<Asked(c, 1)>>
        /\ ~OneAnswer(c) => Len(nb) <= Len(commands[c]) /\ AsksForAll(Unanswered(s), nb, c)
    BY <1>1, <1>3, <1>4, <1>5, SubmitQueues
  <2>2. buffers' = [buffers EXCEPT ![c] = nb] BY <1>11 DEF Submit
  <2>a. IF pending(s) THEN /\ Goes(s, "data", wire) /\ recvbuf' = recvbuf /\ config' = config
                           /\ try' = try /\ outcome' = outcome
        ELSE Returns(s, wire) /\ Outcome(c, "done")
    BY <1>11 DEF Submit
  <2> HIDE DEF s, nb
  <2>3. pending(s) <=> Unanswered(s) # <<>> BY <2>1, SessionFacts
  <2>4. CASE pending(s)
    <3>1. /\ ses' = s /\ pc' = "data" /\ waiting' = FALSE /\ wire' = wire /\ list' = list /\ net' = net
          /\ server' = server /\ config' = config /\ recvbuf' = recvbuf /\ try' = try /\ outcome' = outcome
      BY <2>4, <2>a DEF Goes
    <3>2. Stored' /\ CancelTypes'
      <4>1. outcome' = [outcome EXCEPT ![c] = "new"] BY <3>1, <1>3, <1>4
      <4>2. "new" \in Outcomes BY DEF Outcomes
      <4> QED BY <4>1, <4>2, <2>1, <2>2, <1>1, <1>2, <1>4, StoredChanged
    <3>3. Types' BY <3>1, <3>2, <2>1, <1>1 DEF Types
    <3>4. Conversation'
      <4>1. recvbuf = <<>> \/ Sticks(recvbuf) BY <1>8 DEF Refused411, Sticks
      <4>2. InOrder(ses.recv, wire, net)' /\ OneByOne' /\ InBuffer(ses.recv, recvbuf, wire, net)'
        BY <4>1, <3>1, <2>1, <1>5, QueuedKeeps
      <4>3. (recvbuf # <<>> => \E d \in list : ~OneAnswer(d))'
        BY <3>1, <1>2, <1>3 DEF OneAnswer
      <4>4. Unanswered(s) # <<>> BY <2>3, <2>4
      <4> QED BY <4>2, <4>3, <4>4, <3>1 DEF Conversation
    <3>5. Executes'
      <4>1. buffers'[c] = nb BY <2>2, <1>4 DEF CancelTypes
      <4>2. OneAnswer(c) => Finally(Unanswered(s), Asked(c, 1)) BY <2>1, FinallyOne
      <4>3. (IF OneAnswer(c) THEN Finally(Unanswered(ses), Asked(c, 1))
             ELSE AsksForAll(Unanswered(ses), buffers[c], c))'
        <5>1. IF OneAnswer(c) THEN Finally(Unanswered(s), Asked(c, 1)) ELSE AsksForAll(Unanswered(s), nb, c)
          BY <4>2, <2>1
        <5> QED BY <5>1, <4>1, <3>1 DEF OneAnswer, Asked, AsksForAll, AsksFor, Unfilled
      <4>4. pc' \in Executing BY <3>1 DEF Executing
      <4> QED BY <4>3, <4>4, <3>1, <1>3 DEF Executes
    <3>6. Groups'
      <4>1. Refused411' <=> Refused411 BY <3>1 DEF Refused411
      <4>2. MayHaveMisread' <=> MayHaveMisread BY <3>1 DEF MayHaveMisread
      <4>3. Selected' <=> Selected BY <3>1, <2>1 DEF Selected
      <4>4. Refusals' BY <4>1, <3>1, <1>3, <1>8 DEF Refusals
      <4> QED BY <4>1, <4>2, <4>3, <4>4, <3>1, <1>8 DEF Groups, Misreads
    <3> QED BY <3>2, <3>3, <3>4, <3>5, <3>6 DEF IInv
  <2>5. CASE ~pending(s)
    <3>1. Returns(s, wire) /\ Outcome(c, "done") BY <2>5, <2>a
    <3>2. Unanswered(s) = <<>> BY <2>3, <2>5
    <3>3. ~OneAnswer(c)
      <4>1. <<Asked(c, 1)>> # <<>> OBVIOUS
      <4> QED BY <4>1, <3>2, <2>1
    <3>4. Len(nb) = Len(commands[c]) /\ \A i \in 1 .. Len(nb) : nb[i].status # "none"
      BY <3>2, <3>3, <2>1, NoneLeft
    <3>5. Stored' /\ CancelTypes'
      <4>1. outcome' = [outcome EXCEPT ![c] = "done"] BY <3>1 DEF Outcome
      <4>2. "done" \in Outcomes BY DEF Outcomes
      <4>3. cmdtype[c] \in {"body", "xover"} BY <3>3, CmdlistFacts
      <4> QED BY <4>1, <4>2, <4>3, <3>3, <3>4, <2>1, <2>2, <1>1, <1>2, <1>4, StoredChanged
    <3>6. MayHaveMisread' \/ SameGroup(s.group, server.group, wire)
      BY <3>1, <2>1, <1>9
    <3> QED BY <3>1, <3>2, <3>5, <3>6, <2>1, <1>1, <1>4, <1>7, ReturnsKeeps
  <2> QED BY <2>4, <2>5
<1> QED BY <1>10, <1>11

-----------------------------------------------------------------------------
(* The loops. *)

\* In the loops there is something without an answer where it was sent.
LEMMA CanceledKeeps ==
    ASSUME IInv, Canceled
    PROVE  IInv'
<1>1. Types /\ Conversation /\ Stored
  BY DEF IInv
<1>2. /\ pc \in {"init", "config", "data"} /\ waiting /\ cancel /\ Returns(ses, wire) /\ cancel' = cancel
      /\ buffers' = buffers /\ outcome' = outcome /\ canceled' = canceled
  BY DEF Canceled, cvars
<1>3. CancelTypes' /\ Stored'
  BY <1>1, <1>2, StoredUnchanged DEF Types, CancelTypes
<1>4. ses \in Sessions /\ wire \in Seq(Responses) BY <1>1 DEF Types
<1>5. ses.recv # <<>> /\ InOrder(ses.recv, wire, net) BY <1>1, <1>2 DEF Conversation
<1>6. Unanswered(ses) # <<>> BY <1>4, <1>5, SessionFacts
<1> QED BY <1>1, <1>2, <1>3, <1>4, <1>5, <1>6, ReturnsKeeps

LEMMA LossKeeps ==
    ASSUME IInv, Timeout \/ Lost
    PROVE  IInv'
<1>1. Types /\ Stored
  BY DEF IInv
<1>2. /\ cancel' = cancel /\ buffers' = buffers /\ outcome' = outcome /\ canceled' = canceled
      /\ \E e : Closes(e)
  BY DEF Timeout, Lost, cvars
<1>3. CancelTypes' /\ Stored'
  BY <1>1, <1>2, StoredUnchanged DEF Types, CancelTypes
<1> QED BY <1>2, <1>3, ClosesKeeps

\* What the other threads do changes nothing of the conversation.
LEMMA CancelsKeep ==
    ASSUME IInv, Stop \/ \E c \in Cmdlists : CancelList(c)
    PROVE  IInv'
<1>1. Types /\ Conversation /\ Executes /\ Stored /\ Groups
  BY DEF IInv
<1>2. /\ ses' = ses /\ pc' = pc /\ waiting' = waiting /\ recvbuf' = recvbuf /\ config' = config
      /\ try' = try /\ list' = list /\ buffers' = buffers /\ outcome' = outcome /\ net' = net
      /\ wire' = wire /\ server' = server
  BY DEF Stop, CancelList, svars, cvars
<1>3. canceled' \in [Cmdlists -> BOOLEAN] /\ cancel' \in BOOLEAN /\ (cancel => cancel')
  BY <1>1 DEF Stop, CancelList, cvars, Types, CancelTypes
<1>4. Types'
  <2>1. CancelTypes' BY <1>1, <1>2, <1>3 DEF Types, CancelTypes
  <2> QED BY <2>1, <1>1, <1>2 DEF Types
<1>5. Conversation'
  <2>1. OneByOne' <=> OneByOne BY <1>2 DEF OneByOne
  <2>2. Pipelined' <=> Pipelined BY <1>2 DEF Pipelined, OneAnswer
  <2>3. (\E c \in list : ~OneAnswer(c))' <=> (\E c \in list : ~OneAnswer(c)) BY <1>2 DEF OneAnswer
  <2>4. ~cancel' => ~cancel BY <1>3
  <2> QED BY <2>1, <2>2, <2>3, <2>4, <1>1, <1>2 DEF Conversation
<1>6. Executes'
  BY <1>1, <1>2, ExecutesUnchanged DEF Unanswered
<1>7. Stored'
  BY <1>1, <1>2, StoredUnchanged
<1>8. Groups'
  BY <1>1, <1>2 DEF Groups, Refusals, Refused411, Selected, Misreads, MayHaveMisread
<1> QED BY <1>4, <1>5, <1>6, <1>7, <1>8 DEF IInv

LEMMA RefusalsUnchanged ==
    ASSUME Refusals, pc' = pc, recvbuf' = recvbuf, config' = config, list' = list, try' = try,
           ses'.group = ses.group, Unanswered(ses)' = Unanswered(ses)
    PROVE  Refusals'
<1> DEFINE u == Unanswered(ses)
           g == ses.group
<1>1. u' = u /\ g' = g
  OBVIOUS
<1>2. /\ pc = "config" /\ Refused411 =>
            /\ config # "success"
            /\ u = <<>> => \A c \in list : g = groups[c][try + 1]
            /\ try = 0 => u = <<>> /\ g \notin Carried
            /\ Len(u) <= 1
      /\ pc = "configure" /\ Refused411 =>
            /\ try # 0 /\ \A c \in list : g = groups[c][try]
            /\ try = 1 => g \notin Carried
  BY DEF Refusals
<1> HIDE DEF u, g
<1>3. (/\ pc = "config" /\ Refused411 =>
            /\ config # "success"
            /\ u = <<>> => \A c \in list : g = groups[c][try + 1]
            /\ try = 0 => u = <<>> /\ g \notin Carried
            /\ Len(u) <= 1
       /\ pc = "configure" /\ Refused411 =>
            /\ try # 0 /\ \A c \in list : g = groups[c][try]
            /\ try = 1 => g \notin Carried)'
  BY <1>1, <1>2 DEF Refused411
<1>4. (/\ pc \in {"configure", "config", "submit"} /\ recvbuf # <<>> => Refused411
       /\ pc = "data" => Refused411 \/ \A i \in 1 .. Len(recvbuf) : recvbuf[i].code # 211
       /\ pc \in {"submit", "data"} /\ Refused411 => \A c \in list : ~IsInjective(groups[c]))'
  BY DEF Refusals, Refused411
<1> QED BY <1>3, <1>4 DEF Refusals, u, g

\* The commands that are not sent one after the other.
LEMMA FinallyKinds ==
    ASSUME NEW u \in Seq(Commands), NEW c, Finally(u, c), c.kind \notin {"body", "xover"}
    PROVE  \A i \in 1 .. Len(u) : ~can_pipeline(u[i])
<1> TAKE i \in 1 .. Len(u)
<1>1. Len(u) \in Nat \ {0} /\ u # <<>>
  BY EmptyFacts
<1>2. u[Len(u)] = c /\ \A j \in 1 .. Len(u) - 1 : u[j].kind \in {"authuser", "authpass", "getcaps"}
  BY <1>1 DEF Finally
<1>3. CASE i = Len(u)
  BY <1>2, <1>3 DEF can_pipeline
<1>4. CASE i # Len(u)
  <2>1. i \in 1 .. Len(u) - 1 BY <1>1, <1>4
  <2> QED BY <2>1, <1>2 DEF can_pipeline
<1> QED BY <1>3, <1>4

LEMMA NotPipelined ==
    ASSUME IInv, pc \in {"init", "config", "data", "ping", "quit"}, ~Pipelined
    PROVE  \A i \in 1 .. Len(Unanswered(ses)) : ~can_pipeline(Unanswered(ses)[i])
<1> DEFINE u == Unanswered(ses)
<1>1. Conversation /\ Executes /\ ses \in Sessions
  BY DEF IInv, Types
<1>2. u \in Seq(Commands)
  BY <1>1, SessionFacts
<1>3. CASE pc = "init"
  <2>1. \A i \in 1 .. Len(u) : u[i].kind \in InitKinds BY <1>1, <1>3 DEF Conversation
  <2> HIDE DEF u
  <2> QED BY <2>1 DEF u, InitKinds, can_pipeline
<1>4. CASE pc = "ping"
  <2> DEFINE c == Command("group", PingGroup)
  <2>1. Finally(u, c) /\ c.kind = "group" BY <1>1, <1>4 DEF Conversation, Command
  <2> HIDE DEF u, c
  <2>2. \A i \in 1 .. Len(u) : ~can_pipeline(u[i]) BY <2>1, <1>2, FinallyKinds
  <2> QED BY <2>2 DEF u
<1>5. CASE pc = "quit"
  <2> DEFINE c == Command("quit", NoGroup)
  <2>1. Finally(u, c) /\ c.kind = "quit" BY <1>1, <1>5 DEF Conversation, Command
  <2> HIDE DEF u, c
  <2>2. \A i \in 1 .. Len(u) : ~can_pipeline(u[i]) BY <2>1, <1>2, FinallyKinds
  <2> QED BY <2>2 DEF u
<1>6. CASE pc \in {"config", "data"}
  <2>1. PICK d \in Cmdlists : list = {d}
    BY <1>1, <1>6 DEF Executes, Executing
  <2>2. PICK c : Finally(u, c) /\ c.kind \notin {"body", "xover"}
    <3>1. CASE pc = "config"
      <4> DEFINE c == Command("group", groups[d][try + 1])
      <4>1. Finally(u, c) /\ c.kind = "group" BY <2>1, <3>1, TheCmdlist DEF Command
      <4> QED BY <4>1
    <3>2. CASE pc = "data"
      <4>1. OneAnswer(d) BY <2>1, <3>2 DEF Pipelined
      <4>2. Finally(u, Asked(d, 1)) BY <2>1, <3>2, <4>1, TheCmdlist
      <4>3. Asked(d, 1).kind \in {"group", "list"} BY <4>1, CmdlistFacts
      <4> QED BY <4>2, <4>3
    <3> QED BY <3>1, <3>2, <1>6
  <2> HIDE DEF u
  <2>3. \A i \in 1 .. Len(u) : ~can_pipeline(u[i]) BY <2>2, <1>2, FinallyKinds
  <2> QED BY <2>3 DEF u
<1> QED BY <1>3, <1>4, <1>5, <1>6

LEMMA SendKeeps ==
    ASSUME IInv, Send
    PROVE  IInv'
<1>1. Types /\ Conversation /\ Executes /\ Stored /\ Groups
  BY DEF IInv
<1>2. /\ pc \in {"init", "config", "data", "ping", "quit"} /\ ~waiting /\ waiting' = TRUE
      /\ MaySend(ses) \/ pc \in {"data", "ping", "quit"}
      /\ IF MaySend(ses) THEN ses' = send_next(ses) /\ net' = net \o OnSend(ses)
                         ELSE ses' = ses /\ net' = net
      /\ pc' = pc /\ recvbuf' = recvbuf /\ config' = config /\ try' = try /\ list' = list
      /\ buffers' = buffers /\ outcome' = outcome /\ canceled' = canceled /\ cancel' = cancel
      /\ wire' = wire /\ server' = server
  BY DEF Send, Exchanging, cvars
<1>3. /\ ses \in Sessions /\ wire \in Seq(Responses) /\ recvbuf \in Seq(Responses)
      /\ net \in Seq(Commands) /\ ses.recv \in Seq(Commands) /\ ses.send \in Seq(Commands)
  BY <1>1, SessionFacts DEF Types
<1>4. /\ InOrder(ses.recv, wire, net) /\ InBuffer(ses.recv, recvbuf, wire, net)
      /\ (~Pipelined \/ ~ses.pipelining => OneByOne)
  BY <1>1, <1>2 DEF Conversation
<1>5. /\ ses' \in Sessions /\ net' \in Seq(Commands)
      /\ ses'.group = ses.group /\ ses'.pipelining = ses.pipelining
      /\ Unanswered(ses') = Unanswered(ses)
      /\ InOrder(ses'.recv, wire, net') /\ InBuffer(ses'.recv, recvbuf, wire, net')
      /\ Before(ses'.recv, wire, net') = Before(ses.recv, wire, net)
      /\ ses'.recv # <<>>
      /\ ~Pipelined \/ ~ses.pipelining => Len(ses'.recv) <= 1
  <2>1. CASE ~MaySend(ses)
    <3>1. pc \in {"data", "ping", "quit"} /\ ses' = ses /\ net' = net BY <2>1, <1>2
    <3>2. Unanswered(ses) # <<>> BY <3>1, <1>1 DEF Conversation
    <3>3. ses.recv # <<>> \/ ses.send # <<>> BY <3>2, <1>3, SessionFacts
    <3>4. ses.recv # <<>> BY <3>3, <2>1 DEF MaySend
    <3>5. ~(~Pipelined \/ ~ses.pipelining) BY <3>4, <1>2, <1>4 DEF OneByOne
    <3> QED BY <3>1, <3>4, <3>5, <1>3, <1>4
  <2>2. CASE MaySend(ses)
    <3> DEFINE x == OnSend(ses)
               t == send_next(ses)
    <3>1. ses' = t /\ net' = net \o x BY <2>2, <1>2
    <3>2. /\ t \in Sessions /\ x \in Seq(Commands) /\ x # <<>> /\ t.recv = ses.recv \o x
          /\ t.group = ses.group /\ t.pipelining = ses.pipelining
          /\ Unanswered(t) = Unanswered(ses)
          /\ (\A i \in 2 .. Len(ses.send) : ~can_pipeline(ses.send[i])) => Len(x) = 1
          /\ ~ses.pipelining => Len(x) = 1
      BY <2>2, <1>3, SendNextFacts
    <3> HIDE DEF x, t
    <3>3. /\ InOrder(ses.recv \o x, wire, net \o x)
          /\ Before(ses.recv \o x, wire, net \o x) = Before(ses.recv, wire, net)
          /\ InBuffer(ses.recv \o x, recvbuf, wire, net \o x)
      BY <3>2, <1>3, <1>4, SendKeepsOrder
    <3>4. net \o x \in Seq(Commands) /\ ses.recv \o x # <<>> BY <3>2, <1>3, JoinFacts
    <3>5. ASSUME ~Pipelined \/ ~ses.pipelining PROVE Len(t.recv) <= 1
      <4>1. ses.recv = <<>> BY <3>5, <1>2, <1>4 DEF OneByOne
      <4>2. t.recv = x BY <4>1, <3>2, <1>3, JoinFacts
      <4>3. Len(x) = 1
        <5>1. CASE ~ses.pipelining BY <5>1, <3>2
        <5>2. CASE ~Pipelined
          <6>1. \A i \in 1 .. Len(Unanswered(ses)) : ~can_pipeline(Unanswered(ses)[i])
            BY <5>2, <1>2, NotPipelined
          <6>2. Unanswered(ses) = ses.send BY <4>1, <1>3, JoinFacts DEF Unanswered
          <6>3. \A i \in 2 .. Len(ses.send) : ~can_pipeline(ses.send[i]) BY <6>1, <6>2
          <6> QED BY <6>3, <3>2
        <5> QED BY <5>1, <5>2, <3>5
      <4> QED BY <4>2, <4>3
    <3> QED BY <3>1, <3>2, <3>3, <3>4, <3>5
  <2> QED BY <2>1, <2>2
<1>6. CancelTypes' /\ Stored'
  BY <1>1, <1>2, StoredUnchanged DEF Types, CancelTypes
<1>7. Types'
  BY <1>1, <1>2, <1>5, <1>6 DEF Types
<1>8. Executes'
  BY <1>1, <1>2, <1>5, ExecutesUnchanged
<1>9. Conversation'
  <2> DEFINE u == Unanswered(ses)
  <2>1. u' = u BY <1>5
  <2>2. /\ pc \in {"data", "ping", "quit"} => u # <<>>
        /\ pc = "init" => \A i \in 1 .. Len(u) : u[i].kind \in InitKinds
        /\ pc = "ping" => Finally(u, Command("group", PingGroup))
        /\ pc = "quit" => Finally(u, Command("quit", NoGroup))
        /\ recvbuf # <<>> => \E c \in list : ~OneAnswer(c)
    BY <1>1 DEF Conversation
  <2> HIDE DEF u
  <2>3. /\ (pc \in {"data", "ping", "quit"} => u # <<>>)'
        /\ (pc = "init" => \A i \in 1 .. Len(u) : u[i].kind \in InitKinds)'
        /\ (pc = "ping" => Finally(u, Command("group", PingGroup)))'
        /\ (pc = "quit" => Finally(u, Command("quit", NoGroup)))'
        /\ (recvbuf # <<>> => \E c \in list : ~OneAnswer(c))'
    BY <2>1, <2>2, <1>2 DEF Finally, OneAnswer
  <2>4. (~Pipelined \/ ~ses.pipelining => OneByOne)'
    <3>1. Pipelined' <=> Pipelined BY <1>2 DEF Pipelined, OneAnswer
    <3>2. ASSUME ~Pipelined \/ ~ses.pipelining PROVE OneByOne'
      <4>1. Before(ses.recv, wire, net) = 0 BY <3>2, <1>4 DEF OneByOne
      <4>2. Before(ses'.recv, wire', net') = 0 BY <4>1, <1>2, <1>5
      <4> QED BY <4>2, <3>2, <1>2, <1>5 DEF OneByOne
    <3> QED BY <3>1, <3>2, <1>5
  <2>5. InOrder(ses.recv, wire, net)' /\ InBuffer(ses.recv, recvbuf, wire, net)'
    BY <1>2, <1>5
  <2> QED BY <2>3, <2>4, <2>5, <1>2, <1>5 DEF Conversation, u
<1>10. Groups'
  <2>1. Refusals' BY <1>1, <1>2, <1>5, RefusalsUnchanged DEF Groups
  <2>2. Selected' <=> Selected BY <1>2, <1>5 DEF Selected
  <2>3. Refused411' <=> Refused411 BY <1>2 DEF Refused411
  <2>4. MayHaveMisread' <=> MayHaveMisread BY <1>2 DEF MayHaveMisread
  <2>5. Misreads => Misreads' BY <2>3, <2>4, <1>2 DEF Misreads
  <2> QED BY <2>1, <2>2, <2>5, <1>1 DEF Groups
<1> QED BY <1>6, <1>7, <1>8, <1>9, <1>10 DEF IInv

-----------------------------------------------------------------------------
(* The server. *)

LEMMA PipelinedKinds ==
    ASSUME IInv, Pipelined
    PROVE  \A i \in 1 .. Len(Unanswered(ses)) : Unanswered(ses)[i].kind \in {"body", "xover"}
<1> DEFINE u == Unanswered(ses)
<1>1. PICK d \in list : ~OneAnswer(d)
  BY DEF Pipelined
<1>2. AsksForAll(u, buffers[d], d) /\ d \in Cmdlists
  BY <1>1, TheCmdlist DEF Pipelined
<1> HIDE DEF u
<1>3. PICK w \in [1 .. Len(u) -> 1 .. Len(commands[d])] : AsksFor(u, buffers[d], d, w)
  BY <1>2 DEF AsksForAll
<1>4. \A i \in 1 .. Len(u) : u[i].kind \in {"body", "xover"}
  <2> TAKE i \in 1 .. Len(u)
  <2>1. u[i] = Asked(d, w[i]) /\ w[i] \in 1 .. Len(commands[d]) BY <1>3 DEF AsksFor
  <2> QED BY <2>1, <1>1, <1>2, CmdlistFacts
<1> QED BY <1>4 DEF u

\* A group is selected when the responses before have been read.
LEMMA SelectsAlone ==
    ASSUME IInv, net # <<>>, Head(net).kind = "group", ~Misreads
    PROVE  wire = <<>> /\ \A i \in 1 .. Len(recvbuf) : recvbuf[i].code # 211
<1>1. Types /\ Conversation /\ Executes /\ Groups
  BY DEF IInv
<1>2. /\ ses \in Sessions /\ wire \in Seq(Responses) /\ recvbuf \in Seq(Responses)
      /\ net \in Seq(Commands) /\ ses.recv \in Seq(Commands) /\ ses.send \in Seq(Commands)
      /\ try \in Nat
  BY <1>1, SessionFacts DEF Types
<1>3. /\ Len(net) \in Nat \ {0} /\ Head(net) = net[1] /\ Len(wire) \in Nat
      /\ Len(ses.recv) \in Nat /\ Len(ses.send) \in Nat
  BY <1>2, TailFacts, EmptyFacts
<1>4. /\ Len(wire) + Len(net) <= Len(ses.recv)
      /\ net[1] = ses.recv[Len(ses.recv) - Len(net) + 1]
  BY <1>1, <1>3 DEF Conversation, InOrder
<1>5. Unanswered(ses) # <<>>
  <2>1. Len(ses.recv) # 0 BY <1>3, <1>4
  <2>2. ses.recv # <<>> BY <2>1
  <2> QED BY <2>2, <1>2, SessionFacts
<1>6. pc \in {"init", "config", "data", "ping"}
  <2>1. pc \notin {"closed", "configure", "submit"} BY <1>1, <1>5 DEF Conversation
  <2>2. pc # "quit" BY DEF Misreads
  <2>3. pc # "idle"
    <3>1. pending(ses) BY <1>2, <1>5, SessionFacts
    <3> QED BY <3>1 DEF Misreads
  <2> QED BY <2>1, <2>2, <2>3, <1>1 DEF Types
<1>7. ~Pipelined
  <2> SUFFICES ASSUME Pipelined PROVE FALSE
    OBVIOUS
  <2> DEFINE j == Len(ses.recv) - Len(net) + 1
  <2>1. j \in 1 .. Len(ses.recv) BY <1>3, <1>4
  <2> HIDE DEF j
  <2>2. Unanswered(ses)[j] = ses.recv[j]
    <3> DEFINE q == ses.recv
               x == ses.send
    <3>1. q \in Seq(Commands) /\ x \in Seq(Commands) /\ j \in 1 .. Len(q) BY <2>1, <1>2
    <3>2. Unanswered(ses) = q \o x BY DEF Unanswered
    <3> HIDE DEF q, x
    <3>3. (q \o x)[j] = q[j] BY <3>1, JoinFacts
    <3> QED BY <3>2, <3>3 DEF q
  <2>3. Len(Unanswered(ses)) = Len(ses.recv) + Len(ses.send) BY <1>2, SessionFacts
  <2>4. j \in 1 .. Len(Unanswered(ses))
    <3> DEFINE a == Len(Unanswered(ses))
               b == Len(ses.recv)
               d == Len(ses.send)
    <3>1. a = b + d /\ b \in Nat /\ d \in Nat /\ j \in 1 .. b BY <2>1, <2>3, <1>3
    <3> HIDE DEF a, b, d
    <3>2. j \in 1 .. a BY <3>1
    <3> QED BY <3>2 DEF a
  <2>5. Unanswered(ses)[j].kind \in {"body", "xover"} BY <2>4, PipelinedKinds
  <2> QED BY <2>2, <2>5, <1>3, <1>4 DEF j
<1>8. OneByOne
  BY <1>1, <1>6, <1>7 DEF Conversation
<1>9. wire = <<>>
  <2>1. Len(wire) = 0 BY <1>3, <1>4, <1>8 DEF OneByOne
  <2> QED BY <2>1, <1>2, EmptyFacts
<1>10. ~Refused411
  <2> SUFFICES ASSUME Refused411 PROVE FALSE
    OBVIOUS
  <2>1. pc # "data" BY DEF Misreads
  <2>2. recvbuf # <<>> BY DEF Refused411
  <2>3. list # {} BY <2>2, <1>1 DEF Conversation
  <2>4. pc = "config" BY <2>1, <2>3, <1>1, <1>6 DEF Executes, Executing
  <2>5. try = 0 BY <2>4, <1>2 DEF Misreads
  <2>6. Unanswered(ses) = <<>> BY <2>4, <2>5, <1>1 DEF Groups, Refusals
  <2> QED BY <2>6, <1>5
<1>11. \A i \in 1 .. Len(recvbuf) : recvbuf[i].code # 211
  <2>1. CASE pc = "data"
    BY <2>1, <1>1, <1>10 DEF Groups, Refusals
  <2>2. CASE recvbuf = <<>>
    BY <2>2
  <2>3. CASE pc # "data" /\ recvbuf # <<>>
    <3>1. list # {} BY <2>3, <1>1 DEF Conversation
    <3>2. pc = "config" BY <2>3, <3>1, <1>1, <1>6 DEF Executes, Executing
    <3> QED BY <2>3, <3>2, <1>1, <1>10 DEF Groups, Refusals
  <2> QED BY <2>1, <2>2, <2>3
<1> QED BY <1>9, <1>11

LEMMA AnswersFacts ==
    ASSUME NEW c \in Commands, NEW code \in AnyCode, NEW good \in BOOLEAN, code \in Answers(c),
           good \/ (c.kind = "xover" /\ code = 224)
    PROVE  Response(c, code, good) \in Responses /\ (code = 211 => c.kind = "group")
<1> DEFINE r == Response(c, code, good)
<1>1. /\ r \in [to : Commands, code : AnyCode, good : BOOLEAN]
      /\ r.to = c /\ r.code = code /\ r.good = good
  BY DEF Response
<1>2. c.kind \in Kinds
  BY DEF Commands
<1>3. code \in {211, 411} => c.kind = "group"
  BY <1>2 DEF Answers, Kinds
<1>4. code = 411 => c.arg \notin Carried
  BY <1>3 DEF Answers
<1> HIDE DEF r
<1> QED BY <1>1, <1>3, <1>4 DEF Responses, r

LEMMA AnswerKeeps ==
    ASSUME IInv, Answering
    PROVE  IInv'
<1>1. Types /\ Conversation /\ Executes /\ Stored /\ Groups
  BY DEF IInv
<1>2. PICK code \in AnyCode, good \in BOOLEAN : Answer(code, good)
  BY DEF Answering
<1> DEFINE c == Head(net)
           r == Response(c, code, good)
           v == Append(wire, r)
           m == Tail(net)
           h == IF code = 211 THEN c.arg ELSE server.group
<1>3. /\ net # <<>> /\ code \in Answers(c) /\ (good \/ (c.kind = "xover" /\ code = 224))
      /\ net' = m /\ wire' = v
      /\ server' = [authenticated |-> server.authenticated \/ (c.kind = "authpass" /\ code = 281),
                    group |-> h]
      /\ ses' = ses /\ pc' = pc /\ waiting' = waiting /\ recvbuf' = recvbuf /\ config' = config
      /\ try' = try /\ list' = list
      /\ buffers' = buffers /\ outcome' = outcome /\ canceled' = canceled /\ cancel' = cancel
  BY <1>2 DEF Answer, cvars
<1>4. /\ ses \in Sessions /\ wire \in Seq(Responses) /\ recvbuf \in Seq(Responses)
      /\ net \in Seq(Commands) /\ ses.recv \in Seq(Commands)
      /\ server \in [authenticated : BOOLEAN, group : STRING]
  BY <1>1, SessionFacts DEF Types
<1>5. c \in Commands /\ m \in Seq(Commands)
  BY <1>3, <1>4, TailFacts
<1>6. /\ r \in Responses /\ r.to = c /\ r.code = code /\ (code = 211 => c.kind = "group")
      /\ c.arg \in STRING
  <2> HIDE DEF c
  <2>1. r.to = c /\ r.code = code BY DEF Response
  <2> QED BY <2>1, <1>3, <1>5, AnswersFacts DEF Commands
<1> HIDE DEF r, m
<1>7. v \in Seq(Responses) /\ Len(v) = Len(wire) + 1 /\ v[Len(wire) + 1] = r
      /\ \A i \in 1 .. Len(wire) : v[i] = wire[i]
  BY <1>4, <1>6
<1>8. /\ InOrder(ses.recv, v, m)
      /\ Before(ses.recv, v, m) = Before(ses.recv, wire, net)
      /\ InBuffer(ses.recv, recvbuf, wire, net) => InBuffer(ses.recv, recvbuf, v, m)
  <2>1. InOrder(ses.recv, wire, net) BY <1>1 DEF Conversation
  <2>2. r.to = Head(net) BY <1>6
  <2> HIDE DEF c
  <2> QED BY <2>1, <2>2, <1>3, <1>4, <1>6, AnswerKeepsOrder DEF m
<1> HIDE DEF v, c, h
<1>9. CancelTypes' /\ Stored'
  BY <1>1, <1>3, StoredUnchanged DEF Types, CancelTypes
<1>10. Types'
  <2>1. server' \in [authenticated : BOOLEAN, group : STRING]
    <3>1. h \in STRING BY <1>4, <1>6 DEF h
    <3>2. (server.authenticated \/ (c.kind = "authpass" /\ code = 281)) \in BOOLEAN OBVIOUS
    <3> QED BY <3>1, <3>2, <1>3
  <2> QED BY <2>1, <1>1, <1>3, <1>5, <1>7, <1>9 DEF Types
<1>11. Executes'
  BY <1>1, <1>3, ExecutesUnchanged
<1>12. pc # "closed"
  <2> SUFFICES ASSUME pc = "closed" PROVE FALSE
    OBVIOUS
  <2>1. Unanswered(ses) = <<>> BY <1>1 DEF Conversation
  <2> QED BY <2>1, <1>1, <1>3, Quiet
<1>13. Conversation'
  <2>1. OneByOne' <=> OneByOne BY <1>3, <1>8 DEF OneByOne
  <2>2. Pipelined' <=> Pipelined BY <1>3 DEF Pipelined, OneAnswer
  <2>3. (\E d \in list : ~OneAnswer(d))' <=> (\E d \in list : ~OneAnswer(d)) BY <1>3 DEF OneAnswer
  <2>4. InOrder(ses.recv, wire, net)' BY <1>3, <1>8
  <2>5. (pc \notin {"idle", "closed"} => InBuffer(ses.recv, recvbuf, wire, net))'
    BY <1>1, <1>3, <1>8 DEF Conversation
  <2> QED BY <2>1, <2>2, <2>3, <2>4, <2>5, <1>1, <1>3, <1>12 DEF Conversation
<1>14. Groups'
  <2>1. Refusals' BY <1>1, <1>3, RefusalsUnchanged DEF Groups
  <2>2. CASE Misreads
    <3>1. Refused411' <=> Refused411 BY <1>3 DEF Refused411
    <3>2. MayHaveMisread' <=> MayHaveMisread BY <1>3 DEF MayHaveMisread
    <3>3. Misreads' BY <2>2, <3>1, <3>2, <1>3 DEF Misreads
    <3> QED BY <2>1, <3>3 DEF Groups
  <2>3. CASE ~Misreads
    <3> DEFINE told == recvbuf \o wire
               told2 == recvbuf \o v
               n == Len(told)
    <3>1. SameGroup(ses.group, server.group, told) BY <2>3, <1>1 DEF Groups, Selected
    <3>2. /\ n \in Nat /\ Len(told2) = n + 1 /\ told2[n + 1] = r
          /\ \A i \in 1 .. n : told2[i] = told[i]
      <4>1. /\ told2 = Append(told, r) /\ told \in Seq(Responses)
        BY <1>4, <1>6 DEF v
      <4> HIDE DEF told, told2
      <4> QED BY <4>1, <1>6
    <3>3. CASE code = 211
      <4>1. c.kind = "group" BY <3>3, <1>6
      <4>2. wire = <<>> /\ \A i \in 1 .. Len(recvbuf) : recvbuf[i].code # 211
        BY <4>1, <2>3, <1>3, SelectsAlone DEF c
      <4>3. told = recvbuf BY <4>2, <1>4, JoinFacts
      <4>4. h = r.to.arg BY <3>3, <1>6 DEF h
      <4> HIDE DEF told2
      <4>5. \A i \in 1 .. Len(told2) : told2[i].code = 211 => h = told2[i].to.arg
        <5> TAKE i \in 1 .. Len(told2)
        <5>1. CASE i = n + 1 BY <5>1, <3>2, <4>4
        <5>2. CASE i \in 1 .. n BY <5>2, <3>2, <4>2, <4>3
        <5> QED BY <5>1, <5>2, <3>2
      <4>6. n + 1 \in 1 .. Len(told2) /\ told2[n + 1].code = 211
        BY <3>2, <3>3, <1>6
      <4>7. SameGroup(ses.group, h, told2)
        BY <4>5, <4>6 DEF SameGroup
      <4>8. Selected' BY <4>7, <1>3 DEF Selected, told2
      <4> QED BY <2>1, <4>8 DEF Groups
    <3>4. CASE code # 211
      <4>1. h = server.group BY <3>4 DEF h
      <4> HIDE DEF told, told2, n
      <4>2. SameGroup(ses.group, h, told2)
        <5>1. \A i \in 1 .. Len(told2) : told2[i].code = 211 => i \in 1 .. n /\ told2[i] = told[i]
          BY <3>2, <3>4, <1>6
        <5>2. \A i \in 1 .. n : i \in 1 .. Len(told2) /\ told2[i] = told[i] BY <3>2
        <5> QED BY <5>1, <5>2, <4>1, <3>1 DEF SameGroup, n
      <4>3. Selected' BY <4>2, <1>3 DEF Selected, told2
      <4> QED BY <2>1, <4>3 DEF Groups
    <3> QED BY <3>3, <3>4
  <2> QED BY <2>2, <2>3
<1> QED BY <1>9, <1>10, <1>11, <1>13, <1>14 DEF IInv

-----------------------------------------------------------------------------
(* A response is received. *)

\* What the loop has when it has received k responses, and what is on its way.
Taken(a, w, k) == a \o SubSeq(w, 1, k)
Kept(w, k)     == SubSeq(w, k + 1, Len(w))

\* The receive buffer keeps the responses of the outstanding commands, or one
\* that parse leaves in it.
TakenInOrder(q, a, w, n, k) ==
    LET b    == Taken(a, w, k)
        left == Kept(w, k)
    IN  /\ b \in Seq(Responses) /\ b # <<>> /\ left \in Seq(Responses)
        /\ b \o left = a \o w
        /\ a # <<>> => b[1] = a[1]
        /\ Sticks(b) => InBuffer(Tail(q), b, left, n)
        /\ Sticks(b) \/ /\ InBuffer(Tail(q), Tail(b), left, n)
                        /\ \A i \in 1 .. Len(b) : i \in 1 .. Len(q) /\ b[i].to = q[i]
        /\ a = <<>> => b[1].to = q[1]

LEMMA ReceivedInBuffer ==
    ASSUME NEW q \in Seq(Commands), q # <<>>, NEW a \in Seq(Responses), NEW w \in Seq(Responses),
           NEW n \in Seq(Commands), NEW k \in 1 .. Len(w), InOrder(q, w, n), InBuffer(q, a, w, n)
    PROVE  TakenInOrder(q, a, w, n, k)
<1> DEFINE x    == SubSeq(w, 1, k)
           b    == a \o x
           left == SubSeq(w, k + 1, Len(w))
           p    == Tail(q)
           e    == Before(q, w, n)
<1>1. /\ Len(q) \in Nat /\ Len(a) \in Nat /\ Len(w) \in Nat /\ Len(n) \in Nat
      /\ k \in 0 .. Len(w) /\ p \in Seq(Commands)
      /\ Len(p) = Len(q) - 1 /\ \A i \in 1 .. Len(q) - 1 : p[i] = q[i + 1]
  BY EmptyFacts, TailFacts
<1>2. /\ x \in Seq(Responses) /\ Len(x) = k /\ left \in Seq(Responses)
      /\ \A i \in 1 .. k : x[i] = w[i]
  BY <1>1, SplitFacts
<1>3. b \o left = a \o w
  BY <1>1, JoinOfSplit
<1>4. Before(p, left, n) = e + k - 1
  BY ReceiveKeepsOrder
<1> HIDE DEF x, left, p
<1>5. /\ b \in Seq(Responses) /\ Len(b) = Len(a) + k
      /\ \A i \in 1 .. Len(a) : b[i] = a[i]
      /\ \A i \in 1 .. k : b[Len(a) + i] = w[i]
  <2>1. /\ b \in Seq(Responses) /\ Len(b) = Len(a) + Len(x)
        /\ \A i \in 1 .. Len(a) : b[i] = a[i]
        /\ \A i \in 1 .. Len(x) : b[Len(a) + i] = x[i]
    <3>1. x \in Seq(Responses) BY <1>2
    <3> QED BY <3>1, JoinFacts
  <2> HIDE DEF b
  <2> QED BY <2>1, <1>2
<1> HIDE DEF b
<1>6. e \in Nat /\ e + Len(w) + Len(n) = Len(q) /\ \A i \in 1 .. Len(w) : w[i].to = q[e + i]
  BY <1>1 DEF Before, InOrder
<1> HIDE DEF e
<1>7. b # <<>> /\ (a # <<>> => b[1] = a[1])
  <2>1. Len(b) # 0 BY <1>1, <1>5
  <2>2. a # <<>> => 1 \in 1 .. Len(a) BY EmptyFacts
  <2> QED BY <2>1, <2>2, <1>5
<1>8. Len(b) >= e + k
  BY <1>1, <1>5, <1>6 DEF InBuffer, e
<1>9. ASSUME Sticks(b) PROVE InBuffer(p, b, left, n)
  <2>1. Len(b) > e + k - 1 BY <1>1, <1>5, <1>6, <1>8
  <2> QED BY <2>1, <1>4, <1>9 DEF InBuffer
<1>10. ASSUME Len(a) = e, \A i \in 1 .. Len(a) : a[i].to = q[i]
       PROVE  \A i \in 1 .. Len(b) : i \in 1 .. Len(q) /\ b[i].to = q[i]
  <2> TAKE i \in 1 .. Len(b)
  <2>0. i \in 1 .. Len(q) BY <1>1, <1>5, <1>6, <1>10
  <2>1. CASE i \in 1 .. Len(a) BY <2>0, <2>1, <1>5, <1>10
  <2>2. CASE i \in Len(a) + 1 .. Len(a) + k
    <3>1. i - Len(a) \in 1 .. k /\ Len(a) + (i - Len(a)) = i /\ i - Len(a) \in 1 .. Len(w) BY <2>2, <1>1
    <3>2. b[Len(a) + (i - Len(a))] = w[i - Len(a)] BY <3>1, <1>5
    <3>3. w[i - Len(a)].to = q[e + (i - Len(a))] BY <3>1, <1>6
    <3> QED BY <3>1, <3>2, <3>3, <2>0, <1>10
  <2> QED BY <2>1, <2>2, <1>1, <1>5
<1>11. ASSUME Len(a) = e, \A i \in 1 .. Len(a) : a[i].to = q[i]
       PROVE  InBuffer(p, Tail(b), left, n)
  <2> DEFINE t == Tail(b)
  <2>1. Len(t) = Len(b) - 1 /\ \A i \in 1 .. Len(b) - 1 : t[i] = b[i + 1]
    BY <1>5, <1>7, TailFacts
  <2> HIDE DEF t
  <2>2. Len(t) = e + k - 1 BY <2>1, <1>1, <1>5, <1>11
  <2>3. \A i \in 1 .. Len(t) : t[i].to = p[i]
    <3> TAKE i \in 1 .. Len(t)
    <3>1. i + 1 \in 1 .. Len(b) /\ t[i] = b[i + 1] BY <2>1, <1>1, <1>5
    <3>2. b[i + 1].to = q[i + 1] /\ i + 1 \in 1 .. Len(q) BY <3>1, <1>10, <1>11
    <3>3. p[i] = q[i + 1] BY <3>2, <1>1
    <3> QED BY <3>1, <3>2, <3>3
  <2> QED BY <2>2, <2>3, <1>4 DEF InBuffer, t
<1>12. Sticks(a) => Sticks(b)
  BY <1>7 DEF Sticks
<1>13. \/ Len(a) = e /\ \A i \in 1 .. Len(a) : a[i].to = q[i]
       \/ Len(a) > e /\ Sticks(a)
  BY DEF InBuffer, e
<1>14. a = <<>> => b[1].to = q[1]
  <2> HAVE a = <<>>
  <2>1. Len(a) = e BY <1>13 DEF Sticks
  <2>2. 1 \in 1 .. Len(b) BY <1>1, <1>5
  <2>3. \A i \in 1 .. Len(a) : a[i].to = q[i] OBVIOUS
  <2> QED BY <2>1, <2>2, <2>3, <1>10
<1>15. Sticks(b) \/ /\ InBuffer(p, Tail(b), left, n)
                    /\ \A i \in 1 .. Len(b) : i \in 1 .. Len(q) /\ b[i].to = q[i]
  BY <1>10, <1>11, <1>12, <1>13
<1> QED BY <1>2, <1>3, <1>5, <1>7, <1>9, <1>14, <1>15 DEF b, x, left, p, Taken, Kept, TakenInOrder

\* What Receive works on: the receive buffer with the k responses, the first
\* of them, the command at the head of recv_, and what recv_next makes of it.
Buff(k)  == Taken(recvbuf, wire, k)
Left(k)  == Kept(wire, k)
Resp(k)  == Buff(k)[1]
Cmd      == ses.recv[1]
After(k) == recv_next(ses, Resp(k))

Reads(k) ==
    /\ pc \in {"init", "config", "data", "ping", "quit"} /\ waiting /\ k \in 1 .. Len(wire)
    /\ ~Throws(ses, Resp(k), credentials)

LEMMA ReadFacts ==
    ASSUME IInv, NEW k, Reads(k)
    PROVE  /\ ses.recv \in Seq(Commands) /\ ses.recv # <<>> /\ Head(ses.recv) = Cmd
           /\ Cmd \in Commands /\ Cmd = Unanswered(ses)[1] /\ Unanswered(ses) # <<>>
           /\ Unanswered(ses) \in Seq(Commands)
           /\ Buff(k) \in Seq(Responses) /\ Buff(k) # <<>> /\ Head(Buff(k)) = Resp(k)
           /\ Left(k) \in Seq(Responses) /\ Buff(k) \o Left(k) = recvbuf \o wire
           /\ recvbuf # <<>> => Resp(k) = recvbuf[1]
           /\ recvbuf = <<>> => Resp(k).to = Cmd
           /\ Resp(k) \in Responses /\ Resp(k).code \in Accepts(Cmd)
           /\ Rest(Cmd, Buff(k)) \in Seq(Responses) /\ Output(Cmd, Resp(k)) \in Buffers
<1>1. Types /\ Conversation
  BY DEF IInv
<1>2. /\ ses \in Sessions /\ wire \in Seq(Responses) /\ recvbuf \in Seq(Responses)
      /\ net \in Seq(Commands) /\ ses.recv \in Seq(Commands) /\ ses.send \in Seq(Commands)
      /\ Unanswered(ses) \in Seq(Commands)
  BY <1>1, SessionFacts DEF Types
<1>3. /\ ses.recv # <<>> /\ InOrder(ses.recv, wire, net) /\ InBuffer(ses.recv, recvbuf, wire, net)
      /\ k \in 1 .. Len(wire) /\ ~Throws(ses, Resp(k), credentials)
  BY <1>1 DEF Conversation, Reads
<1>4. Head(ses.recv) = Cmd /\ Cmd \in Commands
  BY <1>2, <1>3, TailFacts DEF Cmd
<1>5. Unanswered(ses) # <<>> /\ Cmd = Unanswered(ses)[1]
  <2> DEFINE q == ses.recv
             x == ses.send
  <2>1. q \in Seq(Commands) /\ x \in Seq(Commands) /\ q # <<>> BY <1>2, <1>3
  <2>2. Unanswered(ses) = q \o x /\ Cmd = q[1] BY DEF Unanswered, Cmd
  <2> HIDE DEF q, x
  <2>3. 1 \in 1 .. Len(q) BY <2>1, EmptyFacts
  <2>4. (q \o x)[1] = q[1] /\ q \o x # <<>> BY <2>1, <2>3, JoinFacts
  <2> QED BY <2>2, <2>4
<1>6. /\ Buff(k) \in Seq(Responses) /\ Buff(k) # <<>> /\ Left(k) \in Seq(Responses)
      /\ Buff(k) \o Left(k) = recvbuf \o wire
      /\ recvbuf # <<>> => Resp(k) = recvbuf[1]
      /\ recvbuf = <<>> => Resp(k).to = Cmd
  <2> DEFINE q == ses.recv
             a == recvbuf
             w == wire
             n == net
  <2>1. /\ q \in Seq(Commands) /\ q # <<>> /\ InOrder(q, w, n) /\ InBuffer(q, a, w, n)
        /\ a \in Seq(Responses) /\ w \in Seq(Responses) /\ n \in Seq(Commands)
        /\ k \in 1 .. Len(w)
    BY <1>2, <1>3
  <2>2. Cmd = q[1]
    BY DEF Cmd
  <2> HIDE DEF q, a, w, n
  <2>3. /\ Taken(a, w, k) \in Seq(Responses) /\ Taken(a, w, k) # <<>> /\ Kept(w, k) \in Seq(Responses)
        /\ Taken(a, w, k) \o Kept(w, k) = a \o w
        /\ a # <<>> => Taken(a, w, k)[1] = a[1]
        /\ a = <<>> => Taken(a, w, k)[1].to = q[1]
    <3>1. TakenInOrder(q, a, w, n, k) BY <2>1, ReceivedInBuffer
    <3> QED BY <3>1 DEF TakenInOrder
  <2>4. /\ Buff(k) \in Seq(Responses) /\ Buff(k) # <<>> /\ Left(k) \in Seq(Responses)
        /\ Buff(k) \o Left(k) = recvbuf \o wire
        /\ recvbuf # <<>> => Buff(k)[1] = recvbuf[1]
        /\ recvbuf = <<>> => Buff(k)[1].to = q[1]
    BY <2>3 DEF Buff, Left, a, w
  <2> QED BY <2>2, <2>4 DEF Resp
<1>7. Head(Buff(k)) = Resp(k) /\ Resp(k) \in Responses
  BY <1>6, TailFacts DEF Resp
<1>8. Resp(k).code \in Accepts(Cmd)
  BY <1>3, <1>4 DEF Throws
<1>9. Rest(Cmd, Buff(k)) \in Seq(Responses)
  BY <1>4, <1>6, <1>8, RestFacts DEF Resp
<1>10. Output(Cmd, Resp(k)) \in Buffers
  BY <1>4, <1>7, <1>8, OutputFacts
<1> QED BY <1>2, <1>3, <1>4, <1>5, <1>6, <1>7, <1>8, <1>9, <1>10

LEMMA AfterFacts ==
    ASSUME IInv, NEW k, Reads(k)
    PROVE  /\ After(k) \in Sessions /\ After(k).pipelining = ses.pipelining
           /\ After(k).group = IF Cmd.kind = "group" /\ Resp(k).code # 480 THEN Cmd.arg ELSE ses.group
           /\ \/ After(k).error # "none" /\ Unanswered(After(k)) = <<>> /\ After(k).recv = <<>>
              \/ /\ ~Challenged(Cmd, Resp(k).code)
                 /\ After(k).recv = Tail(ses.recv) /\ Unanswered(After(k)) = Tail(Unanswered(ses))
              \/ /\ Challenged(Cmd, Resp(k).code) /\ Len(ses.recv) = 1 /\ After(k).recv = <<>>
                 /\ \E p \in Seq(Commands) : Authenticating(p) /\ Unanswered(After(k)) = p \o Unanswered(ses)
<1>1. /\ ses \in Sessions /\ ses.recv # <<>> /\ Resp(k) \in Responses /\ Head(ses.recv) = Cmd
      /\ ~Throws(ses, Resp(k), credentials)
  BY ReadFacts DEF IInv, Types, Reads
<1> QED BY <1>1, RecvNextFacts DEF After

\* What is read where the commands are sent one by one.
LEMMA ReadInTurn ==
    ASSUME IInv, NEW k, Reads(k), OneByOne
    PROVE  /\ Left(k) = <<>> /\ net = <<>> /\ After(k).recv = <<>>
           /\ Buff(k) = recvbuf \o wire
           /\ recvbuf = <<>> => Tail(Buff(k)) = <<>> /\ Len(Buff(k)) = 1
<1>1. Types /\ Conversation
  BY DEF IInv
<1> DEFINE q == ses.recv
<1>2. /\ wire \in Seq(Responses) /\ recvbuf \in Seq(Responses) /\ net \in Seq(Commands)
      /\ q \in Seq(Commands) /\ q # <<>> /\ k \in 1 .. Len(wire)
      /\ InOrder(q, wire, net) /\ Before(q, wire, net) = 0 /\ Len(q) <= 1
      /\ Buff(k) \in Seq(Responses) /\ Left(k) \in Seq(Responses)
      /\ Buff(k) \o Left(k) = recvbuf \o wire
  BY <1>1, ReadFacts DEF Types, Reads, Conversation, OneByOne
<1>3. After(k).recv = <<>> \/ After(k).recv = Tail(q)
  BY AfterFacts
<1> HIDE DEF q
<1>4. Len(q) = 1 /\ Len(wire) \in Nat /\ Len(net) \in Nat /\ Len(recvbuf) \in Nat
  <2>1. q \in Seq(Commands) /\ q # <<>> /\ Len(q) <= 1 BY <1>2
  <2>2. Len(q) \in Nat /\ Len(q) # 0 BY <2>1, EmptyFacts
  <2>3. Len(q) = 1 BY <2>1, <2>2
  <2>4. wire \in Seq(Responses) /\ net \in Seq(Commands) /\ recvbuf \in Seq(Responses) BY <1>2
  <2>5. Len(wire) \in Nat /\ Len(net) \in Nat /\ Len(recvbuf) \in Nat BY <2>4, EmptyFacts
  <2> QED BY <2>3, <2>5
<1>5. Left(k) = <<>> /\ net = <<>>
  <2>1. SubSeq(wire, k + 1, Len(wire)) = <<>> /\ net = <<>>
    <3>1. q \in Seq(Commands) /\ q # <<>> /\ wire \in Seq(Responses) /\ net \in Seq(Commands)
          /\ k \in 1 .. Len(wire) /\ InOrder(q, wire, net) /\ Len(q) = 1
      BY <1>2, <1>4
    <3> QED BY <3>1, ReceiveKeepsOrder
  <2> QED BY <2>1 DEF Left, Kept
<1>6. Tail(q) = <<>>
  <2>1. Tail(q) \in Seq(Commands) /\ Len(Tail(q)) = Len(q) - 1 BY <1>2, TailFacts
  <2>2. Len(Tail(q)) = 0 BY <2>1, <1>4
  <2> QED BY <2>1, <2>2, EmptyFacts
<1>7. Buff(k) = recvbuf \o wire
  <2>1. Buff(k) \o <<>> = Buff(k) BY <1>2
  <2> QED BY <2>1, <1>2, <1>5
<1>8. ASSUME recvbuf = <<>> PROVE Tail(Buff(k)) = <<>> /\ Len(Buff(k)) = 1
  <2>1. Buff(k) = wire BY <1>2, <1>7, <1>8, JoinFacts
  <2>2. Len(wire) = 1
    <3>1. Len(net) = 0 BY <1>5
    <3>2. Len(q) - (Len(wire) + Len(net)) = 0 BY <1>2 DEF Before
    <3> QED BY <3>1, <3>2, <1>4
  <2>3. wire # <<>> BY <2>2
  <2>4. Tail(wire) \in Seq(Responses) /\ Len(Tail(wire)) = 0 BY <2>2, <2>3, <1>2, TailFacts
  <2> QED BY <2>1, <2>2, <2>4, EmptyFacts
<1> QED BY <1>3, <1>5, <1>6, <1>7, <1>8

\* The session learns of a group that the server has selected.
LEMMA GroupInTurn ==
    ASSUME IInv, NEW k, Reads(k), OneByOne, recvbuf = <<>>
    PROVE  /\ Selected => SameGroup(After(k).group, server.group, <<>>)
           /\ Resp(k).code = 411 =>
                 /\ Cmd.kind = "group" /\ After(k).group = Cmd.arg /\ Cmd.arg \notin Carried
                 /\ Selected => SameGroup(After(k).group, server.group, Buff(k))
<1> DEFINE r == Resp(k)
           s == After(k)
           c == Cmd
<1>1. /\ r.to = c /\ r \in Responses /\ r.code \in Accepts(c) /\ Buff(k)[1] = r
      /\ Len(Buff(k)) = 1 /\ Buff(k) = recvbuf \o wire
      /\ s.group = IF c.kind = "group" /\ r.code # 480 THEN c.arg ELSE ses.group
  BY ReadFacts, ReadInTurn, AfterFacts DEF Resp
<1> HIDE DEF r, s, c
<1>2. /\ r.code = 411 => c.kind = "group" /\ c.arg \notin Carried
      /\ r.code = 211 => c.kind = "group"
  BY <1>1 DEF Responses
<1>3. c.kind = "group" => r.code \in {211, 411, 480}
  BY <1>1 DEF Accepts
<1>4. \A i \in 1 .. Len(Buff(k)) : Buff(k)[i] = r
  BY <1>1
<1>a. Selected => SameGroup(ses.group, server.group, Buff(k))
  BY <1>1 DEF Selected
<1>5. 1 \in 1 .. Len(Buff(k))
  BY <1>1
<1>6. CASE r.code = 211
  <2>1. s.group = c.arg BY <1>1, <1>2, <1>6
  <2>2. Selected => server.group = c.arg
    BY <1>1, <1>a, <1>4, <1>5, <1>6 DEF SameGroup
  <2> QED BY <2>1, <2>2, <1>6 DEF SameGroup, r, s, c
<1>7. CASE r.code = 411
  <2>1. s.group = c.arg /\ c.kind = "group" /\ c.arg \notin Carried BY <1>1, <1>2, <1>7
  <2>2. \A i \in 1 .. Len(Buff(k)) : Buff(k)[i].code # 211 BY <1>4, <1>7
  <2>3. SameGroup(s.group, server.group, Buff(k)) BY <2>1, <2>2 DEF SameGroup
  <2>4. SameGroup(s.group, server.group, <<>>) BY <2>1 DEF SameGroup
  <2> QED BY <2>1, <2>3, <2>4 DEF r, s, c
<1>8. CASE r.code \notin {211, 411}
  <2>1. s.group = ses.group BY <1>1, <1>3, <1>8
  <2>2. \A i \in 1 .. Len(Buff(k)) : Buff(k)[i].code # 211 BY <1>4, <1>8
  <2>3. Selected => (s.group \in Carried => s.group = server.group)
    BY <2>1, <2>2, <1>a DEF SameGroup
  <2> QED BY <2>3, <1>8 DEF SameGroup, r, s, c
<1> QED BY <1>6, <1>7, <1>8

LEMMA GoesInTurn ==
    ASSUME IInv, NEW k, Reads(k), OneByOne, NEW b \in Seq(Responses), b = <<>> \/ Sticks(b),
           ses' = After(k), waiting' = FALSE, recvbuf' = b, wire' = Left(k), net' = net
    PROVE  InOrder(ses.recv, wire, net)' /\ OneByOne' /\ InBuffer(ses.recv, recvbuf, wire, net)'
<1>1. ses'.recv = <<>> /\ wire' = <<>> /\ net' = <<>>
  BY ReadInTurn
<1>2. InOrder(<<>>, <<>>, <<>>) /\ InBuffer(<<>>, <<>>, <<>>, <<>>) /\ Before(<<>>, <<>>, <<>>) = 0
  BY NothingOutstanding
<1>3. OneByOne'
  BY <1>1, <1>2 DEF OneByOne
<1>4. InBuffer(<<>>, b, <<>>, <<>>)
  <2>1. CASE b = <<>>
    BY <2>1, <1>2
  <2>2. CASE b # <<>> /\ Sticks(b)
    <3>1. Len(b) > 0 BY <2>2, EmptyFacts
    <3> QED BY <2>2, <3>1, <1>2 DEF InBuffer
  <2> QED BY <2>1, <2>2
<1> QED BY <1>1, <1>2, <1>3, <1>4

\* The command that comes last is answered last.
LEMMA FinallyAfter ==
    ASSUME IInv, NEW k, Reads(k), NEW c, Finally(Unanswered(ses), c)
    PROVE  /\ Finally(Unanswered(After(k)), c)
           /\ Cmd = c \/ Cmd.kind \in {"authuser", "authpass", "getcaps"}
           /\ Cmd.kind \notin {"authuser", "authpass", "getcaps"} /\ ~Challenged(Cmd, Resp(k).code) =>
                 Cmd = c /\ Unanswered(After(k)) = <<>>
           /\ Unanswered(After(k)) = <<>> =>
                 After(k).error # "none" \/ (Cmd = c /\ ~Challenged(Cmd, Resp(k).code))
           /\ c.kind \notin {"authuser", "authpass", "getcaps"} /\ Cmd.kind \in {"authuser", "authpass", "getcaps"}
                 /\ After(k).error = "none" => Unanswered(After(k)) # <<>>
<1> DEFINE u == Unanswered(ses)
           v == Unanswered(After(k))
           A == {"authuser", "authpass", "getcaps"}
<1>1. u \in Seq(Commands) /\ u # <<>> /\ Cmd = u[1] /\ Finally(u, c)
  BY ReadFacts
<1>2. \/ After(k).error # "none" /\ v = <<>>
      \/ ~Challenged(Cmd, Resp(k).code) /\ v = Tail(u)
      \/ Challenged(Cmd, Resp(k).code) /\ \E p \in Seq(Commands) : Authenticating(p) /\ v = p \o u
  BY AfterFacts
<1> HIDE DEF u, v
<1>3. /\ Finally(Tail(u), c)
      /\ (Cmd = c /\ Tail(u) = <<>>) \/ Cmd.kind \in A
  BY <1>1, FinallyTail
<1>4. \A p \in Seq(Commands) : Authenticating(p) => Finally(p \o u, c) /\ p \o u # <<>>
  <2> TAKE p \in Seq(Commands)
  <2> HAVE Authenticating(p)
  <2>1. Finally(p \o u, c) BY <1>1, FinallyPrefix
  <2>2. p \o u # <<>> BY <1>1, JoinFacts
  <2> QED BY <2>1, <2>2
<1>5. Finally(<<>>, c)
  BY DEF Finally
<1>6. Tail(u) = <<>> => Cmd = c
  <2> HAVE Tail(u) = <<>>
  <2>1. /\ Len(u) \in Nat \ {0} /\ Len(Tail(u)) = Len(u) - 1
        /\ Tail(u) \in Seq(Commands)
    BY <1>1, TailFacts
  <2>2. Len(Tail(u)) = 0 BY <2>1, EmptyFacts
  <2>3. Len(u) = 1 BY <2>1, <2>2
  <2> QED BY <2>3, <1>1 DEF Finally
<1> QED BY <1>2, <1>3, <1>4, <1>5, <1>6 DEF v

LEMMA ReceiveIs ==
    ASSUME IInv, NEW k, Receive(k), k \in 1 .. Len(wire)
    PROVE  /\ canceled' = canceled /\ cancel' = cancel
           /\ pc \in {"init", "config", "data", "ping", "quit"}
           /\ \/ Closes("error") /\ buffers' = buffers /\ outcome' = outcome
              \/ /\ Reads(k)
                 /\ Received(After(k), Rest(Cmd, Buff(k)), Output(Cmd, Resp(k)), Left(k))
<1>1. /\ canceled' = canceled /\ cancel' = cancel /\ waiting
      /\ pc \in {"init", "config", "data", "ping", "quit"}
  BY DEF Receive, Exchanging
<1>2. /\ ses.recv # <<>> /\ ses.recv \in Seq(Commands) /\ recvbuf \in Seq(Responses)
      /\ wire \in Seq(Responses)
  <2>1. Types /\ Conversation BY DEF IInv
  <2> QED BY <2>1, <1>1, SessionFacts DEF Types, Conversation
<1>3. Head(ses.recv) = Cmd
  BY <1>2, TailFacts DEF Cmd
<1>4. Head(Buff(k)) = Resp(k)
  <2> DEFINE x == SubSeq(wire, 1, k)
  <2>1. k \in 0 .. Len(wire) /\ k # 0 BY <1>2, EmptyFacts
  <2>2. x \in Seq(Responses) /\ Len(x) = k BY <2>1, <1>2, SplitFacts
  <2>3. x # <<>> BY <2>1, <2>2
  <2>4. Buff(k) = recvbuf \o x BY DEF Buff, Taken
  <2> HIDE DEF x
  <2>5. Buff(k) \in Seq(Responses) /\ Buff(k) # <<>> BY <2>2, <2>3, <2>4, <1>2, JoinFacts
  <2> QED BY <2>5, TailFacts DEF Resp
<1>5. IF Throws(ses, Resp(k), credentials)
      THEN Closes("error") /\ buffers' = buffers /\ outcome' = outcome
      ELSE Received(After(k), Rest(Cmd, Buff(k)), Output(Cmd, Resp(k)), Left(k))
  <2> DEFINE R(b, r, c, left) ==
                 IF Throws(ses, r, credentials)
                 THEN Closes("error") /\ UNCHANGED <<buffers, outcome>>
                 ELSE Received(recv_next(ses, r), Rest(c, b), Output(c, r), left)
  <2>1. R(recvbuf \o SubSeq(wire, 1, k), Head(recvbuf \o SubSeq(wire, 1, k)), Head(ses.recv),
          SubSeq(wire, k + 1, Len(wire)))
    BY DEF Receive
  <2>2. R(Buff(k), Head(Buff(k)), Head(ses.recv), Left(k))
    BY <2>1 DEF Buff, Taken, Left, Kept
  <2>3. R(Buff(k), Resp(k), Cmd, Left(k))
    <3> HIDE DEF R
    <3> QED BY <2>2, <1>3, <1>4
  <2> QED BY <2>3, Zenon DEF After
<1> QED BY <1>1, <1>5 DEF Reads

\* What goes on in the same loop.
LEMMA GoesTypes ==
    ASSUME Types, NEW k, NEW b \in Seq(Responses), NEW st \in Statuses,
           After(k) \in Sessions, Left(k) \in Seq(Responses),
           ses' = After(k), pc' = pc, waiting' = FALSE, recvbuf' = b, wire' = Left(k), net' = net,
           config' = st, try' = try, list' = list, server' = server, CancelTypes'
    PROVE  Types'
  BY DEF Types

LEMMA InitReceives ==
    ASSUME IInv, pc = "init", NEW k, Reads(k), canceled' = canceled, cancel' = cancel,
           Received(After(k), Rest(Cmd, Buff(k)), Output(Cmd, Resp(k)), Left(k))
    PROVE  IInv'
<1> DEFINE u == Unanswered(ses)
           s == After(k)
<1>1. Types /\ Conversation /\ Executes /\ Stored /\ Groups
  BY DEF IInv
<1>2. /\ list = {} /\ try = 0 /\ recvbuf = <<>> /\ OneByOne
      /\ \A i \in 1 .. Len(u) : u[i].kind \in InitKinds
  BY <1>1 DEF Conversation, Executes, Executing, Pipelined
<1>3. /\ u \in Seq(Commands) /\ u # <<>> /\ Cmd = u[1] /\ Cmd \in Commands
      /\ Buff(k) \in Seq(Responses) /\ Buff(k) # <<>> /\ Left(k) \in Seq(Responses)
      /\ Resp(k) \in Responses /\ Resp(k).code \in Accepts(Cmd)
  BY ReadFacts
<1>4. /\ s \in Sessions
      /\ \/ Unanswered(s) = <<>>
         \/ Unanswered(s) = Tail(u)
         \/ \E p \in Seq(Commands) : Authenticating(p) /\ Unanswered(s) = p \o u
  BY AfterFacts
<1> HIDE DEF u, s
<1>5. Cmd.kind \in InitKinds
  <2>1. 1 \in 1 .. Len(u) BY <1>3, EmptyFacts
  <2> QED BY <2>1, <1>2, <1>3
<1>6. Rest(Cmd, Buff(k)) = <<>>
  BY <1>3, <1>5, RestFacts DEF Resp
<1>7. Output(Cmd, Resp(k)).status = "none"
  <2>1. Output(Cmd, Resp(k)) = EmptyBuffer BY <1>3, <1>5, OutputFacts
  <2> QED BY <2>1 DEF EmptyBuffer, Buffer
<1>8. /\ ses' = s /\ pc' = pc /\ waiting' = FALSE /\ recvbuf' = <<>> /\ wire' = Left(k) /\ net' = net
      /\ config' = config /\ try' = try /\ list' = list /\ server' = server
      /\ buffers' = buffers /\ outcome' = outcome
  BY <1>6, <1>7 DEF Received, Goes, s
<1>9. CancelTypes' /\ Stored'
  BY <1>1, <1>8, StoredUnchanged DEF Types, CancelTypes
<1>10. Types'
  <2>1. <<>> \in Seq(Responses) OBVIOUS
  <2>2. config \in Statuses BY <1>1 DEF Types
  <2> QED BY <2>1, <2>2, <1>1, <1>3, <1>4, <1>8, <1>9, GoesTypes DEF s
<1>11. \A i \in 1 .. Len(Unanswered(s)) : Unanswered(s)[i].kind \in InitKinds
  <2>1. CASE Unanswered(s) = <<>>
    BY <2>1
  <2>2. CASE Unanswered(s) = Tail(u)
    <3>1. /\ Len(u) \in Nat \ {0} /\ Len(Tail(u)) = Len(u) - 1
          /\ \A i \in 1 .. Len(u) - 1 : Tail(u)[i] = u[i + 1]
      BY <1>3, TailFacts
    <3>2. ASSUME NEW i \in 1 .. Len(Tail(u)) PROVE Tail(u)[i].kind \in InitKinds
      <4>1. i + 1 \in 1 .. Len(u) /\ Tail(u)[i] = u[i + 1] BY <3>1
      <4> QED BY <4>1, <1>2
    <3> QED BY <3>2, <2>2
  <2>3. CASE \E p \in Seq(Commands) : Authenticating(p) /\ Unanswered(s) = p \o u
    <3>1. PICK p \in Seq(Commands) : Authenticating(p) /\ Unanswered(s) = p \o u BY <2>3
    <3>2. \A i \in 1 .. Len(p) + Len(u) : \/ i \in 1 .. Len(p) /\ (p \o u)[i] = p[i]
                                          \/ i - Len(p) \in 1 .. Len(u) /\ (p \o u)[i] = u[i - Len(p)]
      BY <1>3, JoinFacts
    <3>3. Len(p \o u) = Len(p) + Len(u) BY <1>3, JoinFacts
    <3>4. \A i \in 1 .. Len(p) : p[i].kind \in InitKinds BY <3>1 DEF Authenticating, InitKinds
    <3>5. ASSUME NEW i \in 1 .. Len(p \o u) PROVE (p \o u)[i].kind \in InitKinds
      BY <3>2, <3>3, <3>4, <1>2
    <3> QED BY <3>1, <3>5
  <2> QED BY <2>1, <2>2, <2>3, <1>4
<1>12. Conversation'
  <2>1. InOrder(ses.recv, wire, net)' /\ OneByOne' /\ InBuffer(ses.recv, recvbuf, wire, net)'
    <3>1. <<>> \in Seq(Responses) OBVIOUS
    <3> QED BY <3>1, <1>2, <1>8, GoesInTurn DEF s
  <2> QED BY <2>1, <1>1, <1>8, <1>11 DEF Conversation
<1>13. Executes'
  <2>1. pc' \notin Executing BY <1>8 DEF Executing
  <2> QED BY <2>1, <1>2, <1>8 DEF Executes
<1>14. Groups'
  <2>1. Refusals' BY <1>8 DEF Refusals, Refused411
  <2>2. Selected \/ MayHaveMisread BY <1>1, <1>2 DEF Groups, Misreads, Refused411
  <2>3. MayHaveMisread => MayHaveMisread' BY <1>8 DEF MayHaveMisread
  <2>4. Selected => Selected'
    <3>1. Selected => SameGroup(s.group, server.group, <<>>) BY <1>2, GroupInTurn DEF s
    <3>2. Left(k) = <<>> BY <1>2, ReadInTurn
    <3>3. <<>> \o <<>> = <<>> OBVIOUS
    <3>4. recvbuf' \o wire' = <<>> BY <3>2, <3>3, <1>8
    <3> QED BY <3>1, <3>4, <1>8 DEF Selected
  <2> QED BY <2>1, <2>2, <2>3, <2>4 DEF Groups, Misreads
<1> QED BY <1>9, <1>10, <1>12, <1>13, <1>14 DEF IInv

\* A response before the last one leaves nothing behind.
LEMMA RestInTurn ==
    ASSUME IInv, NEW k, Reads(k), NEW c, c.kind \in {"group", "list"}, Finally(Unanswered(ses), c)
    PROVE  /\ Unanswered(After(k)) # <<>> =>
                 Rest(Cmd, Buff(k)) = <<>> /\ Output(Cmd, Resp(k)) = EmptyBuffer
           /\ Unanswered(After(k)) = <<>> /\ After(k).error = "none" =>
                 Cmd = c /\ Output(Cmd, Resp(k)).status # "none"
           /\ Cmd.kind \in InitKinds \/ Cmd = c
           /\ Cmd.kind \in InitKinds \/ Challenged(Cmd, Resp(k).code) =>
                 Rest(Cmd, Buff(k)) = <<>> /\ Output(Cmd, Resp(k)) = EmptyBuffer
           /\ Cmd.kind \notin InitKinds /\ ~Challenged(Cmd, Resp(k).code) =>
                 Unanswered(After(k)) = <<>> /\ Output(Cmd, Resp(k)).status # "none"
<1> DEFINE A == {"authuser", "authpass", "getcaps"}
           v == Unanswered(After(k))
           b == Buff(k)
           r == Resp(k)
<1>1. /\ Cmd \in Commands /\ b \in Seq(Responses) /\ b # <<>> /\ b[1] = r
      /\ r \in Responses /\ r.code \in Accepts(Cmd)
  BY ReadFacts DEF Resp
<1>2. /\ Cmd = c \/ Cmd.kind \in A
      /\ Cmd.kind \notin A /\ ~Challenged(Cmd, r.code) => Cmd = c /\ v = <<>>
      /\ v = <<>> => After(k).error # "none" \/ (Cmd = c /\ ~Challenged(Cmd, r.code))
  BY FinallyAfter
<1> HIDE DEF b, r, v
<1>3. /\ Cmd.kind \in InitKinds => Rest(Cmd, b) = <<>>
      /\ Cmd.kind \in {"group", "list"} /\ Challenged(Cmd, r.code) => Rest(Cmd, b) = <<>>
  BY <1>1, RestFacts
<1>4. /\ Cmd.kind \in InitKinds => Output(Cmd, r) = EmptyBuffer
      /\ Cmd.kind \in {"group", "list"} /\ Challenged(Cmd, r.code) => Output(Cmd, r) = EmptyBuffer
      /\ Cmd.kind \in {"group", "list"} /\ ~Challenged(Cmd, r.code) => Output(Cmd, r).status # "none"
  BY <1>1, OutputFacts
<1>5. Cmd.kind \in A => Cmd.kind \in InitKinds
  BY DEF InitKinds
<1>6. c.kind \notin InitKinds
  BY DEF InitKinds
<1>7. CASE Cmd.kind \in InitKinds
  BY <1>2, <1>3, <1>4, <1>6, <1>7 DEF b, r, v
<1>8. CASE Cmd.kind \notin InitKinds
  <2>1. Cmd = c /\ Cmd.kind \in {"group", "list"} /\ Cmd.kind \notin A BY <1>2, <1>5, <1>8
  <2>2. CASE Challenged(Cmd, r.code)
    BY <2>1, <2>2, <1>2, <1>3, <1>4, <1>8 DEF b, r, v
  <2>3. CASE ~Challenged(Cmd, r.code)
    BY <2>1, <2>3, <1>2, <1>4, <1>8 DEF b, r, v
  <2> QED BY <2>2, <2>3
<1> QED BY <1>7, <1>8

LEMMA PingReceives ==
    ASSUME IInv, pc = "ping", NEW k, Reads(k), canceled' = canceled, cancel' = cancel,
           Received(After(k), Rest(Cmd, Buff(k)), Output(Cmd, Resp(k)), Left(k))
    PROVE  IInv'
<1> DEFINE c == Command("group", PingGroup)
           s == After(k)
<1>1. Types /\ Conversation /\ Executes /\ Stored /\ Groups
  BY DEF IInv
<1>2. /\ list = {} /\ try = 0 /\ recvbuf = <<>> /\ OneByOne
      /\ Finally(Unanswered(ses), c) /\ c.kind = "group"
  BY <1>1 DEF Conversation, Executes, Executing, Pipelined, Command
<1>3. /\ s \in Sessions /\ Left(k) \in Seq(Responses) /\ Left(k) = <<>> /\ net = <<>> /\ s.recv = <<>>
  BY <1>2, ReadFacts, AfterFacts, ReadInTurn
<1>4. pending(s) <=> Unanswered(s) # <<>>
  BY <1>3, SessionFacts
<1>5. Selected => SameGroup(s.group, server.group, <<>>)
  BY <1>2, GroupInTurn
<1>6. /\ buffers' = buffers /\ outcome' = outcome
      /\ IF pending(s) THEN /\ ses' = s /\ pc' = pc /\ waiting' = FALSE /\ recvbuf' = Rest(Cmd, Buff(k))
                            /\ wire' = Left(k) /\ net' = net /\ config' = config /\ try' = try
                            /\ list' = list /\ server' = server
         ELSE Returns(s, Left(k))
  BY DEF Received, Goes
<1>7. CancelTypes' /\ Stored'
  BY <1>1, <1>6, StoredUnchanged DEF Types, CancelTypes
<1>8. Selected \/ MayHaveMisread
  BY <1>1, <1>2 DEF Groups, Misreads, Refused411
<1>9. MayHaveMisread => MayHaveMisread'
  BY <1>6 DEF MayHaveMisread
<1> HIDE DEF s, c
<1>10. CASE pending(s)
  <2>1. Unanswered(s) # <<>> BY <1>4, <1>10
  <2>2. Rest(Cmd, Buff(k)) = <<>> BY <2>1, <1>2, RestInTurn DEF s
  <2>3. /\ ses' = s /\ pc' = pc /\ waiting' = FALSE /\ recvbuf' = <<>>
        /\ wire' = Left(k) /\ net' = net /\ config' = config /\ try' = try
        /\ list' = list /\ server' = server
    BY <2>2, <1>6, <1>10
  <2>4. <<>> \in Seq(Responses) OBVIOUS
  <2>5. config \in Statuses BY <1>1 DEF Types
  <2>6. Types'
    BY <2>3, <2>4, <2>5, <1>1, <1>3, <1>7, GoesTypes DEF s
  <2>7. InOrder(ses.recv, wire, net)' /\ OneByOne' /\ InBuffer(ses.recv, recvbuf, wire, net)'
    BY <2>3, <2>4, <1>2, GoesInTurn DEF s
  <2>8. Finally(Unanswered(s), c)
    BY <1>2, FinallyAfter DEF s
  <2>9. Conversation'
    BY <2>1, <2>3, <2>7, <2>8 DEF Conversation, c
  <2>10. Executes'
    <3>1. pc' \notin Executing BY <2>3 DEF Executing
    <3> QED BY <3>1, <2>3, <1>2 DEF Executes
  <2>11. Groups'
    <3>1. Refusals' BY <2>3 DEF Refusals, Refused411
    <3>2. Selected => Selected'
      <4>1. <<>> \o <<>> = <<>> OBVIOUS
      <4>2. recvbuf' \o wire' = <<>> BY <4>1, <2>3, <1>3
      <4> QED BY <4>2, <2>3, <1>5 DEF Selected
    <3> QED BY <3>1, <3>2, <1>8, <1>9 DEF Groups, Misreads
  <2> QED BY <2>6, <2>9, <2>10, <2>11, <1>7 DEF IInv
<1>11. CASE ~pending(s)
  <2>1. Returns(s, Left(k)) BY <1>6, <1>11
  <2>2. InOrder(s.recv, Left(k), net) BY <1>3, NothingOutstanding
  <2>3. Unanswered(s) = <<>> BY <1>4, <1>11
  <2>4. MayHaveMisread' \/ SameGroup(s.group, server.group, Left(k)) BY <1>3, <1>5, <1>8, <1>9
  <2> QED BY <2>1, <2>2, <2>3, <2>4, <1>1, <1>3, <1>7, ReturnsKeeps
<1> QED BY <1>10, <1>11

\* A single command comes last.
LEMMA FinallyAlone ==
    ASSUME NEW u \in Seq(Commands), u # <<>>, Len(u) <= 1, NEW c, Finally(u, c)
    PROVE  u[1] = c
<1>1. Len(u) = 1
  BY EmptyFacts
<1> QED BY <1>1 DEF Finally

LEMMA ConfigReceives ==
    ASSUME IInv, pc = "config", NEW k, Reads(k), canceled' = canceled, cancel' = cancel,
           Received(After(k), Rest(Cmd, Buff(k)), Output(Cmd, Resp(k)), Left(k))
    PROVE  IInv'
<1>1. Types /\ Conversation /\ Executes /\ Stored /\ Groups
  BY DEF IInv
<1>2. PICK d \in Cmdlists : list = {d}
  BY <1>1 DEF Executes, Executing
<1> DEFINE g == groups[d][try + 1]
           c == Command("group", g)
           s == After(k)
           b == Buff(k)
           r == Resp(k)
           rest == Rest(Cmd, b)
           o == Output(Cmd, r)
<1>3. /\ outcome[d] = "new" /\ ~OneAnswer(d) /\ try < Len(groups[d]) /\ Finally(Unanswered(ses), c)
      /\ OneByOne /\ c.kind = "group" /\ c.arg = g /\ try \in Nat
  <2>1. /\ outcome[d] = "new" /\ ~OneAnswer(d) /\ try < Len(groups[d]) /\ Finally(Unanswered(ses), c)
        /\ ~Pipelined
    BY <1>2, TheCmdlist
  <2>2. OneByOne BY <2>1, <1>1 DEF Conversation
  <2>3. c.kind = "group" /\ c.arg = g BY DEF Command
  <2> QED BY <2>1, <2>2, <2>3, <1>1 DEF Types
<1>4. /\ s \in Sessions /\ Left(k) \in Seq(Responses) /\ Left(k) = <<>> /\ net = <<>> /\ s.recv = <<>>
      /\ b \in Seq(Responses) /\ b # <<>> /\ b[1] = r /\ rest \in Seq(Responses) /\ o \in Buffers
      /\ Cmd \in Commands /\ r \in Responses /\ r.code \in Accepts(Cmd)
      /\ (recvbuf # <<>> => r = recvbuf[1])
      /\ (recvbuf = <<>> => Tail(b) = <<>>)
      /\ s.group = IF Cmd.kind = "group" /\ r.code # 480 THEN Cmd.arg ELSE ses.group
  BY <1>3, ReadFacts, AfterFacts, ReadInTurn DEF Resp
<1>5. /\ ses' = s /\ pc' = pc /\ waiting' = FALSE /\ recvbuf' = rest /\ wire' = Left(k)
      /\ net' = net /\ config' = (IF o.status = "none" THEN config ELSE o.status) /\ try' = try
      /\ list' = list /\ server' = server /\ buffers' = buffers /\ outcome' = outcome
  BY DEF Received, Goes
<1>6. /\ Cmd.kind \in InitKinds \/ Cmd = c
      /\ Cmd.kind \in InitKinds \/ Challenged(Cmd, r.code) => rest = <<>>
      /\ Cmd.kind \notin InitKinds /\ ~Challenged(Cmd, r.code) =>
            Unanswered(s) = <<>> /\ o.status # "none"
  BY <1>3, RestInTurn
<1>7. /\ recvbuf = <<>> /\ Selected => SameGroup(s.group, server.group, <<>>)
      /\ recvbuf = <<>> /\ r.code = 411 =>
            /\ Cmd.kind = "group" /\ s.group = Cmd.arg /\ Cmd.arg \notin Carried
            /\ Selected => SameGroup(s.group, server.group, b)
  BY <1>3, GroupInTurn
<1>8. r.code = 411 /\ Cmd.kind = "group" => o.status # "success"
  <2>1. Cmd \in Commands /\ r \in Responses /\ r.code \in Accepts(Cmd) BY <1>4
  <2> HIDE DEF r
  <2> QED BY <2>1, OutputFacts
<1>9. Finally(Unanswered(s), c)
  BY <1>3, FinallyAfter
<1>10. Cmd.kind = "group" /\ ~Challenged(Cmd, r.code) =>
         rest = IF r.code = 411 THEN b ELSE Tail(b)
  <2>1. Cmd \in Commands /\ b \in Seq(Responses) /\ b # <<>> /\ b[1].code \in Accepts(Cmd) /\ b[1] = r
    BY <1>4
  <2> HIDE DEF b, r
  <2>2. Cmd.kind = "group" /\ ~Challenged(Cmd, b[1].code) =>
           Rest(Cmd, b) = IF Cmd.kind = "group" /\ b[1].code = 411 THEN b ELSE Tail(b)
    BY <2>1, RestFacts
  <2> QED BY <2>1, <2>2
<1>11. CancelTypes' /\ Stored'
  BY <1>1, <1>5, StoredUnchanged DEF Types, CancelTypes
<1>12. Types'
  <2>1. o.status \in Statuses BY <1>4 DEF Buffers
  <2>2. config' \in Statuses BY <2>1, <1>1, <1>5 DEF Types
  <2> HIDE DEF s, rest, o
  <2> QED BY <2>2, <1>1, <1>4, <1>5, <1>11, GoesTypes DEF s
<1>13. "group" \notin InitKinds
  BY DEF InitKinds
\* Either nothing is left behind, or a 411 is.
<1>14. \/ rest = <<>> /\ recvbuf = <<>>
       \/ /\ rest = b /\ r.code = 411 /\ Cmd = c /\ Unanswered(s) = <<>> /\ o.status \notin {"none", "success"}
          /\ s.group = g
          /\ try = 0 => s.group \notin Carried
          /\ try >= 1 \/ (recvbuf = <<>> /\ (Selected => SameGroup(s.group, server.group, b)))
  <2>1. CASE recvbuf = <<>>
    <3>1. CASE Cmd.kind \in InitKinds \/ Challenged(Cmd, r.code)
      BY <3>1, <2>1, <1>6
    <3>2. CASE Cmd.kind \notin InitKinds /\ ~Challenged(Cmd, r.code)
      <4>1. Cmd = c /\ Cmd.kind = "group" BY <3>2, <1>3, <1>6
      <4>2. CASE r.code # 411
        BY <4>1, <4>2, <3>2, <2>1, <1>4, <1>10
      <4>3. CASE r.code = 411
        <5>1. rest = b BY <4>1, <4>3, <3>2, <1>10
        <5>2. o.status \notin {"none", "success"} /\ Unanswered(s) = <<>> BY <4>1, <4>3, <3>2, <1>6, <1>8
        <5>3. s.group = g /\ s.group \notin Carried /\ (Selected => SameGroup(s.group, server.group, b))
          BY <4>1, <4>3, <2>1, <1>3, <1>7
        <5> QED BY <5>1, <5>2, <5>3, <4>1, <4>3, <2>1
      <4> QED BY <4>2, <4>3
    <3> QED BY <3>1, <3>2
  <2>2. CASE recvbuf # <<>>
    <3>1. Refused411 BY <2>2, <1>1 DEF Groups, Refusals
    <3>2. r.code = 411 BY <3>1, <2>2, <1>4 DEF Refused411
    <3>3. Unanswered(ses) \in Seq(Commands) /\ Unanswered(ses) # <<>> /\ Cmd = Unanswered(ses)[1]
      BY ReadFacts
    <3>4. try # 0 /\ Len(Unanswered(ses)) <= 1
      BY <3>1, <3>3, <1>1 DEF Groups, Refusals
    <3>5. Cmd = c
      BY <3>3, <3>4, <1>3, FinallyAlone
    <3>6. Cmd.kind = "group" /\ Cmd.kind \notin InitKinds /\ ~Challenged(Cmd, r.code)
      BY <3>2, <3>5, <1>3, <1>13 DEF Challenged
    <3>7. rest = b /\ o.status \notin {"none", "success"} /\ Unanswered(s) = <<>>
      BY <3>2, <3>6, <1>6, <1>8, <1>10
    <3>8. s.group = g BY <3>2, <3>5, <3>6, <1>3, <1>4
    <3>9. try >= 1 BY <3>4, <1>3
    <3> QED BY <3>2, <3>4, <3>5, <3>7, <3>8, <3>9
  <2> QED BY <2>1, <2>2
<1> HIDE DEF s, b, r, rest, o, c, g
<1>15. rest = <<>> \/ Sticks(rest)
  BY <1>4, <1>14 DEF Sticks
<1>16. Conversation'
  <2>1. InOrder(ses.recv, wire, net)' /\ OneByOne' /\ InBuffer(ses.recv, recvbuf, wire, net)'
    BY <1>3, <1>4, <1>5, <1>15, GoesInTurn DEF s
  <2>2. (recvbuf # <<>> => \E e \in list : ~OneAnswer(e))'
    BY <1>2, <1>3, <1>5 DEF OneAnswer
  <2> QED BY <2>1, <2>2, <1>5 DEF Conversation
<1>17. Executes'
  <2>1. /\ pc' = "config" /\ list' = {d} /\ outcome'[d] = "new" /\ ~OneAnswer(d) /\ try' = try
        /\ try < Len(groups[d]) /\ ses' = s
    BY <1>2, <1>3, <1>5
  <2>2. pc' \in Executing BY <2>1 DEF Executing
  <2> QED BY <2>1, <2>2, <1>9 DEF Executes, OneAnswer, c, g
<1>18. Groups'
  <2>1. Selected \/ MayHaveMisread \/ (Refused411 /\ try >= 1) BY <1>1 DEF Groups, Misreads
  <2>2. MayHaveMisread => MayHaveMisread' BY <1>5 DEF MayHaveMisread
  <2>3. CASE rest = <<>> /\ recvbuf = <<>>
    <3>1. Refusals' BY <2>3, <1>5 DEF Refusals, Refused411
    <3>2. Selected \/ MayHaveMisread BY <2>1, <2>3 DEF Refused411
    <3>3. Selected => Selected'
      <4>1. <<>> \o <<>> = <<>> OBVIOUS
      <4>2. recvbuf' \o wire' = <<>> BY <4>1, <2>3, <1>4, <1>5
      <4>3. Selected => SameGroup(s.group, server.group, <<>>) BY <2>3, <1>7
      <4> QED BY <4>2, <4>3, <1>5 DEF Selected
    <3> QED BY <3>1, <3>2, <3>3, <2>2 DEF Groups, Misreads
  <2>4. CASE rest # <<>> \/ recvbuf # <<>>
    <3>1. /\ rest = b /\ r.code = 411 /\ Cmd = c /\ Unanswered(s) = <<>> /\ o.status \notin {"none", "success"}
          /\ s.group = g
          /\ try = 0 => s.group \notin Carried
          /\ try >= 1 \/ (recvbuf = <<>> /\ (Selected => SameGroup(s.group, server.group, b)))
      BY <2>4, <1>14
    <3>2. /\ recvbuf' = b /\ b # <<>> /\ b[1].code = 411 /\ pc' = "config" /\ config' = o.status
          /\ list' = {d} /\ try' = try /\ ses' = s
      BY <3>1, <1>2, <1>4, <1>5
    <3>3. Refused411' BY <3>2 DEF Refused411
    <3>4. Refusals'
      <4>1. Len(<<>>) <= 1 OBVIOUS
      <4>2. /\ config' # "success"
            /\ Unanswered(ses') = <<>>
            /\ \A e \in list' : ses'.group = groups[e][try' + 1]
            /\ try' = 0 => ses'.group \notin Carried
            /\ Len(Unanswered(ses')) <= 1
        BY <4>1, <3>1, <3>2 DEF g
      <4> QED BY <4>2, <3>2, <3>3 DEF Refusals
    <3>5. CASE try >= 1
      BY <3>2, <3>3, <3>4, <3>5 DEF Groups, Misreads
    <3>6. CASE ~(try >= 1)
      <4>1. recvbuf = <<>> /\ (Selected => SameGroup(s.group, server.group, b)) BY <3>1, <3>6
      <4>2. Selected \/ MayHaveMisread BY <2>1, <3>6
      <4>3. b \o <<>> = b BY <1>4
      <4>4. recvbuf' \o wire' = b BY <4>3, <3>2, <1>4, <1>5
      <4>5. Selected => Selected' BY <4>1, <4>4, <1>5 DEF Selected
      <4> QED BY <4>2, <4>5, <3>4, <2>2 DEF Groups, Misreads
    <3> QED BY <3>5, <3>6
  <2> QED BY <2>3, <2>4
<1> QED BY <1>11, <1>12, <1>16, <1>17, <1>18 DEF IInv

LEMMA ClearFacts ==
    ASSUME NEW s \in Sessions
    PROVE  /\ clear(s) \in Sessions /\ clear(s).recv = <<>> /\ Unanswered(clear(s)) = <<>>
           /\ clear(s).group = s.group
<1> DEFINE none == <<>>
           t == clear(s)
<1>1. none \in Seq(Commands)
  OBVIOUS
<1>2. t = Requeued(s, none, none)
  BY DEF clear, Requeued, Sessions
<1> HIDE DEF none, t
<1>3. t \in Sessions /\ t.recv = none /\ t.send = none /\ t.group = s.group
  BY <1>1, <1>2, RequeuedFacts
<1> QED BY <1>3, SessionFacts DEF none, t

\* What follows when a cmdlist has received the buffers nb.
LEMMA DataEnds ==
    ASSUME IInv, pc = "data", NEW c \in Cmdlists, outcome[c] = "new",
           NEW s \in Sessions, NEW left \in Seq(Responses), NEW nb \in Seq(Buffers),
           buffers' = [buffers EXCEPT ![c] = nb], canceled' = canceled, cancel' = cancel,
           \A i \in 1 .. Len(nb) : nb[i].status \in {"success", "unavailable"} => nb[i].of = Asked(c, i),
           ~OneAnswer(c) => Len(nb) <= Len(commands[c]),
           OneAnswer(c) /\ Unanswered(s) # <<>> => NoAnswer(nb),
           Unanswered(s) = <<>> =>
              /\ Len(nb) = IF cmdtype[c] \in {"body", "xover"} THEN Len(commands[c]) ELSE 1
              /\ \A i \in 1 .. Len(nb) : nb[i].status # "none",
           InOrder(s.recv, left, net), s.pipelining \/ (left = <<>> /\ net = <<>>),
           MayHaveMisread \/ SameGroup(s.group, server.group, left),
           canceled[c] /\ s.pipelining => Closes("pipeline_reset") /\ Outcome(c, "dropped"),
           canceled[c] /\ ~s.pipelining => Returns(clear(s), left) /\ Outcome(c, "dropped"),
           ~canceled[c] /\ Unanswered(s) = <<>> => Returns(s, left) /\ Outcome(c, "done"),
           ~canceled[c] /\ Unanswered(s) # <<>> => outcome' = outcome
    PROVE  /\ Stored' /\ CancelTypes'
           /\ canceled[c] \/ Unanswered(s) = <<>> => IInv'
<1>1. Types /\ Stored
  BY DEF IInv
<1>2. CancelTypes /\ outcome \in [Cmdlists -> Outcomes]
  BY <1>1 DEF Types, CancelTypes
<1>3. CASE canceled[c]
  <2>1. Outcome(c, "dropped") BY <1>3
  <2>2. outcome' = [outcome EXCEPT ![c] = "dropped"] BY <2>1 DEF Outcome
  <2>3. "dropped" \in Outcomes BY DEF Outcomes
  <2>4. Stored' /\ CancelTypes' BY <2>2, <2>3, <1>1, <1>2, StoredChanged
  <2>5. CASE s.pipelining
    BY <2>4, <2>5, <1>3, ClosesKeeps
  <2>6. CASE ~s.pipelining
    <3>1. Returns(clear(s), left) BY <2>6, <1>3
    <3>2. /\ clear(s) \in Sessions /\ clear(s).recv = <<>> /\ Unanswered(clear(s)) = <<>>
          /\ clear(s).group = s.group
      BY ClearFacts
    <3>3. InOrder(clear(s).recv, left, net) BY <2>6, <3>2, NothingOutstanding
    <3>4. MayHaveMisread => MayHaveMisread' BY <2>1, <1>2, MisreadStays
    <3>5. MayHaveMisread' \/ SameGroup(clear(s).group, server.group, left) BY <3>2, <3>4
    <3>6. IInv' BY <3>1, <3>2, <3>3, <3>5, <2>4, <1>1, ReturnsKeeps
    <3> QED BY <3>6, <2>4
  <2> QED BY <2>5, <2>6
<1>4. CASE ~canceled[c] /\ Unanswered(s) = <<>>
  <2>1. Returns(s, left) /\ Outcome(c, "done") BY <1>4
  <2>2. outcome' = [outcome EXCEPT ![c] = "done"] BY <2>1 DEF Outcome
  <2>3. "done" \in Outcomes BY DEF Outcomes
  <2>4. Stored' /\ CancelTypes' BY <2>2, <2>3, <1>1, <1>2, <1>4, StoredChanged
  <2>5. MayHaveMisread => MayHaveMisread' BY <2>1, <1>2, MisreadStays
  <2>6. IInv' BY <2>1, <2>4, <2>5, <1>1, <1>4, ReturnsKeeps
  <2> QED BY <2>4, <2>6
<1>5. CASE ~canceled[c] /\ Unanswered(s) # <<>>
  <2>1. outcome' = [outcome EXCEPT ![c] = "new"] BY <1>2, <1>5
  <2>2. "new" \in Outcomes BY DEF Outcomes
  <2>3. Stored' /\ CancelTypes' BY <2>1, <2>2, <1>1, <1>2, <1>5, StoredChanged
  <2> QED BY <2>3, <1>5
<1> QED BY <1>3, <1>4, <1>5

\* What a response does while the cmdlist d is executed.
LEMMA DataIs ==
    ASSUME pc = "data", NEW d, list = {d}, NEW s \in Sessions, NEW rest, NEW o, NEW left,
           Received(s, rest, o, left)
    PROVE  /\ s.error # "none" => Closes("no_permission") /\ buffers' = buffers /\ outcome' = outcome
           /\ s.error = "none" =>
                /\ buffers' = [buffers EXCEPT ![d] = receive_data_buffer(buffers[d], o)]
                /\ canceled[d] /\ s.pipelining => Closes("pipeline_reset") /\ Outcome(d, "dropped")
                /\ canceled[d] /\ ~s.pipelining => Returns(clear(s), left) /\ Outcome(d, "dropped")
                /\ ~canceled[d] /\ Unanswered(s) = <<>> => Returns(s, left) /\ Outcome(d, "done")
                /\ ~canceled[d] /\ Unanswered(s) # <<>> =>
                     /\ ses' = s /\ pc' = pc /\ waiting' = FALSE /\ recvbuf' = rest /\ wire' = left
                     /\ net' = net /\ config' = config /\ try' = try /\ list' = list
                     /\ server' = server /\ outcome' = outcome
<1>1. pending(s) <=> Unanswered(s) # <<>>
  BY SessionFacts
<1>2. IF s.error # "none"
      THEN Closes("no_permission") /\ UNCHANGED <<buffers, outcome>>
      ELSE /\ buffers' = [buffers EXCEPT ![d] = receive_data_buffer(buffers[d], o)]
           /\ IF canceled[d] /\ s.pipelining
              THEN Closes("pipeline_reset") /\ Outcome(d, "dropped")
              ELSE IF canceled[d]
              THEN Returns(clear(s), left) /\ Outcome(d, "dropped")
              ELSE IF ~pending(s)
              THEN Returns(s, left) /\ Outcome(d, "done")
              ELSE /\ Goes(s, pc, left) /\ recvbuf' = rest
                   /\ UNCHANGED <<config, try, outcome>>
  BY DEF Received
<1>3. CASE s.error # "none"
  BY <1>2, <1>3
<1>4. CASE s.error = "none"
  BY <1>1, <1>2, <1>4 DEF Goes
<1> QED BY <1>3, <1>4

\* A listing or a group's information has one buffer.
LEMMA ReceiveOne ==
    ASSUME NEW bs \in Seq(Buffers), NoAnswer(bs), NEW b \in Buffers
    PROVE  LET nb == receive_data_buffer(bs, b)
           IN  nb \in Seq(Buffers) /\ Len(nb) = 1 /\ nb[1] = b
<1> DEFINE free == {i \in 1 .. Len(bs) : bs[i].status = "none"}
           i == CHOOSE j \in free : \A l \in free : j <= l
<1>1. Len(bs) \in Nat /\ Len(bs) <= 1 /\ \A j \in 1 .. Len(bs) : bs[j].status = "none"
  BY EmptyFacts DEF NoAnswer
<1>2. CASE Len(bs) = 0
  <2>1. free = {} BY <1>2
  <2>2. receive_data_buffer(bs, b) = Append(bs, b) BY <2>1 DEF receive_data_buffer
  <2> QED BY <2>2, <1>2
<1>3. CASE Len(bs) = 1
  <2>1. free = {1} BY <1>1, <1>3
  <2>2. i = 1
    <3> HIDE DEF free
    <3> QED BY <2>1
  <2>3. receive_data_buffer(bs, b) = [bs EXCEPT ![i] = b]
    <3>1. free # {} BY <2>1
    <3> QED BY <3>1 DEF receive_data_buffer
  <2> HIDE DEF i, free
  <2>4. receive_data_buffer(bs, b) = [bs EXCEPT ![1] = b] BY <2>2, <2>3
  <2> QED BY <2>4, <1>3
<1>4. Len(bs) = 0 \/ Len(bs) = 1
  <2> DEFINE n == Len(bs)
  <2>1. n \in Nat /\ n <= 1 BY <1>1
  <2> HIDE DEF n
  <2>2. n = 0 \/ n = 1 BY <2>1
  <2> QED BY <2>2 DEF n
<1> DEFINE nb == receive_data_buffer(bs, b)
<1>5. nb \in Seq(Buffers) /\ Len(nb) = 1 /\ nb[1] = b
  <2> HIDE DEF nb
  <2> QED BY <1>2, <1>3, <1>4 DEF nb
<1> QED BY <1>5

LEMMA AnswerReceives ==
    ASSUME IInv, pc = "data", NEW d \in list, OneAnswer(d), NEW k, Reads(k),
           canceled' = canceled, cancel' = cancel, After(k).error = "none",
           Received(After(k), Rest(Cmd, Buff(k)), Output(Cmd, Resp(k)), Left(k))
    PROVE  IInv'
<1> DEFINE c == Asked(d, 1)
           s == After(k)
           r == Resp(k)
           rest == Rest(Cmd, Buff(k))
           o == Output(Cmd, r)
           left == Left(k)
           nb == receive_data_buffer(buffers[d], o)
<1>1. Types /\ Conversation /\ Executes /\ Stored /\ Groups
  BY DEF IInv
<1>2. /\ d \in Cmdlists /\ list = {d} /\ outcome[d] = "new" /\ Finally(Unanswered(ses), c)
      /\ recvbuf = <<>> /\ ~Pipelined
  BY TheCmdlist
<1>3. OneByOne
  BY <1>1, <1>2 DEF Conversation
<1>4. c.kind \in {"group", "list"} /\ cmdtype[d] \notin {"body", "xover"}
  BY <1>2, CmdlistFacts DEF OneAnswer
<1>5. /\ s \in Sessions /\ left \in Seq(Responses) /\ left = <<>> /\ net = <<>> /\ s.recv = <<>>
      /\ o \in Buffers /\ r.to = Cmd /\ Cmd \in Commands /\ r \in Responses /\ r.code \in Accepts(Cmd)
  BY <1>2, <1>3, ReadFacts, AfterFacts, ReadInTurn
<1>6. o.status \in {"success", "unavailable"} => o.of = r.to
  BY <1>5, OutputFacts
<1>7. /\ Unanswered(s) # <<>> => rest = <<>> /\ o = EmptyBuffer
      /\ Unanswered(s) = <<>> => Cmd = c /\ o.status # "none"
  BY <1>2, <1>4, RestInTurn
<1>8. Selected => SameGroup(s.group, server.group, <<>>)
  BY <1>2, <1>3, GroupInTurn
<1>9. Finally(Unanswered(s), c)
  BY <1>2, FinallyAfter
<1>10. nb \in Seq(Buffers) /\ Len(nb) = 1 /\ nb[1] = o
  <2>1. buffers[d] \in Seq(Buffers) BY <1>1, <1>2 DEF Types, CancelTypes
  <2>2. NoAnswer(buffers[d]) BY <1>1, <1>2 DEF Stored, Buffered
  <2> HIDE DEF o
  <2> QED BY <2>1, <2>2, <1>5, ReceiveOne
<1>11. /\ buffers' = [buffers EXCEPT ![d] = nb]
       /\ canceled[d] /\ s.pipelining => Closes("pipeline_reset") /\ Outcome(d, "dropped")
       /\ canceled[d] /\ ~s.pipelining => Returns(clear(s), left) /\ Outcome(d, "dropped")
       /\ ~canceled[d] /\ Unanswered(s) = <<>> => Returns(s, left) /\ Outcome(d, "done")
       /\ ~canceled[d] /\ Unanswered(s) # <<>> =>
            /\ ses' = s /\ pc' = pc /\ waiting' = FALSE /\ recvbuf' = rest /\ wire' = left
            /\ net' = net /\ config' = config /\ try' = try /\ list' = list
            /\ server' = server /\ outcome' = outcome
  BY <1>2, <1>5, DataIs
<1>12. EmptyBuffer.status = "none"
  BY DEF EmptyBuffer, Buffer
<1>13. Selected \/ MayHaveMisread
  BY <1>1, <1>2 DEF Groups, Misreads, Refused411
<1> HIDE DEF c, s, r, rest, o, left, nb
<1>14. InOrder(s.recv, left, net)
  BY <1>5, NothingOutstanding
<1>15. \A i \in 1 .. Len(nb) : nb[i].status \in {"success", "unavailable"} => nb[i].of = Asked(d, i)
  <2>1. o.status \in {"success", "unavailable"} => o.of = Asked(d, 1)
    BY <1>5, <1>6, <1>7, <1>12 DEF c
  <2> QED BY <2>1, <1>10
<1>16. Unanswered(s) # <<>> => NoAnswer(nb)
  BY <1>7, <1>10, <1>12 DEF NoAnswer
<1>17. Unanswered(s) = <<>> =>
         /\ Len(nb) = IF cmdtype[d] \in {"body", "xover"} THEN Len(commands[d]) ELSE 1
         /\ \A i \in 1 .. Len(nb) : nb[i].status # "none"
  BY <1>4, <1>7, <1>10
<1>18. MayHaveMisread \/ SameGroup(s.group, server.group, left)
  BY <1>5, <1>8, <1>13
<1>19. /\ Stored' /\ CancelTypes'
       /\ canceled[d] \/ Unanswered(s) = <<>> => IInv'
  <2>1. ~canceled[d] /\ Unanswered(s) # <<>> => outcome' = outcome BY <1>11
  <2>2. s.pipelining \/ (left = <<>> /\ net = <<>>) BY <1>5
  <2> QED BY <2>1, <2>2, <1>2, <1>5, <1>10, <1>11, <1>14, <1>15, <1>16, <1>17, <1>18, DataEnds
<1>20. CASE ~canceled[d] /\ Unanswered(s) # <<>>
  <2>1. /\ ses' = s /\ pc' = pc /\ waiting' = FALSE /\ recvbuf' = <<>> /\ wire' = left
        /\ net' = net /\ config' = config /\ try' = try /\ list' = list
        /\ server' = server /\ outcome' = outcome
    BY <1>7, <1>11, <1>20
  <2>2. <<>> \in Seq(Responses) OBVIOUS
  <2>3. config \in Statuses BY <1>1 DEF Types
  <2>4. Types'
    BY <2>1, <2>2, <2>3, <1>1, <1>5, <1>19, GoesTypes DEF s, left
  <2>5. InOrder(ses.recv, wire, net)' /\ OneByOne' /\ InBuffer(ses.recv, recvbuf, wire, net)'
    BY <2>1, <2>2, <1>3, GoesInTurn DEF s, left
  <2>6. Conversation'
    BY <2>1, <2>5, <1>20 DEF Conversation
  <2>7. Executes'
    <3>1. /\ pc' = "data" /\ list' = {d} /\ outcome'[d] = "new" /\ ses' = s
      BY <2>1, <1>2
    <3>2. pc' \in Executing BY <3>1 DEF Executing
    <3> QED BY <3>1, <3>2, <1>2, <1>9 DEF Executes, OneAnswer, Asked, c
  <2>8. Groups'
    <3>1. Refusals' BY <2>1 DEF Refusals, Refused411
    <3>2. Selected => Selected'
      <4>1. <<>> \o <<>> = <<>> OBVIOUS
      <4>2. recvbuf' \o wire' = <<>> BY <4>1, <2>1, <1>5
      <4> QED BY <4>2, <2>1, <1>8 DEF Selected
    <3>3. MayHaveMisread => MayHaveMisread' BY <2>1 DEF MayHaveMisread
    <3> QED BY <3>1, <3>2, <3>3, <1>13 DEF Groups, Misreads
  <2> QED BY <2>4, <2>6, <2>7, <2>8, <1>19 DEF IInv
<1> QED BY <1>19, <1>20

\* The receive buffer after a command has taken its response.
LEMMA ReadInBuffer ==
    ASSUME IInv, NEW k, Reads(k)
    PROVE  /\ InOrder(Tail(ses.recv), Left(k), net)
           /\ Sticks(Buff(k)) => InBuffer(Tail(ses.recv), Buff(k), Left(k), net)
           /\ ~Sticks(Buff(k)) =>
                 /\ InBuffer(Tail(ses.recv), Tail(Buff(k)), Left(k), net)
                 /\ \A i \in 1 .. Len(Buff(k)) : i \in 1 .. Len(ses.recv) /\ Buff(k)[i].to = ses.recv[i]
<1> DEFINE q == ses.recv
           a == recvbuf
           w == wire
           n == net
<1>1. /\ q \in Seq(Commands) /\ q # <<>> /\ a \in Seq(Responses) /\ w \in Seq(Responses)
      /\ n \in Seq(Commands) /\ k \in 1 .. Len(w)
  BY ReadFacts DEF IInv, Types, Reads
<1>2. InOrder(q, w, n) /\ InBuffer(q, a, w, n)
  BY DEF IInv, Conversation, Reads
<1> HIDE DEF q, a, w, n
<1>3. /\ Sticks(Taken(a, w, k)) => InBuffer(Tail(q), Taken(a, w, k), Kept(w, k), n)
      /\ Sticks(Taken(a, w, k)) \/
            /\ InBuffer(Tail(q), Tail(Taken(a, w, k)), Kept(w, k), n)
            /\ \A i \in 1 .. Len(Taken(a, w, k)) : i \in 1 .. Len(q) /\ Taken(a, w, k)[i].to = q[i]
  <2>1. TakenInOrder(q, a, w, n, k) BY <1>1, <1>2, ReceivedInBuffer
  <2> QED BY <2>1 DEF TakenInOrder
<1>4. InOrder(Tail(q), Kept(w, k), n)
  BY <1>1, <1>2, ReceiveKeepsOrder DEF Kept
<1> QED BY <1>3, <1>4 DEF q, a, w, n, Buff, Left

\* While articles or headers are received nothing tells of a group.
LEMMA PipelinedCodes ==
    ASSUME IInv, Pipelined, ~Refused411, NEW k, Reads(k)
    PROVE  /\ \A i \in 1 .. Len(recvbuf \o wire) : (recvbuf \o wire)[i].code # 211
           /\ \A i \in 1 .. Len(Buff(k)) : Buff(k)[i].code # 211
           /\ \A i \in 1 .. Len(Left(k)) : Left(k)[i].code # 211
           /\ ~Sticks(Buff(k)) => \A i \in 1 .. Len(Buff(k)) : Buff(k)[i].code # 411
<1> DEFINE q == ses.recv
           x == ses.send
           a == recvbuf
           w == wire
           e == Before(q, w, net)
           b == Buff(k)
           l == Left(k)
<1>1. /\ q \in Seq(Commands) /\ x \in Seq(Commands) /\ a \in Seq(Responses) /\ w \in Seq(Responses)
      /\ net \in Seq(Commands) /\ b \in Seq(Responses) /\ l \in Seq(Responses) /\ b \o l = a \o w
  BY ReadFacts, SessionFacts DEF IInv, Types
<1>2. \A i \in 1 .. Len(q) : q[i].kind \in {"body", "xover"}
  <2>1. Unanswered(ses) = q \o x BY DEF Unanswered
  <2>2. \A i \in 1 .. Len(q \o x) : (q \o x)[i].kind \in {"body", "xover"}
    BY <2>1, PipelinedKinds
  <2> HIDE DEF q, x
  <2>3. /\ Len(q \o x) = Len(q) + Len(x) /\ \A i \in 1 .. Len(q) : (q \o x)[i] = q[i]
    BY <1>1, JoinFacts
  <2>4. Len(q) \in Nat /\ Len(x) \in Nat BY <1>1
  <2>5. \A i \in 1 .. Len(q) : i \in 1 .. Len(q \o x) BY <2>3, <2>4
  <2> QED BY <2>2, <2>3, <2>5
<1>3. InOrder(q, w, net) /\ \A i \in 1 .. Len(a) : a[i].code # 211
  BY DEF IInv, Conversation, Groups, Refusals, Pipelined
<1>4. ~Sticks(b) => \A i \in 1 .. Len(b) : i \in 1 .. Len(q) /\ b[i].to = q[i]
  BY ReadInBuffer
<1> HIDE DEF q, x, a, w, b, l
<1>5. \A i \in 1 .. Len(w) : w[i].code # 211
  <2> TAKE i \in 1 .. Len(w)
  <2>1. Len(q) \in Nat /\ Len(w) \in Nat /\ Len(net) \in Nat BY <1>1, EmptyFacts
  <2>2. e + i \in 1 .. Len(q) /\ w[i].to = q[e + i] BY <2>1, <1>3 DEF InOrder, Before
  <2>3. w[i].to.kind \in {"body", "xover"} BY <2>2, <1>2
  <2>4. w[i] \in Responses BY <1>1, EmptyFacts
  <2> QED BY <2>3, <2>4 DEF Responses
<1>6. \A i \in 1 .. Len(a \o w) : (a \o w)[i].code # 211
  <2>1. /\ Len(a \o w) = Len(a) + Len(w)
        /\ \A i \in 1 .. Len(a) + Len(w) :
              \/ i \in 1 .. Len(a) /\ (a \o w)[i] = a[i]
              \/ i - Len(a) \in 1 .. Len(w) /\ (a \o w)[i] = w[i - Len(a)]
    BY <1>1, JoinFacts
  <2> QED BY <2>1, <1>3, <1>5
<1>7. /\ \A i \in 1 .. Len(b) : b[i].code # 211
      /\ \A i \in 1 .. Len(l) : l[i].code # 211
  <2> DEFINE t == b \o l
  <2>1. /\ Len(t) = Len(b) + Len(l) /\ Len(b) \in Nat /\ Len(l) \in Nat
        /\ \A i \in 1 .. Len(b) : t[i] = b[i]
        /\ \A i \in 1 .. Len(l) : t[Len(b) + i] = l[i]
    <3>1. b \in Seq(Responses) /\ l \in Seq(Responses) BY <1>1
    <3>2. Len(b) \in Nat /\ Len(l) \in Nat BY <3>1, EmptyFacts
    <3> QED BY <3>1, <3>2, JoinFacts
  <2>2. \A i \in 1 .. Len(t) : t[i].code # 211 BY <1>1, <1>6
  <2> HIDE DEF t
  <2>3. \A i \in 1 .. Len(b) : i \in 1 .. Len(t) BY <2>1
  <2>4. \A i \in 1 .. Len(l) : Len(b) + i \in 1 .. Len(t) BY <2>1
  <2>5. \A i \in 1 .. Len(l) : t[Len(b) + i].code # 211 BY <2>2, <2>4
  <2> QED BY <2>1, <2>2, <2>3, <2>5
<1>8. ~Sticks(b) => \A i \in 1 .. Len(b) : b[i].code # 411
  <2> SUFFICES ASSUME ~Sticks(b), NEW i \in 1 .. Len(b) PROVE b[i].code # 411
    OBVIOUS
  <2>1. b[i].to.kind \in {"body", "xover"} BY <1>2, <1>4
  <2>2. b[i] \in Responses BY <1>1, EmptyFacts
  <2> QED BY <2>1, <2>2 DEF Responses
<1> QED BY <1>6, <1>7, <1>8 DEF a, w, b, l

\* Nothing on its way tells of a group.
LEMMA NothingTold ==
    ASSUME NEW g, NEW h, NEW told \in Seq(Responses), NEW t \in Seq(Responses),
           SameGroup(g, h, told), \A i \in 1 .. Len(told) : told[i].code # 211,
           \A i \in 1 .. Len(t) : t[i].code # 211
    PROVE  SameGroup(g, h, t)
  BY DEF SameGroup

LEMMA DataReceives ==
    ASSUME IInv, pc = "data", NEW d \in list, ~OneAnswer(d), NEW k, Reads(k),
           canceled' = canceled, cancel' = cancel, After(k).error = "none",
           Received(After(k), Rest(Cmd, Buff(k)), Output(Cmd, Resp(k)), Left(k))
    PROVE  IInv'
<1> DEFINE q == ses.recv
           u == Unanswered(ses)
           s == After(k)
           b == Buff(k)
           r == Resp(k)
           rest == Rest(Cmd, b)
           o == Output(Cmd, r)
           left == Left(k)
           bs == buffers[d]
           nb == receive_data_buffer(bs, o)
<1>1. Types /\ Conversation /\ Executes /\ Stored /\ Groups
  BY DEF IInv
<1>2. /\ d \in Cmdlists /\ list = {d} /\ outcome[d] = "new" /\ AsksForAll(u, bs, d) /\ Pipelined
  BY TheCmdlist
<1>3. /\ u \in Seq(Commands) /\ u # <<>> /\ Cmd = u[1] /\ Cmd \in Commands
      /\ b \in Seq(Responses) /\ b # <<>> /\ b[1] = r /\ r \in Responses /\ r.code \in Accepts(Cmd)
      /\ left \in Seq(Responses) /\ rest \in Seq(Responses) /\ o \in Buffers
      /\ b \o left = recvbuf \o wire /\ (recvbuf # <<>> => r = recvbuf[1])
      /\ q \in Seq(Commands) /\ q # <<>> /\ Cmd = q[1]
  <2>1. b[1] = r BY DEF Resp
  <2>2. Cmd = q[1] BY DEF Cmd
  <2> HIDE DEF q, u, b, r, rest, o, left
  <2>3. /\ u \in Seq(Commands) /\ u # <<>> /\ Cmd = u[1] /\ Cmd \in Commands
        /\ q \in Seq(Commands) /\ q # <<>>
    BY ReadFacts DEF u, q
  <2>4. /\ b \in Seq(Responses) /\ b # <<>> /\ r \in Responses /\ r.code \in Accepts(Cmd)
        /\ left \in Seq(Responses) /\ b \o left = recvbuf \o wire
        /\ (recvbuf # <<>> => r = recvbuf[1])
    BY ReadFacts DEF b, r, left
  <2>5. rest \in Seq(Responses) /\ o \in Buffers
    BY ReadFacts DEF b, r, rest, o
  <2> QED BY <2>1, <2>2, <2>3, <2>4, <2>5
<1>4. Cmd.kind \in {"body", "xover"} /\ cmdtype[d] \in {"body", "xover"}
  <2>1. 1 \in 1 .. Len(u) BY <1>3, EmptyFacts
  <2> HIDE DEF u
  <2> QED BY <2>1, <1>2, <1>3, PipelinedKinds, CmdlistFacts DEF u
<1>5. o.status # "none" /\ ~Challenged(Cmd, r.code)
  BY <1>3, <1>4, OutputFacts
<1>6. o.status \in {"success", "unavailable"} => o.of = r.to /\ r.good
  BY <1>3, OutputFacts
<1>7. r.code # 411 /\ rest = IF Sticks(b) THEN b ELSE Tail(b)
  <2>1. b \in Seq(Responses) /\ b # <<>> /\ b[1].code \in Accepts(Cmd) /\ b[1] = r BY <1>3
  <2>2. Cmd \in Commands BY <1>3
  <2> HIDE DEF b, r
  <2>3. Cmd.kind \in {"body", "xover"} =>
           b[1].code # 411 /\ Rest(Cmd, b) = IF Sticks(b) THEN b ELSE Tail(b)
    BY <2>1, <2>2, RestFacts
  <2> QED BY <2>1, <2>3, <1>4
<1>8. /\ s \in Sessions /\ s.pipelining = ses.pipelining /\ s.group = ses.group
      /\ s.recv = Tail(q) /\ Unanswered(s) = Tail(u)
  BY <1>4, <1>5, AfterFacts
<1>9. ~Refused411
  BY <1>3, <1>7 DEF Refused411
<1>10. /\ InOrder(Tail(q), left, net) /\ InBuffer(Tail(q), rest, left, net)
       /\ ~Sticks(b) => r.to = Cmd
  <2>1. /\ InOrder(Tail(q), left, net)
        /\ Sticks(b) => InBuffer(Tail(q), b, left, net)
        /\ ~Sticks(b) => /\ InBuffer(Tail(q), Tail(b), left, net)
                         /\ \A i \in 1 .. Len(b) : i \in 1 .. Len(q) /\ b[i].to = q[i]
    BY ReadInBuffer
  <2>2. 1 \in 1 .. Len(b) BY <1>3, EmptyFacts
  <2> HIDE DEF b, left, q, rest
  <2> QED BY <2>1, <2>2, <1>3, <1>7
<1>11. /\ \A i \in 1 .. Len(recvbuf \o wire) : (recvbuf \o wire)[i].code # 211
       /\ \A i \in 1 .. Len(b) : b[i].code # 211
       /\ \A i \in 1 .. Len(left) : left[i].code # 211
       /\ ~Sticks(b) => \A i \in 1 .. Len(b) : b[i].code # 411
  BY <1>2, <1>9, PipelinedCodes
<1>12. /\ bs \in Seq(Buffers) /\ Len(bs) <= Len(commands[d])
       /\ \A i \in 1 .. Len(bs) : bs[i].status \in {"success", "unavailable"} => bs[i].of = Asked(d, i)
  <2>1. bs \in Seq(Buffers) BY <1>1, <1>2 DEF Types, CancelTypes
  <2>2. Len(bs) <= Len(commands[d]) BY <1>1, <1>2 DEF Stored, Buffered
  <2>3. \A i \in 1 .. Len(bs) : bs[i].status \in {"success", "unavailable"} => bs[i].of = Asked(d, i)
    BY <1>1, <1>2 DEF Stored, BuffersMatch
  <2> QED BY <2>1, <2>2, <2>3
<1>13. /\ nb \in Seq(Buffers) /\ Len(nb) <= Len(commands[d]) /\ AsksForAll(Tail(u), nb, d)
       /\ \A i \in 1 .. Len(nb) : \/ i \in 1 .. Len(bs) /\ nb[i] = bs[i]
                                  \/ nb[i] = o /\ Asked(d, i) = u[1]
  <2>1. /\ d \in Cmdlists /\ bs \in Seq(Buffers) /\ o \in Buffers /\ Len(bs) <= Len(commands[d])
        /\ u \in Seq(Commands) /\ u # <<>> /\ AsksForAll(u, bs, d) /\ o.status # "none"
    BY <1>2, <1>3, <1>5, <1>12
  <2> HIDE DEF u, bs, o, q, s, b, r, rest, left
  <2>2. nb \in Seq(Buffers) /\ Len(nb) <= Len(commands[d]) BY <2>1, ReceiveAsks
  <2>3. AsksForAll(Tail(u), nb, d) BY <2>1, ReceiveAsks
  <2>4. \A i \in 1 .. Len(nb) : \/ i \in 1 .. Len(bs) /\ nb[i] = bs[i]
                                \/ nb[i] = o /\ Asked(d, i) = u[1]
    BY <2>1, ReceiveAsks
  <2> QED BY <2>2, <2>3, <2>4
<1>14. /\ buffers' = [buffers EXCEPT ![d] = nb]
       /\ canceled[d] /\ s.pipelining => Closes("pipeline_reset") /\ Outcome(d, "dropped")
       /\ canceled[d] /\ ~s.pipelining => Returns(clear(s), left) /\ Outcome(d, "dropped")
       /\ ~canceled[d] /\ Unanswered(s) = <<>> => Returns(s, left) /\ Outcome(d, "done")
       /\ ~canceled[d] /\ Unanswered(s) # <<>> =>
            /\ ses' = s /\ pc' = pc /\ waiting' = FALSE /\ recvbuf' = rest /\ wire' = left
            /\ net' = net /\ config' = config /\ try' = try /\ list' = list
            /\ server' = server /\ outcome' = outcome
  BY <1>2, <1>8, DataIs
<1>15. Selected \/ MayHaveMisread
  BY <1>1, <1>9 DEF Groups, Misreads
<1>16. ~s.pipelining => left = <<>> /\ net = <<>> /\ s.recv = <<>>
  <2>1. ~ses.pipelining => OneByOne BY <1>1 DEF Conversation
  <2> QED BY <2>1, <1>8, ReadInTurn
<1> HIDE DEF q, u, s, b, r, rest, o, left, bs, nb
<1>17. \A i \in 1 .. Len(nb) : nb[i].status \in {"success", "unavailable"} => nb[i].of = Asked(d, i)
  <2>1. o.status \in {"success", "unavailable"} => o.of = u[1]
    <3> HAVE o.status \in {"success", "unavailable"}
    <3>1. o.of = r.to /\ r.good BY <1>6
    <3>2. ~Sticks(b) BY <3>1, <1>3, <1>7 DEF Sticks
    <3> QED BY <3>1, <3>2, <1>3, <1>10
  <2> QED BY <2>1, <1>12, <1>13
<1>18. Unanswered(s) = <<>> =>
         /\ Len(nb) = IF cmdtype[d] \in {"body", "xover"} THEN Len(commands[d]) ELSE 1
         /\ \A i \in 1 .. Len(nb) : nb[i].status # "none"
  <2> HAVE Unanswered(s) = <<>>
  <2>1. AsksForAll(<<>>, nb, d) BY <1>8, <1>13
  <2>2. Len(nb) = Len(commands[d]) /\ \A i \in 1 .. Len(nb) : nb[i].status # "none"
    BY <2>1, <1>2, <1>13, NoneLeft
  <2> QED BY <2>2, <1>4
<1>19. Selected => \A t \in Seq(Responses) :
          (\A i \in 1 .. Len(t) : t[i].code # 211) => SameGroup(s.group, server.group, t)
  <2> DEFINE told == recvbuf \o wire
  <2>1. told \in Seq(Responses) /\ \A i \in 1 .. Len(told) : told[i].code # 211
    BY <1>1, <1>11, JoinFacts DEF Types
  <2>2. Selected => SameGroup(s.group, server.group, told) BY <1>8 DEF Selected
  <2> HIDE DEF told
  <2> QED BY <2>1, <2>2, NothingTold
<1>20. /\ Stored' /\ CancelTypes'
       /\ canceled[d] \/ Unanswered(s) = <<>> => IInv'
  <2>1. ~canceled[d] /\ Unanswered(s) # <<>> => outcome' = outcome BY <1>14
  <2>2. s.pipelining \/ (left = <<>> /\ net = <<>>) BY <1>16
  <2>3. InOrder(s.recv, left, net) BY <1>8, <1>10
  <2>4. MayHaveMisread \/ SameGroup(s.group, server.group, left) BY <1>3, <1>11, <1>15, <1>19
  <2> QED BY <2>1, <2>2, <2>3, <2>4, <1>2, <1>3, <1>8, <1>13, <1>14, <1>17, <1>18, DataEnds
<1>21. CASE ~canceled[d] /\ Unanswered(s) # <<>>
  <2>1. /\ ses' = s /\ pc' = "data" /\ waiting' = FALSE /\ recvbuf' = rest /\ wire' = left
        /\ net' = net /\ config' = config /\ try' = try /\ list' = {d}
        /\ server' = server /\ outcome' = outcome
    BY <1>2, <1>14, <1>21
  <2>2. config \in Statuses BY <1>1 DEF Types
  <2>3. Types'
    BY <2>1, <2>2, <1>1, <1>2, <1>3, <1>8, <1>20, GoesTypes DEF s, left
  <2>4. InOrder(ses.recv, wire, net)' /\ InBuffer(ses.recv, recvbuf, wire, net)'
    BY <2>1, <1>8, <1>10
  <2>5. (~ses.pipelining => OneByOne)'
    <3>1. Len(<<>>) <= 1 OBVIOUS
    <3> QED BY <3>1, <2>1, <1>16, NothingOutstanding DEF OneByOne
  <2>6. (Pipelined /\ \E e \in list : ~OneAnswer(e))' BY <2>1 DEF Pipelined, OneAnswer
  <2>7. Conversation'
    BY <2>1, <2>4, <2>5, <2>6, <1>21 DEF Conversation
  <2>8. Executes'
    <3>1. AsksForAll(Unanswered(ses'), buffers'[d], d)
      <4>1. buffers'[d] = nb BY <1>1, <1>2, <1>14 DEF Types, CancelTypes
      <4> QED BY <4>1, <2>1, <1>8, <1>13
    <3>2. pc' \in Executing BY <2>1 DEF Executing
    <3> QED BY <3>1, <3>2, <2>1, <1>2 DEF Executes, OneAnswer
  <2>9. /\ \A i \in 1 .. Len(rest) : rest[i].code # 211
        /\ rest # <<>> => rest[1].code # 411
    <3>1. CASE Sticks(b)
      BY <3>1, <1>3, <1>7, <1>11
    <3>2. CASE ~Sticks(b)
      <4>1. rest = Tail(b) BY <3>2, <1>7
      <4>2. Len(rest) = Len(b) - 1 /\ \A i \in 1 .. Len(b) - 1 : rest[i] = b[i + 1]
        BY <4>1, <1>3, TailFacts
      <4>3. Len(b) \in Nat BY <1>3, EmptyFacts
      <4>4. \A i \in 1 .. Len(rest) : i + 1 \in 1 .. Len(b) /\ rest[i] = b[i + 1] BY <4>2, <4>3
      <4>5. \A i \in 1 .. Len(rest) : rest[i].code # 211 /\ rest[i].code # 411
        BY <4>4, <3>2, <1>11
      <4>6. rest # <<>> => 1 \in 1 .. Len(rest) BY <1>3, EmptyFacts
      <4> QED BY <4>5, <4>6
    <3> QED BY <3>1, <3>2
  <2>10. Groups'
    <3>1. ~Refused411' BY <2>1, <2>9 DEF Refused411
    <3>2. Refusals' BY <3>1, <2>1, <2>9 DEF Refusals
    <3>3. Selected => Selected'
      <4> DEFINE t == rest \o left
      <4>1. /\ t \in Seq(Responses) /\ Len(t) = Len(rest) + Len(left)
            /\ \A i \in 1 .. Len(rest) + Len(left) :
                  \/ i \in 1 .. Len(rest) /\ t[i] = rest[i]
                  \/ i - Len(rest) \in 1 .. Len(left) /\ t[i] = left[i - Len(rest)]
        BY <1>3, JoinFacts
      <4> HIDE DEF t
      <4>2. \A i \in 1 .. Len(t) : t[i].code # 211 BY <4>1, <2>9, <1>11
      <4> QED BY <4>1, <4>2, <2>1, <1>19 DEF Selected, t
    <3>4. MayHaveMisread => MayHaveMisread' BY <2>1 DEF MayHaveMisread
    <3> QED BY <3>2, <3>3, <3>4, <1>15 DEF Groups, Misreads
  <2> QED BY <2>3, <2>7, <2>8, <2>10, <1>20 DEF IInv
<1> QED BY <1>20, <1>21

LEMMA ReceiveKeeps ==
    ASSUME IInv, NEW k \in 1 .. Len(wire), Receive(k)
    PROVE  IInv'
<1>1. /\ canceled' = canceled /\ cancel' = cancel
      /\ pc \in {"init", "config", "data", "ping", "quit"}
      /\ \/ Closes("error") /\ buffers' = buffers /\ outcome' = outcome
         \/ /\ Reads(k)
            /\ Received(After(k), Rest(Cmd, Buff(k)), Output(Cmd, Resp(k)), Left(k))
  BY ReceiveIs
<1>2. ASSUME NEW e, Closes(e), buffers' = buffers, outcome' = outcome
      PROVE  IInv'
  <2>1. CancelTypes' /\ Stored'
    BY <1>1, <1>2, StoredUnchanged DEF IInv, Types, CancelTypes
  <2> QED BY <2>1, <1>2, ClosesKeeps
<1>3. CASE ~Reads(k)
  BY <1>1, <1>2, <1>3
<1>4. CASE Reads(k) /\ ~Received(After(k), Rest(Cmd, Buff(k)), Output(Cmd, Resp(k)), Left(k))
  BY <1>1, <1>2, <1>4
<1>5. CASE Reads(k) /\ Received(After(k), Rest(Cmd, Buff(k)), Output(Cmd, Resp(k)), Left(k))
  <2>1. CASE pc = "init"
    BY <2>1, <1>1, <1>5, InitReceives
  <2>2. CASE pc = "config"
    BY <2>2, <1>1, <1>5, ConfigReceives
  <2>3. CASE pc = "ping"
    BY <2>3, <1>1, <1>5, PingReceives
  <2>4. CASE pc = "quit"
    <3>1. Closes("none") /\ buffers' = buffers /\ outcome' = outcome BY <2>4, <1>5 DEF Received
    <3> QED BY <3>1, <1>2
  <2>5. CASE pc = "data"
    <3>1. PICK d \in Cmdlists : list = {d} BY <2>5 DEF IInv, Executes, Executing
    <3>2. CASE After(k).error # "none"
      <4>1. After(k) \in Sessions BY <1>5, AfterFacts
      <4>2. Closes("no_permission") /\ buffers' = buffers /\ outcome' = outcome
        BY <4>1, <3>1, <3>2, <2>5, <1>5, DataIs
      <4> QED BY <4>2, <1>2
    <3>3. CASE After(k).error = "none" /\ OneAnswer(d)
      <4>1. d \in list BY <3>1
      <4> QED BY <4>1, <3>3, <2>5, <1>1, <1>5, AnswerReceives
    <3>4. CASE After(k).error = "none" /\ ~OneAnswer(d)
      <4>1. d \in list BY <3>1
      <4> QED BY <4>1, <3>4, <2>5, <1>1, <1>5, DataReceives
    <3> QED BY <3>2, <3>3, <3>4
  <2> QED BY <2>1, <2>2, <2>3, <2>4, <2>5, <1>1
<1> QED BY <1>3, <1>4, <1>5

-----------------------------------------------------------------------------
(* The specification. *)

LEMMA StutterKeeps ==
    ASSUME IInv, UNCHANGED vars
    PROVE  IInv'
<1>1. /\ ses' = ses /\ pc' = pc /\ waiting' = waiting /\ recvbuf' = recvbuf /\ config' = config
      /\ try' = try /\ list' = list /\ buffers' = buffers /\ outcome' = outcome
      /\ canceled' = canceled /\ cancel' = cancel /\ net' = net /\ wire' = wire /\ server' = server
  BY DEF vars
<1>2. Types /\ Conversation /\ Executes /\ Stored /\ Groups
  BY DEF IInv
<1>3. Types' /\ Conversation'
  BY <1>1, <1>2 DEF Types, CancelTypes, Conversation, OneByOne, Pipelined, OneAnswer
<1>4. Executes'
  BY <1>1, <1>2, ExecutesUnchanged
<1>5. Stored'
  BY <1>1, <1>2, StoredUnchanged
<1>6. Groups'
  <2>1. Refusals' BY <1>1, <1>2, RefusalsUnchanged DEF Groups
  <2>2. (Selected \/ Misreads)'
    BY <1>1, <1>2 DEF Groups, Selected, Misreads, MayHaveMisread, Refused411
  <2> QED BY <2>1, <2>2 DEF Groups
<1> QED BY <1>3, <1>4, <1>5, <1>6 DEF IInv

LEMMA NextKeeps ==
    ASSUME IInv, [Next]_vars
    PROVE  IInv'
<1>1. CASE Connect BY <1>1, ConnectKeeps
<1>2. CASE Ping BY <1>2, PingKeeps
<1>3. CASE Stop BY <1>3, CancelsKeep
<1>4. CASE Timeout \/ Lost BY <1>4, LossKeeps
<1>5. CASE \E c \in Cmdlists : Execute(c) \/ CancelList(c)
  <2>1. PICK c \in Cmdlists : Execute(c) \/ CancelList(c) BY <1>5
  <2>2. CASE Execute(c) BY <2>2, ExecuteKeeps
  <2>3. CASE CancelList(c) BY <2>3, CancelsKeep
  <2> QED BY <2>1, <2>2, <2>3
<1>6. CASE Thread
  <2>1. CASE \E c \in Cmdlists : Configure(c) \/ Configured(c) \/ Submit(c)
    <3>1. PICK c \in Cmdlists : Configure(c) \/ Configured(c) \/ Submit(c) BY <2>1
    <3> QED BY <3>1, ConfigureKeeps, ConfiguredKeeps, SubmitKeeps
  <2>2. CASE Initialized BY <2>2, InitializedKeeps
  <2>3. CASE Send BY <2>3, SendKeeps
  <2>4. CASE Canceled BY <2>4, CanceledKeeps
  <2>5. CASE Disconnect BY <2>5, DisconnectKeeps
  <2>6. CASE \E k \in 1 .. Len(wire) : Receive(k)
    BY <2>6, ReceiveKeeps
  <2> QED BY <2>1, <2>2, <2>3, <2>4, <2>5, <2>6, <1>6 DEF Thread
<1>7. CASE Answering BY <1>7, AnswerKeeps
<1>8. CASE UNCHANGED vars BY <1>8, StutterKeeps
<1> QED BY <1>1, <1>2, <1>3, <1>4, <1>5, <1>6, <1>7, <1>8 DEF Next

\* The inductive invariant.
THEOREM SessionInvariant == Spec => []IInv
<1>1. Init => IInv BY InitIInv
<1>2. IInv /\ [Next]_vars => IInv' BY NextKeeps
<1> QED BY <1>1, <1>2, PTL DEF Spec

\* The thread is where the loops of connection.cpp may be, and recv_next is
\* called only when a command is outstanding, as it asserts.
THEOREM SessionTypes == Spec => []TypeOK
<1>1. IInv => TypeOK BY DEF IInv, Types, Conversation, TypeOK, Outstanding
<1> QED BY <1>1, SessionInvariant, PTL

\* Unless a response was left in the receive buffer, the responses received,
\* on their way and to come are those of the outstanding commands in order.
LEMMA StaysInStep ==
    ASSUME IInv
    PROVE  InStep
<1> DEFINE q == ses.recv
           b == recvbuf
           w == wire
           n == net
           e == Before(q, w, n)
           t == b \o w
           f == SentFor(t)
           a == f \o n
<1> SUFFICES ASSUME waiting, ~Stale PROVE q = a
  BY DEF InStep, Outstanding
<1>1. /\ q \in Seq(Commands) /\ b \in Seq(Responses) /\ w \in Seq(Responses) /\ n \in Seq(Commands)
      /\ pc \notin {"idle", "closed"} /\ InOrder(q, w, n) /\ InBuffer(q, b, w, n)
  BY SessionFacts DEF IInv, Types, Conversation
<1>2. ~(Len(b) + Len(w) + Len(n) > Len(q))
  BY DEF Stale, Outstanding
<1> HIDE DEF q, b, w, n
<1>3. Len(q) \in Nat /\ Len(b) \in Nat /\ Len(w) \in Nat /\ Len(n) \in Nat
  BY <1>1, EmptyFacts
<1>4. /\ Len(b) = e /\ \A i \in 1 .. Len(b) : b[i].to = q[i]
      /\ Len(b) + Len(w) + Len(n) = Len(q)
  BY <1>1, <1>2, <1>3 DEF InBuffer, Before
<1>5. /\ t \in Seq(Responses) /\ Len(t) = Len(b) + Len(w)
      /\ \A i \in 1 .. Len(b) : t[i] = b[i]
      /\ \A i \in 1 .. Len(w) : t[Len(b) + i] = w[i]
  BY <1>1, JoinFacts
<1> HIDE DEF t
<1>6. \A i \in 1 .. Len(t) : t[i].to = q[i] /\ t[i].to \in Commands
  <2> TAKE i \in 1 .. Len(t)
  <2>1. t[i] \in Responses BY <1>5, EmptyFacts
  <2>2. t[i].to \in Commands BY <2>1 DEF Responses
  <2>3. CASE i \in 1 .. Len(b) BY <2>2, <2>3, <1>4, <1>5
  <2>4. CASE i \in Len(b) + 1 .. Len(b) + Len(w)
    <3>1. i - Len(b) \in 1 .. Len(w) /\ Len(b) + (i - Len(b)) = i BY <2>4, <1>3
    <3>2. t[Len(b) + (i - Len(b))] = w[i - Len(b)] BY <3>1, <1>5
    <3>3. w[i - Len(b)].to = q[e + (i - Len(b))] BY <3>1, <1>1 DEF InOrder
    <3> QED BY <3>1, <3>2, <3>3, <2>2, <1>4
  <2> QED BY <2>3, <2>4, <1>3, <1>5
<1>7. f \in Seq(Commands) /\ Len(f) = Len(t) /\ \A i \in 1 .. Len(t) : f[i] = q[i]
  BY <1>3, <1>5, <1>6 DEF SentFor
<1> HIDE DEF f
<1>8. /\ a \in Seq(Commands) /\ Len(a) = Len(f) + Len(n)
      /\ \A i \in 1 .. Len(f) : a[i] = f[i]
      /\ \A i \in 1 .. Len(n) : a[Len(f) + i] = n[i]
  <2>1. f \in Seq(Commands) /\ n \in Seq(Commands) BY <1>1, <1>7
  <2> QED BY <2>1, JoinFacts
<1> HIDE DEF a
<1>9. Len(q) = Len(a)
  BY <1>3, <1>4, <1>5, <1>7, <1>8
<1>10. ASSUME NEW i \in 1 .. Len(q) PROVE q[i] = a[i]
  <2>1. CASE i \in 1 .. Len(t) BY <2>1, <1>7, <1>8
  <2>2. CASE i \in Len(t) + 1 .. Len(t) + Len(n)
    <3>1. i - Len(t) \in 1 .. Len(n) /\ Len(t) + (i - Len(t)) = i BY <2>2, <1>3, <1>5
    <3>2. a[Len(t) + (i - Len(t))] = n[i - Len(t)] BY <3>1, <1>7, <1>8
    <3>3. n[i - Len(t)] = q[Len(q) - Len(n) + (i - Len(t))] BY <3>1, <1>1 DEF InOrder
    <3>4. Len(q) - Len(n) + (i - Len(t)) = i BY <1>3, <1>4, <1>5
    <3> QED BY <3>1, <3>2, <3>3, <3>4
  <2> QED BY <2>1, <2>2, <1>3, <1>4, <1>5
<1> QED BY <1>1, <1>8, <1>9, <1>10, EqualSequences

\* A response is given to the command it answers, and stored where that
\* command's answer belongs.
THEOREM ResponsesStayMatched == Spec => []ResponsesMatch
<1>1. IInv => ResponsesMatch BY StaysInStep DEF IInv, Stored, ResponsesMatch
<1> QED BY <1>1, SessionInvariant, PTL

\* A complete cmdlist has every answer, and what the session believes of the
\* group is so at the server unless a stale refusal may have been misread.
THEOREM CompleteMeansAnswered == Spec => []ResultsAreRight
<1>1. IInv => DoneIsAnswered BY DEF IInv, Stored
<1>2. ASSUME IInv PROVE GroupSelected
  <2> SUFFICES ASSUME pc = "idle", ~pending(ses), ses.group \in Carried, ~MayHaveMisread
               PROVE  ses.group = server.group
    BY DEF GroupSelected
  <2>1. /\ Types /\ Conversation /\ ses \in Sessions /\ recvbuf = <<>>
    BY <1>2 DEF IInv, Types, Conversation
  <2>2. Unanswered(ses) = <<>> BY <2>1, SessionFacts
  <2>3. wire = <<>> BY <2>1, <2>2, Quiet
  <2>4. Selected BY <1>2, <2>1 DEF IInv, Groups, Misreads, Refused411
  <2>5. <<>> \o <<>> = <<>> OBVIOUS
  <2>6. SameGroup(ses.group, server.group, <<>>) BY <2>1, <2>3, <2>4, <2>5 DEF Selected
  <2> QED BY <2>6 DEF SameGroup
<1>3. IInv => ResultsAreRight BY <1>1, <1>2 DEF ResultsAreRight
<1> QED BY <1>3, SessionInvariant, PTL

\* Without pipelining no loop waits for a response that does not come.
THEOREM WaitsForSomething == Spec => []AnswerIsComingInTurn
<1>1. ASSUME IInv PROVE AnswerIsComingInTurn
  <2> SUFFICES ASSUME ~ses.pipelining, waiting, net = <<>>, wire = <<>> PROVE FALSE
    BY DEF AnswerIsComingInTurn, AnswerIsComing
  <2>1. OneByOne /\ ses.recv # <<>>
    BY <1>1 DEF IInv, Types, Conversation
  <2>2. ses.recv \in Seq(Commands) BY <1>1, SessionFacts DEF IInv, Types
  <2>3. Len(<<>>) = 0 OBVIOUS
  <2>4. Len(ses.recv) - (0 + 0) = 0 BY <2>1, <2>3 DEF OneByOne, Before
  <2>5. Len(ses.recv) \in Nat /\ (ses.recv = <<>> <=> Len(ses.recv) = 0) BY <2>2, EmptyFacts
  <2> QED BY <2>1, <2>4, <2>5
<1> QED BY <1>1, SessionInvariant, PTL
=============================================================================
