----------------------------- MODULE WebEngine -----------------------------
(***************************************************************************)
(* app/webengine.cpp and webquery.cpp: the HTTP queries of the application *)
(* and the clients that wait for them (app/search.cpp, rssreader.cpp).     *)
(*                                                                         *)
(* All of it runs on the GUI thread, but not one call at a time.  OnReply, *)
(* the callback of a query, belongs to a client: it may submit a query, or *)
(* show a message box (gui/dlgfeedback.cpp, dlgnewznab.cpp), whose event   *)
(* loop runs timers and network events before OnReply returns.  So a       *)
(* callback is an interval: it begins with a frame on the stack of calls   *)
(* and ends with Return, and meanwhile anything else may happen.           *)
(*                                                                         *)
(* submit is an interval too.  The client gets the pointer to its query    *)
(* when submit returns, and the heartbeat in it may call back before:      *)
(* other queries that timed out, whose event loops let this one finish, or *)
(* this one itself when its time is one heartbeat.  Most clients look the  *)
(* query of a reply up among their pointers with ENDCHECK, which ends the  *)
(* program when it is not there; a dialog just keeps the pointer, to a     *)
(* query that does not exist any more.                                     *)
(*                                                                         *)
(* A heartbeat calls the queries that timed out back one after the other   *)
(* while it walks m_dead.  When it comes back to a list that another       *)
(* heartbeat has cleared meanwhile, the behaviour is undefined; the model  *)
(* notes it and says nothing of what follows.                              *)
(***************************************************************************)
EXTENDS Naturals, SequencesExt, FiniteSetsExt, Subsequences

CONSTANTS Queries,      \* every query that may be submitted
          Client,       \* the client of each
          Checking,     \* the clients that look up the query of a reply
          Timeouts,     \* the values of m_timeout, in heartbeats
          MaxDepth      \* bound on the callbacks that have not returned

ASSUME WebAssumption == Timeouts \subseteq Nat \ {0} /\ MaxDepth \in Nat

VARIABLES
    live,       \* m_live
    dead,       \* m_dead
    timer,      \* m_timer.isActive()
    timeout,    \* m_timeout
    query,      \* each query: active, aborted, ticks, finished (its reply has)
    replied,    \* how often OnReply of each was called
    held,       \* queries_ of the clients
    frames,     \* the callbacks that have not returned
    clears,     \* how often m_dead was cleared
    early,      \* history: the queries that were called back before submit
                \* had returned
    steady,     \* history: m_timeout was always more than one, and not lowered
    status      \* "up", "gone" after the destructor, "aborted" by ENDCHECK,
                \* "undefined"

vars == <<live, dead, timer, timeout, query, replied, held, frames, clears, early, steady, status>>

Init ==
    /\ live = <<>> /\ dead = <<>> /\ timer = FALSE /\ timeout \in Timeouts
    /\ query = [q \in Queries |-> [submitted |-> FALSE, active |-> FALSE, aborted |-> FALSE,
                                   finished |-> FALSE, ticks |-> 0]]
    /\ replied = [q \in Queries |-> 0]
    /\ held = {} /\ frames = <<>> /\ clears = 0 /\ early = {} /\ steady = (timeout > 1)
    /\ status = "up"

Now == [live |-> live, dead |-> dead, timer |-> timer, query |-> query, replied |-> replied,
        held |-> held, frames |-> frames, clears |-> clears, early |-> early]
Becomes(s) ==
    /\ live' = s.live /\ dead' = s.dead /\ timer' = s.timer /\ query' = s.query
    /\ replied' = s.replied /\ held' = s.held /\ frames' = s.frames /\ clears' = s.clears
    /\ early' = s.early

\* ENDCHECK(queries_, it)
Fails(s) == \E q \in s.early : Client[q] \in Checking
GoesOn(s) == Becomes(s) /\ status' = IF Fails(s) THEN "aborted" ELSE status

-----------------------------------------------------------------------------
(* The reply of a query. *)

\* Mutant: the reply of an aborted query is not discarded.
ReceiveAnyway(s, q, at, submits) ==
    [s EXCEPT !.query[q].finished = TRUE, !.replied[q] = @ + 1,
              !.early = IF q \in s.held THEN @ ELSE @ \cup {q},
              !.held = @ \ {q},
              !.frames = Append(@, [q |-> q, at |-> at, clears |-> s.clears, submits |-> submits])]

\* receive: OnReply is called unless the query was aborted.  The first thing
\* a client does in it is to forget the query, if it has its pointer yet.
Receive(s, q, at, submits) ==
    IF s.query[q].aborted THEN [s EXCEPT !.query[q].finished = TRUE]
    ELSE [s EXCEPT !.query[q].finished = TRUE, !.replied[q] = @ + 1,
                   !.early = IF q \in s.held THEN @ ELSE @ \cup {q},
                   !.held = @ \ {q},
                   !.frames = Append(@, [q |-> q, at |-> at, clears |-> s.clears,
                                         submits |-> submits])]

-----------------------------------------------------------------------------
(* heartbeat *)

FinishEarly(s) ==  \* mutant: queries that wait to be submitted are not looked at
    IF \A i \in 1 .. Len(s.live) : ~s.query[s.live[i]].active
    THEN [s EXCEPT !.timer = FALSE] ELSE s
Finish(s) == IF s.live = <<>> THEN [s EXCEPT !.timer = FALSE] ELSE s

\* The carcasses that abort() of their reply still makes call back: those the
\* client has not aborted and whose reply has not finished.
Calling(s, i) ==
    {j \in i .. Len(s.dead) : ~s.query[s.dead[j]].aborted /\ ~s.query[s.dead[j]].finished}

\* The walk over m_dead from its i'th element on, up to the next callback.  When
\* it ends, so does the submit that called heartbeat, and its client keeps the
\* pointer: submits has that query or none.
Walk(s, i, submits) ==
    IF Calling(s, i) # {}
    THEN Receive(s, s.dead[Min(Calling(s, i))], Min(Calling(s, i)), submits)
    ELSE Finish([s EXCEPT !.dead = <<>>, !.clears = @ + 1, !.held = @ \cup submits])

\* One query that was not yet submitted is submitted.
SubmitNext(s) ==
    LET waiting == {i \in 1 .. Len(s.live) : ~s.query[s.live[i]].active
                                             /\ ~s.query[s.live[i]].aborted}
    IN  IF waiting = {} THEN s ELSE [s EXCEPT !.query[s.live[Min(waiting)]].active = TRUE]

RemoveAborted(s) == [s EXCEPT !.live = Without(@, {q \in Queries : s.query[q].aborted})]

Ticked(s) ==
    [q \in Queries |-> IF q \in Range(s.live) /\ s.query[q].active
                       THEN [s.query[q] EXCEPT !.ticks = @ + 1] ELSE s.query[q]]
Late(s) == {q \in Range(s.live) : s.query[q].active /\ Ticked(s)[q].ticks >= timeout}

\* Mutant: the queries that time out are dropped.
TickDrops(s) ==
    [s EXCEPT !.query = Ticked(s), !.live = Without(@, Late(s))]

\* Active queries are ticked, and those that time out move to m_dead.
Tick(s) ==
    [s EXCEPT !.query = Ticked(s),
              !.live  = Without(@, Late(s)),
              !.dead  = @ \o Only(s.live, Late(s))]

heartbeat(s, submits) ==
    LET t == Tick(RemoveAborted(SubmitNext(s)))
    IN  IF t.dead = <<>> THEN Finish([t EXCEPT !.held = @ \cup submits]) ELSE Walk(t, 1, submits)

-----------------------------------------------------------------------------
(* The clients, the timer and the network. *)

Runs == status = "up" /\ Len(frames) < MaxDepth

\* submit, called by a client that keeps the pointer it returns.
Submit(q) ==
    /\ Runs /\ ~query[q].submitted
    /\ LET s == [Now EXCEPT !.live = Append(@, q), !.timer = TRUE, !.query[q].submitted = TRUE]
       IN  GoesOn(IF Len(s.live) = 1 THEN heartbeat(s, {q}) ELSE [s EXCEPT !.held = @ \cup {q}])
    /\ UNCHANGED <<timeout, steady>>

\* stop: the client aborts its queries and forgets them.  abort of one that
\* does not exist any more is undefined.
Stop(c) ==
    LET mine == {q \in held : Client[q] = c}
    IN  /\ status = "up" /\ mine # {}
        /\ query' = [q \in Queries |-> IF q \in mine THEN [query[q] EXCEPT !.aborted = TRUE]
                                                     ELSE query[q]]
        /\ held' = held \ mine
        /\ status' = IF mine \subseteq Range(live) \cup Range(dead) THEN status ELSE "undefined"
        /\ UNCHANGED <<live, dead, timer, timeout, replied, frames, clears, early, steady>>

SetTimeout(n) ==
    /\ status = "up" /\ frames = <<>> /\ timeout # n
    /\ timeout' = n /\ steady' = (steady /\ n > timeout)
    /\ UNCHANGED <<live, dead, timer, query, replied, held, frames, clears, early, status>>

Heartbeat ==
    /\ Runs /\ timer
    /\ GoesOn(heartbeat(Now, {}))
    /\ UNCHANGED <<timeout, steady>>

\* The network finishes a reply; an aborted query's reply is found in m_live
\* when it had finished before the abort.
Finished(q) ==
    /\ Runs /\ query[q].active /\ ~query[q].finished
    /\ q \in Range(live) \cup Range(dead)
    /\ GoesOn(Receive([Now EXCEPT !.live = Without(@, {q})], q, 0, {}))
    /\ UNCHANGED <<timeout, steady>>

\* OnReply returns: to the event loop, or to the heartbeat that walks m_dead.
Return ==
    /\ status = "up" /\ frames # <<>>
    /\ LET f == Last(frames)
           s == [Now EXCEPT !.frames = Front(@)]
       IN  IF f.at = 0 THEN GoesOn(s)
           ELSE IF f.clears # clears
           THEN Becomes(s) /\ status' = "undefined"
           ELSE GoesOn(Walk(s, f.at + 1, f.submits))
    /\ UNCHANGED <<timeout, steady>>

\* The destructor aborts what is still live.
Destroy ==
    /\ status = "up" /\ frames = <<>>
    /\ status' = "gone" /\ timer' = FALSE
    /\ query' = [q \in Queries |-> IF q \in Range(live) THEN [query[q] EXCEPT !.aborted = TRUE]
                                                        ELSE query[q]]
    /\ UNCHANGED <<live, dead, timeout, replied, held, frames, clears, early, steady>>

Next ==
    \/ \E q \in Queries : Submit(q) \/ Finished(q)
    \/ \E c \in Range(Client) : Stop(c)
    \/ \E n \in Timeouts : SetTimeout(n)
    \/ Heartbeat \/ Return \/ Destroy

Spec == Init /\ [][Next]_vars

\* The timer fires while it runs, and a callback returns.  Nothing is assumed
\* of the network.  This is weak fairness with ENABLED spelled out, which TLC
\* evaluates too slowly; neither action ever leaves the state as it is.
Fairness ==
    /\ []<>~(Runs /\ timer) \/ []<><<Heartbeat>>_vars
    /\ []<>~(status = "up" /\ frames # <<>>) \/ []<><<Return>>_vars

FairSpec == Spec /\ Fairness

-----------------------------------------------------------------------------
(* Properties *)

\* A query is in one place at most, and only those submitted are anywhere.
TypeOK ==
    /\ IsInjective(live \o dead)
    /\ \A q \in Range(live \o dead) : query[q].submitted
    /\ timer \in BOOLEAN /\ timeout \in Timeouts
    /\ held \subseteq Queries
    /\ \A i \in 1 .. Len(frames) : frames[i].at \in Nat

\* "This will not invoke the OnReply callback" (abort) and every other query
\* is called back once at most, whether its reply, its timeout or the abort
\* comes first and however the callbacks are nested.
RepliedOnce ==
    \A q \in Queries : replied[q] <= 1 /\ (query[q].aborted /\ status = "up" => replied[q] = 0)

\* submit: "the pointer will be valid untill the query completes", so that the
\* pointers the clients keep and call abort on are those of queries that still
\* exist, except of one that completed before submit had returned, to a client
\* that does not look up its queries.
HeldIsValid ==
    status = "up" =>
        \A q \in held : q \in Range(live) \cup Range(dead)
                       \/ (q \in early /\ Client[q] \notin Checking)

\* With the timeout of the application, which is 30 seconds and never set, that
\* does not happen: one query times out at a heartbeat, so that the heartbeat in
\* submit has nobody left to call back, and a client has its pointer when OnReply
\* is called.  ENDCHECK finds it then.
KnownInTime == steady => early = {} /\ status # "aborted"

\* A query is on one list at most, and its client knows it from submit to OnReply.
ListsSound == TypeOK /\ HeldIsValid /\ KnownInTime

\* Every query is called back or aborted in the end, however silent the
\* network is, unless the engine is destroyed.
QueryEnds ==
    \A q \in Queries :
        query[q].submitted ~> replied[q] = 1 \/ query[q].aborted \/ status # "up"
=============================================================================
