----------------------------- MODULE EngineConn -----------------------------
(***************************************************************************)
(* class engine::conn (engine.cpp) and the state::enqueue that feeds it:   *)
(* the GUI thread's side of a connection.  Its actions run on the          *)
(* connection's private thread, first in first out (module ThreadPool).    *)
(***************************************************************************)
EXTENDS EngineState

\* The state do_action gives the connection for each kind of action; a ping
\* leaves it alone.
StateDuring(kind, st) ==
    CASE kind = "resolve"    -> "resolving"
      [] kind = "connect"    -> "connecting"
      [] kind = "initialize" -> "initializing"
      [] kind = "execute"    -> "active"
      [] kind = "disconnect" -> "disconnected"
      [] kind = "ping"       -> st

\* conn::do_action with the state::submit it ends in.
ConnSubmit(S, c, a) ==
    [S EXCEPT !.conn[c].st = StateDuring(a.kind, @),
              !.queue[c] = Append(@, a),
              !.num_pending_actions = @ + 1]

\* conn's constructor for account acc, and its place in conns.
ConnCreate(S, acc) ==
    IF FreeConns(S) = {} THEN S ELSE
    LET c == Min(FreeConns(S))
        New == [S EXCEPT !.conn[c] = [NoConn EXCEPT !.account = acc],
                         !.conns = Append(@, c)]
    IN  ConnSubmit(New, c, ConnAction("resolve", c))

\* conn::execute
ConnExecute(S, c, k) == ConnSubmit(S, c, ExecuteAction(c, k, S.cl[k].task))

\* conn::stop; the thread is detached, and finishes what it has queued.
ConnStop(S, c) ==
    IF S.conn[c].st = "disconnected" THEN S ELSE
    LET Canceled == [S EXCEPT !.conn[c].cancel = TRUE]
    IN  IF S.conn[c].st \in {"connected", "active"}
        THEN ConnSubmit(Canceled, c, ConnAction("disconnect", c))
        ELSE Canceled

\* conn::tick when ticks_to_ping_ runs out.
ConnPing(S, c) ==
    ConnSubmit([S EXCEPT !.conn[c].pinged = TRUE], c, ConnAction("ping", c))

\* conn::tick when ticks_to_conn_ runs out.
ConnReconnect(S, c) == ConnSubmit(S, c, ConnAction("resolve", c))

\* conn::on_action with connection::complete, which names the next action.
ConnOnAction(S, c, a) ==
    LET Reset == [S EXCEPT !.conn[c].pinged = FALSE]
    IN  CASE a.exc # "none" ->
               [Reset EXCEPT !.conn[c].st = "error",
                             !.conn[c].fatal = a.exc = "rejected"]
          [] a.exc = "none" /\ a.kind = "resolve" ->
               ConnSubmit(Reset, c, ConnAction("connect", c))
          [] a.exc = "none" /\ a.kind = "connect" ->
               ConnSubmit(Reset, c, ConnAction("initialize", c))
          [] OTHER ->
               [Reset EXCEPT !.conn[c].st =
                    IF @ \in {"initializing", "active"} THEN "connected" ELSE @]

\* state::enqueue: hand cmdlist k to the first ready connection of its
\* account, or leave it in cmds and open another connection if the account
\* allows one.
Enqueue(S, k) ==
    LET acc    == S.cl[k].account
        Queued == [S EXCEPT !.cl[k].conn = 0, !.cmds = Append(@, k)]
        ready  == {i \in ConnsOf(S, acc) : IsReady(S, S.conns[i])}
    IN  CASE ~S.started -> Queued
          [] S.started /\ ready # {} ->
               LET c == S.conns[Min(ready)]
               IN  ConnExecute([Queued EXCEPT !.cl[k].conn = c], c, k)
          [] S.started /\ ready = {} /\ Cardinality(ConnsOf(S, acc)) < Connections[acc] ->
               ConnCreate(Queued, acc)
          [] OTHER -> Queued
=============================================================================
