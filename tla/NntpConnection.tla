--------------------------- MODULE NntpConnection ---------------------------
(***************************************************************************)
(* engine/connection.cpp and engine/cmdlist.h: the actions a connection's  *)
(* thread performs on its session, and the server they talk to.            *)
(*                                                                         *)
(* The actions of one connection run one after another on its thread, so   *)
(* there is one program counter; the server, the socket and the GUI thread *)
(* (which cancels cmdlists and stops the connection) interleave with it.   *)
(* Which action runs when is the engine's affair (Engine): here any action *)
(* may follow any other that leaves the connection usable.                 *)
(*                                                                         *)
(* A response is received whole: a partial one makes recv_next return      *)
(* false and the loop wait for more.  Throttling is in Throttle.           *)
(***************************************************************************)
EXTENDS NntpSession, Subsequences

CONSTANTS Cmdlists,       \* the cmdlists there are
          Workloads,      \* sets of cmdlists the engine may want executed
          cmdtype,        \* cmdlist::cmdtype_ of each
          groups,         \* cmdlist::groups_ of each
          commands,       \* cmdlist::commands_ of each
          Carried,        \* the newsgroups the server carries
          Pipelining,     \* the settings of spec::enable_pipelining to consider
          Compression,    \* and of spec::enable_compression
          Credentials,    \* whether the account has them
          MaxConnects     \* bound on the connections ever opened

ASSUME ConnectionAssumption ==
    /\ Pipelining \subseteq BOOLEAN
    /\ Compression \subseteq BOOLEAN
    /\ Credentials \subseteq BOOLEAN
    /\ NoGroup \in STRING /\ PingGroup \in STRING
    /\ groups \in [Cmdlists -> Seq(STRING)] /\ commands \in [Cmdlists -> Seq(STRING)]
    /\ \A c \in Cmdlists :
           /\ cmdtype[c] \in {"body", "xover", "listing", "groupinfo"}
           /\ cmdtype[c] = "groupinfo" => groups[c] # <<>>

VARIABLES
    ses,        \* state::session
    pc,         \* the action the thread performs
    waiting,    \* the loop has sent and waits for a response
    recvbuf,    \* the complete responses in the receive buffer
    config,     \* the status of the buffer of the configuration stage
    try,        \* the index of that stage's loop
    list,       \* the cmdlist execute works on
    buffers,    \* cmdlist::buffers_
    outcome,    \* what became of each cmdlist
    canceled,   \* cmdlist::cancelbit_
    cancel,     \* state::cancel, set by conn::stop
    thrown,     \* the exception that ended the last action
    net,        \* commands on their way to the server
    wire,       \* responses on their way to the client
    server,     \* the server's side: authenticated, selected group
    credentials, connects

cvars == <<buffers, outcome, canceled>>
svars == <<net, wire, server>>
vars  == <<ses, pc, waiting, recvbuf, config, try, list, buffers, outcome, canceled,
           cancel, thrown, net, wire, server, credentials, connects>>

Init ==
    /\ ses = NewSession(FALSE, FALSE)
    /\ pc = "closed" /\ waiting = FALSE
    /\ recvbuf = <<>> /\ config = "none" /\ try = 0
    /\ list = {}
    /\ buffers = [c \in Cmdlists |-> <<>>]
    /\ \E w \in Workloads :
           outcome = [c \in Cmdlists |-> IF c \in w THEN "new" ELSE "unwanted"]
    /\ canceled = [c \in Cmdlists |-> FALSE]
    /\ cancel = FALSE /\ thrown = "none"
    /\ net = <<>> /\ wire = <<>>
    /\ server = [authenticated |-> FALSE, group |-> NoGroup]
    /\ credentials \in Credentials
    /\ connects = 0

-----------------------------------------------------------------------------
(* cmdlist *)

\* The buffers submit_data_commands asks for again or for the first time.
Wanted(c) ==
    Only([i \in 1 .. Len(commands[c]) |-> i],
         {i \in 1 .. Len(commands[c]) :
             i > Len(buffers[c]) \/ buffers[c][i].status # "success"})

submit_data_commands(s, c) ==
    CASE cmdtype[c] = "listing"   -> retrieve_list(s)
      [] cmdtype[c] = "groupinfo" -> retrieve_group_info(s, groups[c][1])
      [] OTHER ->
            [s EXCEPT !.send = @ \o [k \in 1 .. Len(Wanted(c)) |->
                                        Command(cmdtype[c], commands[c][Wanted(c)[k]])]]

\* The buffers that are asked for again are cleared.
Resubmitted(c) ==
    IF cmdtype[c] \in {"listing", "groupinfo"} THEN buffers[c]
    ELSE [i \in 1 .. Len(buffers[c]) |->
             IF buffers[c][i].status = "success" THEN buffers[c][i] ELSE EmptyBuffer]

\* The first buffer without a status takes the response, else it is appended.
receive_data_buffer(bs, b) ==
    LET free == {i \in 1 .. Len(bs) : bs[i].status = "none"}
    IN  IF free = {} THEN Append(bs, b)
        ELSE [bs EXCEPT ![CHOOSE i \in free : \A j \in free : i <= j] = b]

-----------------------------------------------------------------------------
(* The ends of an action. *)

\* Mutant: the wait is not over.
LeaveWaiting(s, at) ==
    /\ ses' = s /\ pc' = at /\ UNCHANGED waiting
    /\ recvbuf' = <<>> /\ list' = {} /\ try' = 0 /\ config' = "none"

\* The receive buffer and the loop variables are local to an action.
Leave(s, at) ==
    /\ ses' = s /\ pc' = at /\ waiting' = FALSE
    /\ recvbuf' = <<>> /\ list' = {} /\ try' = 0 /\ config' = "none"

Returns(s, left) ==
    /\ Leave(s, "idle")
    /\ wire' = left
    /\ UNCHANGED <<thrown, net, server>>

\* The action throws or closes the socket: the session is of no more use.
\* What was received stays with the cmdlist, which is executed again later.
Closes(error) ==
    /\ Leave(NewSession(FALSE, FALSE), "closed")
    /\ thrown' = error
    /\ net' = <<>> /\ wire' = <<>>
    /\ server' = [authenticated |-> FALSE, group |-> NoGroup]

\* The thread goes on in the same action.
Goes(s, at, left) ==
    /\ ses' = s /\ pc' = at /\ waiting' = FALSE
    /\ wire' = left
    /\ UNCHANGED <<list, thrown, net, server>>

Outcome(c, o) == outcome' = [outcome EXCEPT ![c] = o]

-----------------------------------------------------------------------------
(* The actions the engine submits. *)

\* connection::connect, then initialize with a new socket and session.
Connect ==
    /\ pc = "closed" /\ connects < MaxConnects
    /\ thrown \notin {"rejected", "no_permission"}
    /\ \E p \in Pipelining, z \in Compression : ses' = start(NewSession(p, z))
    /\ pc' = "init" /\ connects' = connects + 1
    /\ cancel' = FALSE /\ thrown' = "none"
    /\ UNCHANGED <<waiting, recvbuf, config, try, list, credentials, buffers,
                   outcome, canceled, net, wire, server>>

\* execute: nothing is configured for a listing or for group information.
Execute(c) ==
    /\ pc = "idle" /\ ~cancel /\ outcome[c] = "new"
    /\ IF canceled[c]
       THEN Outcome(c, "dropped") /\ UNCHANGED <<pc, list>>
       ELSE /\ list' = {c} /\ UNCHANGED outcome
            /\ pc' = IF cmdtype[c] \in {"body", "xover"} THEN "configure" ELSE "submit"
    /\ UNCHANGED <<ses, waiting, recvbuf, config, try, buffers, canceled, cancel,
                   thrown, net, wire, server, credentials, connects>>

Ping ==
    /\ pc = "idle" /\ ~cancel
    /\ Goes(ping(ses), "ping", wire)
    /\ UNCHANGED <<recvbuf, config, try, cvars, cancel, credentials, connects>>

\* disconnect closes the socket at once when commands are outstanding.
Disconnect ==
    /\ pc = "idle" /\ cancel
    /\ IF pending(ses) THEN Closes("none")
       ELSE Goes(quit(ses), "quit", wire) /\ UNCHANGED <<recvbuf, config, try>>
    /\ UNCHANGED <<cvars, cancel, credentials, connects>>

-----------------------------------------------------------------------------
(* execute, between its exchanges with the server. *)

\* submit_configure_command; a group that is selected already takes no exchange.
Configure(c) ==
    /\ pc = "configure" /\ c \in list
    /\ IF try = Len(groups[c])
       THEN Returns(ses, wire) /\ Outcome(c, "failed")
       ELSE LET s == change_group(ses, groups[c][try + 1])
            IN  /\ Goes(s, IF pending(s) THEN "config" ELSE "submit", wire)
                /\ config' = "none"
                /\ UNCHANGED <<recvbuf, try, outcome>>
    /\ UNCHANGED <<buffers, canceled, cancel, credentials, connects>>

\* receive_configure_buffer, after the exchange for the try'th group.
Configured(c) ==
    /\ pc = "config" /\ c \in list /\ ~waiting /\ ~MaySend(ses)
    /\ IF ses.error # "none"
       THEN Closes(ses.error)
       ELSE /\ IF config = "success" THEN Goes(ses, "submit", wire) /\ UNCHANGED try
                                     ELSE Goes(ses, "configure", wire) /\ try' = try + 1
            /\ UNCHANGED <<recvbuf, config>>
    /\ UNCHANGED <<cvars, cancel, credentials, connects>>

\* submit_data_commands, unless the cmdlist was canceled meanwhile.
Submit(c) ==
    /\ pc = "submit" /\ c \in list
    /\ LET s == submit_data_commands(ses, c)
       IN  IF canceled[c]
           THEN Returns(ses, wire) /\ Outcome(c, "dropped") /\ UNCHANGED buffers
           ELSE /\ buffers' = [buffers EXCEPT ![c] = Resubmitted(c)]
                /\ IF pending(s)
                   THEN /\ Goes(s, "data", wire)
                        /\ UNCHANGED <<recvbuf, config, try, outcome>>
                   ELSE Returns(s, wire) /\ Outcome(c, "done")
    /\ UNCHANGED <<canceled, cancel, credentials, connects>>

\* initialize has no more to send.
Initialized ==
    /\ pc = "init" /\ ~waiting /\ ~MaySend(ses)
    /\ IF ses.error # "none" THEN Closes(ses.error) ELSE Returns(ses, wire)
    /\ UNCHANGED <<cvars, cancel, credentials, connects>>

-----------------------------------------------------------------------------
(* The loops that send and receive. *)

Exchanging == pc \in {"init", "config", "data", "ping", "quit"}

\* The loops of execute, ping and disconnect go on to wait even when
\* send_next sends nothing.
Send ==
    /\ Exchanging /\ ~waiting
    /\ MaySend(ses) \/ pc \in {"data", "ping", "quit"}
    /\ IF MaySend(ses)
       THEN ses' = send_next(ses) /\ net' = net \o OnSend(ses)
       ELSE UNCHANGED <<ses, net>>
    /\ waiting' = TRUE
    /\ UNCHANGED <<pc, recvbuf, config, try, list, cvars, cancel, thrown, wire,
                   server, credentials, connects>>

\* What each loop does with a response that recv_next has parsed.
Received(s, rest, b, left) ==
    CASE pc \in {"init", "config"} ->
            /\ Goes(s, pc, left)
            /\ config' = (IF b.status = "none" THEN config ELSE b.status)
            /\ recvbuf' = rest
            /\ UNCHANGED <<try, buffers, outcome>>
      [] pc = "ping" ->
            /\ IF pending(s) THEN Goes(s, pc, left) /\ recvbuf' = rest /\ UNCHANGED <<config, try>>
                             ELSE Returns(s, left)
            /\ UNCHANGED <<buffers, outcome>>
      [] pc = "quit" -> Closes("none") /\ UNCHANGED <<buffers, outcome>>
      [] pc = "data" ->
            \A c \in list :
                IF s.error # "none"
                THEN Closes("no_permission") /\ UNCHANGED <<buffers, outcome>>
                ELSE /\ buffers' = [buffers EXCEPT ![c] = receive_data_buffer(@, b)]
                     /\ IF canceled[c] /\ s.pipelining
                        THEN Closes("pipeline_reset") /\ Outcome(c, "dropped")
                        ELSE IF canceled[c]
                        THEN Returns(clear(s), left) /\ Outcome(c, "dropped")
                        ELSE IF ~pending(s)
                        THEN Returns(s, left) /\ Outcome(c, "done")
                        ELSE /\ Goes(s, pc, left) /\ recvbuf' = rest
                             /\ UNCHANGED <<config, try, outcome>>

\* The loop receives the first k responses and parses one.
Receive(k) ==
    /\ Exchanging /\ waiting /\ ~(cancel /\ pc \in {"init", "config", "data"})
    /\ k \in 1 .. Len(wire)
    /\ LET buff == recvbuf \o SubSeq(wire, 1, k)
           r    == Head(buff)
           c    == Head(ses.recv)
       IN  IF Throws(ses, r, credentials)
           THEN Closes("error") /\ UNCHANGED <<buffers, outcome>>
           ELSE Received(recv_next(ses, r), Rest(c, buff), Output(c, r),
                         SubSeq(wire, k + 1, Len(wire)))
    /\ UNCHANGED <<canceled, cancel, credentials, connects>>

\* Nothing comes for long enough; disconnect does not mind.
Timeout ==
    /\ Exchanging /\ waiting /\ wire = <<>>
    /\ Closes(IF pc = "quit" THEN "none" ELSE "timeout")
    /\ UNCHANGED <<cvars, cancel, credentials, connects>>

\* The server closes the connection.
Lost ==
    /\ Exchanging /\ waiting
    /\ Closes(IF pc = "quit" THEN "none" ELSE "network")
    /\ UNCHANGED <<cvars, cancel, credentials, connects>>

\* The cancellation event ends initialize and execute where they wait.
Canceled ==
    /\ pc \in {"init", "config", "data"} /\ waiting /\ cancel
    /\ Returns(ses, wire)
    /\ UNCHANGED <<cvars, cancel, credentials, connects>>

-----------------------------------------------------------------------------
(* The GUI thread and the server. *)

\* A task was killed: cmdlist::cancel sets the bit the thread polls.
CancelList(c) ==
    /\ ~canceled[c] /\ outcome[c] = "new"
    /\ canceled' = [canceled EXCEPT ![c] = TRUE]
    /\ UNCHANGED <<ses, pc, waiting, recvbuf, config, try, list, buffers, outcome,
                   cancel, thrown, svars, credentials, connects>>

\* conn::stop
Stop ==
    /\ pc # "closed" /\ ~cancel
    /\ cancel' = TRUE
    /\ UNCHANGED <<ses, pc, waiting, recvbuf, config, try, list, cvars, thrown,
                   svars, credentials, connects>>

\* The codes a server may answer with; authuser treats 281 like 381.
Answers(c) ==
    LET open == IF server.authenticated THEN {} ELSE {480}
    IN  {400} \cup
        CASE c.kind = "welcome"    -> {200}
          [] c.kind = "getcaps"    -> {101, 500} \cup open
          [] c.kind = "authuser"   -> {381, 482}
          [] c.kind = "authpass"   -> {281, 482, 502}
          [] c.kind = "modereader" -> {200} \cup open
          [] c.kind = "xfeature"   -> {200, 500} \cup open
          [] c.kind = "group"      -> {IF c.arg \in Carried THEN 211 ELSE 411} \cup open
          [] c.kind = "body"       -> {222, 430} \cup open
          [] c.kind = "xover"      -> {IF server.group = NoGroup THEN 412 ELSE 224}
          [] c.kind = "list"       -> {215} \cup open
          [] c.kind = "quit"       -> {205}

\* External: the server answers its oldest command.
Answer(code, good) ==
    LET c == Head(net)
    IN  /\ net # <<>> /\ code \in Answers(c)
        /\ good \/ (c.kind = "xover" /\ ses.compression /\ code = 224)
        /\ net' = Tail(net)
        /\ wire' = Append(wire, Response(c, code, good))
        /\ server' = [authenticated |-> server.authenticated
                                        \/ (c.kind = "authpass" /\ code = 281),
                      group |-> IF code = 211 THEN c.arg ELSE server.group]
        /\ UNCHANGED <<ses, pc, waiting, recvbuf, config, try, list, cvars, cancel,
                       thrown, credentials, connects>>

Thread ==
    \/ \E c \in Cmdlists : Configure(c) \/ Configured(c) \/ Submit(c)
    \/ Initialized \/ Send \/ Canceled \/ Disconnect
    \/ \E k \in 1 .. Len(wire) : Receive(k)

Answering == \E code \in AnyCode, good \in BOOLEAN : Answer(code, good)

Next ==
    \/ Connect \/ Ping \/ Stop \/ Timeout \/ Lost
    \/ \E c \in Cmdlists : Execute(c) \/ CancelList(c)
    \/ Thread
    \/ Answering

Spec == Init /\ [][Next]_vars
=============================================================================
