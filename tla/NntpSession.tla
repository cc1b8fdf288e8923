---------------------------- MODULE NntpSession ----------------------------
(***************************************************************************)
(* engine/session.{h,cpp}: the client's side of an NNTP conversation.      *)
(*                                                                         *)
(* A session holds the commands still to be sent (send_) and the commands  *)
(* whose answer is outstanding (recv_).  A response is matched to the      *)
(* command at the head of recv_ by its position alone: nothing in an NNTP  *)
(* response names the command it answers.                                  *)
(*                                                                         *)
(* The session is a value and its methods are operators on it; the threads *)
(* that call them are in NntpConnection.  Of a response the model keeps    *)
(* the status code, whether its deflated data can be inflated (good) and   *)
(* the command the server sent it for (to), which the program cannot see.  *)
(* The logging, the state enumeration (read by the tests only) and         *)
(* has_gzip, has_xzver and has_modereader (never read) are left out.       *)
(***************************************************************************)
EXTENDS Naturals, Sequences

CONSTANTS NoGroup,     \* the empty name of impl::group
          PingGroup    \* "keeping.session.alive"

Command(kind, arg)       == [kind |-> kind, arg |-> arg]
Response(c, code, good)  == [to |-> c, code |-> code, good |-> good]
Buffer(status, of)       == [status |-> status, of |-> of]
NoCommand                == Command("none", NoGroup)
EmptyBuffer              == Buffer("none", NoCommand)

can_pipeline(c) == c.kind \in {"body", "xover"}

-----------------------------------------------------------------------------
(* The queue of commands. *)

NewSession(pipelining, compression) ==
    [send |-> <<>>, recv |-> <<>>, group |-> NoGroup, have_caps |-> FALSE,
     error |-> "none", pipelining |-> pipelining, compression |-> compression]

Queue(s, kind, arg) == [s EXCEPT !.send = Append(@, Command(kind, arg))]

\* The greeting is the answer to the command whose string is empty.
start(s) ==
    [s EXCEPT !.send = @ \o <<Command("welcome", NoGroup), Command("getcaps", NoGroup),
                              Command("modereader", NoGroup)>>
                         \o IF s.compression THEN <<Command("xfeature", NoGroup)>>
                                             ELSE <<>>]

change_group(s, g)        == IF g = s.group THEN s ELSE Queue(s, "group", g)
retrieve_group_info(s, g) == Queue(s, "group", g)
retrieve_article(s, id)   == Queue(s, "body", id)
retrieve_headers(s, r)    == Queue(s, "xover", r)
retrieve_list(s)          == Queue(s, "list", NoGroup)
ping(s)                   == Queue(s, "group", PingGroup)
quit(s)                   == Queue(s, "quit", NoGroup)
clear(s)                  == [s EXCEPT !.send = <<>>, !.recv = <<>>]
pending(s)                == s.send # <<>> \/ s.recv # <<>>

-----------------------------------------------------------------------------
(* send_next *)

\* send_next returns false without sending anything unless this holds.
MaySend(s) ==
    /\ s.send # <<>>
    /\ s.recv # <<>> => can_pipeline(s.recv[Len(s.recv)]) /\ s.pipelining

\* Mutant: the pipelining flag is not looked at.
BurstAlways(s) ==
    CHOOSE n \in 1 .. Len(s.send) :
        /\ \A i \in 2 .. n : can_pipeline(s.send[i])
        /\ n = Len(s.send) \/ ~can_pipeline(s.send[n + 1])

\* How many commands the loop sends: one, and with pipelining the run of
\* pipelineable commands that follows it.
Burst(s) ==
    IF ~s.pipelining THEN 1
    ELSE CHOOSE n \in 1 .. Len(s.send) :
             /\ \A i \in 2 .. n : can_pipeline(s.send[i])
             /\ n = Len(s.send) \/ ~can_pipeline(s.send[n + 1])

OnSend(s)    == SubSeq(s.send, 1, Burst(s))
send_next(s) == [s EXCEPT !.recv = @ \o OnSend(s),
                          !.send = SubSeq(@, Burst(s) + 1, Len(@))]

-----------------------------------------------------------------------------
(* recv_next: what command::parse makes of the response at the head of the *)
(* receive buffer.                                                         *)

AnyCode == {101, 200, 205, 211, 215, 222, 224, 281, 381, 400, 411, 412, 430,
            480, 482, 500, 502}

\* The codes scan_response lets pass; any other code is an exception.
Accepts(c) ==
    CASE c.kind = "welcome"    -> {200}
      [] c.kind = "authuser"   -> {281, 381, 482, 502}
      [] c.kind = "authpass"   -> {281, 482, 502}
      [] c.kind = "modereader" -> {200, 480}
      [] c.kind = "group"      -> {211, 411, 480}
      [] c.kind = "body"       -> {222, 430}
      [] c.kind = "xover"      -> {224}
      [] c.kind = "list"       -> {215, 480}
      [] c.kind = "quit"       -> {205}
      [] OTHER                 -> AnyCode    \* getcaps and xfeature look at it only

Challenged(c, code) ==
    code = 480 /\ c.kind \in {"getcaps", "modereader", "xfeature", "group", "list"}

\* xovergzip leaves what it cannot inflate in the buffer, group leaves the 411.
Leaves(c, r) ==
    \/ c.kind = "group" /\ r.code = 411
    \/ c.kind = "xover" /\ ~r.good
    \/ c.kind = "quit"

Splits(c, code) == c.kind \in {"group", "body", "xover", "list"} /\ code # 480

\* Mutant: the buffer is always cleared.
RestClears(c, buff) == IF Leaves(c, Head(buff)) THEN buff ELSE <<>>

\* The receive buffer after parse: split takes the response, clear takes all.
Rest(c, buff) ==
    IF Leaves(c, Head(buff)) THEN buff
    ELSE IF Splits(c, Head(buff).code) THEN Tail(buff) ELSE <<>>

\* The output buffer after parse.
Output(c, r) ==
    CASE ~Splits(c, r.code)                                   -> EmptyBuffer
      [] Splits(c, r.code) /\ ~r.good                         -> Buffer("error", r.to)
      [] Splits(c, r.code) /\ r.good /\ r.code \in {411, 430} -> Buffer("unavailable", r.to)
      [] OTHER                                                -> Buffer("success", r.to)

AuthError(c, code) ==
    CASE c.kind \in {"authuser", "authpass"} /\ code = 482 -> "rejected"
      [] c.kind \in {"authuser", "authpass"} /\ code = 502 -> "no_permission"
      [] OTHER                                             -> "none"

\* Mutant: a group counts as selected when the server asks for a password.
ParsedAnyway(s, c, code) ==
    [s EXCEPT !.group       = IF c.kind = "group" THEN c.arg ELSE @,
              !.have_caps   = @ \/ (c.kind = "getcaps" /\ code = 101),
              !.error       = IF AuthError(c, code) # "none" THEN AuthError(c, code) ELSE @]

\* The flags of impl after parse.
Parsed(s, c, code) ==
    [s EXCEPT !.group       = IF c.kind = "group" /\ code # 480 THEN c.arg ELSE @,
              !.have_caps   = @ \/ (c.kind = "getcaps" /\ code = 101),
              !.compression = @ /\ (c.kind = "xfeature" => code \in {200, 480}),
              !.error       = IF AuthError(c, code) # "none" THEN AuthError(c, code) ELSE @]

\* recv_next throws: an unexpected code, a challenge that do_auth cannot
\* answer, or a challenge while other commands are outstanding.
Throws(s, r, credentials) ==
    \/ r.code \notin Accepts(Head(s.recv))
    \/ Challenged(Head(s.recv), r.code) /\ (~credentials \/ Len(s.recv) # 1)

\* The session after a response r was parsed by the command at its head.
recv_next(s, r) ==
    LET c == Head(s.recv)
        p == Parsed(s, c, r.code)
        again == <<Command("authuser", NoGroup), Command("authpass", NoGroup)>>
                 \o (IF p.have_caps THEN <<>> ELSE <<Command("getcaps", NoGroup)>>)
                 \o <<c>>
    IN  IF p.error # "none" THEN clear(p)
        ELSE IF Challenged(c, r.code)
             THEN [p EXCEPT !.recv = Tail(@), !.send = again \o @]
             ELSE [p EXCEPT !.recv = Tail(@)]
=============================================================================
