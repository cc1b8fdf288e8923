--------------------------- MODULE NntpProperties ---------------------------
(* What the conversation with a server must keep, whatever the server says, *)
(* whenever it goes away and whatever the user cancels.                     *)
EXTENDS NntpConnection, Functions

Outstanding == ses.recv
SentFor(rs) == [i \in 1 .. Len(rs) |-> rs[i].to]

\* The thread is in one of the loops of connection.cpp, and it waits for the
\* socket only when recv_next will find a command to parse the response with:
\* recv_next asserts !recv_.empty().
TypeOK ==
    /\ pc \in {"closed", "init", "idle", "configure", "config", "submit", "data",
               "ping", "quit"}
    /\ waiting \in BOOLEAN
    /\ waiting => Outstanding # <<>>

\* A response left in the buffer by an earlier command: group::parse returns
\* at a 411 without taking it out, xovergzip what it cannot inflate.
Stale == Len(recvbuf) + Len(wire) + Len(net) > Len(Outstanding)

\* recv_next gives a response to the command at the head of recv_ by position
\* alone: unless a response was left in the buffer, those in the buffer, on
\* their way and still to come are those of the outstanding commands, in order.
InStep ==
    (waiting /\ ~Stale) => Outstanding = SentFor(recvbuf \o wire) \o net

\* What a cmdlist's i'th buffer holds is asked for by its i'th command.
Asked(c, i) ==
    CASE cmdtype[c] = "listing" -> Command("list", NoGroup)
      [] cmdtype[c] = "groupinfo" -> Command("group", groups[c][1])
      [] OTHER -> Command(cmdtype[c], commands[c][i])

\* receive_data_buffer stores a response in the first buffer without a
\* status: over connections lost, re-executions and stale responses, an
\* article or a range of headers never ends in the buffer of another.
BuffersMatch ==
    \A c \in Cmdlists : \A i \in 1 .. Len(buffers[c]) :
        buffers[c][i].status \in {"success", "unavailable"} => buffers[c][i].of = Asked(c, i)

\* An execute that returns as complete has an answer to every command of its
\* cmdlist, those a lost connection had asked for before included.
DoneIsAnswered ==
    \A c \in Cmdlists : outcome[c] = "done" =>
        /\ Len(buffers[c]) = IF cmdtype[c] \in {"body", "xover"} THEN Len(commands[c]) ELSE 1
        /\ \A i \in 1 .. Len(buffers[c]) : buffers[c][i].status # "none"

\* A cmdlist may have read a stale 411 as the answer for its next group: then
\* it has failed with more than one group, or it has named a group twice.
MayHaveMisread ==
    \E c \in Cmdlists : \/ outcome[c] = "failed" /\ Len(groups[c]) > 1
                        \/ outcome[c] \in {"done", "dropped"} /\ ~IsInjective(groups[c])

\* change_group sends nothing when the session believes the group selected,
\* so what it believes must be so at the server: headers would else come from
\* another group.
GroupSelected ==
    pc = "idle" /\ ~pending(ses) /\ ses.group \in Carried /\ ~MayHaveMisread
        => ses.group = server.group

\* A loop that waits for the socket waits for something that comes: a
\* response on its way or one the server still has to give.  A response that
\* is already in the receive buffer is none, since the loops call recv_next
\* only after the next recvsome.
AnswerIsComing == waiting => net # <<>> \/ wire # <<>>

\* The same where commands are not pipelined, so that at most one response is
\* ever received at a time.
AnswerIsComingInTurn == ~ses.pipelining => AnswerIsComing

\* The responses stay with their commands, in the session and in the cmdlist.
ResponsesMatch == InStep /\ BuffersMatch

\* An execute that is complete has every answer, from the group it asked for.
ResultsAreRight == DoneIsAnswered /\ GroupSelected
=============================================================================
