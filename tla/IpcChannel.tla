----------------------------- MODULE IpcChannel -----------------------------
(***************************************************************************)
(* The frames a worker of the daemon sends to its client: sendIpcFrame and *)
(* receiveIpcFrame of src/src/ipc.cpp, the logger, sendError and the last  *)
(* frame of serveClient (daemon_main.cpp), and the loop of executeRemote   *)
(* (main.cpp).  A cell is the length word, the type with the code, or one  *)
(* unit of payload; a write or a read moves one cell or more.              *)
(***************************************************************************)
EXTENDS Naturals, Sequences, SequencesExt, FiniteSetsExt

CONSTANTS
    MaxPayload,   \* kIpcMaximumPayload, in units
    Buffer,       \* cells the socket buffers hold
    LogSizes, MaxLogs, ErrorSizes,   \* what an operation may say, in units
    ResultSizes   \* at most MaxPayload: a status, a setting or a list of CIDRs is shorter

VARIABLES
    said,        \* the messages of the operation, the outcome last
    next,        \* message the worker is at
    offset,      \* units of it that are sent
    out,         \* cells of the current frame that are not written yet
    connected,   \* as the logger sees it
    broken,      \* a write has failed for the peer's sake
    wire,        \* cells in the socket buffers
    closed,      \* the worker has closed its end
    in,          \* cells of the frame that receiveIpcFrame is reading
    heard,       \* log text that was printed
    reply        \* how executeRemote ended

worker == <<next, offset, out, connected, broken, closed>>
client == <<in, heard, reply>>
vars   == <<said, worker, wire, client>>

Outcomes == [type : {"Result"}, size : ResultSizes] \cup [type : {"Error"}, size : ErrorSizes]
Logs     == [type : {"Log"}, size : LogSizes]

\* The unit of payload at a place of a message, so that the text tells where it came from.
Text(m, from, to) == [i \in 1..(to - from) |-> [message |-> m, unit |-> from + i]]
Frame(type, payload) == <<[length |-> Len(payload)], [type |-> type]>> \o payload

Nothing == [type |-> "none", payload |-> <<>>]
Failed(how) == [type |-> how, payload |-> <<>>]

Init ==
    /\ \E logs \in BoundedSeq(Logs, MaxLogs), o \in Outcomes : said = Append(logs, o)
    /\ next = 1 /\ offset = 0 /\ out = <<>> /\ connected = TRUE /\ broken = FALSE /\ closed = FALSE
    /\ wire = <<>> /\ in = <<>> /\ heard = <<>> /\ reply = Nothing

-----------------------------------------------------------------------------
(* The worker *)

\* sendIpcFrame, up to its first write; a payload too large is an error.
Send(type, payload) ==
    IF Len(payload) > MaxPayload THEN connected' = FALSE /\ UNCHANGED out
    ELSE out' = Frame(type, payload) /\ UNCHANGED connected

\* How much of a log message goes into the next frame.
Piece(left) == Min({MaxPayload, left})

Cut(size) == Min({MaxPayload, size})

\* Mutant of Speaks: a worker whose write has failed goes on with the next message.
SpeaksOn == out = <<>> /\ ~closed /\ next <= Len(said)
Speaks == connected /\ out = <<>> /\ ~closed /\ next <= Len(said)

Rest(m) == IF offset < m.size THEN m.size - offset ELSE 0

\* A message is over; an empty log message makes no frame.
Over == next' = next + 1 /\ offset' = 0
SendLog ==
    LET m == said[next] IN
    /\ Speaks /\ m.type = "Log"
    /\ IF Rest(m) = 0 THEN Over /\ UNCHANGED <<out, connected>>
       ELSE /\ Send("Log", Text(next, offset, offset + Piece(Rest(m))))
            /\ offset' = offset + Piece(Rest(m)) /\ UNCHANGED next
    /\ UNCHANGED <<said, broken, closed, wire, client>>
SendOutcome ==
    LET m == said[next] IN
    /\ Speaks /\ m.type # "Log"
    /\ Send(m.type, Text(next, 0, IF m.type = "Error" THEN Cut(m.size) ELSE m.size))
    /\ Over
    /\ UNCHANGED <<said, broken, closed, wire, client>>

\* sendAll: as much as there is room for, more or less.
Write ==
    /\ out # <<>> /\ reply = Nothing
    /\ \E n \in 1..Min({Len(out), Buffer - Len(wire)}) :
          wire' = wire \o SubSeq(out, 1, n) /\ out' = SubSeq(out, n + 1, Len(out))
    /\ UNCHANGED <<said, next, offset, connected, broken, closed, client>>
\* Mutant of WriteFails: sendAll repeats a write whose time is up.
WriteRepeats ==
    /\ out # <<>> /\ reply # Nothing
    /\ out' = <<>> /\ connected' = FALSE /\ broken' = TRUE
    /\ UNCHANGED <<said, next, offset, closed, wire, client>>
\* SO_SNDTIMEO on a full buffer, or a client that is gone; part of the frame may be out.
WriteFails ==
    /\ out # <<>> /\ (Len(wire) = Buffer \/ reply # Nothing)
    /\ out' = <<>> /\ connected' = FALSE /\ broken' = TRUE
    /\ UNCHANGED <<said, next, offset, closed, wire, client>>

Close ==
    /\ out = <<>> /\ ~closed /\ (next > Len(said) \/ ~connected)
    /\ closed' = TRUE
    /\ UNCHANGED <<said, next, offset, out, connected, broken, wire, client>>

-----------------------------------------------------------------------------
(* The client *)

Wanted == IF Len(in) < 2 THEN Len(in) + 1 ELSE 2 + in[1].length
Complete == Len(in) >= 2 /\ Len(in) = 2 + in[1].length

\* A cell of another kind where the length or the type is due is an invalid frame.
WellFormed(cells) ==
    /\ cells # <<>> => "length" \in DOMAIN cells[1]
    /\ Len(cells) > 1 => "type" \in DOMAIN cells[2]

\* receiveAll of the part of the frame that is due.
Read ==
    /\ reply = Nothing /\ ~Complete
    /\ \E n \in 1..Min({Len(wire), Wanted - Len(in)}) :
          in' = in \o SubSeq(wire, 1, n) /\ wire' = SubSeq(wire, n + 1, Len(wire))
    /\ reply' = IF WellFormed(in') THEN reply ELSE Failed("invalid")
    /\ UNCHANGED <<said, worker, heard>>

Accept ==
    LET payload == SubSeq(in, 3, Len(in)) IN
    /\ reply = Nothing /\ Complete
    /\ IF in[2].type = "Log" THEN in' = <<>> /\ heard' = heard \o payload /\ UNCHANGED reply
       ELSE reply' = [type |-> in[2].type, payload |-> payload] /\ UNCHANGED <<in, heard>>
    /\ UNCHANGED <<said, worker, wire>>

\* The end of the stream in the middle of a frame, or before the next.
EndOfStream ==
    /\ reply = Nothing /\ ~Complete /\ closed /\ wire = <<>>
    /\ reply' = Failed("closed")
    /\ UNCHANGED <<said, worker, wire, in, heard>>

\* Somebody ends the client.
Interrupt ==
    /\ reply = Nothing /\ reply' = Failed("interrupted")
    /\ UNCHANGED <<said, worker, wire, in, heard>>

Worker == SendLog \/ SendOutcome \/ Write \/ Close
Client == Read \/ Accept \/ EndOfStream
Ended  == reply # Nothing /\ closed /\ UNCHANGED vars

Next == Worker \/ WriteFails \/ Client \/ Interrupt \/ Ended

Spec == Init /\ [][Next]_vars
\* The worker is scheduled, and a write that finds no room for 30 s fails.  The client owes
\* nothing: it may stop reading with its end open.
FairSpec == Spec /\ WF_vars(Worker) /\ WF_vars(WriteFails)

-----------------------------------------------------------------------------
(* Properties *)

LogText == FlattenSeq([k \in 1..(Len(said) - 1) |-> Text(k, 0, said[k].size)])

\* What was printed is a beginning of what the operation logged, and all of it when the outcome
\* arrives, which is the whole result or the first part of the error.  However a write ends, the
\* client never takes payload for the head of a frame, and it loses its answer only when a write
\* to it has failed (sendIpcFrame and receiveIpcFrame; `connected` of the logger and the pieces it
\* makes, daemon_main.cpp 181-187 and 219-253).
FramesIntact ==
    /\ IsPrefix(heard, LogText)
    /\ reply.type \in {"Result", "Error"} =>
          LET outcome == said[Len(said)] IN
          /\ heard = LogText
          /\ reply = [type |-> outcome.type, payload |-> Text(Len(said), 0, Min({outcome.size, MaxPayload}))]
    /\ reply.type # "invalid"
    /\ reply.type = "closed" => broken

\* daemon_main.cpp:316-327, ipc.cpp:21-34: the worker closes the connection, also one whose
\* client has stopped reading or is gone, so that no client keeps the operation and its locks.
WorkerCloses == <>closed

\* main.cpp:52-79: executeRemote returns, with an answer or an error, when its process goes on.
ClientReturns == WF_vars(Client) => <>(reply # Nothing)
=============================================================================
