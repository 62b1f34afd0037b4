----------------------------- MODULE RunCapture -----------------------------
(***************************************************************************)
(* runCapture (src/src/process.cpp): a parent that forks a utility, reads  *)
(* two non-blocking pipes until waitpid says that the child is gone or the *)
(* deadline has passed, and a child that writes, blocks on a full pipe,    *)
(* exits, dies of a signal, hangs or never stops writing.  The n-th chunk  *)
(* of a stream is n; a read takes one chunk.  Every system call is a step  *)
(* of its own.                                                             *)
(***************************************************************************)
EXTENDS Naturals, Sequences

CONSTANTS
    Capacity,    \* chunks a pipe holds
    Volume,      \* bound: chunks of a stream that are numbered; the rest are only counted
    ExitCodes, Signals

ASSUME RunCaptureAssumption ==
    /\ Capacity \in Nat \ {0} /\ Volume \in Nat
    /\ ExitCodes \subseteq 0..255 /\ Signals \subseteq 1..64 /\ 9 \in Signals

Streams == {"stdout", "stderr"}
Ends    == Streams \X {"read", "write"}

VARIABLES
    pc,        \* the parent: next call it makes
    final,     \* it is past the loop, in the last two reads
    open,      \* pipe ends the parent holds
    chunk,     \* what readAvailable has of a stream so far
    text,      \* ProcessOutput::stdout_text and stderr_text
    heard,     \* what the callback was given
    late,      \* the deadline has passed
    pipe,      \* the numbered chunks a pipe holds
    rest,      \* how many it holds behind them, of a child that goes on writing
    written,   \* how many numbered chunks the child wrote
    child,     \* "none", "runs", "zombie", "reaped"
    status,    \* how it ended
    answer,
    code       \* ProcessOutput::exit_code

kernel == <<pipe, rest, written, child, status>>
vars   == <<pc, final, open, chunk, text, heard, late, kernel, answer, code>>

NoStatus == [how |-> "running", value |-> 0]
Nothing  == [s \in Streams |-> <<>>]

Init ==
    /\ pc = "pipes" /\ final = FALSE /\ late = FALSE
    /\ open = {} /\ chunk = Nothing /\ text = Nothing /\ heard = Nothing /\ pipe = Nothing
    /\ written = [s \in Streams |-> 0] /\ rest = written
    /\ child = "none" /\ status = NoStatus /\ answer = "none" /\ code = 0

-----------------------------------------------------------------------------
(* The parent *)

Goto(l) == pc' = l /\ UNCHANGED <<open, answer, code>>
\* Every way out closes what is open.
Return(a) == pc' = "returned" /\ answer' = a /\ open' = {} /\ UNCHANGED code
Succeed ==
    /\ pc' = "returned" /\ answer' = "success" /\ open' = {}
    /\ code' = IF status.how = "exited" THEN status.value ELSE 128 + status.value

Unread == UNCHANGED <<final, chunk, text, heard>>

\* The two pipe2 calls: the second may fail with the first pipe open.
Pipes ==
    /\ pc = "pipes"
    /\ \/ pc' = "fork" /\ open' = Ends /\ UNCHANGED <<answer, code>>
       \/ Return("pipe failed")
    /\ Unread /\ UNCHANGED <<late, kernel>>

\* fork, and the closes of the write ends in the parent.
Fork ==
    /\ pc = "fork"
    /\ \/ pc' = "fcntl" /\ child' = "runs" /\ open' = Streams \X {"read"}
          /\ UNCHANGED <<answer, code>>
       \/ Return("fork failed") /\ UNCHANGED child
    /\ Unread /\ UNCHANGED <<late, pipe, rest, written, status>>

\* setNonBlocking; its failure goes the way of a timeout, with an answer of its own.
SetNonBlocking ==
    /\ pc = "fcntl"
    /\ \/ Goto("deadline?")
       \/ pc' = "kill" /\ answer' = "fcntl failed" /\ UNCHANGED <<open, code>>
    /\ Unread /\ UNCHANGED <<late, kernel>>

\* Mutant of CheckDeadline: the loop goes on for as long as the child lives.
CheckDeadlineNever ==
    pc = "deadline?" /\ Goto("read stdout") /\ Unread /\ UNCHANGED <<late, kernel>>
CheckDeadline ==
    /\ pc = "deadline?"
    /\ IF late THEN pc' = "kill" /\ answer' = "timed out" /\ UNCHANGED <<open, code>>
       ELSE Goto("read stdout")
    /\ Unread /\ UNCHANGED <<late, kernel>>

\* readAvailable: one read, until one finds the pipe empty (EAGAIN, or its end), which may be
\* never: nothing looks at the deadline here.
ReadFrom(here, s, next) ==
    /\ pc = here
    /\ \/ /\ pipe[s] = <<>> /\ rest[s] = 0
          /\ Goto(next) /\ UNCHANGED <<chunk, pipe, rest>>
       \/ /\ pipe[s] # <<>>
          /\ chunk' = [chunk EXCEPT ![s] = Append(@, Head(pipe[s]))]
          /\ pipe' = [pipe EXCEPT ![s] = Tail(@)]
          /\ Goto(here) /\ UNCHANGED rest
       \/ /\ pipe[s] = <<>> /\ rest[s] > 0
          /\ rest' = [rest EXCEPT ![s] = @ - 1]
          /\ Goto(here) /\ UNCHANGED <<chunk, pipe>>
    /\ UNCHANGED <<final, text, heard, late, written, child, status>>
Read == \/ ReadFrom("read stdout", "stdout", "read stderr")
        \/ ReadFrom("read stderr", "stderr", "keep")

\* The two chunks go to the output and, in this order, to the callback, which may take time.
Keep ==
    /\ pc = "keep"
    /\ text' = [s \in Streams |-> text[s] \o chunk[s]]
    /\ heard' = [s \in Streams |-> heard[s] \o chunk[s]]
    /\ chunk' = Nothing
    /\ IF final THEN Succeed ELSE Goto("waitpid")
    /\ UNCHANGED <<final, late, kernel>>

\* waitpid with WNOHANG, then poll for at most 25 ms (no state change) or the last reads.
WaitThen(l) ==
    /\ pc = "waitpid"
    /\ IF child = "zombie"
       THEN child' = "reaped" /\ final' = TRUE /\ Goto(l)
       ELSE UNCHANGED <<child, final>> /\ Goto("deadline?")
    /\ UNCHANGED <<chunk, text, heard, late, pipe, rest, written, status>>
\* Mutant of Wait: what was read before waitpid counts as everything.
WaitAndReturn == WaitThen("keep")
Wait == WaitThen("read stdout")

\* kill with SIGKILL, which a zombie does not notice, then waitpid without WNOHANG.
Kill ==
    /\ pc = "kill"
    /\ IF child = "runs" THEN child' = "zombie" /\ status' = [how |-> "killed", value |-> 9]
       ELSE UNCHANGED <<child, status>>
    /\ Goto("reap")
    /\ Unread /\ UNCHANGED <<late, pipe, rest, written>>
\* Mutant of Reap: SIGKILL is taken for the end of it.
ReapNot ==
    pc = "reap" /\ Return(answer) /\ Unread /\ UNCHANGED <<late, kernel>>
Reap ==
    /\ pc = "reap" /\ child = "zombie"
    /\ child' = "reaped"
    /\ Return(answer)
    /\ Unread /\ UNCHANGED <<late, pipe, rest, written, status>>

-----------------------------------------------------------------------------
(* The child and the clock *)

\* A child may write for ever.
Write(s) ==
    /\ child = "runs" /\ Len(pipe[s]) + rest[s] < Capacity
    /\ \/ /\ written[s] < Volume
          /\ written' = [written EXCEPT ![s] = @ + 1]
          /\ pipe' = [pipe EXCEPT ![s] = Append(@, written[s] + 1)]
          /\ UNCHANGED rest
       \/ /\ written[s] = Volume
          /\ rest' = [rest EXCEPT ![s] = @ + 1]
          /\ UNCHANGED <<written, pipe>>
    /\ UNCHANGED <<pc, final, open, chunk, text, heard, late, child, status, answer, code>>

\* exit, which dropUtilityCapabilities (126) and execv (127) may come to, or an outside signal.
End ==
    /\ child = "runs" /\ child' = "zombie"
    /\ \/ \E c \in ExitCodes : status' = [how |-> "exited", value |-> c]
       \/ \E g \in Signals : status' = [how |-> "killed", value |-> g]
    /\ UNCHANGED <<pc, final, open, chunk, text, heard, late, pipe, rest, written, answer, code>>

DeadlinePasses ==
    /\ pc \notin {"pipes", "fork", "fcntl", "returned"} /\ ~late
    /\ late' = TRUE
    /\ UNCHANGED <<pc, final, open, chunk, text, heard, kernel, answer, code>>

Parent == \/ Pipes \/ Fork \/ SetNonBlocking \/ CheckDeadline \/ Read \/ Keep \/ Wait
          \/ Kill \/ Reap

Done == pc = "returned" /\ UNCHANGED vars

Next == Parent \/ (\E s \in Streams : Write(s)) \/ End \/ DeadlinePasses \/ Done

Spec == Init /\ [][Next]_vars
\* Time passes and the parent is scheduled.  The child owes nothing: it may hang, and it need
\* not stop.
FairSpec == Spec /\ WF_vars(Parent) /\ WF_vars(DeadlinePasses)

-----------------------------------------------------------------------------
(* Properties *)

Returned  == pc = "returned"
Succeeded == Returned /\ answer = "success"

\* process.cpp:160-206: the child may write, up to a full pipe, and exit between the last
\* reads and waitpid.  An answer of success has all it wrote, in order, with nothing left in a
\* pipe; and the callback heard, at any moment, exactly what the output holds, so that progress
\* is not behind the result.
OutputComplete ==
    /\ Succeeded => \A s \in Streams : text[s] = [i \in 1..written[s] |-> i] /\ rest[s] = 0
    /\ heard = text

\* process.cpp:110-149, 183-211: whatever failed and however the child and the deadline raced,
\* no descriptor, no running child and no zombie is left behind; 0 stands for an exit with 0
\* alone, never for a child that a signal or the timeout killed, and only the clock makes an
\* answer of timed out.
ReturnsClean ==
    /\ Returned => open = {} /\ child \in {"none", "reaped"}
    /\ Succeeded => (code = 0) = (status = [how |-> "exited", value |-> 0])
    /\ Returned /\ answer = "timed out" => late

\* process.cpp:45-55, 155-190: a child that fills both pipes, hangs or dies keeps the caller, and
\* the operation lock it holds, no longer than the deadline.  Only one that never lets a read find
\* its pipe empty does: the caller then reads one stream for ever, and the deadline is not looked
\* at.
ReadsForEver(s, loop) == <>[](pc = loop) /\ []<><<Write(s)>>_vars
CallReturns ==
    <>Returned \/ ReadsForEver("stdout", "read stdout") \/ ReadsForEver("stderr", "read stderr")
=============================================================================
