--------------------------- MODULE Helpers_proofs ---------------------------
(***************************************************************************)
(* Proofs about the helpers.  RunCapture, for any pipe capacity, output,   *)
(* exit codes and signals: the output is complete and nothing is left      *)
(* behind.  EnsureDirectory, for any processes and any depth: the walk     *)
(* stays in the tree of real directories.  Config, for any texts: what is  *)
(* set is loaded and shown.  IpcChannel, for any messages, frame size and  *)
(* buffers: what is printed is what was logged.                            *)
(***************************************************************************)
EXTENDS Helpers, SequenceTheorems, FiniteSetTheorems, TLAPS

-----------------------------------------------------------------------------
(* RunCapture: the invariant *)

Reading == {"read stdout", "read stderr", "keep"}
Looping == {"deadline?", "waitpid"}
Pcs     == {"pipes", "fork", "fcntl", "kill", "reap", "returned"} \cup Reading \cup Looping
Answers == {"none", "pipe failed", "fork failed", "fcntl failed", "timed out", "success"}
Chunks  == [Streams -> Seq(Nat)]

\* How a child can have ended: by an exit, by any signal, or by the parent's SIGKILL.
Ended == [how : {"exited"}, value : ExitCodes] \cup [how : {"killed"}, value : Signals]

\* Every variable holds what the calls and the kernel can make of it.
TypeOK ==
    /\ pc \in Pcs /\ final \in BOOLEAN /\ late \in BOOLEAN /\ answer \in Answers
    /\ chunk \in Chunks /\ text \in Chunks /\ heard \in Chunks /\ pipe \in Chunks
    /\ written \in [Streams -> Nat] /\ rest \in [Streams -> Nat]
    /\ child \in {"none", "runs", "zombie", "reaped"}
    /\ status \in {NoStatus} \cup Ended

\* The numbers that follow n.
Counts(s, n) == \A i \in 1 .. Len(s) : s[i] = n + i

\* What is kept, what was read and what is in the pipe are, in this order, the n chunks that
\* the child wrote.
Told(kept, got, left, n) ==
    /\ Counts(kept, 0) /\ Counts(got, Len(kept)) /\ Counts(left, Len(kept) + Len(got))
    /\ n = Len(kept) + Len(got) + Len(left)

StreamInv ==
    /\ \A s \in Streams : Told(text[s], chunk[s], pipe[s], written[s])
    /\ heard = text
    /\ pc \notin Reading => chunk = Nothing

\* Once the child is reaped nobody writes, and a read that finds a pipe empty has emptied it.
DrainInv ==
    /\ final => child = "reaped" /\ pc \in Reading \cup {"returned"}
    /\ final /\ pc \in {"read stderr", "keep", "returned"} =>
          pipe["stdout"] = <<>> /\ rest["stdout"] = 0
    /\ final /\ pc \in {"keep", "returned"} => pipe["stderr"] = <<>> /\ rest["stderr"] = 0
    /\ answer = "success" => final

\* Where the child is, by where the parent is.
ChildInv ==
    /\ child \in {"zombie", "reaped"} <=> status \in Ended
    /\ pc \in {"pipes", "fork"} => child = "none"
    /\ pc \in {"fcntl", "kill"} \cup Looping \cup Reading =>
          child \in {"runs", "zombie"} \/ final
    /\ pc = "reap" => child = "zombie"
    /\ pc = "returned" => child = IF answer \in {"pipe failed", "fork failed"} THEN "none" ELSE "reaped"

\* What the caller gets.
AnswerInv ==
    /\ pc \in {"kill", "reap"} => answer \in {"fcntl failed", "timed out"}
    /\ pc \notin {"kill", "reap", "returned"} => answer = "none"
    /\ pc = "returned" => open = {}
    /\ answer = "timed out" => late
    /\ answer = "success" => code = IF status.how = "exited" THEN status.value ELSE 128 + status.value

CaptureInv == TypeOK /\ StreamInv /\ DrainInv /\ ChildInv /\ AnswerInv

-----------------------------------------------------------------------------
(* RunCapture: lemmas about sequences *)

\* At first nothing is told.
LEMMA ToldNothing == Told(<<>>, <<>>, <<>>, 0)
BY DEF Told, Counts

\* A write continues what is in the pipe.
LEMMA ToldWrite ==
    ASSUME NEW a \in Seq(Nat), NEW b \in Seq(Nat), NEW p \in Seq(Nat), NEW n \in Nat, Told(a, b, p, n)
    PROVE  Append(p, n + 1) \in Seq(Nat) /\ Told(a, b, Append(p, n + 1), n + 1)
<1>1. n + 1 \in Nat /\ n = Len(a) + Len(b) + Len(p) BY DEF Told
<1> DEFINE q == Append(p, n + 1)
<1>2. q \in Seq(Nat) /\ Len(q) = Len(p) + 1 BY <1>1
<1>3. q[Len(p) + 1] = n + 1 /\ \A i \in 1 .. Len(p) : q[i] = p[i] BY <1>1
<1>4. Counts(q, Len(a) + Len(b))
  <2>1. \A i \in 1 .. Len(p) : p[i] = Len(a) + Len(b) + i BY DEF Told, Counts
  <2> HIDE DEF q
  <2>2. \A i \in 1 .. Len(p) + 1 : i = Len(p) + 1 \/ i \in 1 .. Len(p) OBVIOUS
  <2>3. n + 1 = Len(a) + Len(b) + (Len(p) + 1) BY <1>1
  <2> QED BY <1>2, <1>3, <2>1, <2>2, <2>3 DEF Counts
<1>5. Len(a) \in Nat /\ Len(b) \in Nat /\ Len(p) \in Nat OBVIOUS
<1> HIDE DEF q
<1>6. n + 1 = Len(a) + Len(b) + Len(q) BY <1>1, <1>2, <1>5
<1>7. Told(a, b, q, n + 1) BY <1>4, <1>6 DEF Told
<1> QED BY <1>2, <1>7 DEF q

\* A read moves the front of the pipe to the end of what was read.
LEMMA ToldRead ==
    ASSUME NEW a \in Seq(Nat), NEW b \in Seq(Nat), NEW p \in Seq(Nat), NEW n \in Nat, Told(a, b, p, n),
           p # <<>>
    PROVE  /\ Append(b, Head(p)) \in Seq(Nat) /\ Tail(p) \in Seq(Nat)
           /\ Told(a, Append(b, Head(p)), Tail(p), n)
<1>1. Head(p) = Len(a) + Len(b) + 1 /\ Head(p) \in Nat /\ Len(Tail(p)) = Len(p) - 1 /\ Tail(p) \in Seq(Nat)
      BY DEF Told, Counts
<1>2. Append(b, Head(p)) \in Seq(Nat) /\ Len(Append(b, Head(p))) = Len(b) + 1 BY <1>1
<1>3. Counts(Append(b, Head(p)), Len(a)) BY <1>1, <1>2 DEF Told, Counts
<1>4. Counts(Tail(p), Len(a) + Len(b) + 1) BY <1>1 DEF Told, Counts
<1>5. Len(a) + Len(Append(b, Head(p))) = Len(a) + Len(b) + 1 BY <1>2
<1>6. n = Len(a) + Len(Append(b, Head(p))) + Len(Tail(p)) BY <1>1, <1>2 DEF Told
<1> QED BY <1>1, <1>2, <1>3, <1>4, <1>5, <1>6 DEF Told

\* What was read is kept.
LEMMA ToldKeep ==
    ASSUME NEW a \in Seq(Nat), NEW b \in Seq(Nat), NEW p \in Seq(Nat), NEW n \in Nat, Told(a, b, p, n)
    PROVE  a \o b \in Seq(Nat) /\ Told(a \o b, <<>>, p, n)
<1> DEFINE c == a \o b
<1>1. /\ c \in Seq(Nat) /\ Len(c) = Len(a) + Len(b)
      /\ \A i \in 1 .. Len(a) + Len(b) : c[i] = IF i <= Len(a) THEN a[i] ELSE b[i - Len(a)]
      BY ConcatProperties
<1>2. Len(a) \in Nat /\ Len(b) \in Nat /\ Len(p) \in Nat OBVIOUS
<1> HIDE DEF c
<1>3. Counts(c, 0)
  <2>1. (\A i \in 1 .. Len(a) : a[i] = i) /\ (\A i \in 1 .. Len(b) : b[i] = Len(a) + i)
        BY DEF Told, Counts
  <2>2. ASSUME NEW i \in 1 .. Len(c) PROVE c[i] = 0 + i
    <3>1. CASE i <= Len(a)
      <4>1. i \in 1 .. Len(a) BY <1>1, <1>2, <3>1
      <4>2. i \in 1 .. Len(a) + Len(b) BY <1>1
      <4>3. c[i] = a[i] BY <1>1, <3>1, <4>2
      <4> QED BY <2>1, <4>1, <4>3
    <3>2. CASE i > Len(a)
      <4>1. i - Len(a) \in 1 .. Len(b) BY <1>1, <1>2, <3>2
      <4>2. c[i] = b[i - Len(a)] BY <1>1, <1>2, <3>2
      <4> QED BY <1>2, <2>1, <4>1, <4>2
    <3> QED BY <1>2, <3>1, <3>2
  <2> QED BY <2>2 DEF Counts
<1>4. Len(<<>>) = 0 /\ Counts(<<>>, Len(c)) BY DEF Counts
<1>5. Counts(p, Len(c) + Len(<<>>)) BY <1>1, <1>2, <1>4 DEF Told
<1>6. n = Len(c) + Len(<<>>) + Len(p) BY <1>1, <1>2, <1>4 DEF Told
<1>7. Told(c, <<>>, p, n) BY <1>3, <1>4, <1>5, <1>6 DEF Told
<1> QED BY <1>1, <1>7 DEF c

\* What is kept when nothing is left is all that the child wrote.
LEMMA ToldAll ==
    ASSUME NEW a \in Seq(Nat), NEW n \in Nat, Told(a, <<>>, <<>>, n)
    PROVE  a = [i \in 1 .. n |-> i]
<1>1. n = Len(a) BY DEF Told
<1>2. a = [i \in 1 .. Len(a) |-> a[i]] OBVIOUS
<1> QED BY <1>1, <1>2 DEF Told, Counts

-----------------------------------------------------------------------------
(* RunCapture: the steps *)

\* The parent's steps that touch neither the output nor the child.
LEMMA JumpStep ==
    ASSUME CaptureInv, SetNonBlocking \/ CheckDeadline
    PROVE  CaptureInv'
<1>a. /\ TypeOK /\ StreamInv /\ DrainInv /\ ChildInv /\ AnswerInv
      BY DEF CaptureInv
<1>b. /\ UNCHANGED <<final, chunk, text, heard, late, pipe, rest, written, child, status, open, code>>
      BY DEF SetNonBlocking, CheckDeadline, Unread, kernel, Goto
<1>c. \/ pc = "fcntl" /\ pc' = "deadline?" /\ answer' = answer
      \/ pc = "fcntl" /\ pc' = "kill" /\ answer' = "fcntl failed"
      \/ pc = "deadline?" /\ pc' = "kill" /\ answer' = "timed out" /\ late
      \/ pc = "deadline?" /\ pc' = "read stdout" /\ answer' = answer
      BY DEF SetNonBlocking, CheckDeadline, Goto
<1>d. ~final BY <1>a, <1>c DEF DrainInv, Reading
<1>1. TypeOK' BY <1>a, <1>b, <1>c DEF TypeOK, Pcs, Answers, Reading, Looping
<1>2. StreamInv' BY <1>a, <1>b, <1>c DEF StreamInv, Reading
<1>3. DrainInv' BY <1>a, <1>b, <1>c, <1>d DEF DrainInv, AnswerInv
<1>4. ChildInv' BY <1>a, <1>b, <1>c, <1>d DEF ChildInv, Reading, Looping
<1>5. AnswerInv' BY <1>a, <1>b, <1>c DEF AnswerInv
<1> QED BY <1>1, <1>2, <1>3, <1>4, <1>5 DEF CaptureInv

\* pipe2 and fork.
LEMMA BeginStep ==
    ASSUME CaptureInv, Pipes \/ Fork
    PROVE  CaptureInv'
<1>a. /\ TypeOK /\ StreamInv /\ DrainInv /\ ChildInv /\ AnswerInv
      BY DEF CaptureInv
<1>b. UNCHANGED <<final, chunk, text, heard, late, pipe, rest, written, status>>
      BY DEF Pipes, Fork, Unread, kernel
<1>c. /\ pc \in {"pipes", "fork"}
      /\ \/ pc' = "fork" /\ pc = "pipes" /\ UNCHANGED <<child, answer, code>>
         \/ pc' = "fcntl" /\ child' = "runs" /\ UNCHANGED <<answer, code>>
         \/ pc' = "returned" /\ answer' \in {"pipe failed", "fork failed"} /\ open' = {}
            /\ UNCHANGED <<child, code>>
      BY DEF Pipes, Fork, Return, kernel
<1>d. ~final /\ child = "none" /\ answer = "none" BY <1>a, <1>c DEF DrainInv, Reading, ChildInv, AnswerInv
<1>1. TypeOK' BY <1>a, <1>b, <1>c DEF TypeOK, Pcs, Answers
<1>2. StreamInv' BY <1>a, <1>b, <1>c DEF StreamInv, Reading
<1>3. DrainInv' BY <1>b, <1>c, <1>d DEF DrainInv
<1>4. ChildInv' BY <1>a, <1>b, <1>c, <1>d DEF ChildInv, Reading, Looping
<1>5. AnswerInv' BY <1>b, <1>c, <1>d DEF AnswerInv
<1> QED BY <1>1, <1>2, <1>3, <1>4, <1>5 DEF CaptureInv

\* One read.
LEMMA ReadStep ==
    ASSUME CaptureInv, Read
    PROVE  CaptureInv'
<1>a. /\ TypeOK /\ StreamInv /\ DrainInv /\ ChildInv /\ AnswerInv
      BY DEF CaptureInv
<1>b. UNCHANGED <<final, text, heard, late, written, child, status, open, answer, code>>
      BY DEF Read, ReadFrom, Goto
<1>1. PICK s \in Streams :
         /\ pc = IF s = "stdout" THEN "read stdout" ELSE "read stderr"
         /\ ReadFrom(pc, s, IF s = "stdout" THEN "read stderr" ELSE "keep")
      BY DEF Read, ReadFrom, Streams
<1>2. CASE pipe[s] = <<>> /\ rest[s] = 0
  <2>a. /\ UNCHANGED <<chunk, pipe, rest>>
        /\ pc' = IF s = "stdout" THEN "read stderr" ELSE "keep"
    <3>1. ~(rest[s] > 0) BY <1>2
    <3>2. /\ UNCHANGED <<chunk, pipe, rest>>
          /\ Goto(IF s = "stdout" THEN "read stderr" ELSE "keep")
          BY <1>1, <1>2, <3>1, Zenon DEF ReadFrom
    <3> QED BY <3>2 DEF Goto
  <2>1. TypeOK' BY <1>a, <1>b, <2>a DEF TypeOK, Pcs, Reading
  <2>2. StreamInv' BY <1>a, <1>b, <2>a DEF StreamInv, Reading
  <2>3. DrainInv' BY <1>a, <1>b, <1>1, <1>2, <2>a DEF DrainInv, Reading, Streams
  <2>4. ChildInv' BY <1>a, <1>b, <1>1, <2>a DEF ChildInv, Reading, Looping
  <2>5. AnswerInv' BY <1>a, <1>b, <1>1, <2>a DEF AnswerInv
  <2> QED BY <2>1, <2>2, <2>3, <2>4, <2>5 DEF CaptureInv
<1>3. CASE pipe[s] # <<>>
  <2>a. /\ chunk' = [chunk EXCEPT ![s] = Append(@, Head(pipe[s]))]
        /\ pipe' = [pipe EXCEPT ![s] = Tail(@)]
        /\ UNCHANGED <<pc, rest>>
        BY <1>1, <1>3 DEF ReadFrom, Goto
  <2>b. /\ text[s] \in Seq(Nat) /\ chunk[s] \in Seq(Nat) /\ pipe[s] \in Seq(Nat)
        /\ chunk'[s] = Append(chunk[s], Head(pipe[s])) /\ pipe'[s] = Tail(pipe[s])
        /\ \A t \in Streams : t # s => chunk'[t] = chunk[t] /\ pipe'[t] = pipe[t]
        BY <1>a, <2>a DEF TypeOK, Chunks
  <2>c. chunk'[s] \in Seq(Nat) /\ pipe'[s] \in Seq(Nat)
        /\ Told(text[s], chunk'[s], pipe'[s], written[s])
    <3>1. Told(text[s], chunk[s], pipe[s], written[s]) /\ written[s] \in Nat
          BY <1>a DEF StreamInv, TypeOK
    <3> QED BY <1>3, <2>b, <3>1, ToldRead
  <2>1. TypeOK'
    <3>1. chunk' \in Chunks /\ pipe' \in Chunks BY <1>a, <2>a, <2>b, <2>c DEF TypeOK, Chunks
    <3> QED BY <1>a, <1>b, <2>a, <3>1 DEF TypeOK
  <2>2. StreamInv' BY <1>a, <1>b, <1>1, <2>a, <2>b, <2>c DEF StreamInv, Reading
  <2>3. DrainInv' BY <1>a, <1>b, <1>1, <1>3, <2>a, <2>b DEF DrainInv, Streams
  <2>4. ChildInv' BY <1>a, <1>b, <2>a DEF ChildInv
  <2>5. AnswerInv' BY <1>a, <1>b, <2>a DEF AnswerInv
  <2> QED BY <2>1, <2>2, <2>3, <2>4, <2>5 DEF CaptureInv
<1>4. CASE pipe[s] = <<>> /\ rest[s] # 0
  <2>a. rest' = [rest EXCEPT ![s] = @ - 1] /\ rest[s] \in Nat \ {0} /\ UNCHANGED <<pc, chunk, pipe>>
        BY <1>a, <1>1, <1>4 DEF ReadFrom, Goto, TypeOK
  <2>1. TypeOK'
    <3>1. rest' \in [Streams -> Nat] BY <1>a, <2>a DEF TypeOK
    <3> QED BY <1>a, <1>b, <2>a, <3>1 DEF TypeOK
  <2>2. StreamInv' BY <1>a, <1>b, <2>a DEF StreamInv
  <2>3. DrainInv'
    <3>1. s = "stdout" => pc = "read stdout" BY <1>1
    <3>2. s = "stderr" => pc = "read stderr" BY <1>1
    <3>3. rest'["stdout"] = rest["stdout"] \/ pc = "read stdout"
          BY <1>a, <2>a, <3>1 DEF TypeOK, Streams
    <3> QED BY <1>a, <1>b, <1>1, <2>a, <3>3 DEF DrainInv, Streams
  <2>4. ChildInv' BY <1>a, <1>b, <2>a DEF ChildInv
  <2>5. AnswerInv' BY <1>a, <1>b, <2>a DEF AnswerInv
  <2> QED BY <2>1, <2>2, <2>3, <2>4, <2>5 DEF CaptureInv
<1> QED BY <1>2, <1>3, <1>4

\* The chunks go to the output and to the callback.
LEMMA KeepStep ==
    ASSUME CaptureInv, Keep
    PROVE  CaptureInv'
<1>a. /\ TypeOK /\ StreamInv /\ DrainInv /\ ChildInv /\ AnswerInv
      BY DEF CaptureInv
<1>b. /\ pc = "keep" /\ answer = "none"
      /\ text' = [s \in Streams |-> text[s] \o chunk[s]]
      /\ heard' = [s \in Streams |-> heard[s] \o chunk[s]]
      /\ chunk' = Nothing
      /\ UNCHANGED <<final, late, pipe, rest, written, child, status>>
      BY <1>a DEF Keep, kernel, AnswerInv
<1>c. \/ /\ final /\ pc' = "returned" /\ answer' = "success" /\ open' = {}
         /\ code' = IF status.how = "exited" THEN status.value ELSE 128 + status.value
      \/ ~final /\ pc' = "waitpid" /\ UNCHANGED <<open, answer, code>>
      BY DEF Keep, Succeed, Goto
<1>1. TypeOK'
  <2>1. \A s \in Streams : text[s] \o chunk[s] \in Seq(Nat) /\ heard[s] \o chunk[s] \in Seq(Nat)
        BY <1>a, ConcatProperties DEF TypeOK, Chunks
  <2>2. text' \in Chunks /\ heard' \in Chunks BY <1>b, <2>1 DEF Chunks
  <2>3. chunk' \in Chunks BY <1>b DEF Nothing, Chunks
  <2> QED BY <1>a, <1>b, <1>c, <2>2, <2>3 DEF TypeOK, Pcs, Answers, Looping
<1>2. StreamInv'
  <2>1. ASSUME NEW s \in Streams PROVE Told(text'[s], chunk'[s], pipe[s], written[s])
    <3>1. text'[s] = text[s] \o chunk[s] /\ chunk'[s] = <<>> BY <1>b DEF Nothing
    <3>2. /\ Told(text[s], chunk[s], pipe[s], written[s]) /\ written[s] \in Nat
          /\ text[s] \in Seq(Nat) /\ chunk[s] \in Seq(Nat) /\ pipe[s] \in Seq(Nat)
          BY <1>a DEF StreamInv, TypeOK, Chunks
    <3> QED BY <3>1, <3>2, ToldKeep
  <2> QED BY <1>a, <1>b, <1>c, <2>1 DEF StreamInv, Reading
<1>3. DrainInv' BY <1>a, <1>b, <1>c DEF DrainInv
<1>4. ChildInv' BY <1>a, <1>b, <1>c DEF ChildInv, DrainInv, Reading, Looping
<1>5. AnswerInv' BY <1>a, <1>b, <1>c DEF AnswerInv
<1> QED BY <1>1, <1>2, <1>3, <1>4, <1>5 DEF CaptureInv

\* waitpid with WNOHANG: a child that is gone is heard out.
LEMMA WaitStep ==
    ASSUME CaptureInv, Wait
    PROVE  CaptureInv'
<1>a. /\ TypeOK /\ StreamInv /\ DrainInv /\ ChildInv /\ AnswerInv
      BY DEF CaptureInv
<1>b. /\ pc = "waitpid"
      /\ UNCHANGED <<chunk, text, heard, late, pipe, rest, written, status, open, answer, code>>
      BY DEF Wait, WaitThen, Goto
<1>c. \/ child = "zombie" /\ child' = "reaped" /\ final' = TRUE /\ pc' = "read stdout"
      \/ child' = child /\ final' = final /\ pc' = "deadline?"
      BY DEF Wait, WaitThen, Goto
<1>d. ~final BY <1>a, <1>b DEF DrainInv, Reading
<1>1. TypeOK' BY <1>a, <1>b, <1>c DEF TypeOK, Pcs, Reading, Looping
<1>2. StreamInv' BY <1>a, <1>b, <1>c DEF StreamInv, Reading
<1>3. DrainInv'
  <2>1. answer = "none" BY <1>a, <1>b DEF AnswerInv
  <2>2. CASE child = "zombie" /\ child' = "reaped" /\ final' = TRUE /\ pc' = "read stdout"
        BY <1>b, <2>1, <2>2 DEF DrainInv, Reading
  <2>3. CASE final' = final /\ pc' = "deadline?"
    <3>1. ~final' BY <1>d, <2>3
    <3> QED BY <1>b, <2>1, <3>1 DEF DrainInv
  <2> QED BY <1>c, <2>2, <2>3
<1>4. ChildInv' BY <1>a, <1>b, <1>c, <1>d DEF ChildInv, Reading, Looping
<1>5. AnswerInv' BY <1>a, <1>b, <1>c DEF AnswerInv
<1> QED BY <1>1, <1>2, <1>3, <1>4, <1>5 DEF CaptureInv

\* SIGKILL and the wait for the child.
LEMMA KillStep ==
    ASSUME CaptureInv, Kill \/ Reap
    PROVE  CaptureInv'
<1>a. /\ TypeOK /\ StreamInv /\ DrainInv /\ ChildInv /\ AnswerInv
      BY DEF CaptureInv
<1>b. UNCHANGED <<final, chunk, text, heard, late, pipe, rest, written, answer, code>>
      BY DEF Kill, Reap, Goto, Return, Unread
<1>1. CASE Kill
  <2>a. /\ pc = "kill" /\ pc' = "reap" /\ UNCHANGED open
        /\ \/ child = "runs" /\ child' = "zombie" /\ status' = [how |-> "killed", value |-> 9]
           \/ child # "runs" /\ UNCHANGED <<child, status>>
        BY <1>1 DEF Kill, Goto
  <2>b. ~final /\ child \in {"runs", "zombie"} BY <1>a, <2>a DEF DrainInv, ChildInv, Reading
  <2>c. child' = "zombie" /\ status' \in Ended
    <3>1. [how |-> "killed", value |-> 9] \in Ended BY RunCaptureAssumption DEF Ended
    <3> QED BY <1>a, <2>a, <2>b, <3>1 DEF ChildInv
  <2>1. TypeOK' BY <1>a, <1>b, <2>a, <2>c DEF TypeOK, Pcs
  <2>2. StreamInv' BY <1>a, <1>b, <2>a DEF StreamInv, Reading
  <2>3. DrainInv' BY <1>a, <1>b, <2>a, <2>b DEF DrainInv
  <2>4. ChildInv' BY <2>a, <2>c DEF ChildInv, Reading, Looping
  <2>5. AnswerInv' BY <1>a, <1>b, <2>a DEF AnswerInv
  <2> QED BY <2>1, <2>2, <2>3, <2>4, <2>5 DEF CaptureInv
<1>2. CASE Reap
  <2>a. /\ pc = "reap" /\ pc' = "returned" /\ open' = {} /\ child = "zombie" /\ child' = "reaped"
        /\ UNCHANGED status
        BY <1>2 DEF Reap, Return
  <2>b. ~final /\ answer \in {"fcntl failed", "timed out"}
        BY <1>a, <2>a DEF DrainInv, AnswerInv, Reading
  <2>1. TypeOK' BY <1>a, <1>b, <2>a DEF TypeOK, Pcs
  <2>2. StreamInv' BY <1>a, <1>b, <2>a DEF StreamInv, Reading
  <2>3. DrainInv' BY <1>a, <1>b, <2>a, <2>b DEF DrainInv
  <2>4. ChildInv' BY <1>a, <1>b, <2>a, <2>b DEF ChildInv, Reading, Looping
  <2>5. AnswerInv' BY <1>a, <1>b, <2>a, <2>b DEF AnswerInv
  <2> QED BY <2>1, <2>2, <2>3, <2>4, <2>5 DEF CaptureInv
<1> QED BY <1>1, <1>2

\* A child that runs has not been reaped, so that what it writes will be read.
LEMMA ChildWriteStep ==
    ASSUME CaptureInv, NEW s \in Streams, Write(s)
    PROVE  CaptureInv'
<1>a. /\ TypeOK /\ StreamInv /\ DrainInv /\ ChildInv /\ AnswerInv
      BY DEF CaptureInv
<1>b. /\ child = "runs"
      /\ UNCHANGED <<pc, final, open, chunk, text, heard, late, child, status, answer, code>>
      BY DEF Write
<1>d. ~final BY <1>a, <1>b DEF DrainInv
<1>1. ChildInv' /\ AnswerInv' BY <1>a, <1>b DEF ChildInv, AnswerInv
<1>2. CASE /\ written' = [written EXCEPT ![s] = @ + 1]
           /\ pipe' = [pipe EXCEPT ![s] = Append(@, written[s] + 1)]
           /\ UNCHANGED rest
  <2>c. /\ written[s] \in Nat /\ pipe[s] \in Seq(Nat) /\ text[s] \in Seq(Nat)
        /\ chunk[s] \in Seq(Nat)
        /\ written'[s] = written[s] + 1 /\ pipe'[s] = Append(pipe[s], written[s] + 1)
        /\ \A t \in Streams : t # s => written'[t] = written[t] /\ pipe'[t] = pipe[t]
        BY <1>a, <1>2 DEF TypeOK, Chunks
  <2>e. pipe'[s] \in Seq(Nat) /\ Told(text[s], chunk[s], pipe'[s], written'[s])
    <3>1. Told(text[s], chunk[s], pipe[s], written[s]) BY <1>a DEF StreamInv
    <3> QED BY <2>c, <3>1, ToldWrite
  <2>1. pipe' \in Chunks BY <1>a, <1>2, <2>c, <2>e DEF TypeOK, Chunks
  <2>2. written' \in [Streams -> Nat] BY <1>a, <1>2 DEF TypeOK
  <2>3. TypeOK' BY <1>a, <1>b, <1>2, <2>1, <2>2 DEF TypeOK
  <2>4. StreamInv' BY <1>a, <1>b, <2>c, <2>e DEF StreamInv
  <2>5. DrainInv' BY <1>a, <1>b, <1>d DEF DrainInv
  <2> QED BY <2>3, <2>4, <2>5, <1>1 DEF CaptureInv
<1>3. CASE rest' = [rest EXCEPT ![s] = @ + 1] /\ UNCHANGED <<written, pipe>>
  <2>1. rest' \in [Streams -> Nat] BY <1>a, <1>3 DEF TypeOK
  <2>2. TypeOK' BY <1>a, <1>b, <1>3, <2>1 DEF TypeOK
  <2>3. StreamInv' BY <1>a, <1>b, <1>3 DEF StreamInv
  <2>4. DrainInv' BY <1>a, <1>b, <1>d DEF DrainInv
  <2> QED BY <2>2, <2>3, <2>4, <1>1 DEF CaptureInv
<1> QED BY <1>2, <1>3 DEF Write

\* The child's end, and the clock.
LEMMA OutsideStep ==
    ASSUME CaptureInv, End \/ DeadlinePasses
    PROVE  CaptureInv'
<1>a. /\ TypeOK /\ StreamInv /\ DrainInv /\ ChildInv /\ AnswerInv
      BY DEF CaptureInv
<1>b. UNCHANGED <<pc, final, open, chunk, text, heard, pipe, rest, written, answer, code>>
      BY DEF End, DeadlinePasses, kernel
<1>c. \/ child = "runs" /\ child' = "zombie" /\ status' \in Ended /\ UNCHANGED late
      \/ late' = TRUE /\ UNCHANGED <<child, status>>
      BY DEF End, DeadlinePasses, kernel, Ended
<1>d. child = "runs" => ~final /\ answer # "success" BY <1>a DEF DrainInv
<1>1. TypeOK' BY <1>a, <1>b, <1>c DEF TypeOK
<1>2. StreamInv' BY <1>a, <1>b DEF StreamInv
<1>3. DrainInv' BY <1>a, <1>b, <1>c, <1>d DEF DrainInv
<1>4. ChildInv' BY <1>a, <1>b, <1>c, <1>d DEF ChildInv, Reading, Looping
<1>5. AnswerInv' BY <1>a, <1>b, <1>c, <1>d DEF AnswerInv
<1> QED BY <1>1, <1>2, <1>3, <1>4, <1>5 DEF CaptureInv

\* At the start nothing is open, nothing runs and nothing was said.
LEMMA CaptureInit == Init => CaptureInv
<1> SUFFICES ASSUME Init PROVE CaptureInv OBVIOUS
<1>1. /\ pc = "pipes" /\ final = FALSE /\ late = FALSE
      /\ open = {} /\ chunk = Nothing /\ text = Nothing /\ heard = Nothing /\ pipe = Nothing
      /\ written = [s \in Streams |-> 0] /\ rest = written
      /\ child = "none" /\ status = NoStatus /\ answer = "none" /\ code = 0
      BY DEF Init
<1>2. Nothing \in Chunks BY DEF Nothing, Chunks
<1>3. written \in [Streams -> Nat] /\ rest \in [Streams -> Nat] BY <1>1
<1>4. TypeOK BY <1>1, <1>2, <1>3 DEF TypeOK, Pcs, Answers
<1>5. StreamInv
  <2>1. \A s \in Streams : text[s] = <<>> /\ chunk[s] = <<>> /\ pipe[s] = <<>> /\ written[s] = 0
        BY <1>1 DEF Nothing
  <2> QED BY <1>1, <2>1, ToldNothing DEF StreamInv
<1>6. DrainInv BY <1>1 DEF DrainInv
<1>7. ChildInv
  <2>1. NoStatus \notin Ended BY DEF NoStatus, Ended
  <2> QED BY <1>1, <2>1 DEF ChildInv, Reading, Looping
<1>8. AnswerInv BY <1>1 DEF AnswerInv
<1> QED BY <1>4, <1>5, <1>6, <1>7, <1>8 DEF CaptureInv

\* The inductive invariant holds of the specification.
THEOREM CaptureCorrect == Spec => []CaptureInv
<1>1. CaptureInv /\ [Next]_vars => CaptureInv'
  <2> SUFFICES ASSUME CaptureInv, [Next]_vars PROVE CaptureInv' OBVIOUS
  <2>1. CASE Parent
        BY <2>1, JumpStep, BeginStep, ReadStep, KeepStep, WaitStep, KillStep DEF Parent
  <2>2. CASE \E s \in Streams : Write(s) BY <2>2, ChildWriteStep
  <2>3. CASE End \/ DeadlinePasses BY <2>3, OutsideStep
  <2>4. CASE UNCHANGED vars
        BY <2>4 DEF vars, kernel, CaptureInv, TypeOK, StreamInv, DrainInv, ChildInv, AnswerInv
  <2> QED BY <2>1, <2>2, <2>3, <2>4 DEF Next, Done
<1> QED BY CaptureInit, <1>1, PTL DEF Spec

\* A successful answer has all the child wrote, in order, and the callback has heard at any
\* moment what the output holds: the last reads come behind the waitpid that saw the end.
THEOREM CaptureComplete == Spec => []OutputComplete
<1>1. CaptureInv => OutputComplete
  <2> SUFFICES ASSUME CaptureInv PROVE OutputComplete OBVIOUS
  <2>1. TypeOK /\ StreamInv /\ DrainInv BY DEF CaptureInv
  <2>2. ASSUME Succeeded, NEW s \in Streams
        PROVE  text[s] = [i \in 1 .. written[s] |-> i] /\ rest[s] = 0
    <3>1. pipe[s] = <<>> /\ rest[s] = 0 /\ chunk[s] = <<>>
          BY <2>1, <2>2 DEF Succeeded, Returned, DrainInv, StreamInv, Reading, Nothing, Streams
    <3>2. text[s] \in Seq(Nat) BY <2>1 DEF TypeOK, Chunks
    <3>3. Told(text[s], <<>>, <<>>, written[s]) /\ written[s] \in Nat
          BY <2>1, <3>1 DEF StreamInv, TypeOK
    <3> QED BY <3>1, <3>2, <3>3, ToldAll
  <2> QED BY <2>1, <2>2 DEF OutputComplete, StreamInv
<1> QED BY <1>1, CaptureCorrect, PTL

\* Whatever failed, no descriptor, no child and no zombie is left; the exit code 0 means an
\* exit with 0; and only the clock makes an answer of timed out.
THEOREM CaptureClean == Spec => []ReturnsClean
<1>1. CaptureInv => ReturnsClean
  <2> SUFFICES ASSUME CaptureInv PROVE ReturnsClean OBVIOUS
  <2>1. ChildInv /\ AnswerInv /\ DrainInv BY DEF CaptureInv
  <2>2. ASSUME Succeeded PROVE (code = 0) = (status = [how |-> "exited", value |-> 0])
    <3>1. child = "reaped" BY <2>1, <2>2 DEF DrainInv, Succeeded
    <3>2. status \in Ended BY <2>1, <3>1 DEF ChildInv
    <3>3. code = IF status.how = "exited" THEN status.value ELSE 128 + status.value
          BY <2>1, <2>2 DEF AnswerInv, Succeeded
    <3>4. CASE status \in [how : {"exited"}, value : ExitCodes]
      <4>1. status.how = "exited" /\ status = [how |-> "exited", value |-> status.value] BY <3>4
      <4>2. code = status.value BY <3>3, <4>1
      <4> QED BY <4>1, <4>2
    <3>5. CASE status \in [how : {"killed"}, value : Signals]
      <4>1. status.how = "killed" /\ status.value \in 1 .. 64
        <5>1. status.how = "killed" /\ status.value \in Signals BY <3>5
        <5>2. Signals \subseteq 1 .. 64 BY RunCaptureAssumption
        <5> QED BY <5>1, <5>2
      <4>2. code # 0 BY <3>3, <4>1
      <4>3. status # [how |-> "exited", value |-> 0] BY <4>1
      <4> QED BY <4>2, <4>3
    <3> QED BY <3>2, <3>4, <3>5 DEF Ended
  <2>3. Returned => open = {} /\ child \in {"none", "reaped"}
        BY <2>1 DEF Returned, ChildInv, AnswerInv
  <2>4. Returned /\ answer = "timed out" => late BY <2>1 DEF AnswerInv
  <2> QED BY <2>2, <2>3, <2>4 DEF ReturnsClean
<1> QED BY <1>1, CaptureCorrect, PTL

-----------------------------------------------------------------------------
(* EnsureDirectory: the invariant.  The path has a component or more, as the *)
(* code demands of it; the processes may be any set.                         *)

Places == {"look", "mkdir", "check", "chmod", "done", "refused", "error"}

WalkTypeOK ==
    /\ node \in [1 .. Depth -> {"none", "dir", "other"}]
    /\ at \in [Procs -> 1 .. Depth] /\ walk \in [Procs -> Places]

\* Nothing is behind what is not a directory, and a process has only directories behind it.
TreeInv ==
    /\ \A j, k \in 1 .. Depth : j < k /\ node[j] # "dir" => node[k] = "none"
    /\ \A p \in Procs : \A k \in 1 .. at[p] - 1 : node[k] = "dir"

\* What a process has seen or made where it stands.
PlaceInv ==
    \A p \in Procs :
        /\ walk[p] = "check" => node[at[p]] # "none"
        /\ walk[p] = "chmod" => at[p] = Depth /\ node[Depth] = "dir"
        /\ walk[p] = "refused" => node[at[p]] = "other"

WalkInv == WalkTypeOK /\ TreeInv /\ PlaceInv

-----------------------------------------------------------------------------
(* EnsureDirectory: the steps *)

\* Making something at k, where nothing is and all before it are directories, loses nothing.
LEMMA MakeKeeps ==
    ASSUME WalkInv, Depth \in Nat \ {0}, NEW k \in 1 .. Depth, NEW kind \in {"dir", "other"},
           node[k] = "none", \A j \in 1 .. k - 1 : node[j] = "dir",
           node' = [node EXCEPT ![k] = kind]
    PROVE  /\ node' \in [1 .. Depth -> {"none", "dir", "other"}]
           /\ \A i, j \in 1 .. Depth : i < j /\ node'[i] # "dir" => node'[j] = "none"
           /\ \A j \in 1 .. Depth : node[j] # "none" => node'[j] = node[j]
<1>1. /\ node \in [1 .. Depth -> {"none", "dir", "other"}]
      /\ \A i, j \in 1 .. Depth : i < j /\ node[i] # "dir" => node[j] = "none"
      BY DEF WalkInv, WalkTypeOK, TreeInv
<1>2. node'[k] = kind /\ \A j \in 1 .. Depth : j # k => node'[j] = node[j] BY <1>1
<1>3. ASSUME NEW i \in 1 .. Depth, NEW j \in 1 .. Depth, i < j, node'[i] # "dir"
      PROVE  node'[j] = "none"
  <2>1. ~(i < k) BY <1>2, <1>3
  <2>2. j # k BY <1>3, <2>1
  <2>3. node[i] # "dir" BY <1>2, <1>3
  <2> QED BY <1>1, <1>2, <1>3, <2>2, <2>3
<1> QED BY <1>1, <1>2, <1>3

\* The other processes' places survive what is made and what another process does.
LEMMA OthersKeep ==
    ASSUME WalkInv, Depth \in Nat \ {0}, NEW p \in Procs, WalkTypeOK',
           walk'[p] = walk[p], at'[p] = at[p],
           \A j \in 1 .. Depth : node[j] # "none" => node'[j] = node[j]
    PROVE  /\ \A k \in 1 .. at'[p] - 1 : node'[k] = "dir"
           /\ walk'[p] = "check" => node'[at'[p]] # "none"
           /\ walk'[p] = "chmod" => at'[p] = Depth /\ node'[Depth] = "dir"
           /\ walk'[p] = "refused" => node'[at'[p]] = "other"
<1>1. at[p] \in 1 .. Depth BY DEF WalkInv, WalkTypeOK
<1>2. ASSUME NEW k \in 1 .. at[p] - 1 PROVE node'[k] = "dir"
  <2>1. node[k] = "dir" /\ k \in 1 .. Depth BY <1>1 DEF WalkInv, TreeInv
  <2> QED BY <2>1
<1>3. walk[p] = "check" => node'[at[p]] # "none" BY <1>1 DEF WalkInv, PlaceInv
<1>4. walk[p] = "chmod" => at[p] = Depth /\ node'[Depth] = "dir" BY DEF WalkInv, PlaceInv
<1>5. walk[p] = "refused" => node'[at[p]] = "other" BY <1>1 DEF WalkInv, PlaceInv
<1> QED BY <1>2, <1>3, <1>4, <1>5

\* A process that leaves a real directory behind it goes on, or comes to the chmod.
LEMMA AdvanceStep ==
    ASSUME WalkInv, Depth \in Nat \ {0}, NEW p \in Procs, node[at[p]] = "dir",
           Directory!NextComponent(p), node' = node
    PROVE  WalkInv'
<1>a. WalkTypeOK /\ TreeInv /\ PlaceInv BY DEF WalkInv
<1>b. /\ walk' = [walk EXCEPT ![p] = IF at[p] = Depth THEN "chmod" ELSE "look"]
      /\ at' = [at EXCEPT ![p] = IF at[p] = Depth THEN at[p] ELSE at[p] + 1]
      BY <1>a DEF Directory!NextComponent, Directory!Goto, WalkTypeOK
<1>c. at[p] \in 1 .. Depth BY <1>a DEF WalkTypeOK
<1>1. WalkTypeOK' BY <1>a, <1>b, <1>c DEF WalkTypeOK, Places
<1>2. /\ walk'[p] = IF at[p] = Depth THEN "chmod" ELSE "look"
      /\ at'[p] = IF at[p] = Depth THEN at[p] ELSE at[p] + 1
      /\ \A q \in Procs : q # p => walk'[q] = walk[q] /\ at'[q] = at[q]
      BY <1>a, <1>b DEF WalkTypeOK
<1>3. \A k \in 1 .. at'[p] - 1 : node[k] = "dir" BY <1>a, <1>c, <1>2 DEF TreeInv
<1>4. TreeInv' BY <1>a, <1>2, <1>3 DEF TreeInv
<1>5. PlaceInv' BY <1>a, <1>2 DEF PlaceInv
<1> QED BY <1>1, <1>4, <1>5 DEF WalkInv

\* A process that stays on its component goes where what is there lets it.
LEMMA TurnStep ==
    ASSUME WalkInv, NEW p \in Procs, NEW l \in {"mkdir", "check", "done", "refused", "error"},
           walk' = [walk EXCEPT ![p] = l], UNCHANGED <<node, at>>,
           l = "check" => node[at[p]] # "none", l = "refused" => node[at[p]] = "other"
    PROVE  WalkInv'
<1>a. WalkTypeOK /\ TreeInv /\ PlaceInv BY DEF WalkInv
<1>1. WalkTypeOK' BY <1>a DEF WalkTypeOK, Places
<1>2. TreeInv' BY <1>a DEF TreeInv
<1>3. walk'[p] = l /\ \A q \in Procs : q # p => walk'[q] = walk[q] BY <1>a DEF WalkTypeOK
<1>4. PlaceInv' BY <1>a, <1>3 DEF PlaceInv
<1> QED BY <1>1, <1>2, <1>4 DEF WalkInv

\* The first and the second lstat, and the chmod.
LEMMA LookStep ==
    ASSUME WalkInv, Depth \in Nat \ {0}, NEW p \in Procs,
           Directory!Look(p) \/ Directory!Check(p) \/ Directory!Chmod(p)
    PROVE  WalkInv'
<1>a. node[at[p]] \in {"none", "dir", "other"} BY DEF WalkInv, WalkTypeOK
<1>b. node' = node BY DEF Directory!Look, Directory!Check, Directory!Chmod
<1>1. \/ node[at[p]] = "dir" /\ Directory!NextComponent(p)
      \/ \E l \in {"mkdir", "check", "done", "refused", "error"} :
            /\ walk' = [walk EXCEPT ![p] = l] /\ UNCHANGED at
            /\ (l = "check" => node[at[p]] # "none") /\ (l = "refused" => node[at[p]] = "other")
  <2>1. CASE Directory!Look(p) BY <2>1 DEF Directory!Look, Directory!Goto
  <2>2. CASE Directory!Check(p)
    <3>1. node[at[p]] # "none" BY <2>2 DEF Directory!Check, WalkInv, PlaceInv
    <3> QED BY <1>a, <2>2, <3>1 DEF Directory!Check, Directory!Goto
  <2>3. CASE Directory!Chmod(p) BY <2>3 DEF Directory!Chmod, Directory!Goto
  <2> QED BY <2>1, <2>2, <2>3
<1>2. CASE node[at[p]] = "dir" /\ Directory!NextComponent(p) BY <1>b, <1>2, AdvanceStep
<1>3. CASE \E l \in {"mkdir", "check", "done", "refused", "error"} :
            /\ walk' = [walk EXCEPT ![p] = l] /\ UNCHANGED at
            /\ (l = "check" => node[at[p]] # "none") /\ (l = "refused" => node[at[p]] = "other")
      BY <1>b, <1>3, TurnStep
<1> QED BY <1>1, <1>2, <1>3

\* mkdir makes the directory, or finds what another process has made meanwhile.
LEMMA MkdirStep ==
    ASSUME WalkInv, Depth \in Nat \ {0}, NEW p \in Procs, Directory!Mkdir(p)
    PROVE  WalkInv'
<1>a. WalkTypeOK /\ TreeInv /\ PlaceInv BY DEF WalkInv
<1>b. at[p] \in 1 .. Depth BY <1>a DEF WalkTypeOK
<1>1. CASE /\ node' = [node EXCEPT ![at[p]] = IF @ = "none" THEN "dir" ELSE @]
           /\ walk' = [walk EXCEPT ![p] = "check"] /\ at' = at
  <2>1. CASE node[at[p]] # "none"
    <3>1. node' = node BY <1>a, <1>1, <2>1 DEF WalkTypeOK
    <3> QED BY <1>1, <2>1, <3>1, TurnStep
  <2>2. CASE node[at[p]] = "none"
    <3>1. node' = [node EXCEPT ![at[p]] = "dir"] BY <1>a, <1>1, <2>2 DEF WalkTypeOK
    <3>2. /\ node' \in [1 .. Depth -> {"none", "dir", "other"}]
          /\ \A i, j \in 1 .. Depth : i < j /\ node'[i] # "dir" => node'[j] = "none"
          /\ \A j \in 1 .. Depth : node[j] # "none" => node'[j] = node[j]
      <4>1. \A j \in 1 .. at[p] - 1 : node[j] = "dir" BY <1>a DEF TreeInv
      <4> QED BY <1>b, <2>2, <3>1, <4>1, MakeKeeps
    <3>3. WalkTypeOK' BY <1>a, <1>1, <3>2 DEF WalkTypeOK, Places
    <3>4. /\ walk'[p] = "check" /\ \A q \in Procs : q # p => walk'[q] = walk[q]
          BY <1>a, <1>1 DEF WalkTypeOK
    <3>5. node'[at[p]] = "dir" BY <1>a, <1>b, <3>1 DEF WalkTypeOK
    <3>6. ASSUME NEW q \in Procs
          PROVE  /\ \A k \in 1 .. at'[q] - 1 : node'[k] = "dir"
                 /\ walk'[q] = "check" => node'[at'[q]] # "none"
                 /\ walk'[q] = "chmod" => at'[q] = Depth /\ node'[Depth] = "dir"
                 /\ walk'[q] = "refused" => node'[at'[q]] = "other"
      <4>1. CASE q # p BY <1>1, <3>2, <3>3, <3>4, <4>1, OthersKeep
      <4>2. CASE q = p
        <5>1. ASSUME NEW k \in 1 .. at[p] - 1 PROVE node'[k] = "dir"
          <6>1. node[k] = "dir" /\ k \in 1 .. Depth BY <1>a, <1>b DEF TreeInv
          <6> QED BY <3>2, <6>1
        <5> QED BY <1>1, <3>4, <3>5, <4>2, <5>1
      <4> QED BY <4>1, <4>2
    <3>7. TreeInv' BY <3>2, <3>6 DEF TreeInv
    <3>8. PlaceInv' BY <3>6 DEF PlaceInv
    <3> QED BY <3>3, <3>7, <3>8 DEF WalkInv
  <2> QED BY <2>1, <2>2
<1>2. CASE walk' = [walk EXCEPT ![p] = "error"] /\ UNCHANGED <<node, at>>
      BY <1>2, TurnStep
<1> QED BY <1>1, <1>2 DEF Directory!Mkdir, Directory!Goto

\* Another call starts at the first component.
LEMMA AgainStep ==
    ASSUME WalkInv, Depth \in Nat \ {0}, NEW p \in Procs, Directory!Again(p)
    PROVE  WalkInv'
<1>a. WalkTypeOK /\ TreeInv /\ PlaceInv BY DEF WalkInv
<1>b. /\ walk' = [walk EXCEPT ![p] = "look"] /\ at' = [at EXCEPT ![p] = 1] /\ node' = node
      BY DEF Directory!Again, Directory!Goto
<1>1. WalkTypeOK' BY <1>a, <1>b DEF WalkTypeOK, Places
<1>2. /\ walk'[p] = "look" /\ at'[p] = 1
      /\ \A q \in Procs : q # p => walk'[q] = walk[q] /\ at'[q] = at[q]
      BY <1>a, <1>b DEF WalkTypeOK
<1>3. TreeInv' BY <1>a, <1>b, <1>2 DEF TreeInv
<1>4. PlaceInv' BY <1>a, <1>b, <1>2 DEF PlaceInv
<1> QED BY <1>1, <1>3, <1>4 DEF WalkInv

\* Another program makes something on the path.
LEMMA ObstructStep ==
    ASSUME WalkInv, Depth \in Nat \ {0}, Directory!Obstruct
    PROVE  WalkInv'
<1>a. WalkTypeOK /\ TreeInv /\ PlaceInv BY DEF WalkInv
<1>1. PICK k \in 1 .. Depth, kind \in {"dir", "other"} :
         /\ node[k] = "none" /\ \A j \in 1 .. k - 1 : node[j] = "dir"
         /\ node' = [node EXCEPT ![k] = kind]
      BY DEF Directory!Obstruct
<1>2. at' = at /\ walk' = walk BY DEF Directory!Obstruct
<1>3. /\ node' \in [1 .. Depth -> {"none", "dir", "other"}]
      /\ \A i, j \in 1 .. Depth : i < j /\ node'[i] # "dir" => node'[j] = "none"
      /\ \A j \in 1 .. Depth : node[j] # "none" => node'[j] = node[j]
      BY <1>1, MakeKeeps
<1>4. WalkTypeOK' BY <1>a, <1>2, <1>3 DEF WalkTypeOK
<1>5. ASSUME NEW q \in Procs
      PROVE  /\ \A k_1 \in 1 .. at'[q] - 1 : node'[k_1] = "dir"
             /\ walk'[q] = "check" => node'[at'[q]] # "none"
             /\ walk'[q] = "chmod" => at'[q] = Depth /\ node'[Depth] = "dir"
             /\ walk'[q] = "refused" => node'[at'[q]] = "other"
      BY <1>2, <1>3, <1>4, OthersKeep
<1>6. TreeInv' BY <1>3, <1>5 DEF TreeInv
<1>7. PlaceInv' BY <1>5 DEF PlaceInv
<1> QED BY <1>4, <1>6, <1>7 DEF WalkInv

\* The walk goes on only behind real directories, its chmod reaches a real directory, and
\* callers of one path, any number at once, do not make each other fail.
THEOREM WalkSafe == Directory!Spec => []WalkIsSafe
<1>0. Depth \in Nat \ {0} BY HelpersAssumption
<1>1. Directory!Init => WalkInv
  <2> SUFFICES ASSUME Directory!Init PROVE WalkInv OBVIOUS
  <2>1. WalkTypeOK BY <1>0 DEF Directory!Init, WalkTypeOK, Places
  <2>2. TreeInv /\ PlaceInv BY <1>0 DEF Directory!Init, TreeInv, PlaceInv
  <2> QED BY <2>1, <2>2 DEF WalkInv
<1>2. WalkInv /\ [Directory!Next]_(Directory!vars) => WalkInv'
  <2> SUFFICES ASSUME WalkInv, [Directory!Next]_(Directory!vars) PROVE WalkInv' OBVIOUS
  <2>1. CASE UNCHANGED Directory!vars
        BY <1>0, <2>1 DEF Directory!vars, WalkInv, WalkTypeOK, TreeInv, PlaceInv
  <2>2. ASSUME NEW p \in Procs, Directory!Walk(p) PROVE WalkInv'
        BY <1>0, <2>2, LookStep, MkdirStep, AgainStep DEF Directory!Walk
  <2> QED BY <1>0, <2>1, <2>2, ObstructStep DEF Directory!Next
<1>3. WalkInv => WalkIsSafe
      BY <1>0 DEF WalkInv, WalkTypeOK, TreeInv, PlaceInv, WalkIsSafe, Directory!WalkIsSafe
<1> QED BY <1>1, <1>2, <1>3, PTL DEF Directory!Spec

-----------------------------------------------------------------------------
(* Natural numbers *)

\* A non-empty set of natural numbers has a least one.
LEMMA LeastNatural ==
    ASSUME NEW T, T \subseteq Nat, T # {}
    PROVE  \E n \in T : \A m \in T : n <= m
<1> DEFINE U == {0 .. (n - 1) : n \in T}
<1>1. U \subseteq FiniteSubsetsOf(Nat)
  <2> SUFFICES ASSUME NEW n \in T PROVE 0 .. (n - 1) \in FiniteSubsetsOf(Nat) OBVIOUS
  <2>1. n \in Nat /\ n - 1 \in Int BY DEF FiniteSubsetsOf
  <2>2. IsFiniteSet(0 .. (n - 1)) BY <2>1, FS_Interval
  <2>3. 0 .. (n - 1) \subseteq Nat BY <2>1
  <2> QED BY <2>2, <2>3 DEF FiniteSubsetsOf
<1>2. U # {} OBVIOUS
<1>3. IsWellFoundedOn(StrictSubsetOrdering(Nat), FiniteSubsetsOf(Nat))
      BY FS_StrictSubsetOrderingWellFounded
<1>4. PICK x \in U : \A y \in U : ~(<<y, x>> \in StrictSubsetOrdering(Nat))
  <2> HIDE DEF U
  <2> QED BY <1>1, <1>2, <1>3, WFMin
<1>5. PICK n \in T : x = 0 .. (n - 1) BY <1>4
<1>6. ASSUME NEW m \in T, ~(n <= m) PROVE FALSE
  <2>1. m \in Nat /\ n \in Nat /\ m <= n - 1 BY <1>6
  <2>2. 0 .. (m - 1) \in U OBVIOUS
  <2>3. 0 .. (m - 1) \subseteq 0 .. (n - 1) /\ m \in 0 .. (n - 1) /\ m \notin 0 .. (m - 1) BY <2>1
  <2>4. 0 .. (m - 1) # 0 .. (n - 1) BY <2>3
  <2>5. 0 .. (m - 1) \subseteq Nat /\ 0 .. (n - 1) \subseteq Nat BY <2>1
  <2>6. <<0 .. (m - 1), 0 .. (n - 1)>> \in StrictSubsetOrdering(Nat)
        BY <2>3, <2>4, <2>5 DEF StrictSubsetOrdering
  <2> QED BY <1>4, <1>5, <2>2, <2>6
<1> QED BY <1>6

\* So has one whose members are bounded a greatest.
LEMMA GreatestNatural ==
    ASSUME NEW T, NEW b \in Nat, T \subseteq 0 .. b, T # {}
    PROVE  \E n \in T : \A m \in T : n >= m
<1> DEFINE U == {b - n : n \in T}
<1>1. U \subseteq Nat OBVIOUS
<1>5. U # {} OBVIOUS
<1>2. PICK u \in U : \A v \in U : u <= v
  <2> HIDE DEF U
  <2> QED BY <1>1, <1>5, LeastNatural
<1>3. PICK n \in T : u = b - n BY <1>2
<1>4. ASSUME NEW m \in T PROVE n >= m
  <2>1. u <= b - m BY <1>2
  <2> QED BY <1>3, <2>1
<1> QED BY <1>4

\* Induction, over a set of numbers.
LEMMA SetInduction ==
    ASSUME NEW S, 0 \in S, \A n \in Nat : n \in S => n + 1 \in S
    PROVE  Nat \subseteq S
<1> SUFFICES ASSUME Nat \ S # {} PROVE FALSE OBVIOUS
<1>1. PICK n \in Nat \ S : \A m \in Nat \ S : n <= m BY LeastNatural
<1>2. n # 0 /\ n - 1 \in Nat BY <1>1
<1>3. n - 1 \in S BY <1>1, <1>2
<1> QED BY <1>1, <1>2, <1>3

-----------------------------------------------------------------------------
(* Config: what the parser makes of a text, for any tokens *)

\* The tokens there are, and the texts made of them.
Token == (UNION {Range(typed) : typed \in Texts}) \cup Numbers \cup {"0", ":", "[", "]"}
Plain == Seq(Token)

LEMMA TokensAre ==
    /\ Texts \subseteq Plain
    /\ "0" \in Token /\ "[" \in Token /\ "]" \in Token /\ ":" \in Token
    /\ Numbers \subseteq Token
<1>1. ASSUME NEW t \in Texts PROVE t \in Plain
  <2>1. t \in Seq(STRING) BY HelpersAssumption
  <2>2. t \in Seq(Range(t)) BY <2>1, SeqOfRange
  <2>3. Range(t) \subseteq Token BY DEF Token
  <2> QED BY <2>2, <2>3, SeqMonotonic DEF Plain
<1> QED BY <1>1 DEF Token

LEMMA MinIs ==
    ASSUME NEW T, NEW n \in T, T \subseteq Nat, \A m \in T : n <= m
    PROVE  Setting!Min(T) = n
<1>1. PICK x \in T : x = Setting!Min(T) /\ \A m \in T : x <= m BY Zenon DEF Setting!Min
<1>2. x <= n /\ n <= x BY <1>1
<1> QED BY <1>1, <1>2

LEMMA MaxIs ==
    ASSUME NEW T, NEW n \in T, T \subseteq Nat, \A m \in T : n >= m
    PROVE  Setting!Max(T) = n
<1>1. PICK x \in T : x = Setting!Max(T) /\ \A m \in T : x >= m BY Zenon DEF Setting!Max
<1>2. x >= n /\ n >= x BY <1>1
<1> QED BY <1>1, <1>2

\* A piece of a plain text is plain.
LEMMA PieceIsPlain ==
    ASSUME NEW t \in Plain, NEW i \in Nat, NEW j \in Int, 1 <= i, j <= Len(t)
    PROVE  /\ SubSeq(t, i, j) \in Plain
           /\ Len(SubSeq(t, i, j)) = IF i <= j THEN j - i + 1 ELSE 0
           /\ \A k \in 1 .. j - i + 1 : SubSeq(t, i, j)[k] = t[i + k - 1]
BY SubSeqProperties, ElementOfSeq DEF Plain

\* trim leaves a text alone that begins and ends with something else than space.
LEMMA TrimIs ==
    ASSUME NEW t \in Plain, t # <<>>,
           t[1] \notin Setting!Space, t[Len(t)] \notin Setting!Space
    PROVE  Setting!trim(t) = t
<1> DEFINE kept == {i \in DOMAIN t : t[i] \notin Setting!Space}
<1>1. DOMAIN t = 1 .. Len(t) /\ Len(t) \in Nat /\ Len(t) # 0 /\ SubSeq(t, 1, Len(t)) = t
      BY LenProperties, EmptySeq, SubSeqFull DEF Plain
<1>2. 1 \in kept /\ Len(t) \in kept BY <1>1
<1>3. kept \subseteq Nat /\ \A m \in kept : 1 <= m /\ Len(t) >= m BY <1>1
<1>4. Setting!trim(t) = SubSeq(t, Setting!Min(kept), Setting!Max(kept))
      BY <1>2, Zenon DEF Setting!trim
<1> HIDE DEF kept
<1>5. Setting!Min(kept) = 1 /\ Setting!Max(kept) = Len(t) BY <1>2, <1>3, MinIs, MaxIs
<1> QED BY <1>1, <1>4, <1>5

\* What a text with a valid upstream holds, whatever brackets and colons the text had.
Sound(u) ==
    /\ u = [host |-> u.host, port |-> u.port] /\ u.host \in Plain /\ u.port \in Plain
    /\ Setting!isValidHost(u.host) /\ Len(u.port) = 1 /\ u.port[1] \in Numbers
    /\ Setting!Has(u.host, ":") => ~Setting!Has(u.host, "]")

PlainUpstream == [host : Plain, port : Plain]

LEMMA FailedIsPlain == Setting!Failed \in PlainUpstream /\ <<>> \in Plain
BY EmptySeq DEF Setting!Failed, PlainUpstream, Plain

\* Numbers are tokens, and no token the parsers look at is a number.
LEMMA NumberIs ==
    ASSUME NEW n \in Numbers
    PROVE  n \in Token /\ n \notin {"blank", ":", "[", "]"}
BY HelpersAssumption, TokensAre

\* validateUpstream returns what it was given, or nothing.
LEMMA ValidateIs ==
    ASSUME NEW host \in Plain, NEW port \in Plain,
           Setting!Has(host, ":") => ~Setting!Has(host, "]")
    PROVE  LET u == Setting!validateUpstream([host |-> host, port |-> port])
           IN  u \in PlainUpstream /\ (u # Setting!Failed => Sound(u))
<1> DEFINE v == [host |-> host, port |-> port]
<1>1. v.host = host /\ v.port = port /\ v \in PlainUpstream BY DEF PlainUpstream
<1>2. Setting!validateUpstream(v) \in {v, Setting!Failed} BY Zenon DEF Setting!validateUpstream
<1>3. ASSUME Setting!validateUpstream(v) = v, v # Setting!Failed PROVE Sound(v)
      BY <1>1, <1>3 DEF Setting!validateUpstream, Sound
<1> QED BY <1>1, <1>2, <1>3, FailedIsPlain

\* A sound upstream is what validateUpstream makes of itself.
LEMMA ValidIs ==
    ASSUME NEW u, Sound(u)
    PROVE  u \in PlainUpstream /\ Setting!validateUpstream(u) = u
BY DEF Sound, PlainUpstream, Setting!validateUpstream

\* What is parsed is sound, or nothing.
LEMMA ParseIs ==
    ASSUME NEW t \in Plain
    PROVE  LET u == Setting!parseUpstreamUri(t)
           IN  u \in PlainUpstream /\ (u # Setting!Failed => Sound(u))
<1> DEFINE closing == {i \in DOMAIN t : t[i] = "]"}
           colons  == {i \in DOMAIN t : t[i] = ":"}
<1>1. DOMAIN t = 1 .. Len(t) /\ Len(t) \in Nat BY LenProperties DEF Plain
<1>2. CASE t # <<>> /\ Head(t) = "[" /\ closing # {} /\ Setting!Min(closing) + 1 \in colons
  <2>1. closing \subseteq Nat BY <1>1
  <2>2. PICK c \in closing : \A i \in closing : c <= i BY <1>2, <2>1, LeastNatural
  <2>3. Setting!Min(closing) = c BY <2>1, <2>2, MinIs
  <2> DEFINE host == SubSeq(t, 2, c - 1)
             port == SubSeq(t, c + 2, Len(t))
  <2>4. c \in 1 .. Len(t) BY <1>1
  <2>5. /\ host \in Plain /\ port \in Plain
        /\ Len(host) = IF 2 <= c - 1 THEN c - 2 ELSE 0
        /\ \A k \in 1 .. c - 2 : host[k] = t[k + 1]
    <3>1. c - 1 \in Int /\ c - 1 <= Len(t) /\ c + 2 \in Nat /\ 1 <= c + 2 BY <1>1, <2>4
    <3>2. host \in Plain /\ port \in Plain BY <1>1, <3>1, PieceIsPlain
    <3>3. /\ Len(host) = IF 2 <= c - 1 THEN c - 1 - 2 + 1 ELSE 0
          /\ \A k \in 1 .. c - 1 - 2 + 1 : host[k] = t[2 + k - 1]
          BY <3>1, PieceIsPlain
    <3> HIDE DEF host, port
    <3> QED BY <2>4, <3>2, <3>3
  <2>6. ~Setting!Has(host, "]")
    <3> SUFFICES ASSUME NEW k \in DOMAIN host, host[k] = "]" PROVE FALSE BY DEF Setting!Has
    <3> HIDE DEF host
    <3>1. DOMAIN host = 1 .. Len(host) BY <2>5, LenProperties DEF Plain
    <3>2. k \in 1 .. c - 2 /\ k + 1 \in 1 .. Len(t) /\ k + 1 < c BY <2>4, <2>5, <3>1
    <3>3. t[k + 1] = "]" BY <2>5, <3>2
    <3>4. k + 1 \in closing BY <1>1, <3>2, <3>3
    <3> QED BY <2>2, <2>4, <3>2, <3>4
  <2>7. Setting!parseUpstreamUri(t) = Setting!validateUpstream([host |-> host, port |-> port])
        BY <1>2, <2>3, Zenon DEF Setting!parseUpstreamUri
  <2> HIDE DEF host, port
  <2> QED BY <2>5, <2>6, <2>7, ValidateIs
<1>3. CASE ~(t # <<>> /\ Head(t) = "[") /\ colons # {}
           /\ ~Setting!Has(SubSeq(t, 1, Setting!Max(colons) - 1), ":")
  <2>1. colons \subseteq 0 .. Len(t) /\ colons \subseteq Nat BY <1>1
  <2>2. PICK d \in colons : \A i \in colons : d >= i BY <1>1, <1>3, <2>1, GreatestNatural
  <2>3. Setting!Max(colons) = d BY <2>1, <2>2, MaxIs
  <2> DEFINE host == SubSeq(t, 1, d - 1)
             port == SubSeq(t, d + 1, Len(t))
  <2>4. d \in 1 .. Len(t) BY <1>1
  <2>5. d - 1 \in Int /\ d - 1 <= Len(t) /\ d + 1 \in Nat /\ 1 <= d + 1 BY <1>1, <2>4
  <2>6. host \in Plain /\ port \in Plain BY <1>1, <2>5, PieceIsPlain
  <2>7. ~Setting!Has(host, ":") BY <1>3, <2>3
  <2>8. Setting!parseUpstreamUri(t) = Setting!validateUpstream([host |-> host, port |-> port])
        BY <1>3, <2>3, Zenon DEF Setting!parseUpstreamUri, Setting!Split
  <2> HIDE DEF host, port
  <2> QED BY <2>6, <2>7, <2>8, ValidateIs
<1>4. Setting!parseUpstreamUri(t) = Setting!Failed \/ (t # <<>> /\ Head(t) = "[" /\ closing # {} /\ Setting!Min(closing) + 1 \in colons)
      \/ (~(t # <<>> /\ Head(t) = "[") /\ colons # {}
           /\ ~Setting!Has(SubSeq(t, 1, Setting!Max(colons) - 1), ":"))
      BY Zenon DEF Setting!parseUpstreamUri
<1> QED BY <1>2, <1>3, <1>4, FailedIsPlain


\* A text of one token.
LEMMA OneToken ==
    ASSUME NEW x \in Token
    PROVE  <<x>> \in Plain /\ Len(<<x>>) = 1 /\ <<x>>[1] = x
BY DEF Plain

\* The text of an upstream is plain.
LEMMA FormatIsPlain ==
    ASSUME NEW u, u.host \in Plain, u.port \in Plain
    PROVE  Setting!formatUpstreamUri(u) \in Plain
<1>1. <<"[">> \in Plain /\ <<"]">> \in Plain /\ <<":">> \in Plain BY TokensAre, OneToken
<1>2. Setting!Bracketed(u.host) \in Plain
      BY <1>1, ConcatProperties DEF Setting!Bracketed, Plain
<1> QED BY <1>1, <1>2, ConcatProperties DEF Setting!formatUpstreamUri, Plain

\* A text that begins with a bracket is cut behind its first closing one.
LEMMA ParseBracketed ==
    ASSUME NEW host \in Plain, NEW port \in Plain, ~Setting!Has(host, "]")
    PROVE  Setting!parseUpstreamUri(((<<"[">> \o host) \o <<"]">>) \o <<":">> \o port)
           = Setting!validateUpstream([host |-> host, port |-> port])
<1> DEFINE a == <<"[">> \o host
           b == a \o <<"]">>
           c == b \o <<":">>
           t == c \o port
           n == Len(host)
           m == Len(port)
           closing == {i \in DOMAIN t : t[i] = "]"}
           colons  == {i \in DOMAIN t : t[i] = ":"}
<1>0. <<"[">> \in Plain /\ <<"]">> \in Plain /\ <<":">> \in Plain BY TokensAre, OneToken
<1>1. n \in Nat /\ m \in Nat /\ DOMAIN host = 1 .. n /\ DOMAIN port = 1 .. m
      BY LenProperties DEF Plain
<1>2. a \in Plain /\ Len(a) = n + 1
      /\ \A i \in 1 .. n + 1 : a[i] = IF i <= 1 THEN "[" ELSE host[i - 1]
  <2>1. Len(<<"[">>) = 1 /\ <<"[">>[1] = "[" OBVIOUS
  <2> QED BY <1>0, <1>1, <2>1, ConcatProperties DEF Plain
<1>3. b \in Plain /\ Len(b) = n + 2
      /\ \A i \in 1 .. n + 2 : b[i] = IF i <= n + 1 THEN a[i] ELSE "]"
  <2>1. Len(<<"]">>) = 1 /\ <<"]">>[1] = "]" OBVIOUS
  <2> HIDE DEF a
  <2> QED BY <1>0, <1>1, <1>2, <2>1, ConcatProperties DEF Plain
<1>4. c \in Plain /\ Len(c) = n + 3
      /\ \A i \in 1 .. n + 3 : c[i] = IF i <= n + 2 THEN b[i] ELSE ":"
  <2>1. Len(<<":">>) = 1 /\ <<":">>[1] = ":" OBVIOUS
  <2> HIDE DEF b
  <2> QED BY <1>0, <1>1, <1>3, <2>1, ConcatProperties DEF Plain
<1>5. t \in Plain /\ Len(t) = n + 3 + m
      /\ \A i \in 1 .. n + 3 + m : t[i] = IF i <= n + 3 THEN c[i] ELSE port[i - (n + 3)]
  <2> HIDE DEF c, n, m
  <2>1. /\ t \in Plain /\ Len(t) = Len(c) + Len(port)
        /\ \A i \in 1 .. Len(c) + Len(port) :
              t[i] = IF i <= Len(c) THEN c[i] ELSE port[i - Len(c)]
        BY <1>4, ConcatProperties DEF Plain
  <2>2. Len(port) = m BY DEF m
  <2> QED BY <1>1, <1>4, <2>1, <2>2
<1> HIDE DEF a, b, c, t, n, m
<1>6. DOMAIN t = 1 .. n + 3 + m BY <1>5, LenProperties DEF Plain
<1>7. /\ t[1] = "[" /\ t[n + 2] = "]" /\ t[n + 3] = ":"
      /\ \A k \in 1 .. n : t[k + 1] = host[k]
      /\ \A k \in 1 .. m : t[n + 3 + k] = port[k]
      BY <1>1, <1>2, <1>3, <1>4, <1>5
<1>8. Setting!Min(closing) = n + 2
  <2>1. n + 2 \in closing /\ closing \subseteq Nat BY <1>1, <1>6, <1>7
  <2>2. ASSUME NEW i \in closing, ~(n + 2 <= i) PROVE FALSE
    <3>1. i \in 1 .. n + 1 /\ t[i] = "]" BY <1>1, <1>6, <2>2
    <3>2. i # 1 BY <1>7, <3>1
    <3>3. i - 1 \in 1 .. n BY <1>1, <3>1, <3>2
    <3>4. host[i - 1] = t[(i - 1) + 1] BY <1>7, <3>3
    <3>5. (i - 1) + 1 = i BY <3>1
    <3>6. host[i - 1] = "]" BY <3>1, <3>4, <3>5
    <3> QED BY <1>1, <3>3, <3>6 DEF Setting!Has
  <2> QED BY <2>1, <2>2, MinIs
<1>9. t # <<>> /\ Head(t) = "[" /\ closing # {} /\ (n + 2) + 1 \in colons
  <2>1. n + 3 \in colons BY <1>1, <1>6, <1>7
  <2>2. t # <<>> /\ Head(t) = t[1] BY <1>1, <1>5, <1>6 DEF Plain
  <2>3. n + 2 \in closing BY <1>1, <1>6, <1>7
  <2>4. (n + 2) + 1 = n + 3 BY <1>1
  <2> QED BY <1>7, <2>1, <2>2, <2>3, <2>4
<1>10. SubSeq(t, 2, (n + 2) - 1) = host
  <2>1. /\ SubSeq(t, 2, (n + 2) - 1) \in Plain /\ Len(SubSeq(t, 2, (n + 2) - 1)) = n
        /\ \A k \in 1 .. n : SubSeq(t, 2, (n + 2) - 1)[k] = t[k + 1]
        BY <1>1, <1>5, PieceIsPlain
  <2> QED BY <1>1, <1>7, <2>1, SeqEqual DEF Plain, n
<1>11. SubSeq(t, (n + 2) + 2, Len(t)) = port
  <2>1. /\ SubSeq(t, (n + 2) + 2, Len(t)) \in Plain /\ Len(SubSeq(t, (n + 2) + 2, Len(t))) = m
        /\ \A k \in 1 .. m : SubSeq(t, (n + 2) + 2, Len(t))[k] = t[n + 3 + k]
        BY <1>1, <1>5, PieceIsPlain
  <2>2. Len(port) = m BY DEF m
  <2> DEFINE got == SubSeq(t, (n + 2) + 2, Len(t))
  <2>3. \A k \in 1 .. Len(got) : got[k] = port[k] BY <1>7, <2>1
  <2> HIDE DEF got
  <2>4. got \in Seq(Token) /\ port \in Seq(Token) /\ Len(got) = Len(port)
        BY <2>1, <2>2 DEF Plain, got
  <2>5. got = port BY <2>3, <2>4, SeqEqual
  <2> QED BY <2>5 DEF got
<1>12. Setting!parseUpstreamUri(t) = Setting!validateUpstream([host |-> host, port |-> port])
       BY <1>8, <1>9, <1>10, <1>11, Zenon DEF Setting!parseUpstreamUri
<1>13. t = ((<<"[">> \o host) \o <<"]">>) \o <<":">> \o port BY DEF a, b, c, t
<1> QED BY <1>12, <1>13

\* One that does not is cut at its last colon.
LEMMA ParsePlain ==
    ASSUME NEW host \in Plain, host # <<>>, NEW n \in Numbers,
           ~Setting!Has(host, ":"), ~Setting!Has(host, "[")
    PROVE  Setting!parseUpstreamUri((host \o <<":">>) \o <<n>>)
           = Setting!validateUpstream([host |-> host, port |-> <<n>>])
<1> DEFINE a == host \o <<":">>
           t == a \o <<n>>
           l == Len(host)
           colons == {i \in DOMAIN t : t[i] = ":"}
<1>0. <<":">> \in Plain /\ <<n>> \in Plain /\ n # ":" BY NumberIs, TokensAre, OneToken
<1>1. l \in Nat /\ l # 0 /\ DOMAIN host = 1 .. l BY LenProperties, EmptySeq DEF Plain
<1>2. a \in Plain /\ Len(a) = l + 1
      /\ \A i \in 1 .. l + 1 : a[i] = IF i <= l THEN host[i] ELSE ":"
  <2>1. Len(<<":">>) = 1 /\ <<":">>[1] = ":" OBVIOUS
  <2> QED BY <1>0, <1>1, <2>1, ConcatProperties DEF Plain
<1>3. t \in Plain /\ Len(t) = l + 2
      /\ \A i \in 1 .. l + 2 : t[i] = IF i <= l + 1 THEN a[i] ELSE n
  <2>1. Len(<<n>>) = 1 /\ <<n>>[1] = n OBVIOUS
  <2> HIDE DEF a
  <2> QED BY <1>0, <1>1, <1>2, <2>1, ConcatProperties DEF Plain
<1> HIDE DEF a, t, l
<1>4. DOMAIN t = 1 .. l + 2 BY <1>3, LenProperties DEF Plain
<1>5. (\A k \in 1 .. l : t[k] = host[k]) /\ t[l + 1] = ":" /\ t[l + 2] = n
      BY <1>1, <1>2, <1>3
<1>6. Setting!Max(colons) = l + 1 /\ colons # {}
  <2>1. l + 1 \in colons /\ colons \subseteq Nat BY <1>1, <1>4, <1>5
  <2>2. ASSUME NEW i \in colons PROVE l + 1 >= i BY <1>0, <1>1, <1>4, <1>5
  <2> QED BY <2>1, <2>2, MaxIs
<1>7. t # <<>> /\ Head(t) # "["
  <2>1. t # <<>> /\ Head(t) = t[1] BY <1>1, <1>3, <1>4 DEF Plain
  <2>2. 1 \in 1 .. l BY <1>1
  <2> QED BY <1>1, <1>5, <2>1, <2>2 DEF Setting!Has
<1>8. SubSeq(t, 1, (l + 1) - 1) = host
  <2>1. /\ SubSeq(t, 1, (l + 1) - 1) \in Plain /\ Len(SubSeq(t, 1, (l + 1) - 1)) = l
        /\ \A k \in 1 .. l : SubSeq(t, 1, (l + 1) - 1)[k] = t[k]
        BY <1>1, <1>3, PieceIsPlain
  <2> QED BY <1>1, <1>5, <2>1, SeqEqual DEF Plain, l
<1>9. SubSeq(t, (l + 1) + 1, Len(t)) = <<n>>
  <2>1. /\ SubSeq(t, (l + 1) + 1, Len(t)) \in Plain /\ Len(SubSeq(t, (l + 1) + 1, Len(t))) = 1
        /\ SubSeq(t, (l + 1) + 1, Len(t))[1] = t[l + 2]
        BY <1>1, <1>3, PieceIsPlain
  <2> DEFINE got == SubSeq(t, (l + 1) + 1, Len(t))
  <2>2. got \in Seq(Token) /\ Len(got) = 1 /\ got[1] = n BY <1>5, <2>1 DEF Plain
  <2> HIDE DEF got
  <2>3. got = <<n>> BY <2>2
  <2> QED BY <2>3 DEF got
<1>10. Setting!parseUpstreamUri(t) = Setting!validateUpstream([host |-> host, port |-> <<n>>])
       BY <1>6, <1>7, <1>8, <1>9, Zenon DEF Setting!parseUpstreamUri, Setting!Split
<1> QED BY <1>10 DEF a, t

\* The text of a sound upstream is parsed to that upstream, unless its host has an opening bracket.
LEMMA FormatParse ==
    ASSUME NEW u, Sound(u), ~Setting!Has(u.host, "[")
    PROVE  Setting!parseUpstreamUri(Setting!formatUpstreamUri(u)) = u
<1>1. u.port = <<u.port[1]>> /\ u.port[1] \in Numbers BY DEF Sound, Plain
<1>2. u.host # <<>> BY DEF Sound, Setting!isValidHost
<1>3. [host |-> u.host, port |-> u.port] = u BY DEF Sound
<1>4. Setting!validateUpstream(u) = u BY ValidIs
<1>5. CASE Setting!Has(u.host, ":")
  <2>1. ~Setting!Has(u.host, "]") /\ u.host \in Plain /\ u.port \in Plain BY <1>5 DEF Sound
  <2>2. Setting!formatUpstreamUri(u) = ((<<"[">> \o u.host) \o <<"]">>) \o <<":">> \o u.port
        BY <1>5, Zenon DEF Setting!formatUpstreamUri, Setting!Bracketed
  <2> QED BY <1>3, <1>4, <2>1, <2>2, ParseBracketed
<1>6. CASE ~Setting!Has(u.host, ":")
  <2>1. Setting!formatUpstreamUri(u) = (u.host \o <<":">>) \o <<u.port[1]>>
        BY <1>1, <1>6 DEF Setting!formatUpstreamUri, Setting!Bracketed
  <2> QED BY <1>1, <1>2, <1>3, <1>4, <1>6, <2>1, ParsePlain DEF Sound
<1> QED BY <1>5, <1>6

\* trim takes a piece, so that what it keeps was there.
LEMMA TrimIsPlain ==
    ASSUME NEW t \in Plain
    PROVE  /\ Setting!trim(t) \in Plain
           /\ \A x : Setting!Has(Setting!trim(t), x) => Setting!Has(t, x)
<1> DEFINE kept == {i \in DOMAIN t : t[i] \notin Setting!Space}
           s == Setting!trim(t)
<1>1. DOMAIN t = 1 .. Len(t) /\ Len(t) \in Nat BY LenProperties DEF Plain
<1>2. CASE kept = {}
  <2>1. s = <<>> BY <1>2, Zenon DEF Setting!trim
  <2>2. DOMAIN s = {} BY <2>1
  <2> QED BY <2>1, <2>2, FailedIsPlain DEF Setting!Has
<1>3. CASE kept # {}
  <2>1. kept \subseteq Nat /\ kept \subseteq 0 .. Len(t) /\ kept \subseteq 1 .. Len(t) BY <1>1
  <2> HIDE DEF kept
  <2>2. PICK i \in kept : \A k \in kept : i <= k BY <1>3, <2>1, LeastNatural
  <2>3. PICK j \in kept : \A k \in kept : j >= k BY <1>1, <1>3, <2>1, GreatestNatural
  <2>4. Setting!Min(kept) = i /\ Setting!Max(kept) = j BY <2>1, <2>2, <2>3, MinIs, MaxIs
  <2>5. i \in 1 .. Len(t) /\ j \in 1 .. Len(t) BY <2>1
  <2>6. s = SubSeq(t, i, j)
    <3>1. s = SubSeq(t, Setting!Min(kept), Setting!Max(kept)) BY <1>3, Zenon DEF Setting!trim, kept
    <3> QED BY <2>4, <3>1
  <2>7. i \in Nat /\ j \in Int /\ 1 <= i /\ j <= Len(t) BY <1>1, <2>5
  <2>8. /\ s \in Plain /\ Len(s) = IF i <= j THEN j - i + 1 ELSE 0
        /\ \A k \in 1 .. j - i + 1 : s[k] = t[i + k - 1]
        BY <2>6, <2>7, PieceIsPlain
  <2> HIDE DEF s
  <2>9. DOMAIN s = 1 .. Len(s) BY <2>8, LenProperties DEF Plain
  <2>10. ASSUME NEW k \in DOMAIN s PROVE i + k - 1 \in DOMAIN t /\ s[k] = t[i + k - 1]
    <3>1. k \in 1 .. j - i + 1 BY <2>7, <2>8, <2>9
    <3>2. i + k - 1 \in 1 .. Len(t) BY <1>1, <2>5, <3>1
    <3> QED BY <1>1, <2>8, <3>1, <3>2
  <2>11. ASSUME NEW x, Setting!Has(s, x) PROVE Setting!Has(t, x)
    <3>1. PICK k \in DOMAIN s : s[k] = x BY <2>11 DEF Setting!Has
    <3> QED BY <2>10, <3>1 DEF Setting!Has
  <2>12. s \in Plain BY <2>8
  <2> QED BY <2>11, <2>12 DEF s
<1> QED BY <1>2, <1>3

\* The host in the file with what trim strips of it.
Stripped(u) == [host |-> Setting!trim(u.host), port |-> u.port]

\* What was saved is loaded without the feeds at the ends of its host, or not at all.
LEMMA LoadIs ==
    ASSUME NEW u, Sound(u)
    PROVE  LET v == Setting!load(Setting!save(u)) IN
           /\ v \in {Setting!Failed, Stripped(u)}
           /\ v # Setting!Failed => Sound(v)
           /\ ~Setting!Padded(u.host) => v = u
<1> DEFINE v == Setting!load(Setting!save(u))
<1>1. u.host \in Plain /\ u.host # <<>> /\ ~Setting!Has(u.host, "blank")
      BY DEF Sound, Setting!isValidHost
<1>2. Setting!trim(u.port) = u.port
  <2>1. u.port \in Plain /\ u.port # <<>> /\ Len(u.port) = 1 /\ u.port[1] \in Numbers
        BY DEF Sound, Plain
  <2>2. u.port[1] \notin Setting!Space BY <2>1, HelpersAssumption DEF Setting!Space
  <2> QED BY <2>1, <2>2, TrimIs
<1>3. v = Setting!validateUpstream(Stripped(u))
  <2>1. Setting!save(u).host = u.host /\ Setting!save(u).port = u.port BY DEF Setting!save
  <2> QED BY <1>2, <2>1 DEF Setting!load, Stripped
<1>4. Setting!trim(u.host) \in Plain /\ u.port \in Plain
      /\ (Setting!Has(Setting!trim(u.host), ":") => ~Setting!Has(Setting!trim(u.host), "]"))
  <2>1. \A x : Setting!Has(Setting!trim(u.host), x) => Setting!Has(u.host, x)
        BY <1>1, TrimIsPlain
  <2> QED BY <1>1, <2>1, TrimIsPlain DEF Sound
<1>5. v \in {Setting!Failed, Stripped(u)} BY <1>3, Zenon DEF Setting!validateUpstream
<1>6. v # Setting!Failed => Sound(v) BY <1>3, <1>4, ValidateIs DEF Stripped
<1>7. ASSUME ~Setting!Padded(u.host) PROVE v = u
  <2>1. Len(u.host) \in Nat /\ Len(u.host) # 0 /\ DOMAIN u.host = 1 .. Len(u.host)
        BY <1>1, LenProperties, EmptySeq DEF Plain
  <2>2. 1 \in DOMAIN u.host /\ Len(u.host) \in DOMAIN u.host BY <2>1
  <2>3. Head(u.host) = u.host[1] /\ Setting!Last(u.host) = u.host[Len(u.host)]
        BY <1>1 DEF Plain, Setting!Last
  <2>4. u.host[1] \notin Setting!Space /\ u.host[Len(u.host)] \notin Setting!Space
        BY <1>1, <1>7, <2>2, <2>3 DEF Setting!Padded, Setting!Has, Setting!Space
  <2>5. Setting!trim(u.host) = u.host BY <1>1, <2>4, TrimIs
  <2>6. Stripped(u) = u BY <2>5 DEF Stripped, Sound
  <2> QED BY <1>3, <2>6, ValidIs
<1> QED BY <1>5, <1>6, <1>7


-----------------------------------------------------------------------------
(* Config: the invariant *)

\* Every text is made of tokens, and what was saved last is the upstream that was told.
SettingInv ==
    /\ config \in PlainUpstream /\ shown \in [Clients -> PlainUpstream] /\ saved \in BOOLEAN
    /\ saved => Sound(told) /\ config = Setting!save(told)

\* A setting that succeeds saves a sound upstream, from whatever it was given.
LEMMA SetSettingKeeps ==
    ASSUME SettingInv, NEW uri \in Plain, Setting!SetSetting(uri),
           shown' \in [Clients -> PlainUpstream]
    PROVE  SettingInv'
<1> DEFINE u == Setting!parseUpstreamUri(uri)
<1>1. u \in PlainUpstream /\ (u # Setting!Failed => Sound(u)) BY ParseIs
<1>2. CASE u = Setting!Failed
  <2>1. UNCHANGED <<config, saved, told>> BY <1>2, Zenon DEF Setting!SetSetting
  <2> QED BY <2>1 DEF SettingInv
<1>3. CASE u # Setting!Failed
  <2>1. config' = Setting!save(u) /\ saved' = TRUE /\ told' = u
        BY <1>3, Zenon DEF Setting!SetSetting
  <2>2. Sound(u) BY <1>1, <1>3
  <2>3. Setting!save(u) = u BY <2>2 DEF Setting!save, Sound
  <2> HIDE DEF u
  <2>4. Sound(told)' BY <2>1, <2>2 DEF Sound
  <2>5. config' \in PlainUpstream BY <1>1, <2>1, <2>3
  <2>6. config' = Setting!save(told)' BY <2>1 DEF Setting!save
  <2> QED BY <2>1, <2>4, <2>5, <2>6 DEF SettingInv
<1> QED BY <1>2, <1>3

\* Pieces of the URIs that are typed.
LEMMA Joins ==
    ASSUME NEW s \in Plain, NEW t \in Plain
    PROVE  s \o t \in Plain
BY ConcatProperties DEF Plain

LEMMA PortsArePlain == \A port \in Setting!Ports : port \in Plain
<1> SUFFICES ASSUME NEW port \in Setting!Ports PROVE port \in Plain OBVIOUS
<1>1. \E x \in Token : port = <<x>> BY TokensAre DEF Setting!Ports
<1> QED BY <1>1, OneToken

\* A command gives a URI, with brackets or without.
LEMMA CommandKeeps ==
    ASSUME SettingInv, NEW host \in Texts, NEW port \in Setting!Ports,
           \/ Setting!Command(host \o <<":">> \o port)
           \/ Setting!Command(<<"[">> \o host \o <<"]", ":">> \o port)
    PROVE  SettingInv'
<1>1. host \in Plain /\ port \in Plain BY TokensAre, PortsArePlain
<1>2. <<":">> \in Plain /\ <<"[">> \in Plain BY TokensAre, OneToken
<1>3. <<"]", ":">> \in Plain BY TokensAre DEF Plain
<1>4. host \o <<":">> \o port \in Plain BY <1>1, <1>2, Joins
<1>5. <<"[">> \o host \o <<"]", ":">> \o port \in Plain BY <1>1, <1>2, <1>3, Joins
<1>6. shown' \in [Clients -> PlainUpstream] BY DEF Setting!Command, SettingInv
<1> QED BY <1>4, <1>5, <1>6, SetSettingKeeps DEF Setting!Command

\* The dialogue shows what is in the file, ...
LEMMA PromptKeeps ==
    ASSUME SettingInv, NEW c \in Clients, Setting!Prompt(c)
    PROVE  SettingInv'
<1> DEFINE u == Setting!load(config)
<1>1. Setting!trim(config.host) \in Plain /\ Setting!trim(config.port) \in Plain
      BY TrimIsPlain DEF SettingInv, PlainUpstream
<1>2. u.host \in Plain /\ u.port \in Plain
  <2> DEFINE v == [host |-> Setting!trim(config.host), port |-> Setting!trim(config.port)]
  <2>1. v \in PlainUpstream BY <1>1 DEF PlainUpstream
  <2>2. u = v \/ u = Setting!Failed BY Zenon DEF Setting!load, Setting!validateUpstream
  <2>3. u \in PlainUpstream BY <2>1, <2>2, FailedIsPlain
  <2> QED BY <2>3 DEF PlainUpstream
<1>3. Setting!formatUpstreamUri(u) \in Plain BY <1>2, FormatIsPlain
<1>4. Setting!parseUpstreamUri(Setting!formatUpstreamUri(u)) \in PlainUpstream BY <1>3, ParseIs
<1>5. shown' = [shown EXCEPT ![c] = Setting!parseUpstreamUri(Setting!formatUpstreamUri(u))]
      /\ UNCHANGED <<config, saved, told>>
      BY DEF Setting!Prompt
<1> QED BY <1>4, <1>5 DEF SettingInv, Sound

\* ... and sets what was typed or, for nothing, what it showed.
LEMMA DialogueKeeps ==
    ASSUME SettingInv, NEW c \in Clients, NEW host \in Texts \cup {Setting!Nothing},
           NEW port \in Setting!Ports \cup {Setting!Nothing}, Setting!Dialogue(c, host, port)
    PROVE  SettingInv'
<1> DEFINE typed == IF host = Setting!Nothing THEN shown[c].host ELSE host
           other == Setting!parseUpstreamUri(Setting!Bracketed(typed) \o <<":">> \o port)
<1>1. shown[c] \in PlainUpstream BY DEF SettingInv
<1>2. typed \in Plain /\ shown[c].port \in Plain /\ port \in Plain
      BY <1>1, TokensAre, PortsArePlain, FailedIsPlain DEF PlainUpstream, Setting!Nothing
<1>3. shown' = [shown EXCEPT ![c] = Setting!Failed] BY DEF Setting!Dialogue
<1>4. shown' \in [Clients -> PlainUpstream] BY <1>3, FailedIsPlain DEF SettingInv
<1> DEFINE Uri(p) == [host |-> typed, port |-> p]
<1>5. \A p \in Plain : Setting!formatUpstreamUri(Uri(p)) \in Plain
  <2> SUFFICES ASSUME NEW p \in Plain PROVE Setting!formatUpstreamUri(Uri(p)) \in Plain OBVIOUS
  <2>1. Uri(p).host = typed /\ Uri(p).port = p OBVIOUS
  <2> QED BY <1>2, <2>1, FormatIsPlain
<1>6. other \in PlainUpstream
  <2>1. Setting!Bracketed(typed) \o <<":">> \o port
        = Setting!formatUpstreamUri([host |-> typed, port |-> port])
        BY DEF Setting!formatUpstreamUri
  <2> QED BY <1>2, <1>5, <2>1, ParseIs
<1>7. \/ Setting!SetSetting(Setting!formatUpstreamUri(Uri(shown[c].port)))
      \/ Setting!SetSetting(Setting!formatUpstreamUri(Uri(other.port)))
      \/ UNCHANGED <<config, saved, told>>
      BY Zenon DEF Setting!Dialogue
<1>8. other.port \in Plain BY <1>6 DEF PlainUpstream
<1>9. ASSUME UNCHANGED <<config, saved, told>> PROVE SettingInv'
      BY <1>4, <1>9 DEF SettingInv, Sound
<1> QED BY <1>2, <1>4, <1>5, <1>7, <1>8, <1>9, SetSettingKeeps

\* What an administrator writes is not what was told.
LEMMA EditKeeps ==
    ASSUME SettingInv, NEW host \in Texts, NEW port \in Setting!Ports, Setting!Edit(host, port)
    PROVE  SettingInv'
<1>1. host \in Plain /\ port \in Plain BY TokensAre, PortsArePlain
<1>2. config' \in PlainUpstream BY <1>1 DEF Setting!Edit, PlainUpstream
<1> QED BY <1>2 DEF Setting!Edit, SettingInv

\* What a setting has answered is what the next on loads and what the next dialogue shows, for
\* any texts that are typed and written: a feed at an end of the host alone is lost, or makes the
\* file invalid, and an opening bracket keeps a host from being shown (config.cpp:15-177).
THEOREM SettingIsKept == Setting!Spec => []SettingTakesEffect
<1>1. Setting!Init => SettingInv
      BY FailedIsPlain DEF Setting!Init, SettingInv
<1>2. SettingInv /\ [Setting!Next]_(Setting!vars) => SettingInv'
  <2> SUFFICES ASSUME SettingInv, [Setting!Next]_(Setting!vars) PROVE SettingInv' OBVIOUS
  <2>1. CASE UNCHANGED Setting!vars BY <2>1 DEF Setting!vars, SettingInv, Sound
  <2>2. CASE Setting!Next BY <2>2, CommandKeeps, PromptKeeps, DialogueKeeps, EditKeeps DEF Setting!Next
  <2> QED BY <2>1, <2>2
<1>3. SettingInv => SettingTakesEffect
  <2> SUFFICES ASSUME SettingInv, saved PROVE SettingTakesEffect
      BY DEF SettingTakesEffect, Setting!SettingTakesEffect
  <2> DEFINE v == Setting!load(config)
  <2>1. Sound(told) /\ config = Setting!save(told) BY DEF SettingInv
  <2>2. /\ v \in {Setting!Failed, Stripped(told)}
        /\ v # Setting!Failed => Sound(v)
        /\ ~Setting!Padded(told.host) => v = told
        BY <2>1, LoadIs
  <2>3. Stripped(told) = [told EXCEPT !.host = Setting!trim(@)] BY <2>1 DEF Stripped, Sound
  <2>4. ASSUME v # Setting!Failed, ~Setting!Has(config.host, "[")
        PROVE  Setting!parseUpstreamUri(Setting!formatUpstreamUri(v)) = v
    <3>1. v.host = Setting!trim(told.host) /\ told.host \in Plain /\ config.host = told.host
          BY <2>1, <2>2, <2>4 DEF Stripped, Setting!save, Sound
    <3>2. ~Setting!Has(v.host, "[") BY <2>4, <3>1, TrimIsPlain
    <3> HIDE DEF v
    <3> QED BY <2>2, <2>4, <3>2, FormatParse
  <2> HIDE DEF v
  <2>5. /\ ~Setting!Padded(told.host) => v = told
        /\ v \in {Setting!Failed, [told EXCEPT !.host = Setting!trim(@)]}
        /\ v # Setting!Failed /\ ~Setting!Has(config.host, "[") =>
              Setting!parseUpstreamUri(Setting!formatUpstreamUri(v)) = v
        BY <2>2, <2>3, <2>4
  <2> QED BY <2>5, Zenon DEF SettingTakesEffect, Setting!SettingTakesEffect, v
<1> QED BY <1>1, <1>2, <1>3, PTL DEF Setting!Spec

-----------------------------------------------------------------------------
(* IpcChannel: the text of the log *)

\* f joins the first n sequences of s.
Concatenates(f, s, n) == f = [i \in 1 .. n |-> IF i = 1 THEN s[i] ELSE f[i - 1] \o s[i]]

Joined(s) ==
    LET flatten[i \in 1 .. Len(s)] == IF i = 1 THEN s[i] ELSE flatten[i - 1] \o s[i]
    IN  flatten

\* There is such a function, by induction on n.
LEMMA ConcatenationExists ==
    ASSUME NEW s, NEW n \in Nat
    PROVE  \E f : Concatenates(f, s, n)
<1> DEFINE S == {k \in Nat : \E f : Concatenates(f, s, k)}
<1>1. 0 \in S
  <2>1. Concatenates([i \in 1 .. 0 |-> 0], s, 0) BY DEF Concatenates
  <2> QED BY <2>1
<1>2. ASSUME NEW k \in Nat, k \in S PROVE k + 1 \in S
  <2>1. PICK f : Concatenates(f, s, k) BY <1>2
  <2> DEFINE v == IF k = 0 THEN s[1] ELSE f[k] \o s[k + 1]
             g == [i \in 1 .. k + 1 |-> IF i = k + 1 THEN v ELSE f[i]]
  <2>2. ASSUME NEW i \in 1 .. k PROVE g[i] = IF i = 1 THEN s[i] ELSE g[i - 1] \o s[i]
    <3>1. f[i] = IF i = 1 THEN s[i] ELSE f[i - 1] \o s[i] BY <2>1 DEF Concatenates
    <3>2. g[i] = f[i] OBVIOUS
    <3>3. i # 1 => g[i - 1] = f[i - 1] OBVIOUS
    <3> QED BY <3>1, <3>2, <3>3
  <2>3. g[k + 1] = IF k + 1 = 1 THEN s[k + 1] ELSE g[(k + 1) - 1] \o s[k + 1] OBVIOUS
  <2>4. \A i \in 1 .. k + 1 : g[i] = IF i = 1 THEN s[i] ELSE g[i - 1] \o s[i]
    <3> HIDE DEF g
    <3> QED BY <2>2, <2>3
  <2>5. g = [i \in 1 .. k + 1 |-> IF i = 1 THEN s[i] ELSE g[i - 1] \o s[i]]
    <3>1. g = [i \in 1 .. k + 1 |-> g[i]] OBVIOUS
    <3> HIDE DEF g
    <3> QED BY <2>4, <3>1
  <2>6. Concatenates(g, s, k + 1) BY <2>5 DEF Concatenates
  <2> HIDE DEF g
  <2> QED BY <2>6
<1>3. Nat \subseteq S
  <2> HIDE DEF S
  <2> QED BY <1>1, <1>2, SetInduction
<1> QED BY <1>3

LEMMA JoinedIs ==
    ASSUME NEW S, NEW s \in Seq(Seq(S))
    PROVE  \A m \in 1 .. Len(s) :
              /\ Joined(s)[m] = IF m = 1 THEN s[m] ELSE Joined(s)[m - 1] \o s[m]
              /\ Joined(s)[m] \in Seq(S)
<1>1. Len(s) \in Nat /\ \A m \in 1 .. Len(s) : s[m] \in Seq(S) BY LenProperties, ElementOfSeq
<1>2. \E f : Concatenates(f, s, Len(s)) BY <1>1, ConcatenationExists
<1>3. Concatenates(Joined(s), s, Len(s)) BY <1>2 DEF Concatenates, Joined
<1> DEFINE f == Joined(s)
<1> HIDE DEF f
<1>4. \A m \in 1 .. Len(s) : f[m] = IF m = 1 THEN s[m] ELSE f[m - 1] \o s[m]
      BY <1>3 DEF Concatenates, f
<1> DEFINE T == {k \in Nat : k \in 1 .. Len(s) => f[k] \in Seq(S)}
<1>5. 0 \in T OBVIOUS
<1>6. ASSUME NEW k \in Nat, k \in T PROVE k + 1 \in T
  <2> SUFFICES ASSUME k + 1 \in 1 .. Len(s) PROVE f[k + 1] \in Seq(S) OBVIOUS
  <2>1. s[k + 1] \in Seq(S) BY <1>1
  <2>2. CASE k = 0 BY <1>4, <2>1, <2>2
  <2>3. CASE k # 0
    <3>1. k \in 1 .. Len(s) /\ k + 1 # 1 /\ (k + 1) - 1 = k BY <1>1, <2>3
    <3>2. f[k] \in Seq(S) BY <1>6, <3>1
    <3>3. f[k + 1] = f[k] \o s[k + 1] BY <1>4, <3>1
    <3> QED BY <2>1, <3>2, <3>3, ConcatProperties
  <2> QED BY <2>2, <2>3
<1>7. Nat \subseteq T
  <2> HIDE DEF T
  <2> QED BY <1>5, <1>6, SetInduction
<1>8. \A m \in 1 .. Len(s) : f[m] \in Seq(S) BY <1>7
<1> QED BY <1>4, <1>8 DEF f

LEMMA FlattenIs ==
    ASSUME NEW s
    PROVE  Channel!FlattenSeq(s) = IF Len(s) = 0 THEN s ELSE Joined(s)[Len(s)]
BY DEF Channel!FlattenSeq, Joined

LEMMA ConcatGrows ==
    ASSUME NEW S, NEW a \in Seq(S), NEW b \in Seq(S), NEW c \in Seq(S),
           Len(a) <= Len(b), \A i \in 1 .. Len(a) : b[i] = a[i]
    PROVE  Len(a) <= Len(b \o c) /\ \A i \in 1 .. Len(a) : (b \o c)[i] = a[i]
<1>1. Len(a) \in Nat /\ Len(b) \in Nat /\ Len(c) \in Nat BY LenProperties
<1>2. /\ Len(b \o c) = Len(b) + Len(c)
      /\ \A i \in 1 .. Len(b) + Len(c) : (b \o c)[i] = IF i <= Len(b) THEN b[i] ELSE c[i - Len(b)]
      BY ConcatProperties
<1> QED BY <1>1, <1>2

\* A longer join goes on with what a shorter one has.
LEMMA JoinedGrows ==
    ASSUME NEW S, NEW s \in Seq(Seq(S)), NEW m \in 1 .. Len(s), NEW n \in m .. Len(s)
    PROVE  /\ Len(Joined(s)[m]) <= Len(Joined(s)[n])
           /\ \A i \in 1 .. Len(Joined(s)[m]) : Joined(s)[n][i] = Joined(s)[m][i]
<1> DEFINE f == Joined(s)
           Grown(k) == /\ Len(f[m]) <= Len(f[k])
                       /\ \A i \in 1 .. Len(f[m]) : f[k][i] = f[m][i]
           T == {k \in Nat : m + k <= Len(s) => Grown(m + k)}
<1>1. Len(s) \in Nat /\ \A k \in 1 .. Len(s) : s[k] \in Seq(S) BY LenProperties, ElementOfSeq
<1>2. \A k \in 1 .. Len(s) : f[k] \in Seq(S) /\ (k # 1 => f[k] = f[k - 1] \o s[k])
      BY JoinedIs
<1> HIDE DEF f
<1>3. 0 \in T
  <2>1. m + 0 = m /\ Len(f[m]) \in Nat BY <1>1, <1>2, LenProperties
  <2> QED BY <2>1
<1>4. ASSUME NEW k \in Nat, k \in T PROVE k + 1 \in T
  <2> SUFFICES ASSUME m + (k + 1) <= Len(s) PROVE Grown(m + (k + 1)) OBVIOUS
  <2> DEFINE j == m + (k + 1)
  <2>1. j \in 1 .. Len(s) /\ j # 1 /\ j - 1 = m + k /\ m + k \in 1 .. Len(s) BY <1>1
  <2>2. f[j] = f[m + k] \o s[j] /\ f[m + k] \in Seq(S) /\ s[j] \in Seq(S) /\ f[m] \in Seq(S)
        BY <1>1, <1>2, <2>1
  <2>3. Grown(m + k) BY <1>4, <2>1
  <2> HIDE DEF j
  <2>4. Len(f[m]) <= Len(f[m + k]) /\ \A i \in 1 .. Len(f[m]) : f[m + k][i] = f[m][i]
        BY <2>3
  <2>5. /\ Len(f[m]) <= Len(f[m + k] \o s[j])
        /\ \A i \in 1 .. Len(f[m]) : (f[m + k] \o s[j])[i] = f[m][i]
    <3>1. PICK a, b, c : a = f[m] /\ b = f[m + k] /\ c = s[j] OBVIOUS
    <3>2. a \in Seq(S) /\ b \in Seq(S) /\ c \in Seq(S) BY <2>2, <3>1
    <3>3. Len(a) <= Len(b) /\ \A i \in 1 .. Len(a) : b[i] = a[i] BY <2>4, <3>1
    <3> HIDE DEF Grown, T
    <3>4. Len(a) <= Len(b \o c) /\ \A i \in 1 .. Len(a) : (b \o c)[i] = a[i]
          BY <3>2, <3>3, ConcatGrows
    <3> QED BY <3>1, <3>4
  <2>6. Grown(j) BY <2>2, <2>5
  <2> QED BY <2>6 DEF j
<1>5. Nat \subseteq T
  <2> HIDE DEF T
  <2> QED BY <1>3, <1>4, SetInduction
<1>6. n - m \in Nat /\ m + (n - m) = n BY <1>1
<1>7. n - m \in T BY <1>5, <1>6
<1>8. Grown(m + (n - m)) BY <1>1, <1>6, <1>7
<1>9. Grown(n) BY <1>6, <1>8
<1> QED BY <1>9 DEF f

Labels == [message : Nat, unit : Nat]

\* The messages of an operation: what it logged, then its outcome.
Messages(m) ==
    /\ Len(m) \in Nat \ {0} /\ DOMAIN m = 1 .. Len(m)
    /\ \A k \in 1 .. Len(m) - 1 : m[k].type = "Log" /\ m[k].size \in Nat
    /\ m[Len(m)].type \in {"Result", "Error"} /\ m[Len(m)].size \in Nat
    /\ m[Len(m)].type = "Result" => m[Len(m)].size <= MaxPayload

\* The texts of the log, and how much of it comes before a message.
Parts(m)    == [k \in 1 .. (Len(m) - 1) |-> Channel!Text(k, 0, m[k].size)]
Start(m, k) == IF k = 1 THEN 0 ELSE Len(Joined(Parts(m))[k - 1])
Log(m)      == Channel!FlattenSeq(Parts(m))

LEMMA TextIs ==
    ASSUME NEW k \in Nat, NEW from \in Nat, NEW to \in Nat, from <= to
    PROVE  /\ Channel!Text(k, from, to) \in Seq(Labels)
           /\ Len(Channel!Text(k, from, to)) = to - from
           /\ \A i \in 1 .. to - from :
                 Channel!Text(k, from, to)[i] = [message |-> k, unit |-> from + i]
<1> DEFINE n == to - from
           e == [i \in 1 .. n |-> [message |-> k, unit |-> from + i]]
<1>1. n \in Nat OBVIOUS
<1>2. \A i \in 1 .. n : [message |-> k, unit |-> from + i] \in Labels BY DEF Labels
<1>3. Channel!Text(k, from, to) = e BY DEF Channel!Text
<1>4. e \in [1 .. n -> Labels] /\ \A i \in 1 .. n : e[i] = [message |-> k, unit |-> from + i]
      BY <1>2
<1> HIDE DEF e, n
<1>5. e \in Seq(Labels) /\ Len(e) = n BY <1>1, <1>4
<1> QED BY <1>3, <1>4, <1>5 DEF n

LEMMA PartsAre ==
    ASSUME NEW m, Messages(m)
    PROVE  /\ Parts(m) \in Seq(Seq(Labels)) /\ Len(Parts(m)) = Len(m) - 1
           /\ \A k \in 1 .. Len(m) - 1 :
                 Parts(m)[k] = Channel!Text(k, 0, m[k].size) /\ Len(Parts(m)[k]) = m[k].size
<1>1. Len(m) - 1 \in Nat BY DEF Messages
<1>2. ASSUME NEW k \in 1 .. Len(m) - 1
      PROVE  Channel!Text(k, 0, m[k].size) \in Seq(Labels) /\ Len(Channel!Text(k, 0, m[k].size)) = m[k].size
  <2>1. k \in Nat /\ 0 \in Nat /\ m[k].size \in Nat /\ 0 <= m[k].size /\ m[k].size - 0 = m[k].size
        BY DEF Messages
  <2> QED BY <2>1, TextIs
<1>3. Parts(m) \in [1 .. Len(m) - 1 -> Seq(Labels)] BY <1>2 DEF Parts
<1>4. Parts(m) \in Seq(Seq(Labels)) /\ Len(Parts(m)) = Len(m) - 1 BY <1>1, <1>3
<1>5. \A k \in 1 .. Len(m) - 1 : Parts(m)[k] = Channel!Text(k, 0, m[k].size) BY DEF Parts
<1> QED BY <1>2, <1>4, <1>5

\* Where each message is in the log.
LEMMA LogIs ==
    ASSUME NEW m, Messages(m)
    PROVE  /\ Log(m) \in Seq(Labels)
           /\ Start(m, 1) = 0 /\ Start(m, Len(m)) = Len(Log(m))
           /\ \A k \in 1 .. Len(m) - 1 :
                 /\ Start(m, k) \in Nat /\ Start(m, k + 1) = Start(m, k) + m[k].size
                 /\ Start(m, k + 1) <= Len(Log(m))
                 /\ \A u \in 1 .. m[k].size : Log(m)[Start(m, k) + u] = [message |-> k, unit |-> u]
<1> DEFINE s == Parts(m)
           f == Joined(s)
           n == Len(m) - 1
<1>1. n \in Nat /\ Len(s) = n /\ s \in Seq(Seq(Labels))
  <2>1. Len(m) \in Nat \ {0} BY DEF Messages
  <2> QED BY <2>1, PartsAre
<1>2. \A k \in 1 .. n : s[k] = Channel!Text(k, 0, m[k].size) /\ Len(s[k]) = m[k].size /\ s[k] \in Seq(Labels)
      BY <1>1, PartsAre, ElementOfSeq
<1>3. \A k \in 1 .. n : f[k] = (IF k = 1 THEN s[k] ELSE f[k - 1] \o s[k]) /\ f[k] \in Seq(Labels)
      BY <1>1, JoinedIs
<1>4. Log(m) = IF n = 0 THEN s ELSE f[n] BY <1>1, FlattenIs DEF Log
<1>5. \A k \in 1 .. n : \A j \in k .. n :
         Len(f[k]) <= Len(f[j]) /\ \A i \in 1 .. Len(f[k]) : f[j][i] = f[k][i]
  <2> TAKE k \in 1 .. n
  <2> TAKE j \in k .. n
  <2> HIDE DEF s, f, n
  <2>1. k \in 1 .. Len(s) /\ j \in k .. Len(s) /\ s \in Seq(Seq(Labels)) BY <1>1
  <2>2. /\ Len(Joined(s)[k]) <= Len(Joined(s)[j])
        /\ \A i \in 1 .. Len(Joined(s)[k]) : Joined(s)[j][i] = Joined(s)[k][i]
        BY <2>1, JoinedGrows
  <2> QED BY <2>2 DEF f
<1>6. \A k \in 1 .. Len(m) : Start(m, k) = IF k = 1 THEN 0 ELSE Len(f[k - 1]) BY DEF Start
<1>7. Len(m) \in Nat \ {0} /\ Len(m) = n + 1 BY DEF Messages
<1> HIDE DEF s, f, n
<1>8. CASE n = 0
  <2>1. s = <<>> BY <1>1, <1>8
  <2>2. Log(m) = <<>> BY <1>4, <1>8, <2>1
  <2>3. 1 .. n = {} BY <1>8
  <2>4. Len(m) = 1 /\ 1 \in 1 .. Len(m) BY <1>7, <1>8
  <2>5. Start(m, 1) = 0 BY <1>6, <2>4
  <2> QED BY <2>2, <2>3, <2>4, <2>5, EmptySeq DEF n
<1>9. CASE n # 0
  <2>0. n \in 1 .. n /\ 1 \in 1 .. n BY <1>1, <1>9
  <2>1. Log(m) = f[n] /\ f[n] \in Seq(Labels) BY <1>3, <1>4, <1>9, <2>0
  <2>2. Start(m, 1) = 0 /\ Start(m, Len(m)) = Len(Log(m))
    <3>1. 1 \in 1 .. Len(m) /\ Len(m) \in 1 .. Len(m) /\ Len(m) # 1 /\ Len(m) - 1 = n BY <1>1, <1>7, <1>9
    <3> QED BY <1>6, <2>1, <3>1
  <2>3. ASSUME NEW k \in 1 .. n
        PROVE  /\ Start(m, k) \in Nat /\ Start(m, k + 1) = Start(m, k) + m[k].size
               /\ Start(m, k + 1) <= Len(Log(m))
               /\ \A u \in 1 .. m[k].size : Log(m)[Start(m, k) + u] = [message |-> k, unit |-> u]
    <3>1. k \in 1 .. Len(m) /\ k + 1 \in 1 .. Len(m) /\ (k + 1) - 1 = k /\ k + 1 # 1 BY <1>1, <1>7
    <3>2. Start(m, k + 1) = Len(f[k]) BY <1>6, <3>1
    <3>3. m[k].size \in Nat /\ Len(s[k]) = m[k].size /\ s[k] \in Seq(Labels)
          /\ \A u \in 1 .. m[k].size : s[k][u] = [message |-> k, unit |-> u]
      <4>1. k \in Nat /\ 0 \in Nat /\ m[k].size \in Nat /\ 0 <= m[k].size BY <1>1, <1>7 DEF Messages, n
      <4>2. \A u \in 1 .. m[k].size - 0 : Channel!Text(k, 0, m[k].size)[u] = [message |-> k, unit |-> 0 + u]
            BY <4>1, TextIs
      <4>3. m[k].size - 0 = m[k].size /\ \A u \in 1 .. m[k].size : 0 + u = u BY <4>1
      <4> QED BY <1>2, <4>1, <4>2, <4>3
    <3>4. /\ Start(m, k) \in Nat /\ Len(f[k]) = Start(m, k) + m[k].size
          /\ \A u \in 1 .. m[k].size : f[k][Start(m, k) + u] = [message |-> k, unit |-> u]
      <4>1. CASE k = 1
        <5>1. Start(m, k) = 0 /\ f[k] = s[k] BY <1>3, <1>6, <3>1, <4>1
        <5>2. \A u \in 1 .. m[k].size : 0 + u = u OBVIOUS
        <5> QED BY <3>3, <5>1, <5>2
      <4>2. CASE k # 1
        <5> DEFINE a == f[k - 1]
                   b == s[k]
        <5>1. k - 1 \in 1 .. n BY <1>1, <4>2
        <5>2. Start(m, k) = Len(a) BY <1>6, <3>1, <4>2
        <5>3. a \in Seq(Labels) /\ b \in Seq(Labels) /\ f[k] = a \o b BY <1>3, <3>3, <4>2, <5>1
        <5>4. Len(b) = m[k].size /\ \A u \in 1 .. m[k].size : b[u] = [message |-> k, unit |-> u]
              BY <3>3
        <5> HIDE DEF a, b
        <5>5. Len(a) \in Nat /\ Len(b) \in Nat BY <5>3, LenProperties
        <5>6. /\ Len(a \o b) = Len(a) + Len(b)
              /\ \A i \in 1 .. Len(a) + Len(b) :
                    (a \o b)[i] = IF i <= Len(a) THEN a[i] ELSE b[i - Len(a)]
              BY <5>3, ConcatProperties
        <5>7. ASSUME NEW u \in 1 .. Len(b) PROVE (a \o b)[Len(a) + u] = b[u]
          <6>1. Len(a) + u \in 1 .. Len(a) + Len(b) /\ ~(Len(a) + u <= Len(a)) /\ (Len(a) + u) - Len(a) = u
                BY <5>5
          <6> QED BY <5>6, <6>1
        <5> QED BY <5>2, <5>3, <5>4, <5>5, <5>6, <5>7
      <4> QED BY <4>1, <4>2
    <3>5. n \in k .. n BY <1>1
    <3>6. Len(f[k]) <= Len(f[n]) /\ \A i \in 1 .. Len(f[k]) : f[n][i] = f[k][i] BY <1>5, <3>5
    <3>7. ASSUME NEW u \in 1 .. m[k].size PROVE Log(m)[Start(m, k) + u] = [message |-> k, unit |-> u]
      <4>1. Start(m, k) + u \in 1 .. Len(f[k]) BY <3>3, <3>4
      <4> QED BY <2>1, <3>4, <3>6, <4>1
    <3> QED BY <2>1, <3>2, <3>4, <3>6, <3>7
  <2> QED BY <2>1, <2>2, <2>3 DEF n
<1> QED BY <1>8, <1>9

-----------------------------------------------------------------------------
(* IpcChannel: a stream of frames *)

Kinds == {"Log", "Result", "Error"}
Cells == [length : Nat] \cup [type : Kinds] \cup Labels

\* How much of the outcome is sent.
Answer(m) == Channel!Cut(m[Len(m)].size)

\* What a stream is made of: its cells, how many there are, where frames begin (the place after
\* the last cell may be such a place), and for each of them the payload, the kind, and how much
\* of the log has gone before.
FrameAt(m, g, h) ==
    /\ g.length[h] \in 0 .. MaxPayload /\ g.kind[h] \in Kinds
    /\ g.cell[h] = [length |-> g.length[h]]
    /\ h + 1 <= g.last => g.cell[h + 1] = [type |-> g.kind[h]]
    /\ g.kind[h] = "Log" =>
          /\ g.at[h] + g.length[h] <= Len(Log(m))
          /\ \A k \in 1 .. g.length[h] :
                h + 1 + k <= g.last => g.cell[h + 1 + k] = Log(m)[g.at[h] + k]
    /\ g.kind[h] # "Log" =>
          /\ g.at[h] = Len(Log(m)) /\ g.kind[h] = m[Len(m)].type /\ g.length[h] = Answer(m)
          /\ \A k \in 1 .. g.length[h] :
                h + 1 + k <= g.last => g.cell[h + 1 + k] = [message |-> Len(m), unit |-> k]

\* How much has gone when the frame has; the outcome counts for one unit.
After(m, g, h) == IF g.kind[h] = "Log" THEN g.at[h] + g.length[h] ELSE Len(Log(m)) + 1

Stream(m, g) ==
    /\ g.last \in Nat /\ g.heads \subseteq 1 .. g.last + 1
    /\ \A h \in g.heads : g.at[h] \in Nat
    /\ \A h \in g.heads : h <= g.last => FrameAt(m, g, h)
    /\ \A h \in g.heads : h <= g.last /\ h + 1 + g.length[h] <= g.last =>
          h + 2 + g.length[h] \in g.heads /\ g.at[h + 2 + g.length[h]] = After(m, g, h)

\* The last frame is whole.
Whole(g) ==
    /\ g.last + 1 \in g.heads
    /\ \A h \in g.heads : h <= g.last => h + 1 + g.length[h] <= g.last

LEMMA MinOfTwo ==
    ASSUME NEW a \in Nat, NEW b \in Nat
    PROVE  Channel!Min({a, b}) = IF a <= b THEN a ELSE b
<1> DEFINE c == IF a <= b THEN a ELSE b
<1>1. c \in {a, b} /\ \A y \in {a, b} : c <= y OBVIOUS
<1>2. ASSUME NEW x \in {a, b}, \A y \in {a, b} : x <= y PROVE x = c
  <2>1. x <= a /\ x <= b BY <1>2
  <2> QED BY <2>1
<1> HIDE DEF c
<1>3. (CHOOSE x \in {a, b} : \A y \in {a, b} : x <= y) = c BY <1>1, <1>2
<1> QED BY <1>3 DEF Channel!Min, c

LEMMA AnswerIs ==
    ASSUME NEW m, Messages(m)
    PROVE  /\ Answer(m) \in 0 .. MaxPayload /\ Answer(m) <= m[Len(m)].size
           /\ m[Len(m)].type = "Result" => Answer(m) = m[Len(m)].size
           /\ Answer(m) = Channel!Min({m[Len(m)].size, MaxPayload})
<1>1. MaxPayload \in Nat /\ m[Len(m)].size \in Nat BY HelpersAssumption DEF Messages
<1>2. Answer(m) = IF MaxPayload <= m[Len(m)].size THEN MaxPayload ELSE m[Len(m)].size
      BY <1>1, MinOfTwo DEF Answer, Channel!Cut
<1>3. {MaxPayload, m[Len(m)].size} = {m[Len(m)].size, MaxPayload} OBVIOUS
<1>4. Answer(m) = Channel!Min({m[Len(m)].size, MaxPayload}) BY <1>3 DEF Answer, Channel!Cut
<1>5. m[Len(m)].type = "Result" => m[Len(m)].size <= MaxPayload BY DEF Messages
<1>6. Answer(m) \in Nat /\ Answer(m) <= MaxPayload /\ Answer(m) <= m[Len(m)].size
      BY <1>1, <1>2
<1>7. m[Len(m)].type = "Result" => Answer(m) = m[Len(m)].size BY <1>1, <1>2, <1>5
<1> QED BY <1>1, <1>4, <1>6, <1>7

LEMMA FrameIs ==
    ASSUME NEW t \in Kinds, NEW p \in Seq(Labels)
    PROVE  /\ Channel!Frame(t, p) \in Seq(Cells)
           /\ Len(Channel!Frame(t, p)) = 2 + Len(p)
           /\ Channel!Frame(t, p)[1] = [length |-> Len(p)]
           /\ Channel!Frame(t, p)[2] = [type |-> t]
           /\ \A k \in 1 .. Len(p) : Channel!Frame(t, p)[2 + k] = p[k]
<1> DEFINE a == [length |-> Len(p)]
           b == [type |-> t]
<1>1. Len(p) \in Nat BY LenProperties
<1>2. a \in Cells /\ b \in Cells BY <1>1 DEF Cells
<1>3. p \in Seq(Cells)
  <2>1. Labels \subseteq Cells BY DEF Cells
  <2>2. p \in [1 .. Len(p) -> Labels] BY LenProperties
  <2>3. p \in [1 .. Len(p) -> Cells] BY <2>1, <2>2
  <2> QED BY <1>1, <2>3
<1>4. Channel!Frame(t, p) = <<a, b>> \o p BY DEF Channel!Frame
<1> HIDE DEF a, b
<1>5. <<a, b>> \in Seq(Cells) /\ Len(<<a, b>>) = 2 /\ <<a, b>>[1] = a /\ <<a, b>>[2] = b BY <1>2
<1> DEFINE e == <<a, b>>
<1> HIDE DEF e
<1>6. e \in Seq(Cells) /\ Len(e) = 2 /\ e[1] = a /\ e[2] = b BY <1>5 DEF e
<1>7. /\ e \o p \in Seq(Cells) /\ Len(e \o p) = 2 + Len(p)
      /\ \A i \in 1 .. 2 + Len(p) : (e \o p)[i] = IF i <= 2 THEN e[i] ELSE p[i - 2]
  <2>1. /\ e \o p \in Seq(Cells) /\ Len(e \o p) = Len(e) + Len(p)
        /\ \A i \in 1 .. Len(e) + Len(p) : (e \o p)[i] = IF i <= Len(e) THEN e[i] ELSE p[i - Len(e)]
        BY <1>3, <1>6, ConcatProperties
  <2> QED BY <1>6, <2>1
<1>8. \A k \in 1 .. Len(p) : (e \o p)[2 + k] = p[k]
  <2> TAKE k \in 1 .. Len(p)
  <2>1. 2 + k \in 1 .. 2 + Len(p) /\ ~(2 + k <= 2) /\ (2 + k) - 2 = k BY <1>1
  <2> QED BY <1>7, <2>1
<1>9. (e \o p)[1] = a /\ (e \o p)[2] = b
  <2>1. 1 \in 1 .. 2 + Len(p) /\ 2 \in 1 .. 2 + Len(p) /\ 1 <= 2 /\ 2 <= 2 BY <1>1
  <2> QED BY <1>6, <1>7, <2>1
<1> QED BY <1>4, <1>7, <1>8, <1>9 DEF e, a, b

\* A write that fails leaves a stream whose last frame may be cut.
CutAt(g, q) ==
    [cell |-> g.cell, last |-> q, heads |-> g.heads \cap 1 .. q + 1,
     length |-> g.length, kind |-> g.kind, at |-> g.at]

LEMMA StreamIsCut ==
    ASSUME NEW m, NEW g, Stream(m, g), NEW q \in Nat, q <= g.last
    PROVE  Stream(m, CutAt(g, q))
<1> DEFINE c == CutAt(g, q)
<1>1. /\ c.cell = g.cell /\ c.last = q /\ c.heads = g.heads \cap 1 .. q + 1
      /\ c.length = g.length /\ c.kind = g.kind /\ c.at = g.at
      BY DEF CutAt
<1>2. g.last \in Nat /\ g.heads \subseteq 1 .. g.last + 1 /\ \A h \in g.heads : g.at[h] \in Nat
      BY DEF Stream
<1> HIDE DEF c
<1>3. ASSUME NEW h \in c.heads, h <= c.last
      PROVE  FrameAt(m, c, h) /\ g.length[h] \in Nat
  <2>1. h \in g.heads /\ h <= g.last /\ h \in Nat BY <1>1, <1>2, <1>3
  <2>2. FrameAt(m, g, h) BY <2>1 DEF Stream
  <2>3. g.length[h] \in Nat BY <2>2, HelpersAssumption DEF FrameAt
  <2>4. h + 1 <= c.last => h + 1 <= g.last BY <1>1, <1>2, <2>1
  <2>5. \A k \in 1 .. g.length[h] : h + 1 + k <= c.last => h + 1 + k <= g.last BY <1>1, <1>2, <2>1, <2>3
  <2> QED BY <1>1, <2>2, <2>3, <2>4, <2>5 DEF FrameAt
<1>4. ASSUME NEW h \in c.heads, h <= c.last, h + 1 + c.length[h] <= c.last
      PROVE  h + 2 + c.length[h] \in c.heads /\ c.at[h + 2 + c.length[h]] = After(m, c, h)
  <2>1. h \in g.heads /\ h <= g.last /\ h \in Nat /\ g.length[h] \in Nat BY <1>1, <1>2, <1>3, <1>4
  <2>2. h + 1 + g.length[h] <= g.last BY <1>1, <1>2, <1>4, <2>1
  <2>3. h + 2 + g.length[h] \in g.heads /\ g.at[h + 2 + g.length[h]] = After(m, g, h)
        BY <2>1, <2>2 DEF Stream
  <2>4. h + 2 + g.length[h] \in 1 .. q + 1 BY <1>1, <1>4, <2>1
  <2>5. After(m, c, h) = After(m, g, h) BY <1>1 DEF After
  <2> QED BY <1>1, <2>3, <2>4, <2>5
<1>5. c.last \in Nat /\ c.heads \subseteq 1 .. c.last + 1 BY <1>1
<1>6. \A h \in c.heads : c.at[h] \in Nat BY <1>1, <1>2
<1>7. Stream(m, c) BY <1>3, <1>4, <1>5, <1>6 DEF Stream
<1> QED BY <1>7 DEF c

\* A frame that may follow a stream that is whole.
Follows(m, g, t, p) ==
    /\ t \in Kinds /\ p \in Seq(Labels) /\ Len(p) <= MaxPayload
    /\ t = "Log" =>
          /\ g.at[g.last + 1] + Len(p) <= Len(Log(m))
          /\ \A k \in 1 .. Len(p) : p[k] = Log(m)[g.at[g.last + 1] + k]
    /\ t # "Log" =>
          /\ g.at[g.last + 1] = Len(Log(m)) /\ t = m[Len(m)].type /\ Len(p) = Answer(m)
          /\ \A k \in 1 .. Len(p) : p[k] = [message |-> Len(m), unit |-> k]

\* The stream with a frame more.
More(m, g, t, p) ==
    LET last == g.last + 2 + Len(p) IN
    [cell   |-> [i \in Nat |-> IF i <= g.last THEN g.cell[i] ELSE Channel!Frame(t, p)[i - g.last]],
     last   |-> last,
     heads  |-> g.heads \cup {last + 1},
     length |-> [h \in Nat |-> IF h = g.last + 1 THEN Len(p) ELSE g.length[h]],
     kind   |-> [h \in Nat |-> IF h = g.last + 1 THEN t ELSE g.kind[h]],
     at     |-> [h \in Nat |-> IF h = last + 1
                               THEN IF t = "Log" THEN g.at[g.last + 1] + Len(p) ELSE Len(Log(m)) + 1
                               ELSE g.at[h]]]

LEMMA MoreIs ==
    ASSUME NEW m, Messages(m), NEW g, Stream(m, g), Whole(g), NEW t, NEW p, Follows(m, g, t, p)
    PROVE  LET d == More(m, g, t, p) IN
           /\ d.last = g.last + 2 + Len(p) /\ d.heads = g.heads \cup {d.last + 1}
           /\ \A i \in Nat : i <= g.last => d.cell[i] = g.cell[i]
           /\ d.cell[g.last + 1] = [length |-> Len(p)] /\ d.cell[g.last + 2] = [type |-> t]
           /\ \A k \in 1 .. Len(p) : d.cell[g.last + 2 + k] = p[k]
           /\ \A i \in 1 .. 2 + Len(p) : d.cell[g.last + i] = Channel!Frame(t, p)[i]
           /\ d.length[g.last + 1] = Len(p) /\ d.kind[g.last + 1] = t
           /\ \A h \in Nat : h # g.last + 1 => d.length[h] = g.length[h] /\ d.kind[h] = g.kind[h]
           /\ \A h \in Nat : h # d.last + 1 => d.at[h] = g.at[h]
           /\ d.at[d.last + 1] = IF t = "Log" THEN g.at[g.last + 1] + Len(p) ELSE Len(Log(m)) + 1
<1> DEFINE e == Channel!Frame(t, p)
           last == g.last + 2 + Len(p)
           d == More(m, g, t, p)
<1>1. g.last \in Nat /\ Len(p) \in Nat /\ last \in Nat
  <2>1. p \in Seq(Labels) BY DEF Follows
  <2> QED BY <2>1, LenProperties DEF Stream
<1>2. /\ e[1] = [length |-> Len(p)] /\ e[2] = [type |-> t] /\ \A k \in 1 .. Len(p) : e[2 + k] = p[k]
      BY FrameIs DEF Follows
<1> HIDE DEF e
<1>3. /\ d.last = last /\ d.heads = g.heads \cup {last + 1}
      /\ d.cell = [i \in Nat |-> IF i <= g.last THEN g.cell[i] ELSE e[i - g.last]]
      /\ d.length = [h \in Nat |-> IF h = g.last + 1 THEN Len(p) ELSE g.length[h]]
      /\ d.kind = [h \in Nat |-> IF h = g.last + 1 THEN t ELSE g.kind[h]]
      /\ d.at = [h \in Nat |-> IF h = last + 1
                               THEN IF t = "Log" THEN g.at[g.last + 1] + Len(p) ELSE Len(Log(m)) + 1
                               ELSE g.at[h]]
      BY DEF More, e
<1> HIDE DEF d
<1>4. \A i \in 1 .. 2 + Len(p) : d.cell[g.last + i] = e[i]
  <2> TAKE i \in 1 .. 2 + Len(p)
  <2>1. g.last + i \in Nat /\ ~(g.last + i <= g.last) /\ (g.last + i) - g.last = i BY <1>1
  <2> QED BY <1>3, <2>1
<1>5. d.cell[g.last + 1] = e[1] /\ d.cell[g.last + 2] = e[2] BY <1>1, <1>4
<1>6. \A k \in 1 .. Len(p) : d.cell[g.last + 2 + k] = e[2 + k]
  <2> TAKE k \in 1 .. Len(p)
  <2>1. 2 + k \in 1 .. 2 + Len(p) /\ g.last + 2 + k = g.last + (2 + k) BY <1>1
  <2> QED BY <1>4, <2>1
<1>7. \A i \in Nat : i <= g.last => d.cell[i] = g.cell[i] BY <1>3
<1>8. g.last + 1 \in Nat /\ last + 1 \in Nat BY <1>1
<1>9. d.length[g.last + 1] = Len(p) /\ d.kind[g.last + 1] = t BY <1>3, <1>8
<1>10. \A h \in Nat : h # g.last + 1 => d.length[h] = g.length[h] /\ d.kind[h] = g.kind[h] BY <1>3
<1>11. \A h \in Nat : h # last + 1 => d.at[h] = g.at[h] BY <1>3
<1>12. d.at[last + 1] = IF t = "Log" THEN g.at[g.last + 1] + Len(p) ELSE Len(Log(m)) + 1
       BY <1>3, <1>8
<1>13. /\ d.last = last /\ d.heads = g.heads \cup {d.last + 1} BY <1>3
<1>14. \A h \in Nat : h # d.last + 1 => d.at[h] = g.at[h] BY <1>11, <1>13
<1>15. d.at[d.last + 1] = IF t = "Log" THEN g.at[g.last + 1] + Len(p) ELSE Len(Log(m)) + 1
       BY <1>12, <1>13
<1> HIDE DEF last
<1>16. d.last = g.last + 2 + Len(p) BY <1>13 DEF last
<1>17. \A i \in 1 .. 2 + Len(p) : d.cell[g.last + i] = Channel!Frame(t, p)[i] BY <1>4 DEF e
<1>18. \A k \in 1 .. Len(p) : d.cell[g.last + 2 + k] = p[k] BY <1>2, <1>6
<1>19. d.cell[g.last + 1] = [length |-> Len(p)] /\ d.cell[g.last + 2] = [type |-> t] BY <1>2, <1>5
<1> QED BY <1>7, <1>9, <1>10, <1>13, <1>14, <1>15, <1>16, <1>17, <1>18, <1>19 DEF d

\* It is a stream again, and whole.
LEMMA StreamGrows ==
    ASSUME NEW m, Messages(m), NEW g, Stream(m, g), Whole(g), NEW t, NEW p, Follows(m, g, t, p)
    PROVE  Stream(m, More(m, g, t, p)) /\ Whole(More(m, g, t, p))
<1> DEFINE d == More(m, g, t, p)
           n == g.last + 1
<1> HIDE DEF d
<1>1. /\ d.last = g.last + 2 + Len(p) /\ d.heads = g.heads \cup {d.last + 1}
      /\ \A i \in Nat : i <= g.last => d.cell[i] = g.cell[i]
      /\ d.cell[n] = [length |-> Len(p)] /\ d.cell[g.last + 2] = [type |-> t]
      /\ \A k \in 1 .. Len(p) : d.cell[g.last + 2 + k] = p[k]
      /\ d.length[n] = Len(p) /\ d.kind[n] = t
      /\ \A h \in Nat : h # n => d.length[h] = g.length[h] /\ d.kind[h] = g.kind[h]
      /\ \A h \in Nat : h # d.last + 1 => d.at[h] = g.at[h]
      /\ d.at[d.last + 1] = IF t = "Log" THEN g.at[n] + Len(p) ELSE Len(Log(m)) + 1
      BY MoreIs DEF d
<1>2. g.last \in Nat /\ Len(p) \in Nat /\ d.last \in Nat /\ Len(Log(m)) \in Nat
      /\ n \in Nat /\ n # d.last + 1 /\ n + 1 = g.last + 2 /\ n <= d.last
      /\ n \in g.heads
  <2>1. p \in Seq(Labels) BY DEF Follows
  <2>2. Len(p) \in Nat BY <2>1, LenProperties
  <2>3. Len(Log(m)) \in Nat BY LogIs, LenProperties
  <2>4. g.last \in Nat /\ n \in g.heads BY DEF Stream, Whole
  <2> QED BY <1>1, <2>2, <2>3, <2>4
<1>3. \A h \in g.heads : h \in Nat /\ h <= g.last + 1 /\ h >= 1 /\ g.at[h] \in Nat
      BY <1>2 DEF Stream
<1>20. g.last \in Nat /\ Len(p) \in Nat /\ d.last = g.last + 2 + Len(p) /\ d.heads = g.heads \cup {d.last + 1}
       BY <1>1, <1>2
<1>4. FrameAt(m, d, n)
  <2>1. d.length[n] \in 0 .. MaxPayload /\ d.kind[n] \in Kinds /\ d.at[n] = g.at[n]
    <3>1. t \in Kinds /\ Len(p) <= MaxPayload BY DEF Follows
    <3>2. Len(p) \in 0 .. MaxPayload BY <1>20, <3>1, HelpersAssumption
    <3>3. d.length[n] = Len(p) /\ d.kind[n] = t /\ d.at[n] = g.at[n] BY <1>1, <1>2
    <3> QED BY <3>1, <3>2, <3>3
  <2>2. d.cell[n + 1] = [type |-> d.kind[n]] BY <1>1, <1>2
  <2>3. \A k \in 1 .. Len(p) : d.cell[n + 1 + k] = p[k]
    <3> TAKE k \in 1 .. Len(p)
    <3>1. n + 1 + k = g.last + 2 + k BY <1>20
    <3>2. d.cell[g.last + 2 + k] = p[k] BY <1>1
    <3> QED BY <3>1, <3>2
  <2>4. d.kind[n] = "Log" =>
          /\ d.at[n] + d.length[n] <= Len(Log(m))
          /\ \A k \in 1 .. d.length[n] : d.cell[n + 1 + k] = Log(m)[d.at[n] + k]
        BY <1>1, <2>1, <2>3 DEF Follows
  <2>5. d.kind[n] # "Log" =>
          /\ d.at[n] = Len(Log(m)) /\ d.kind[n] = m[Len(m)].type /\ d.length[n] = Answer(m)
          /\ \A k \in 1 .. d.length[n] : d.cell[n + 1 + k] = [message |-> Len(m), unit |-> k]
        BY <1>1, <2>1, <2>3 DEF Follows
  <2> HIDE DEF n
  <2> QED BY <1>1, <2>1, <2>2, <2>4, <2>5 DEF FrameAt
<1>5. ASSUME NEW h \in g.heads, h <= g.last
      PROVE  /\ FrameAt(m, d, h) /\ h + 1 + d.length[h] <= g.last /\ d.length[h] \in Nat
             /\ h + 2 + d.length[h] \in d.heads /\ d.at[h + 2 + d.length[h]] = After(m, d, h)
  <2>1. h \in Nat /\ h # n /\ h # d.last + 1
    <3>1. h \in Nat BY <1>3
    <3>2. h # n BY <1>5, <1>20, <3>1
    <3>3. h # d.last + 1 BY <1>5, <1>20, <3>1
    <3> QED BY <3>1, <3>2, <3>3
  <2>2. FrameAt(m, g, h) BY <1>5 DEF Stream
  <2>3. g.length[h] \in Nat BY <2>2, HelpersAssumption DEF FrameAt
  <2>4. h + 1 + g.length[h] <= g.last BY <1>5 DEF Whole
  <2>5. d.length[h] = g.length[h] /\ d.kind[h] = g.kind[h] /\ d.at[h] = g.at[h] BY <1>1, <2>1
  <2>6. h + 1 <= g.last /\ h + 1 \in Nat /\ d.cell[h] = g.cell[h] /\ d.cell[h + 1] = g.cell[h + 1]
    <3>1. h \in Nat /\ g.length[h] \in Nat /\ g.last \in Nat /\ h + 1 + g.length[h] <= g.last
          BY <1>2, <2>1, <2>3, <2>4
    <3>2. h + 1 <= g.last /\ h + 1 \in Nat /\ h <= g.last BY <3>1
    <3> QED BY <1>1, <2>1, <3>2
  <2>7. \A k \in 1 .. g.length[h] : h + 1 + k <= g.last /\ d.cell[h + 1 + k] = g.cell[h + 1 + k]
    <3> TAKE k \in 1 .. g.length[h]
    <3>1. h + 1 + k \in Nat /\ h + 1 + k <= g.last BY <1>2, <2>1, <2>3, <2>4
    <3> QED BY <1>1, <3>1
  <2>8. FrameAt(m, d, h) BY <2>2, <2>5, <2>6, <2>7 DEF FrameAt
  <2>9. h + 2 + g.length[h] \in g.heads /\ g.at[h + 2 + g.length[h]] = After(m, g, h)
        BY <1>5, <2>4 DEF Stream
  <2>10. h + 2 + g.length[h] \in Nat /\ h + 2 + g.length[h] # d.last + 1
    <3>1. h \in Nat /\ g.length[h] \in Nat /\ g.last \in Nat /\ Len(p) \in Nat
          /\ h + 1 + g.length[h] <= g.last /\ d.last = g.last + 2 + Len(p)
          BY <1>1, <1>2, <2>1, <2>3, <2>4
    <3>2. PICK u : u = g.length[h] OBVIOUS
    <3>3. PICK v, w : v = g.last /\ w = d.last OBVIOUS
    <3>4. h \in Nat /\ u \in Nat /\ v \in Nat /\ h + 1 + u <= v /\ w = v + 2 + Len(p) /\ Len(p) \in Nat
          BY <3>1, <3>2, <3>3
    <3>5. h + 2 + u \in Nat /\ h + 2 + u # w + 1 BY <3>4
    <3> QED BY <3>2, <3>3, <3>5
  <2>11. d.at[h + 2 + g.length[h]] = g.at[h + 2 + g.length[h]] BY <1>1, <2>10
  <2>12. After(m, d, h) = After(m, g, h) BY <2>5 DEF After
  <2> QED BY <1>1, <2>3, <2>4, <2>5, <2>8, <2>9, <2>11, <2>12
<1>6. n + 1 + d.length[n] = d.last /\ n + 2 + d.length[n] = d.last + 1 BY <1>1, <1>2
<1>7. n + 2 + d.length[n] \in d.heads /\ d.at[n + 2 + d.length[n]] = After(m, d, n)
  <2>1. d.at[n] = g.at[n] BY <1>1, <1>2
  <2>2. d.at[d.last + 1] = After(m, d, n) BY <1>1, <2>1 DEF After
  <2> QED BY <1>1, <1>6, <2>2
<1>8. \A h \in d.heads : h <= d.last => (h \in g.heads /\ h <= g.last) \/ h = n
  <2> TAKE h \in d.heads
  <2>1. h = d.last + 1 => ~(h <= d.last) BY <1>20
  <2>2. h \in g.heads => h <= g.last \/ h = n BY <1>3, <1>20
  <2> QED BY <1>20, <2>1, <2>2
<1>9. \A h \in d.heads : d.at[h] \in Nat
  <2>1. d.at[d.last + 1] \in Nat
    <3>1. g.at[n] \in Nat /\ Len(p) \in Nat /\ Len(Log(m)) \in Nat BY <1>2, <1>3
    <3>2. d.at[d.last + 1] = IF t = "Log" THEN g.at[n] + Len(p) ELSE Len(Log(m)) + 1 BY <1>1
    <3> HIDE DEF n
    <3> QED BY <3>1, <3>2
  <2>2. \A h \in g.heads : h # d.last + 1 BY <1>3, <1>20
  <2> QED BY <1>1, <1>3, <2>1, <2>2
<1>10. d.heads \subseteq 1 .. d.last + 1
  <2> SUFFICES ASSUME NEW h \in d.heads PROVE h \in 1 .. d.last + 1 OBVIOUS
  <2>1. d.last + 1 \in 1 .. d.last + 1 BY <1>20
  <2>2. h \in g.heads => h \in 1 .. d.last + 1 BY <1>3, <1>20
  <2> QED BY <1>20, <2>1, <2>2
<1> HIDE DEF n
<1>11. \A h \in d.heads : h <= d.last => FrameAt(m, d, h) BY <1>4, <1>5, <1>8
<1>12. \A h \in d.heads : h <= d.last =>
          h + 2 + d.length[h] \in d.heads /\ d.at[h + 2 + d.length[h]] = After(m, d, h)
       BY <1>5, <1>7, <1>8
<1>13. Stream(m, d) BY <1>2, <1>9, <1>10, <1>11, <1>12 DEF Stream
<1>14. \A h \in d.heads : h <= d.last => h + 1 + d.length[h] <= d.last
  <2> TAKE h \in d.heads
  <2> SUFFICES ASSUME h <= d.last PROVE h + 1 + d.length[h] <= d.last OBVIOUS
  <2>1. CASE h = n BY <1>2, <1>6, <2>1
  <2>2. CASE h \in g.heads /\ h <= g.last
    <3>1. h + 1 + d.length[h] <= g.last /\ d.length[h] \in Nat BY <1>5, <2>2
    <3>2. h \in Nat /\ g.last \in Nat /\ d.last \in Nat /\ g.last <= d.last
      <4>1. g.last \in Nat /\ Len(p) \in Nat /\ d.last = g.last + 2 + Len(p) BY <1>1, <1>2
      <4> QED BY <1>3, <2>2, <4>1
    <3> QED BY <3>1, <3>2
  <2> QED BY <1>8, <2>1, <2>2
<1>15. Whole(d) BY <1>1, <1>14 DEF Whole
<1> QED BY <1>13, <1>15 DEF d

\* A sequence that is a part of the cells, after place n.
On(f, n, s) == \A i \in 1 .. Len(s) : s[i] = f[n + i]

LEMMA OnConcat ==
    ASSUME NEW f, NEW n \in Nat, NEW a \in Seq(Cells), NEW b \in Seq(Cells),
           On(f, n, a), On(f, n + Len(a), b)
    PROVE  On(f, n, a \o b) /\ a \o b \in Seq(Cells) /\ Len(a \o b) = Len(a) + Len(b)
<1>1. Len(a) \in Nat /\ Len(b) \in Nat BY LenProperties
<1>2. /\ a \o b \in Seq(Cells) /\ Len(a \o b) = Len(a) + Len(b)
      /\ \A i \in 1 .. Len(a) + Len(b) : (a \o b)[i] = IF i <= Len(a) THEN a[i] ELSE b[i - Len(a)]
      BY ConcatProperties
<1>3. ASSUME NEW i \in 1 .. Len(a) + Len(b) PROVE (a \o b)[i] = f[n + i]
  <2>1. CASE i <= Len(a)
    <3>1. i \in 1 .. Len(a) BY <1>1, <2>1
    <3> QED BY <1>2, <2>1, <3>1 DEF On
  <2>2. CASE ~(i <= Len(a))
    <3>1. i - Len(a) \in 1 .. Len(b) /\ n + Len(a) + (i - Len(a)) = n + i BY <1>1, <2>2
    <3>2. b[i - Len(a)] = f[n + Len(a) + (i - Len(a))] BY <3>1 DEF On
    <3> QED BY <1>2, <2>2, <3>1, <3>2
  <2> QED BY <2>1, <2>2
<1>4. On(f, n, a \o b) BY <1>2, <1>3 DEF On
<1> QED BY <1>2, <1>4

LEMMA OnSplit ==
    ASSUME NEW f, NEW n \in Nat, NEW b \in Seq(Cells), NEW k \in 0 .. Len(b), On(f, n, b)
    PROVE  /\ SubSeq(b, 1, k) \in Seq(Cells) /\ SubSeq(b, k + 1, Len(b)) \in Seq(Cells)
           /\ Len(SubSeq(b, 1, k)) = k /\ Len(SubSeq(b, k + 1, Len(b))) = Len(b) - k
           /\ On(f, n, SubSeq(b, 1, k)) /\ On(f, n + k, SubSeq(b, k + 1, Len(b)))
<1> DEFINE l == Len(b)
<1>1. l \in Nat /\ \A i \in 1 .. l : b[i] \in Cells BY LenProperties, ElementOfSeq
<1> HIDE DEF l
<1>2. k \in Nat /\ k <= l BY <1>1 DEF l
<1> DEFINE c == SubSeq(b, 1, k)
           d == SubSeq(b, k + 1, l)
<1>3. c \in Seq(Cells) /\ Len(c) = k /\ \A i \in 1 .. k : c[i] = b[i]
  <2>1. \A i \in 1 .. k : b[i] \in Cells BY <1>1, <1>2
  <2>2. /\ c \in Seq(Cells) /\ Len(c) = IF 1 <= k THEN k - 1 + 1 ELSE 0
        /\ \A i \in 1 .. k - 1 + 1 : c[i] = b[1 + i - 1]
        BY <1>2, <2>1, SubSeqProperties
  <2>3. k - 1 + 1 = k /\ \A i \in 1 .. k : 1 + i - 1 = i BY <1>2
  <2> HIDE DEF c
  <2> QED BY <1>2, <2>2, <2>3
<1>4. d \in Seq(Cells) /\ Len(d) = l - k /\ \A i \in 1 .. l - k : d[i] = b[k + i]
  <2>1. \A i \in k + 1 .. l : b[i] \in Cells BY <1>1, <1>2
  <2>2. k + 1 \in Int /\ l \in Int BY <1>1, <1>2
  <2>3. /\ d \in Seq(Cells) /\ Len(d) = IF k + 1 <= l THEN l - (k + 1) + 1 ELSE 0
        /\ \A i \in 1 .. l - (k + 1) + 1 : d[i] = b[k + 1 + i - 1]
        BY <2>1, <2>2, SubSeqProperties
  <2>4. l - (k + 1) + 1 = l - k /\ \A i \in 1 .. l - k : k + 1 + i - 1 = k + i BY <1>1, <1>2
  <2> HIDE DEF d
  <2> QED BY <1>1, <1>2, <2>3, <2>4
<1> HIDE DEF c, d
<1>5. On(f, n, c)
  <2>1. \A i \in 1 .. k : i \in 1 .. l BY <1>1, <1>2
  <2> QED BY <1>3, <2>1 DEF On, l
<1>6. On(f, n + k, d)
  <2> SUFFICES ASSUME NEW i \in 1 .. l - k PROVE d[i] = f[n + k + i] BY <1>4 DEF On
  <2>1. k + i \in 1 .. l /\ n + (k + i) = n + k + i BY <1>1, <1>2
  <2> QED BY <1>4, <2>1 DEF On, l
<1> QED BY <1>3, <1>4, <1>5, <1>6 DEF c, d, l

-----------------------------------------------------------------------------
(* IpcChannel: the invariant *)

\* How much of the log has gone into frames; the outcome counts for one unit.
Sent == IF next > Len(said) THEN Len(Log(said)) + 1 ELSE Start(said, next) + offset

FrameTypes ==
    /\ Messages(said) /\ next \in 1 .. Len(said) + 1 /\ offset \in Nat
    /\ next <= Len(said) => offset <= said[next].size
    /\ next >= Len(said) => offset = 0
    /\ out \in Seq(Cells) /\ wire \in Seq(Cells) /\ in \in Seq(Cells) /\ printed \in Seq(Labels)
    /\ connected \in BOOLEAN /\ broken \in BOOLEAN /\ closed \in BOOLEAN

\* The worker stops for a broken connection only, and closes it when it has said all.
WorkerInv ==
    /\ connected = ~broken
    /\ broken \/ closed => out = <<>>
    /\ closed /\ ~broken => next > Len(said)

Printed == Len(printed) <= Len(Log(said)) /\ \A i \in 1 .. Len(printed) : printed[i] = Log(said)[i]

Answered ==
    /\ reply.type \in {"Result", "Error"} =>
          /\ Len(printed) = Len(Log(said))
          /\ reply = [type |-> said[Len(said)].type, payload |-> Channel!Text(Len(said), 0, Answer(said))]
    /\ reply.type # "invalid"
    /\ reply.type = "closed" => broken

\* What is being read, what is in the buffers and what is still to be written are the end of a
\* stream of frames, from the head of the frame that is being read; what came before it has been
\* printed.  While no write has failed, the stream has all that the worker has sent.
Carried(g, n) ==
    /\ Stream(said, g) /\ n \in Nat /\ n + Len(in) + Len(wire) + Len(out) = g.last
    /\ On(g.cell, n, in) /\ On(g.cell, n + Len(in), wire)
    /\ On(g.cell, n + Len(in) + Len(wire), out)
    /\ n + 1 \in g.heads /\ g.at[n + 1] = Len(printed)
    /\ Len(in) >= 1 => Len(in) <= 2 + g.length[n + 1]
    /\ ~broken => Whole(g) /\ g.at[g.last + 1] = Sent

Flows == reply = Channel!Nothing => \E g, n : Carried(g, n)

ChannelInv == FrameTypes /\ WorkerInv /\ Printed /\ Answered /\ Flows

LEMMA ChannelStarts == Channel!Init => ChannelInv
<1> SUFFICES ASSUME Channel!Init PROVE ChannelInv OBVIOUS
<1>1. PICK logs \in Channel!BoundedSeq(Channel!Logs, MaxLogs), o \in Channel!Outcomes :
         said = Append(logs, o)
      BY DEF Channel!Init
<1>2. /\ next = 1 /\ offset = 0 /\ out = <<>> /\ connected = TRUE /\ broken = FALSE /\ closed = FALSE
      /\ wire = <<>> /\ in = <<>> /\ printed = <<>> /\ reply = Channel!Nothing
      BY DEF Channel!Init
<1>3. Messages(said)
  <2>1. PICK n \in 0 .. MaxLogs : logs \in [1 .. n -> Channel!Logs]
        BY <1>1 DEF Channel!BoundedSeq, Channel!SeqOf
  <2>2. n \in Nat BY HelpersAssumption
  <2>3. logs \in Seq(Channel!Logs) /\ Len(logs) = n BY <2>1, <2>2
  <2> DEFINE All == Channel!Logs \cup Channel!Outcomes
  <2>4. logs \in Seq(All)
    <3>1. logs \in [1 .. n -> All] BY <2>1
    <3> HIDE DEF All
    <3> QED BY <2>2, <3>1
  <2>5. o \in All BY <1>1
  <2> HIDE DEF All
  <2>6. /\ said \in Seq(All) /\ Len(said) = n + 1
        /\ \A i \in 1 .. n : said[i] = logs[i]
        /\ said[n + 1] = o
        BY <1>1, <2>3, <2>4, <2>5, AppendProperties
  <2>7. DOMAIN said = 1 .. Len(said) BY <2>6, LenProperties
  <2>8. \A k \in 1 .. n : said[k].type = "Log" /\ said[k].size \in Nat
    <3> TAKE k \in 1 .. n
    <3>1. said[k] \in Channel!Logs BY <2>1, <2>6
    <3> QED BY <3>1, HelpersAssumption DEF Channel!Logs
  <2>9. o.type \in {"Result", "Error"} /\ o.size \in Nat /\ (o.type = "Result" => o.size <= MaxPayload)
    <3>1. CASE o \in [type : {"Result"}, size : ResultSizes]
      <4>1. o.type = "Result" /\ o.size \in 0 .. MaxPayload BY <3>1, HelpersAssumption
      <4> QED BY <4>1, HelpersAssumption
    <3>2. CASE o \in [type : {"Error"}, size : ErrorSizes]
      <4>1. o.type = "Error" /\ o.size \in Nat BY <3>2, HelpersAssumption
      <4> QED BY <4>1
    <3> QED BY <1>1, <3>1, <3>2 DEF Channel!Outcomes
  <2>10. Len(said) \in Nat \ {0} /\ Len(said) - 1 = n BY <2>2, <2>6
  <2> QED BY <2>6, <2>7, <2>8, <2>9, <2>10 DEF Messages
<1>4. Len(said) \in Nat \ {0} /\ said[1].size \in Nat
  <2>1. Len(said) \in Nat \ {0} BY <1>3 DEF Messages
  <2> DEFINE l == Len(said)
  <2>2. 1 = l \/ 1 \in 1 .. l - 1
    <3>1. l \in Nat \ {0} BY <2>1
    <3> HIDE DEF l
    <3> QED BY <3>1
  <2> QED BY <1>3, <2>1, <2>2 DEF Messages
<1>5. <<>> \in Seq(Cells) /\ <<>> \in Seq(Labels) /\ Len(<<>>) = 0 BY EmptySeq
<1>6. FrameTypes
  <2>1. next \in 1 .. Len(said) + 1 BY <1>2, <1>4
  <2>2. /\ offset \in Nat
        /\ next >= Len(said) => offset = 0
        /\ next <= Len(said) => offset <= said[next].size
        BY <1>2, <1>4
  <2>3. /\ out \in Seq(Cells) /\ wire \in Seq(Cells) /\ in \in Seq(Cells) /\ printed \in Seq(Labels)
        /\ connected \in BOOLEAN /\ broken \in BOOLEAN /\ closed \in BOOLEAN
        BY <1>2, <1>5
  <2> QED BY <1>3, <2>1, <2>2, <2>3 DEF FrameTypes
<1>7. WorkerInv BY <1>2 DEF WorkerInv
<1>8. Printed
  <2>1. Len(Log(said)) \in Nat BY <1>3, LogIs, LenProperties
  <2> QED BY <1>2, <1>5, <2>1 DEF Printed
<1>9. Answered BY <1>2 DEF Answered, Channel!Nothing
<1>10. Flows
  <2> DEFINE zero == [i \in Nat |-> 0]
             g == [cell |-> zero, last |-> 0, heads |-> {1}, length |-> zero, kind |-> zero, at |-> zero]
  <2>1. g.last = 0 /\ g.heads = {1} /\ g.at[1] = 0 /\ g.cell = zero OBVIOUS
  <2> HIDE DEF g
  <2>2. Stream(said, g) /\ Whole(g) BY <2>1 DEF Stream, Whole
  <2>3. Sent = 0
    <3>1. Start(said, 1) = 0 BY DEF Start
    <3> QED BY <1>2, <1>4, <3>1 DEF Sent
  <2>4. On(g.cell, 0, <<>>) BY <1>5 DEF On
  <2>5. Carried(g, 0) BY <1>2, <1>5, <2>1, <2>2, <2>3, <2>4 DEF Carried
  <2> QED BY <2>5 DEF Flows
<1> QED BY <1>6, <1>7, <1>8, <1>9, <1>10 DEF ChannelInv

\* Nothing is sent.
LEMMA ChannelRests ==
    ASSUME ChannelInv, UNCHANGED <<said, out, wire, in, printed, reply, connected, broken, closed>>,
           FrameTypes', WorkerInv', Sent' = Sent
    PROVE  ChannelInv'
<1>1. Printed' BY DEF ChannelInv, Printed
<1>2. Answered' BY DEF ChannelInv, Answered
<1>3. Flows'
  <2> SUFFICES ASSUME NEW g, NEW n, Carried(g, n) PROVE Carried(g, n)'
      BY DEF ChannelInv, Flows
  <2> QED BY DEF Carried
<1> QED BY <1>1, <1>2, <1>3 DEF ChannelInv

LEMMA OnKeeps ==
    ASSUME NEW f, NEW e, NEW n \in Nat, NEW s \in Seq(Cells), NEW q \in Nat, n + Len(s) <= q,
           \A i \in Nat : i <= q => e[i] = f[i], On(f, n, s)
    PROVE  On(e, n, s)
<1>1. Len(s) \in Nat BY LenProperties
<1> SUFFICES ASSUME NEW i \in 1 .. Len(s) PROVE s[i] = e[n + i] BY DEF On
<1>2. n + i \in Nat /\ n + i <= q BY <1>1
<1> QED BY <1>2 DEF On

\* A frame is handed to the connection.
LEMMA FlowGrows ==
    ASSUME ChannelInv, out = <<>>, ~broken, NEW g, NEW n, Carried(g, n), NEW t, NEW p,
           Follows(said, g, t, p), out' = Channel!Frame(t, p),
           UNCHANGED <<said, in, wire, printed, broken>>,
           Sent' = IF t = "Log" THEN Sent + Len(p) ELSE Len(Log(said)) + 1
    PROVE  Carried(More(said, g, t, p), n)'
<1>0. PICK m : m = said OBVIOUS
<1> DEFINE d == More(m, g, t, p)
<1>1. Messages(m) /\ Stream(m, g) /\ Whole(g) /\ g.at[g.last + 1] = Sent /\ Follows(m, g, t, p)
      BY <1>0 DEF ChannelInv, FrameTypes, Carried
<1>2. Stream(m, d) /\ Whole(d) BY <1>1, StreamGrows
<1>3. /\ d.last = g.last + 2 + Len(p) /\ d.heads = g.heads \cup {d.last + 1}
      /\ \A i \in Nat : i <= g.last => d.cell[i] = g.cell[i]
      /\ \A i \in 1 .. 2 + Len(p) : d.cell[g.last + i] = Channel!Frame(t, p)[i]
      /\ \A h \in Nat : h # g.last + 1 => d.length[h] = g.length[h]
      /\ \A h \in Nat : h # d.last + 1 => d.at[h] = g.at[h]
      /\ d.at[d.last + 1] = IF t = "Log" THEN g.at[g.last + 1] + Len(p) ELSE Len(Log(m)) + 1
  <2> HIDE DEF d
  <2>1. Messages(m) /\ Stream(m, g) /\ Whole(g) /\ Follows(m, g, t, p) BY <1>1
  <2>2. /\ d.last = g.last + 2 + Len(p) /\ d.heads = g.heads \cup {d.last + 1}
        /\ \A i \in Nat : i <= g.last => d.cell[i] = g.cell[i]
        /\ d.cell[g.last + 1] = [length |-> Len(p)] /\ d.cell[g.last + 2] = [type |-> t]
        /\ \A k \in 1 .. Len(p) : d.cell[g.last + 2 + k] = p[k]
        /\ \A i \in 1 .. 2 + Len(p) : d.cell[g.last + i] = Channel!Frame(t, p)[i]
        /\ d.length[g.last + 1] = Len(p) /\ d.kind[g.last + 1] = t
        /\ \A h \in Nat : h # g.last + 1 => d.length[h] = g.length[h] /\ d.kind[h] = g.kind[h]
        /\ \A h \in Nat : h # d.last + 1 => d.at[h] = g.at[h]
        /\ d.at[d.last + 1] = IF t = "Log" THEN g.at[g.last + 1] + Len(p) ELSE Len(Log(m)) + 1
        BY <2>1, MoreIs DEF d
  <2> QED BY <2>2
<1> HIDE DEF d
<1>4. in \in Seq(Cells) /\ wire \in Seq(Cells) /\ out \in Seq(Cells) BY DEF ChannelInv, FrameTypes
<1>5. Len(in) \in Nat /\ Len(wire) \in Nat /\ Len(out) = 0 BY <1>4, LenProperties, EmptySeq
<1>6. n \in Nat /\ n + Len(in) + Len(wire) = g.last /\ g.last \in Nat
      BY <1>1, <1>5 DEF Carried, Stream
<1>7. Len(out') = 2 + Len(p) /\ Len(p) \in Nat
  <2>1. t \in Kinds /\ p \in Seq(Labels) BY DEF Follows
  <2> QED BY <2>1, FrameIs, LenProperties
<1>8. On(d.cell, n, in) /\ On(d.cell, n + Len(in), wire)
  <2>1. n + Len(in) \in Nat /\ n + Len(in) <= g.last BY <1>5, <1>6
  <2>2. On(g.cell, n, in) /\ On(g.cell, n + Len(in), wire) BY DEF Carried
  <2>3. n \in Nat /\ g.last \in Nat /\ n + Len(in) <= g.last /\ n + Len(in) + Len(wire) <= g.last
        BY <1>5, <1>6
  <2>4. \A i \in Nat : i <= g.last => d.cell[i] = g.cell[i] BY <1>3
  <2>5. On(d.cell, n, in) BY <1>4, <2>2, <2>3, <2>4, OnKeeps
  <2>6. On(d.cell, n + Len(in), wire) BY <1>4, <2>1, <2>2, <2>3, <2>4, OnKeeps
  <2> QED BY <2>5, <2>6
<1>9. On(d.cell, n + Len(in) + Len(wire), out') BY <1>3, <1>6, <1>7 DEF On
<1>10. n + Len(in) + Len(wire) + Len(out') = d.last BY <1>3, <1>5, <1>6, <1>7
<1>11. n + 1 \in d.heads /\ d.at[n + 1] = Len(printed)
  <2>1. n + 1 \in Nat /\ n + 1 # d.last + 1 BY <1>3, <1>5, <1>6, <1>7
  <2>2. n + 1 \in g.heads /\ g.at[n + 1] = Len(printed) BY DEF Carried
  <2> QED BY <1>3, <2>1, <2>2
<1>12. Len(in) >= 1 => Len(in) <= 2 + d.length[n + 1]
  <2> SUFFICES ASSUME Len(in) >= 1 PROVE Len(in) <= 2 + d.length[n + 1] OBVIOUS
  <2>1. n + 1 \in Nat /\ n + 1 # g.last + 1 BY <1>5, <1>6
  <2>2. Len(in) <= 2 + g.length[n + 1] BY DEF Carried
  <2> QED BY <1>3, <2>1, <2>2
<1>13. d.at[d.last + 1] = Sent' BY <1>0, <1>1, <1>3
<1>14. said' = m /\ in' = in /\ wire' = wire /\ printed' = printed BY <1>0
<1>15. Carried(d, n)'
       <=> /\ Stream(said', d) /\ n \in Nat /\ n + Len(in') + Len(wire') + Len(out') = d.last
           /\ On(d.cell, n, in') /\ On(d.cell, n + Len(in'), wire')
           /\ On(d.cell, n + Len(in') + Len(wire'), out')
           /\ n + 1 \in d.heads /\ d.at[n + 1] = Len(printed')
           /\ Len(in') >= 1 => Len(in') <= 2 + d.length[n + 1]
           /\ ~broken' => Whole(d) /\ d.at[d.last + 1] = Sent'
      BY DEF Carried
<1>16. Carried(d, n)' BY <1>2, <1>6, <1>8, <1>9, <1>10, <1>11, <1>12, <1>13, <1>14, <1>15
<1>17. More(said', g, t, p) = d BY <1>14 DEF d
<1> QED BY <1>16, <1>17

LEMMA SendLogKeeps ==
    ASSUME ChannelInv, Channel!SendLog
    PROVE  ChannelInv'
<1> DEFINE m == said[next]
           l == Len(said)
           r == Channel!Rest(m)
<1>1. /\ connected /\ out = <<>> /\ ~closed /\ next <= l /\ m.type = "Log"
      /\ UNCHANGED <<said, broken, closed, wire, in, printed, reply>>
      BY DEF Channel!SendLog, Channel!Speaks, Channel!client
<1>2. /\ Messages(said) /\ l \in Nat \ {0} /\ next \in Nat /\ next >= 1 /\ ~broken
      /\ offset \in Nat /\ offset <= m.size
  <2>1. Messages(said) /\ l \in Nat \ {0} BY DEF ChannelInv, FrameTypes, Messages
  <2> HIDE DEF m
  <2>2. next \in 1 .. l + 1 /\ offset \in Nat /\ (next <= l => offset <= m.size)
        BY DEF ChannelInv, FrameTypes, m
  <2>3. ~broken BY <1>1 DEF ChannelInv, WorkerInv, FrameTypes
  <2> HIDE DEF l
  <2> QED BY <1>1, <2>1, <2>2, <2>3
<1>3. next # l BY <1>1, <1>2 DEF Messages
<1>4. next \in 1 .. l - 1 /\ next + 1 \in 1 .. l + 1 /\ ~(next > l) /\ ~(next + 1 > l) /\ ~(next >= l)
  <2> HIDE DEF l, m
  <2> QED BY <1>1, <1>2, <1>3
<1>5. m.size \in Nat BY <1>2, <1>4 DEF Messages
<1>6. /\ Start(said, next) \in Nat /\ Start(said, next + 1) = Start(said, next) + m.size
      /\ Start(said, next + 1) <= Len(Log(said))
      /\ \A u \in 1 .. m.size : Log(said)[Start(said, next) + u] = [message |-> next, unit |-> u]
      BY <1>2, <1>4, LogIs
<1>7. Sent = Start(said, next) + offset BY <1>4 DEF Sent
<1>8. r = m.size - offset
  <2> HIDE DEF m
  <2> QED BY <1>2, <1>5 DEF Channel!Rest
<1> HIDE DEF r
<1>9. CASE r = 0
  <2>1. next' = next + 1 /\ offset' = 0 /\ out' = out /\ connected' = connected
        BY <1>9 DEF Channel!SendLog, Channel!Over, r
  <2>2. Sent' = Sent
    <3>1. Sent' = Start(said, next + 1) + 0 BY <1>1, <1>4, <2>1 DEF Sent
    <3>2. m.size = offset
      <4> HIDE DEF m
      <4> QED BY <1>2, <1>5, <1>8, <1>9
    <3> HIDE DEF m
    <3> QED BY <1>2, <1>5, <1>6, <1>7, <3>1, <3>2
  <2>3. FrameTypes'
    <3>1. next' \in 1 .. Len(said') + 1 /\ offset' = 0 /\ 0 \in Nat BY <1>1, <1>4, <2>1
    <3>2. next' <= Len(said') => offset' <= said'[next'].size
      <4>1. next + 1 <= l => said[next + 1].size \in Nat
        <5>1. next + 1 <= l => next + 1 = l \/ next + 1 \in 1 .. l - 1
          <6> HIDE DEF l, m
          <6> QED BY <1>2
        <5> QED BY <1>2, <5>1 DEF Messages
      <4>2. next + 1 <= l => 0 <= said[next + 1].size
        <5> DEFINE z == said[next + 1].size
        <5>1. next + 1 <= l => z \in Nat BY <4>1
        <5> HIDE DEF z
        <5>2. next + 1 <= l => 0 <= z BY <5>1
        <5> QED BY <5>2 DEF z
      <4> QED BY <1>1, <2>1, <4>2
    <3> QED BY <1>1, <2>1, <3>1, <3>2 DEF ChannelInv, FrameTypes
  <2>4. WorkerInv' BY <1>1, <2>1 DEF ChannelInv, WorkerInv
  <2> QED BY <1>1, <2>1, <2>2, <2>3, <2>4, ChannelRests
<1>10. CASE r # 0
  <2> DEFINE k == Channel!Piece(r)
  <2>0. PICK p : p = Channel!Text(next, offset, offset + k) OBVIOUS
  <2>1. k \in 1 .. MaxPayload /\ k \in Nat /\ k <= r /\ offset + k <= m.size /\ MaxPayload \in Nat
    <3>1. MaxPayload \in Nat \ {0} /\ r \in Nat
      <4> HIDE DEF m
      <4> QED BY <1>2, <1>5, <1>8, HelpersAssumption
    <3>2. k = IF MaxPayload <= r THEN MaxPayload ELSE r BY <3>1, MinOfTwo DEF Channel!Piece
    <3> HIDE DEF k, m
    <3> QED BY <1>2, <1>5, <1>8, <1>10, <3>1, <3>2
  <2> HIDE DEF k
  <2>2. p \in Seq(Labels) /\ Len(p) = k /\ \A i \in 1 .. k : p[i] = [message |-> next, unit |-> offset + i]
    <3>1. offset + k \in Nat /\ offset <= offset + k /\ (offset + k) - offset = k
      <4> HIDE DEF m
      <4> QED BY <1>2, <2>1
    <3>2. next \in Nat /\ offset \in Nat BY <1>2
    <3>3. /\ Channel!Text(next, offset, offset + k) \in Seq(Labels)
          /\ Len(Channel!Text(next, offset, offset + k)) = k
          /\ \A i \in 1 .. k : Channel!Text(next, offset, offset + k)[i] = [message |-> next, unit |-> offset + i]
      <4> DEFINE q == offset + k
      <4>1. q \in Nat /\ offset <= q /\ q - offset = k BY <3>1
      <4> HIDE DEF q
      <4>2. /\ Channel!Text(next, offset, q) \in Seq(Labels)
            /\ Len(Channel!Text(next, offset, q)) = q - offset
            /\ \A i \in 1 .. q - offset : Channel!Text(next, offset, q)[i] = [message |-> next, unit |-> offset + i]
            BY <3>2, <4>1, TextIs
      <4> QED BY <4>1, <4>2 DEF q
    <3> QED BY <2>0, <3>3
  <2>3. out' = Channel!Frame("Log", p) /\ connected' = connected /\ offset' = offset + k /\ next' = next
    <3>1. ~(Len(p) > MaxPayload) BY <2>1, <2>2
    <3> QED BY <1>10, <2>0, <3>1 DEF Channel!SendLog, Channel!Send, r, k
  <2>4. out' \in Seq(Cells) BY <2>2, <2>3, FrameIs DEF Kinds
  <2>5. FrameTypes'
    <3>1. offset' \in Nat /\ offset' <= m.size
      <4> HIDE DEF m
      <4> QED BY <1>2, <2>1, <2>3
    <3> QED BY <1>1, <1>4, <2>3, <2>4, <3>1 DEF ChannelInv, FrameTypes
  <2>6. WorkerInv' BY <1>1, <1>2, <2>3 DEF ChannelInv, WorkerInv
  <2>7. Printed' BY <1>1 DEF ChannelInv, Printed
  <2>8. Answered' BY <1>1 DEF ChannelInv, Answered
  <2>9. ASSUME NEW g, NEW n, Carried(g, n) PROVE Carried(More(said, g, "Log", p), n)'
    <3>1. g.at[g.last + 1] = Sent BY <1>2, <2>9 DEF Carried
    <3>2. Follows(said, g, "Log", p)
      <4>1. g.at[g.last + 1] + Len(p) <= Len(Log(said))
        <5>1. Len(Log(said)) \in Nat BY <1>2, LogIs, LenProperties
        <5> HIDE DEF m
        <5> QED BY <1>2, <1>5, <1>6, <1>7, <2>1, <2>2, <3>1, <5>1
      <4>2. ASSUME NEW i \in 1 .. Len(p) PROVE p[i] = Log(said)[g.at[g.last + 1] + i]
        <5>1. offset + i \in 1 .. m.size /\ Start(said, next) + (offset + i) = Start(said, next) + offset + i
          <6> HIDE DEF m
          <6> QED BY <1>2, <1>5, <1>6, <2>1, <2>2
        <5>2. Log(said)[Start(said, next) + (offset + i)] = [message |-> next, unit |-> offset + i]
              BY <1>6, <5>1
        <5> QED BY <1>7, <2>2, <3>1, <5>1, <5>2
      <4>3. Len(p) <= MaxPayload BY <2>1, <2>2
      <4> QED BY <2>2, <4>1, <4>2, <4>3 DEF Follows, Kinds
    <3>3. Sent' = Sent + Len(p)
      <4>1. Sent' = Start(said, next) + (offset + k) BY <1>1, <1>4, <2>3 DEF Sent
      <4> HIDE DEF m
      <4> QED BY <1>2, <1>6, <1>7, <2>1, <2>2, <4>1
    <3> QED BY <1>1, <1>2, <2>3, <2>9, <3>2, <3>3, FlowGrows
  <2>10. Flows' BY <1>1, <2>9 DEF ChannelInv, Flows
  <2> QED BY <2>5, <2>6, <2>7, <2>8, <2>10 DEF ChannelInv
<1> QED BY <1>9, <1>10

LEMMA SendOutcomeKeeps ==
    ASSUME ChannelInv, Channel!SendOutcome
    PROVE  ChannelInv'
<1> DEFINE m == said[next]
           l == Len(said)
           z == IF m.type = "Error" THEN Channel!Cut(m.size) ELSE m.size
<1>0. PICK p : p = Channel!Text(next, 0, z) OBVIOUS
<1>1. /\ connected /\ out = <<>> /\ ~closed /\ next <= l /\ m.type # "Log"
      /\ Channel!Send(m.type, Channel!Text(next, 0, z)) /\ next' = next + 1 /\ offset' = 0
      /\ UNCHANGED <<said, broken, closed, wire, in, printed, reply>>
      BY DEF Channel!SendOutcome, Channel!Speaks, Channel!client, Channel!Over
<1>2. PICK s : s = said OBVIOUS
<1>3. Messages(s) /\ l \in Nat \ {0} /\ ~broken /\ next \in 1 .. l + 1 /\ offset = (IF next >= l THEN 0 ELSE offset)
      /\ s = said /\ l = Len(s)
  <2>1. Messages(s) /\ l \in Nat \ {0} BY <1>2 DEF ChannelInv, FrameTypes, Messages
  <2>2. next \in 1 .. l + 1 /\ (next >= l => offset = 0) BY DEF ChannelInv, FrameTypes
  <2>3. ~broken BY <1>1 DEF ChannelInv, WorkerInv, FrameTypes
  <2> HIDE DEF l
  <2> QED BY <1>2, <2>1, <2>2, <2>3 DEF l
<1>4. next = l
  <2>1. next \notin 1 .. l - 1 BY <1>1, <1>3 DEF Messages
  <2> HIDE DEF l, m
  <2> QED BY <1>1, <1>3, <2>1
<1>5. m = s[Len(s)] /\ m.type \in {"Result", "Error"} /\ z = Answer(s) /\ Answer(s) \in 0 .. MaxPayload
  <2>1. m = s[Len(s)] BY <1>3, <1>4
  <2>2. m.type \in {"Result", "Error"} BY <1>3, <2>1 DEF Messages
  <2>3. Answer(s) \in 0 .. MaxPayload /\ (m.type = "Result" => Answer(s) = m.size) BY <1>3, <2>1, AnswerIs
  <2>4. Answer(s) = Channel!Cut(m.size) BY <2>1 DEF Answer
  <2> HIDE DEF m
  <2> QED BY <2>1, <2>2, <2>3, <2>4
<1>6. PICK t : t = m.type OBVIOUS
<1>7. t \in {"Result", "Error"} /\ t = s[Len(s)].type BY <1>5, <1>6
<1> HIDE DEF z, m
<1>8. MaxPayload \in Nat BY HelpersAssumption
<1>9. z \in Nat /\ z <= MaxPayload BY <1>5, <1>8
<1>10. p \in Seq(Labels) /\ Len(p) = z /\ \A i \in 1 .. z : p[i] = [message |-> l, unit |-> i]
  <2>1. l \in Nat /\ 0 \in Nat /\ 0 <= z /\ z - 0 = z /\ \A i \in 1 .. z : 0 + i = i BY <1>3, <1>9
  <2> HIDE DEF l
  <2>2. /\ Channel!Text(l, 0, z) \in Seq(Labels) /\ Len(Channel!Text(l, 0, z)) = z - 0
        /\ \A i \in 1 .. z - 0 : Channel!Text(l, 0, z)[i] = [message |-> l, unit |-> 0 + i]
        BY <1>9, <2>1, TextIs
  <2>3. p = Channel!Text(l, 0, z) BY <1>0, <1>4
  <2> QED BY <2>1, <2>2, <2>3
<1>11. out' = Channel!Frame(t, p) /\ connected' = connected
  <2>1. ~(Len(p) > MaxPayload) BY <1>8, <1>9, <1>10
  <2> QED BY <1>0, <1>1, <1>6, <2>1 DEF Channel!Send
<1>12. FrameTypes'
  <2>1. t \in Kinds BY <1>7 DEF Kinds
  <2>2. out' \in Seq(Cells) BY <1>10, <1>11, <2>1, FrameIs
  <2>3. next' \in 1 .. Len(said') + 1 /\ offset' \in Nat /\ ~(next' <= Len(said'))
    <3>1. next' = l + 1 /\ Len(said') = l BY <1>1, <1>4
    <3> HIDE DEF l
    <3> QED BY <1>1, <1>3, <3>1
  <2> QED BY <1>1, <1>11, <2>2, <2>3 DEF ChannelInv, FrameTypes
<1>13. WorkerInv' BY <1>1, <1>3, <1>11 DEF ChannelInv, WorkerInv
<1>14. Printed' BY <1>1 DEF ChannelInv, Printed
<1>15. Answered' BY <1>1 DEF ChannelInv, Answered
<1>16. ASSUME NEW g, NEW n, Carried(g, n) PROVE Carried(More(said, g, t, p), n)'
  <2>1. g.at[g.last + 1] = Len(Log(s))
    <3>1. ~(next > Len(said)) BY <1>3, <1>4
    <3>2. Start(s, Len(s)) = Len(Log(s)) /\ Len(Log(s)) \in Nat BY <1>3, LogIs, LenProperties
    <3>3. offset = 0 BY <1>3, <1>4
    <3>4. Sent = Start(s, Len(s)) + 0 BY <1>3, <1>4, <3>1, <3>3 DEF Sent
    <3>5. g.at[g.last + 1] = Sent BY <1>3, <1>16 DEF Carried
    <3> QED BY <3>2, <3>4, <3>5
  <2>2. Follows(said, g, t, p)
    <3>1. t # "Log" /\ t \in Kinds BY <1>7 DEF Kinds
    <3>2. Len(p) <= MaxPayload /\ Len(p) = Answer(s) BY <1>5, <1>9, <1>10
    <3>3. \A i \in 1 .. Len(p) : p[i] = [message |-> Len(s), unit |-> i] BY <1>3, <1>10
    <3>4. Follows(s, g, t, p) BY <1>7, <1>10, <2>1, <3>1, <3>2, <3>3 DEF Follows
    <3> QED BY <1>3, <3>4
  <2>3. Sent' = Len(Log(said)) + 1
    <3>1. next' = l + 1 /\ Len(said') = l BY <1>1, <1>4
    <3>2. next' > Len(said')
      <4> HIDE DEF l
      <4> QED BY <1>3, <3>1
    <3> QED BY <1>1, <3>2 DEF Sent
  <2>4. t # "Log" BY <1>7
  <2> QED BY <1>1, <1>3, <1>11, <1>16, <2>2, <2>3, <2>4, FlowGrows
<1>17. Flows' BY <1>1, <1>16 DEF ChannelInv, Flows
<1> QED BY <1>12, <1>13, <1>14, <1>15, <1>17 DEF ChannelInv

LEMMA WriteKeeps ==
    ASSUME ChannelInv, Channel!Write
    PROVE  ChannelInv'
<1> USE DEF Channel!client
<1>1. PICK k \in 1 .. Channel!Min({Len(out), Buffer - Len(wire)}) :
         wire' = wire \o SubSeq(out, 1, k) /\ out' = SubSeq(out, k + 1, Len(out))
      BY DEF Channel!Write
<1>2. out # <<>> /\ reply = Channel!Nothing
      /\ UNCHANGED <<said, next, offset, connected, broken, closed, in, printed, reply>>
      BY DEF Channel!Write
<1>3. wire \in Seq(Cells) /\ out \in Seq(Cells) /\ in \in Seq(Cells) BY DEF ChannelInv, FrameTypes
<1>4. k \in 0 .. Len(out)
  <2>1. Len(out) \in Nat /\ Len(wire) \in Nat /\ Buffer \in Nat BY <1>3, LenProperties, HelpersAssumption
  <2> DEFINE a == Len(out)
             b == Buffer - Len(wire)
             c == IF a <= b THEN a ELSE b
  <2>2. a \in Nat /\ b \in Int BY <2>1
  <2>3. k \in 1 .. Channel!Min({a, b}) OBVIOUS
  <2> HIDE DEF a, b
  <2>4. c \in {a, b} /\ \A y \in {a, b} : c <= y BY <2>2
  <2> HIDE DEF c
  <2>5. PICK x \in {a, b} : x = Channel!Min({a, b}) /\ \A y \in {a, b} : x <= y
        BY <2>4, Zenon DEF Channel!Min
  <2>6. k \in 1 .. x /\ x <= a /\ x \in Int BY <2>2, <2>3, <2>5
  <2>7. k \in 0 .. a BY <2>2, <2>6
  <2> QED BY <2>7 DEF a
<1>5. PICK a : a = SubSeq(out, 1, k) OBVIOUS
<1>6. PICK b : b = SubSeq(out, k + 1, Len(out)) OBVIOUS
<1>7. wire' = wire \o a /\ out' = b BY <1>1, <1>5, <1>6
<1>8. a \in Seq(Cells) /\ b \in Seq(Cells) /\ Len(a) = k /\ Len(b) = Len(out) - k
  <2> DEFINE f == [i \in Nat |-> out[i]]
  <2>1. On(f, 0, out)
    <3> SUFFICES ASSUME NEW i \in 1 .. Len(out) PROVE out[i] = f[0 + i] BY DEF On
    <3>1. 0 + i = i /\ i \in Nat OBVIOUS
    <3> QED BY <3>1
  <2> HIDE DEF f
  <2> QED BY <1>3, <1>4, <1>5, <1>6, <2>1, OnSplit
<1>9. wire' \in Seq(Cells) /\ Len(wire') = Len(wire) + k BY <1>3, <1>7, <1>8, ConcatProperties
<1>10. FrameTypes' BY <1>2, <1>7, <1>8, <1>9 DEF ChannelInv, FrameTypes
<1>11. WorkerInv' BY <1>2 DEF ChannelInv, WorkerInv
<1>12. Printed' BY <1>2 DEF ChannelInv, Printed
<1>13. Answered' BY <1>2 DEF ChannelInv, Answered
<1>14. Sent' = Sent BY <1>2 DEF Sent
<1>15. ASSUME NEW g, NEW n, Carried(g, n) PROVE Carried(g, n)'
  <2>1. Len(in) \in Nat /\ Len(wire) \in Nat /\ Len(out) \in Nat BY <1>3, LenProperties
  <2>2. n \in Nat /\ n + Len(in) + Len(wire) + Len(out) = g.last BY <1>15 DEF Carried
  <2>3. n + Len(in) + Len(wire') + Len(out') = g.last BY <1>4, <1>7, <1>8, <1>9, <2>1, <2>2
  <2>4. PICK q \in Nat : q = n + Len(in) BY <2>1, <2>2
  <2>5. On(g.cell, q, wire) /\ On(g.cell, q + Len(wire), out) BY <1>15, <2>4 DEF Carried
  <2>6. q + Len(wire) \in Nat BY <2>1
  <2>7. On(g.cell, q + Len(wire), a) /\ On(g.cell, q + Len(wire) + k, b)
        BY <1>3, <1>4, <1>5, <1>6, <2>5, <2>6, OnSplit
  <2>8. On(g.cell, q, wire') BY <1>3, <1>7, <1>8, <2>5, <2>7, OnConcat
  <2>9. q + Len(wire) + k = q + Len(wire') BY <1>4, <1>9, <2>1
  <2>10. On(g.cell, n + Len(in), wire') /\ On(g.cell, n + Len(in) + Len(wire'), out')
         BY <1>7, <2>4, <2>7, <2>8, <2>9
  <2> QED BY <1>2, <1>14, <1>15, <2>3, <2>10 DEF Carried
<1>16. Flows' BY <1>2, <1>15 DEF ChannelInv, Flows
<1> QED BY <1>10, <1>11, <1>12, <1>13, <1>16 DEF ChannelInv

LEMMA WriteFailsKeeps ==
    ASSUME ChannelInv, Channel!WriteFails
    PROVE  ChannelInv'
<1>1. /\ out' = <<>> /\ connected' = FALSE /\ broken' = TRUE
      /\ UNCHANGED <<said, next, offset, closed, wire, in, printed, reply>>
      BY DEF Channel!WriteFails, Channel!client
<1>2. out' \in Seq(Cells) /\ Len(out') = 0 BY <1>1, EmptySeq
<1>3. FrameTypes' BY <1>1, <1>2 DEF ChannelInv, FrameTypes
<1>4. WorkerInv' BY <1>1 DEF ChannelInv, WorkerInv
<1>5. Printed' BY <1>1 DEF ChannelInv, Printed
<1>6. Answered' BY <1>1 DEF ChannelInv, Answered
<1>7. ASSUME NEW g, NEW n, Carried(g, n)
      PROVE  Carried(CutAt(g, n + Len(in) + Len(wire)), n)'
  <2>1. in \in Seq(Cells) /\ wire \in Seq(Cells) /\ out \in Seq(Cells) BY DEF ChannelInv, FrameTypes
  <2>2. Len(in) \in Nat /\ Len(wire) \in Nat /\ Len(out) \in Nat BY <2>1, LenProperties
  <2>3. n \in Nat /\ n + Len(in) + Len(wire) + Len(out) = g.last BY <1>7 DEF Carried
  <2>4. PICK q : q = n + Len(in) + Len(wire) OBVIOUS
  <2>5. q \in Nat /\ q <= g.last /\ n + 1 \in 1 .. q + 1 BY <2>2, <2>3, <2>4
  <2>6. PICK s : s = said OBVIOUS
  <2>7. Stream(s, CutAt(g, q)) BY <1>7, <2>5, <2>6, StreamIsCut DEF Carried
  <2> DEFINE c == CutAt(g, q)
  <2>8. /\ c.cell = g.cell /\ c.last = q /\ c.heads = g.heads \cap 1 .. q + 1
        /\ c.length = g.length /\ c.at = g.at
        BY DEF CutAt
  <2> HIDE DEF c
  <2>9. n + Len(in') + Len(wire') + Len(out') = c.last BY <1>1, <1>2, <2>2, <2>3, <2>4, <2>8
  <2>10. On(c.cell, n + Len(in') + Len(wire'), out') BY <1>2 DEF On
  <2>11. n + 1 \in c.heads /\ c.at[n + 1] = Len(printed) BY <1>7, <2>5, <2>8 DEF Carried
  <2>12. Stream(said', c) BY <1>1, <2>6, <2>7 DEF c
  <2>13. /\ On(c.cell, n, in') /\ On(c.cell, n + Len(in'), wire')
         /\ Len(in') >= 1 => Len(in') <= 2 + c.length[n + 1]
         BY <1>1, <1>7, <2>8 DEF Carried
  <2>14. Carried(c, n)' BY <1>1, <2>3, <2>9, <2>10, <2>11, <2>12, <2>13 DEF Carried
  <2>15. n + Len(in') + Len(wire') = q BY <1>1, <2>4
  <2> QED BY <2>14, <2>15 DEF c
<1>8. Flows' BY <1>1, <1>7 DEF ChannelInv, Flows
<1> QED BY <1>3, <1>4, <1>5, <1>6, <1>8 DEF ChannelInv

LEMMA CloseKeeps ==
    ASSUME ChannelInv, Channel!Close
    PROVE  ChannelInv'
<1>1. /\ out = <<>> /\ closed' = TRUE /\ (next > Len(said) \/ ~connected)
      /\ UNCHANGED <<said, next, offset, out, connected, broken, wire, in, printed, reply>>
      BY DEF Channel!Close, Channel!client
<1>2. FrameTypes' BY <1>1 DEF ChannelInv, FrameTypes
<1>3. WorkerInv' BY <1>1 DEF ChannelInv, WorkerInv
<1>4. Sent' = Sent BY <1>1 DEF Sent
<1>5. Printed' /\ Answered' BY <1>1 DEF ChannelInv, Printed, Answered
<1>6. ASSUME NEW g, NEW n, Carried(g, n) PROVE Carried(g, n)' BY <1>1, <1>4, <1>6 DEF Carried
<1>7. Flows' BY <1>1, <1>6 DEF ChannelInv, Flows
<1> QED BY <1>2, <1>3, <1>5, <1>7 DEF ChannelInv

\* What is read is the head of a frame, and no more than that frame.
LEMMA HeadIs ==
    ASSUME ChannelInv, NEW g, NEW n, Carried(g, n)
    PROVE  /\ Len(in) >= 1 =>
                 /\ n + 1 \in g.heads /\ n + 1 <= g.last /\ FrameAt(said, g, n + 1)
                 /\ g.length[n + 1] \in Nat
                 /\ in[1] = [length |-> g.length[n + 1]] /\ Len(in) <= 2 + g.length[n + 1]
           /\ Len(in) >= 2 => in[2] = [type |-> g.kind[n + 1]]
<1>1. in \in Seq(Cells) /\ wire \in Seq(Cells) /\ out \in Seq(Cells) BY DEF ChannelInv, FrameTypes
<1>2. Len(in) \in Nat /\ Len(wire) \in Nat /\ Len(out) \in Nat BY <1>1, LenProperties
<1>3. n \in Nat /\ n + Len(in) + Len(wire) + Len(out) = g.last /\ n + 1 \in g.heads BY DEF Carried
<1>4. ASSUME Len(in) >= 1
      PROVE  /\ n + 1 <= g.last /\ FrameAt(said, g, n + 1) /\ g.length[n + 1] \in Nat
             /\ in[1] = [length |-> g.length[n + 1]] /\ Len(in) <= 2 + g.length[n + 1]
  <2>1. n + 1 <= g.last BY <1>2, <1>3, <1>4
  <2>2. FrameAt(said, g, n + 1) BY <1>3, <2>1 DEF Carried, Stream
  <2>3. g.length[n + 1] \in Nat BY <2>2, HelpersAssumption DEF FrameAt
  <2>4. 1 \in 1 .. Len(in) BY <1>2, <1>4
  <2>5. in[1] = g.cell[n + 1] BY <2>4 DEF Carried, On
  <2>6. Len(in) <= 2 + g.length[n + 1] BY <1>4 DEF Carried
  <2> QED BY <2>1, <2>2, <2>3, <2>5, <2>6 DEF FrameAt
<1>5. ASSUME Len(in) >= 2 PROVE in[2] = [type |-> g.kind[n + 1]]
  <2>1. Len(in) >= 1 /\ 2 \in 1 .. Len(in) /\ n + 2 = n + 1 + 1 /\ n + 1 + 1 <= g.last BY <1>2, <1>3, <1>5
  <2>2. in[2] = g.cell[n + 2] BY <2>1 DEF Carried, On
  <2> QED BY <1>4, <2>1, <2>2 DEF FrameAt
<1> QED BY <1>3, <1>4, <1>5

LEMMA ReadKeeps ==
    ASSUME ChannelInv, Channel!Read
    PROVE  ChannelInv'
<1>1. PICK k \in 1 .. Channel!Min({Len(wire), Channel!Wanted - Len(in)}) :
         in' = in \o SubSeq(wire, 1, k) /\ wire' = SubSeq(wire, k + 1, Len(wire))
      BY DEF Channel!Read
<1>2. /\ reply = Channel!Nothing /\ ~Channel!Complete
      /\ reply' = (IF Channel!WellFormed(in') THEN reply ELSE Channel!Failed("invalid"))
      /\ UNCHANGED <<said, next, offset, out, connected, broken, closed, printed>>
      BY DEF Channel!Read, Channel!worker
<1>3. wire \in Seq(Cells) /\ out \in Seq(Cells) /\ in \in Seq(Cells) BY DEF ChannelInv, FrameTypes
<1>4. Len(in) \in Nat /\ Len(wire) \in Nat /\ Len(out) \in Nat BY <1>3, LenProperties
<1>5. PICK g, n : Carried(g, n) BY <1>2 DEF ChannelInv, Flows
<1>6. /\ Len(in) >= 1 =>
            /\ n + 1 \in g.heads /\ n + 1 <= g.last /\ FrameAt(said, g, n + 1)
            /\ g.length[n + 1] \in Nat
            /\ in[1] = [length |-> g.length[n + 1]] /\ Len(in) <= 2 + g.length[n + 1]
      /\ Len(in) >= 2 => in[2] = [type |-> g.kind[n + 1]]
      BY <1>5, HeadIs
<1>7. PICK w : w = Channel!Wanted OBVIOUS
<1>8. w \in Nat /\ (Len(in) < 2 => w = Len(in) + 1) /\ (Len(in) >= 2 => w = 2 + g.length[n + 1])
  <2>1. CASE Len(in) < 2 BY <1>4, <1>7, <2>1 DEF Channel!Wanted
  <2>2. CASE Len(in) >= 2
    <3>1. Len(in) >= 1 /\ ~(Len(in) < 2) BY <1>4, <2>2
    <3>2. w = 2 + in[1].length BY <1>7, <3>1 DEF Channel!Wanted
    <3>3. in[1].length = g.length[n + 1] /\ g.length[n + 1] \in Nat BY <1>6, <3>1
    <3> QED BY <3>1, <3>2, <3>3
  <2> QED BY <1>4, <2>1, <2>2
<1>9. k \in 1 .. Len(wire) /\ Len(in) + k <= w
  <2> DEFINE a == Len(wire)
             b == w - Len(in)
             c == IF a <= b THEN a ELSE b
  <2>1. a \in Int /\ b \in Int BY <1>4, <1>8
  <2>2. k \in 1 .. Channel!Min({a, b}) BY <1>7
  <2> HIDE DEF a, b
  <2>3. c \in {a, b} /\ \A y \in {a, b} : c <= y BY <2>1
  <2> HIDE DEF c
  <2>4. PICK x \in {a, b} : x = Channel!Min({a, b}) /\ \A y \in {a, b} : x <= y
        BY <2>3, Zenon DEF Channel!Min
  <2>5. k \in 1 .. x /\ x <= a /\ x <= b /\ x \in Int BY <2>1, <2>2, <2>4
  <2>6. k \in 1 .. a /\ k <= b BY <2>1, <2>5
  <2> QED BY <1>4, <1>8, <2>6 DEF a, b
<1>10. PICK a : a = SubSeq(wire, 1, k) OBVIOUS
<1>11. PICK b : b = SubSeq(wire, k + 1, Len(wire)) OBVIOUS
<1>12. in' = in \o a /\ wire' = b BY <1>1, <1>10, <1>11
<1>13. n \in Nat /\ n + Len(in) + Len(wire) + Len(out) = g.last BY <1>5 DEF Carried
<1>14. k \in 0 .. Len(wire) BY <1>4, <1>9
<1>15. PICK q \in Nat : q = n + Len(in) BY <1>4, <1>13
<1>16. On(g.cell, n, in) /\ On(g.cell, q, wire) /\ On(g.cell, q + Len(wire), out)
       BY <1>5, <1>15 DEF Carried
<1>17. /\ a \in Seq(Cells) /\ b \in Seq(Cells) /\ Len(a) = k /\ Len(b) = Len(wire) - k
       /\ On(g.cell, q, a) /\ On(g.cell, q + k, b)
       BY <1>3, <1>10, <1>11, <1>14, <1>16, OnSplit
<1>18. On(g.cell, n, in') /\ in' \in Seq(Cells) /\ Len(in') = Len(in) + k
  <2>1. q = n + Len(in) /\ n \in Nat BY <1>13, <1>15
  <2>2. PICK c : c = in OBVIOUS
  <2>3. PICK f : f = g.cell OBVIOUS
  <2>4. /\ c \in Seq(Cells) /\ a \in Seq(Cells) /\ n \in Nat
        /\ On(f, n, c) /\ On(f, n + Len(c), a)
        BY <1>3, <1>16, <1>17, <2>1, <2>2, <2>3
  <2>5. On(f, n, c \o a) /\ c \o a \in Seq(Cells) /\ Len(c \o a) = Len(c) + Len(a)
        BY <2>4, OnConcat
  <2> QED BY <1>12, <1>17, <2>2, <2>3, <2>5
<1>19. wire' \in Seq(Cells) /\ Len(wire') = Len(wire) - k BY <1>12, <1>17
<1>20. /\ q + k = n + Len(in') /\ n + Len(in') + Len(wire') = q + Len(wire)
       /\ n + Len(in') + Len(wire') + Len(out) = g.last
       BY <1>4, <1>9, <1>13, <1>15, <1>18, <1>19
<1>21. Len(in') <= 2 + g.length[n + 1] /\ n + 1 <= g.last /\ FrameAt(said, g, n + 1)
  <2>1. n + 1 <= g.last BY <1>4, <1>9, <1>13
  <2>2. FrameAt(said, g, n + 1) BY <1>5, <2>1 DEF Carried, Stream
  <2>3. g.length[n + 1] \in Nat BY <2>2, HelpersAssumption DEF FrameAt
  <2> QED BY <1>4, <1>8, <1>9, <1>18, <2>1, <2>2, <2>3
<1>22. in'[1] = [length |-> g.length[n + 1]] /\ (Len(in') > 1 => in'[2] = [type |-> g.kind[n + 1]])
  <2>1. 1 \in 1 .. Len(in') BY <1>4, <1>9, <1>18
  <2>2. in'[1] = g.cell[n + 1] BY <1>18, <2>1 DEF On
  <2>3. ASSUME Len(in') > 1 PROVE in'[2] = [type |-> g.kind[n + 1]]
    <3>1. 2 \in 1 .. Len(in') /\ n + 2 = n + 1 + 1 /\ n + 1 + 1 <= g.last
          BY <1>4, <1>9, <1>13, <1>18, <2>3
    <3>2. in'[2] = g.cell[n + 2] BY <1>18, <3>1 DEF On
    <3> QED BY <1>21, <3>1, <3>2 DEF FrameAt
  <2> QED BY <1>21, <2>2, <2>3 DEF FrameAt
<1>23. Channel!WellFormed(in')
  <2>1. "length" \in DOMAIN in'[1] BY <1>22
  <2>2. Len(in') > 1 => "type" \in DOMAIN in'[2] BY <1>22
  <2> QED BY <2>1, <2>2 DEF Channel!WellFormed
<1>24. reply' = reply BY <1>2, <1>23
<1>25. FrameTypes' BY <1>2, <1>18, <1>19 DEF ChannelInv, FrameTypes
<1>26. WorkerInv' BY <1>2 DEF ChannelInv, WorkerInv
<1>27. Printed' /\ Answered' BY <1>2, <1>24 DEF ChannelInv, Printed, Answered
<1>28. Sent' = Sent BY <1>2 DEF Sent
<1>29. Carried(g, n)'
  <2>1. On(g.cell, n + Len(in'), wire') /\ On(g.cell, n + Len(in') + Len(wire'), out)
        BY <1>12, <1>16, <1>17, <1>20
  <2> QED BY <1>2, <1>5, <1>18, <1>20, <1>21, <1>28, <2>1 DEF Carried
<1>30. Flows' BY <1>29 DEF Flows
<1> QED BY <1>25, <1>26, <1>27, <1>30 DEF ChannelInv

LEMMA AcceptKeeps ==
    ASSUME ChannelInv, Channel!Accept
    PROVE  ChannelInv'
<1>0. PICK p : p = SubSeq(in, 3, Len(in)) OBVIOUS
<1>1. /\ reply = Channel!Nothing /\ Channel!Complete
      /\ IF in[2].type = "Log" THEN in' = <<>> /\ printed' = printed \o p /\ UNCHANGED reply
         ELSE reply' = [type |-> in[2].type, payload |-> p] /\ UNCHANGED <<in, printed>>
      /\ UNCHANGED <<said, next, offset, out, connected, broken, closed, wire>>
      BY <1>0 DEF Channel!Accept, Channel!worker
<1>2. PICK g, n : Carried(g, n) BY <1>1 DEF ChannelInv, Flows
<1>3. /\ in \in Seq(Cells) /\ wire \in Seq(Cells) /\ out \in Seq(Cells) /\ printed \in Seq(Labels)
      /\ Messages(said)
      BY DEF ChannelInv, FrameTypes
<1>4. Len(in) \in Nat /\ Len(wire) \in Nat /\ Len(out) \in Nat BY <1>3, LenProperties
<1>5. n \in Nat /\ n + Len(in) + Len(wire) + Len(out) = g.last BY <1>2 DEF Carried
<1>6. PICK l, t, h : l = g.length[n + 1] /\ t = g.kind[n + 1] /\ h = n + 1 OBVIOUS
<1>7. Len(in) >= 2 /\ Len(in) >= 1 BY <1>1, <1>4 DEF Channel!Complete
<1>8. /\ h \in g.heads /\ h <= g.last /\ FrameAt(said, g, h)
      /\ l \in Nat /\ in[1] = [length |-> l] /\ in[2] = [type |-> t]
      BY <1>2, <1>6, <1>7, HeadIs
<1>9. Len(in) = 2 + l BY <1>1, <1>8 DEF Channel!Complete
<1>10. in[2].type = t BY <1>8
<1>20. /\ n \in Nat /\ l \in Nat /\ h = n + 1 /\ Len(in) = 2 + l
       /\ Len(wire) \in Nat /\ Len(out) \in Nat /\ g.last = n + (2 + l) + Len(wire) + Len(out)
  <2>1. l \in Nat BY <1>8
  <2>2. h = n + 1 BY <1>6
  <2> QED BY <1>4, <1>5, <1>9, <2>1, <2>2
<1>11. Len(p) = l /\ \A i \in 1 .. l : p[i] = g.cell[h + 1 + i]
  <2>1. \A i \in 3 .. 2 + l : in[i] \in Cells
    <3> TAKE i \in 3 .. 2 + l
    <3>1. i \in 1 .. Len(in) BY <1>8, <1>9
    <3> QED BY <1>3, <3>1, ElementOfSeq
  <2> DEFINE e == 2 + l
  <2>2. 3 \in Int /\ e \in Int BY <1>8
  <2>3. p = SubSeq(in, 3, e) BY <1>0, <1>9
  <2>4. Len(p) = (IF 3 <= e THEN e - 3 + 1 ELSE 0) /\ \A i \in 1 .. e - 3 + 1 : p[i] = in[3 + i - 1]
    <3>1. \A i \in 3 .. e : in[i] \in Cells BY <2>1
    <3> HIDE DEF e
    <3> QED BY <2>2, <2>3, <3>1, SubSeqProperties
  <2>5. Len(p) = l BY <1>8, <2>4
  <2>6. ASSUME NEW i \in 1 .. l PROVE p[i] = g.cell[h + 1 + i]
    <3>1. i \in 1 .. e - 3 + 1 /\ 3 + i - 1 = 2 + i /\ 2 + i \in 1 .. Len(in) /\ n + (2 + i) = h + 1 + i
          BY <1>20
    <3>2. in[2 + i] = g.cell[n + (2 + i)] BY <1>2, <3>1 DEF Carried, On
    <3>3. p[i] = in[2 + i] BY <2>4, <3>1
    <3> QED BY <3>1, <3>2, <3>3
  <2> QED BY <2>5, <2>6
<1>12. \A i \in 1 .. l : h + 1 + i <= g.last
  <2> TAKE i \in 1 .. l
  <2> QED BY <1>20
<1>13. g.at[h] = Len(printed) /\ g.length[h] = l /\ g.kind[h] = t /\ Len(printed) \in Nat
       BY <1>2, <1>3, <1>6, LenProperties DEF Carried
<1>14. Len(Log(said)) \in Nat /\ Log(said) \in Seq(Labels) BY <1>3, LogIs, LenProperties
<1>15. WorkerInv' BY <1>1 DEF ChannelInv, WorkerInv
<1>16. CASE t = "Log"
  <2>1. in' = <<>> /\ printed' = printed \o p /\ reply' = reply BY <1>1, <1>10, <1>16
  <2>2. Len(printed) + l <= Len(Log(said)) /\ \A i \in 1 .. l : p[i] = Log(said)[Len(printed) + i]
        BY <1>8, <1>11, <1>12, <1>13, <1>16 DEF FrameAt
  <2>3. p \in Seq(Labels)
    <3>1. \A i \in 3 .. Len(in) : in[i] \in Cells BY <1>3, <1>4, ElementOfSeq
    <3>2. p \in Seq(Cells)
      <4>1. 3 \in Int /\ Len(in) \in Int BY <1>4
      <4> QED BY <1>0, <3>1, <4>1, SubSeqProperties
    <3>3. \A i \in 1 .. l : p[i] \in Labels
      <4> TAKE i \in 1 .. l
      <4>1. Len(printed) + i \in 1 .. Len(Log(said)) BY <1>8, <1>13, <1>14, <2>2
      <4> QED BY <1>14, <2>2, <4>1, ElementOfSeq
    <3>4. p \in [1 .. l -> Cells] BY <1>11, <3>2, LenProperties
    <3>5. p \in [1 .. l -> Labels] BY <3>3, <3>4
    <3> QED BY <1>8, <3>5
  <2>4. /\ printed' \in Seq(Labels) /\ Len(printed') = Len(printed) + l
        /\ \A i \in 1 .. Len(printed) + l :
              printed'[i] = IF i <= Len(printed) THEN printed[i] ELSE p[i - Len(printed)]
        BY <1>3, <1>11, <2>1, <2>3, ConcatProperties
  <2>5. Printed'
    <3>1. ASSUME NEW i \in 1 .. Len(printed) + l PROVE printed'[i] = Log(said)[i]
      <4>1. CASE i <= Len(printed)
        <5>1. i \in 1 .. Len(printed) BY <1>13, <4>1
        <5> QED BY <2>4, <4>1, <5>1 DEF ChannelInv, Printed
      <4>2. CASE ~(i <= Len(printed))
        <5>1. i - Len(printed) \in 1 .. l /\ Len(printed) + (i - Len(printed)) = i BY <1>8, <1>13, <4>2
        <5>2. p[i - Len(printed)] = Log(said)[Len(printed) + (i - Len(printed))] BY <2>2, <5>1
        <5> QED BY <2>4, <4>2, <5>1, <5>2
      <4> QED BY <4>1, <4>2
    <3> QED BY <1>1, <2>2, <2>4, <3>1 DEF Printed
  <2>6. <<>> \in Seq(Cells) /\ Len(<<>>) = 0 BY EmptySeq
  <2>7. FrameTypes' BY <1>1, <2>1, <2>4, <2>6 DEF ChannelInv, FrameTypes
  <2>8. Answered' BY <1>1, <2>1 DEF ChannelInv, Answered, Channel!Nothing
  <2>9. PICK q : q = n + 2 + l OBVIOUS
  <2>10. /\ q \in Nat /\ q = n + Len(in) /\ q + 1 = h + 2 + l /\ h + 1 + l <= g.last
         /\ q + 0 + Len(wire) + Len(out) = g.last /\ q + 0 = q
         BY <1>20, <2>9
  <2>11. q + 1 \in g.heads /\ g.at[q + 1] = Len(printed')
    <3>1. h + 2 + l \in g.heads /\ g.at[h + 2 + l] = After(said, g, h)
          BY <1>2, <1>8, <1>13, <2>10 DEF Carried, Stream
    <3>2. After(said, g, h) = Len(printed) + l BY <1>13, <1>16 DEF After
    <3> QED BY <2>4, <2>10, <3>1, <3>2
  <2>12. Sent' = Sent BY <1>1 DEF Sent
  <2>13. On(g.cell, q, <<>>) BY <2>6 DEF On
  <2>14. On(g.cell, q, wire) /\ On(g.cell, q + Len(wire), out) BY <1>2, <2>10 DEF Carried
  <2>15. Carried(g, q)'
    <3>1. in' = <<>> /\ Len(in') = 0 BY <2>1, <2>6
    <3>2. Stream(said, g) /\ (~broken => Whole(g) /\ g.at[g.last + 1] = Sent) BY <1>2 DEF Carried
    <3>3. q + Len(in') = q /\ q + Len(in') + Len(wire) + Len(out) = g.last /\ ~(Len(in') >= 1)
          BY <2>10, <3>1
    <3> QED BY <1>1, <2>10, <2>11, <2>12, <2>13, <2>14, <3>1, <3>2, <3>3 DEF Carried
  <2>16. Flows' BY <2>15 DEF Flows
  <2> QED BY <1>15, <2>5, <2>7, <2>8, <2>16 DEF ChannelInv
<1>17. CASE t # "Log"
  <2>1. reply' = [type |-> t, payload |-> p] /\ in' = in /\ printed' = printed BY <1>1, <1>10, <1>17
  <2>2. PICK s : s = said OBVIOUS
  <2>3. Messages(s) /\ FrameAt(s, g, h) BY <1>3, <1>8, <2>2
  <2>4. /\ Len(printed) = Len(Log(s)) /\ t = s[Len(s)].type /\ l = Answer(s)
        /\ \A i \in 1 .. l : p[i] = [message |-> Len(s), unit |-> i]
        BY <1>11, <1>12, <1>13, <1>17, <2>3 DEF FrameAt
  <2>5. p = Channel!Text(Len(s), 0, l)
    <3>1. Len(s) \in Nat BY <2>3 DEF Messages
    <3>2. /\ Channel!Text(Len(s), 0, l) \in Seq(Labels) /\ Len(Channel!Text(Len(s), 0, l)) = l - 0
          /\ \A i \in 1 .. l - 0 : Channel!Text(Len(s), 0, l)[i] = [message |-> Len(s), unit |-> 0 + i]
      <4>1. 0 \in Nat /\ 0 <= l BY <1>8
      <4> QED BY <1>8, <3>1, <4>1, TextIs
    <3>3. l - 0 = l /\ \A i \in 1 .. l : 0 + i = i BY <1>8
    <3>4. p \in Seq(Cells)
      <4>1. \A i \in 3 .. Len(in) : in[i] \in Cells BY <1>3, <1>4, ElementOfSeq
      <4>2. 3 \in Int /\ Len(in) \in Int BY <1>4
      <4> QED BY <1>0, <4>1, <4>2, SubSeqProperties
    <3> DEFINE x == Channel!Text(Len(s), 0, l)
    <3> HIDE DEF x
    <3>5. x \in Seq(Labels) /\ Len(x) = l /\ \A i \in 1 .. l : x[i] = p[i]
      <4>1. /\ x \in Seq(Labels) /\ Len(x) = l - 0
            /\ \A i \in 1 .. l - 0 : x[i] = [message |-> Len(s), unit |-> 0 + i]
            BY <3>2 DEF x
      <4> QED BY <2>4, <3>3, <4>1
    <3>6. p \in [1 .. l -> Cells] /\ x \in [1 .. l -> Labels] BY <1>11, <3>4, <3>5, LenProperties
    <3>7. p = x BY <3>5, <3>6
    <3> QED BY <3>7 DEF x
  <2>6. t \in {"Result", "Error"} BY <2>3, <2>4 DEF Messages
  <2>7. Answered' BY <1>1, <2>1, <2>2, <2>4, <2>5, <2>6 DEF Answered
  <2>8. FrameTypes' /\ Printed' BY <1>1, <2>1 DEF ChannelInv, FrameTypes, Printed
  <2>9. Flows' BY <2>1, <2>6 DEF Flows, Channel!Nothing
  <2> QED BY <1>15, <2>7, <2>8, <2>9 DEF ChannelInv
<1> QED BY <1>16, <1>17

LEMMA EndOfStreamKeeps ==
    ASSUME ChannelInv, Channel!EndOfStream
    PROVE  ChannelInv'
<1>1. /\ reply = Channel!Nothing /\ ~Channel!Complete /\ closed /\ wire = <<>>
      /\ reply' = Channel!Failed("closed")
      /\ UNCHANGED <<said, next, offset, out, connected, broken, closed, wire, in, printed>>
      BY DEF Channel!EndOfStream, Channel!worker
<1>2. PICK g, n : Carried(g, n) BY <1>1 DEF ChannelInv, Flows
<1>3. broken
  <2> SUFFICES ASSUME ~broken PROVE FALSE BY DEF ChannelInv, FrameTypes
  <2>1. /\ in \in Seq(Cells) /\ wire \in Seq(Cells) /\ out \in Seq(Cells) /\ printed \in Seq(Labels)
        /\ Messages(said)
        BY DEF ChannelInv, FrameTypes
  <2>2. Len(in) \in Nat /\ Len(wire) = 0 /\ Len(out) = 0
    <3>1. out = <<>> BY <1>1 DEF ChannelInv, WorkerInv
    <3> QED BY <1>1, <2>1, <3>1, EmptySeq, LenProperties
  <2>3. n \in Nat /\ n + Len(in) = g.last /\ n + 1 \in g.heads /\ g.at[n + 1] = Len(printed)
        BY <1>2, <2>2 DEF Carried
  <2>4. Whole(g) /\ g.at[g.last + 1] = Sent BY <1>2 DEF Carried
  <2>5. CASE Len(in) = 0
    <3>1. n + 1 = g.last + 1 BY <2>2, <2>3, <2>5
    <3>2. Sent = Len(Log(said)) + 1 BY <1>1 DEF ChannelInv, WorkerInv, Sent
    <3>3. Len(printed) <= Len(Log(said)) BY DEF ChannelInv, Printed
    <3>4. Len(printed) \in Nat /\ Len(Log(said)) \in Nat BY <2>1, LogIs, LenProperties
    <3>5. Len(printed) = Len(Log(said)) + 1 BY <2>3, <2>4, <3>1, <3>2
    <3> QED BY <3>3, <3>4, <3>5
  <2>6. CASE Len(in) # 0
    <3>1. Len(in) >= 1 BY <2>2, <2>6
    <3>2. /\ n + 1 <= g.last /\ g.length[n + 1] \in Nat
          /\ in[1] = [length |-> g.length[n + 1]] /\ Len(in) <= 2 + g.length[n + 1]
          BY <1>2, <3>1, HeadIs
    <3>3. n + 1 + 1 + g.length[n + 1] <= g.last BY <2>3, <2>4, <3>2 DEF Whole
    <3>4. Len(in) = 2 + g.length[n + 1] /\ Len(in) >= 2 BY <2>2, <2>3, <3>2, <3>3
    <3>5. in[1].length = g.length[n + 1] BY <3>2
    <3>6. Channel!Complete BY <3>4, <3>5 DEF Channel!Complete
    <3> QED BY <1>1, <3>6
  <2> QED BY <2>5, <2>6
<1>4. FrameTypes' /\ Printed' BY <1>1 DEF ChannelInv, FrameTypes, Printed
<1>5. WorkerInv' BY <1>1 DEF ChannelInv, WorkerInv
<1>6. Answered' BY <1>1, <1>3 DEF Answered, Channel!Failed
<1>7. Flows' BY <1>1 DEF Flows, Channel!Failed, Channel!Nothing
<1> QED BY <1>4, <1>5, <1>6, <1>7 DEF ChannelInv

LEMMA InterruptKeeps ==
    ASSUME ChannelInv, Channel!Interrupt
    PROVE  ChannelInv'
<1>1. /\ reply' = Channel!Failed("interrupted")
      /\ UNCHANGED <<said, next, offset, out, connected, broken, closed, wire, in, printed>>
      BY DEF Channel!Interrupt, Channel!worker
<1>2. FrameTypes' /\ Printed' BY <1>1 DEF ChannelInv, FrameTypes, Printed
<1>3. WorkerInv' BY <1>1 DEF ChannelInv, WorkerInv
<1>4. Answered' BY <1>1 DEF Answered, Channel!Failed
<1>5. Flows' BY <1>1 DEF Flows, Channel!Failed, Channel!Nothing
<1> QED BY <1>2, <1>3, <1>4, <1>5 DEF ChannelInv

\* The frames and the two ends of a connection keep the invariant, however writes and reads
\* cut the stream and whoever goes away (ipc.cpp 69-130, daemon_main.cpp 219-253).
THEOREM ChannelCorrect == Channel!Spec => []ChannelInv
<1>1. ChannelInv /\ [Channel!Next]_(Channel!vars) => ChannelInv'
  <2> SUFFICES ASSUME ChannelInv, [Channel!Next]_(Channel!vars) PROVE ChannelInv' OBVIOUS
  <2>1. CASE UNCHANGED Channel!vars
    <3>1. UNCHANGED <<said, next, offset, out, connected, broken, closed, wire, in, printed, reply>>
          BY <2>1 DEF Channel!vars, Channel!worker, Channel!client
    <3>2. FrameTypes' /\ WorkerInv' BY <3>1 DEF ChannelInv, FrameTypes, WorkerInv
    <3>3. Sent' = Sent BY <3>1 DEF Sent
    <3> QED BY <3>1, <3>2, <3>3, ChannelRests
  <2>2. CASE Channel!SendLog BY <2>2, SendLogKeeps
  <2>3. CASE Channel!SendOutcome BY <2>3, SendOutcomeKeeps
  <2>4. CASE Channel!Write BY <2>4, WriteKeeps
  <2>5. CASE Channel!WriteFails BY <2>5, WriteFailsKeeps
  <2>6. CASE Channel!Close BY <2>6, CloseKeeps
  <2>7. CASE Channel!Read BY <2>7, ReadKeeps
  <2>8. CASE Channel!Accept BY <2>8, AcceptKeeps
  <2>9. CASE Channel!EndOfStream BY <2>9, EndOfStreamKeeps
  <2>10. CASE Channel!Interrupt BY <2>10, InterruptKeeps
  <2>11. CASE Channel!Ended BY <2>1, <2>11 DEF Channel!Ended
  <2> QED BY <2>1, <2>2, <2>3, <2>4, <2>5, <2>6, <2>7, <2>8, <2>9, <2>10, <2>11
      DEF Channel!Next, Channel!Worker, Channel!Client
<1> QED BY <1>1, ChannelStarts, PTL DEF Channel!Spec

\* What is printed is what was logged, the answer is the one that was given, and it is lost only
\* when a write to the client has failed (ipc.cpp 69-130, daemon_main.cpp 219-253).
THEOREM FramesAreIntact == Channel!Spec => []FramesIntact
<1>1. ChannelInv => FramesIntact
  <2> SUFFICES ASSUME ChannelInv PROVE FramesIntact OBVIOUS
  <2>1. PICK s : s = said OBVIOUS
  <2>2. Messages(s) /\ printed \in Seq(Labels) BY <2>1 DEF ChannelInv, FrameTypes
  <2>3. Channel!LogText = Log(s) BY <2>1 DEF Channel!LogText, Log, Parts
  <2>4. /\ Log(s) \in Seq(Labels) /\ Len(Log(s)) \in Nat /\ Len(printed) \in Nat
        /\ \A i \in 1 .. Len(Log(s)) : Log(s)[i] \in Labels
        /\ \A i \in 1 .. Len(printed) : printed[i] \in Labels
        BY <2>2, LogIs, LenProperties, ElementOfSeq
  <2>5. Len(printed) <= Len(Log(s)) /\ \A i \in 1 .. Len(printed) : printed[i] = Log(s)[i]
        BY <2>1 DEF ChannelInv, Printed
  <2>6. SubSeq(printed, 1, Len(printed)) = SubSeq(Log(s), 1, Len(printed))
    <3> DEFINE l == Len(printed)
    <3>1. l \in Nat /\ 1 \in Int /\ l \in Int BY <2>4
    <3>2. \A i \in 1 .. l : printed[i] \in Labels /\ Log(s)[i] \in Labels BY <2>4, <2>5
    <3> HIDE DEF l
    <3>3. PICK a : a = SubSeq(printed, 1, l) OBVIOUS
    <3>4. PICK b : b = SubSeq(Log(s), 1, l) OBVIOUS
    <3>5. /\ a \in Seq(Labels) /\ Len(a) = (IF 1 <= l THEN l - 1 + 1 ELSE 0)
          /\ \A i \in 1 .. l - 1 + 1 : a[i] = printed[1 + i - 1]
          BY <3>1, <3>2, <3>3, SubSeqProperties
    <3>6. /\ b \in Seq(Labels) /\ Len(b) = (IF 1 <= l THEN l - 1 + 1 ELSE 0)
          /\ \A i \in 1 .. l - 1 + 1 : b[i] = Log(s)[1 + i - 1]
          BY <3>1, <3>2, <3>4, SubSeqProperties
    <3>7. l - 1 + 1 = l /\ \A i \in 1 .. l : 1 + i - 1 = i BY <3>1
    <3>8. \A i \in 1 .. l : printed[i] = Log(s)[i] BY <2>5 DEF l
    <3>9. Len(a) = Len(b) /\ Len(a) = l BY <3>1, <3>5, <3>6
    <3>10. \A i \in 1 .. l : a[i] = b[i] BY <3>5, <3>6, <3>7, <3>8
    <3>11. a = b
      <4>1. a \in [1 .. l -> Labels] /\ b \in [1 .. l -> Labels] BY <3>5, <3>6, <3>9, LenProperties
      <4>2. a = [i \in 1 .. l |-> a[i]] /\ b = [i \in 1 .. l |-> b[i]] BY <4>1
      <4>3. [i \in 1 .. l |-> a[i]] = [i \in 1 .. l |-> b[i]] BY <3>10
      <4> QED BY <4>2, <4>3
    <3> QED BY <3>3, <3>4, <3>11 DEF l
  <2>7. Channel!IsPrefix(printed, Channel!LogText) BY <2>3, <2>5, <2>6 DEF Channel!IsPrefix
  <2>8. ASSUME reply.type \in {"Result", "Error"}
        PROVE  /\ printed = Channel!LogText
               /\ reply = [type |-> said[Len(said)].type,
                           payload |-> Channel!Text(Len(said), 0, Channel!Min({said[Len(said)].size, MaxPayload}))]
    <3>1. /\ Len(printed) = Len(Log(s))
          /\ reply = [type |-> s[Len(s)].type, payload |-> Channel!Text(Len(s), 0, Answer(s))]
          BY <2>1, <2>8 DEF ChannelInv, Answered
    <3>2. printed \in [1 .. Len(printed) -> Labels] /\ Log(s) \in [1 .. Len(printed) -> Labels]
          BY <2>2, <2>4, <3>1, LenProperties
    <3>3. printed = Log(s) BY <2>5, <3>2
    <3>4. Answer(s) = Channel!Min({s[Len(s)].size, MaxPayload}) BY <2>2, AnswerIs
    <3> QED BY <2>1, <2>3, <3>1, <3>3, <3>4
  <2>9. reply.type # "invalid" /\ (reply.type = "closed" => broken) BY DEF ChannelInv, Answered
  <2> QED BY <2>7, <2>8, <2>9 DEF FramesIntact, Channel!FramesIntact
<1> QED BY <1>1, ChannelCorrect, PTL

-----------------------------------------------------------------------------
(* Side by side *)

\* Whatever the others do, each helper does what its own module says, so that what is proved of
\* one of them holds of the four.
THEOREM HelpersImplement ==
    HelpersSpec => Spec /\ Channel!Spec /\ Directory!Spec /\ Setting!Spec
<1>1. HelpersInit => Init /\ Channel!Init /\ Directory!Init /\ Setting!Init BY DEF HelpersInit
<1>2. [HelpersNext]_all =>
         [Next]_vars /\ [Channel!Next]_(Channel!vars) /\ [Directory!Next]_(Directory!vars)
         /\ [Setting!Next]_(Setting!vars)
  <2> SUFFICES ASSUME [HelpersNext]_all
               PROVE  /\ [Next]_vars /\ [Channel!Next]_(Channel!vars)
                      /\ [Directory!Next]_(Directory!vars) /\ [Setting!Next]_(Setting!vars)
      OBVIOUS
  <2>1. UNCHANGED capture => UNCHANGED vars BY DEF capture
  <2>2. UNCHANGED channel => UNCHANGED Channel!vars
        BY DEF channel, Channel!vars, Channel!worker, Channel!client
  <2>3. UNCHANGED tree => UNCHANGED Directory!vars BY DEF tree, Directory!vars
  <2>4. UNCHANGED setting => UNCHANGED Setting!vars BY DEF setting, Setting!vars
  <2>5. CASE UNCHANGED all BY <2>1, <2>2, <2>3, <2>4, <2>5 DEF all
  <2>6. CASE CaptureMoves BY <2>2, <2>3, <2>4, <2>6 DEF CaptureMoves, Moves
  <2>7. CASE ChannelMoves BY <2>1, <2>3, <2>4, <2>7 DEF ChannelMoves, Moves
  <2>8. CASE DirectoryMoves BY <2>1, <2>2, <2>4, <2>8 DEF DirectoryMoves, Moves
  <2>9. CASE SettingMoves BY <2>1, <2>2, <2>3, <2>9 DEF SettingMoves, Moves
  <2> QED BY <2>5, <2>6, <2>7, <2>8, <2>9 DEF HelpersNext
<1> QED BY <1>1, <1>2, PTL DEF HelpersSpec, Spec, Channel!Spec, Directory!Spec, Setting!Spec

\* What the run of the helpers checks on its instance, for every value of the constants.
THEOREM HelpersSafe ==
    HelpersSpec =>
        [](OutputComplete /\ ReturnsClean /\ FramesIntact /\ WalkIsSafe /\ SettingTakesEffect)
<1> QED BY HelpersImplement, CaptureComplete, CaptureClean, FramesAreIntact, WalkSafe, SettingIsKept, PTL
=============================================================================
