--------------------------- MODULE Daemon_proofs ---------------------------
(***************************************************************************)
(* Proofs about Daemon, for any set of clients and of direct commands: the *)
(* types, then four independent inductive invariants, of the operation     *)
(* file lock, of the mutex with its advertised name, of the frames on each *)
(* connection, and of the counter main waits for.                          *)
(***************************************************************************)
EXTENDS Daemon, FiniteSetTheorems, TLAPS

Mains == {"loop", "poll", "drain", "asleep", "cleanup", "flock", "off", "exit", "exit dirty"}
Before == {"absent", "queued", "recv", "lock", "refuse", "name"}   \* nothing was written
Inside == {"flock", "waiting", "execute", "unname", "reply"}       \* the logger may write
After  == {"leave", "notify", "gone"}                              \* the connection is closed
Places == Before \cup Inside \cup {"unlock", "close"} \cup After
Frames == [type : {"log", "result", "error", "partial"}, about : Clients \cup {NoClient}]

\* Every variable holds what its C++ counterpart can hold.
TypeOK ==
    /\ main \in Mains
    /\ stop \in BOOLEAN
    /\ active \in Int
    /\ pc \in [Clients -> Places]
    /\ cmd \in [Clients -> Commands]
    /\ connected \in [Clients -> BOOLEAN]
    /\ logs \in [Clients -> 0..MaxLogs]
    /\ outcome \in [Clients -> {"none", "ok", "failed"}]
    /\ wire \in [Clients -> Seq(Frames)]
    /\ mutex \in Clients \cup {NoClient}
    /\ name \in Clients \cup {NoClient}
    /\ flock \in Clients \cup Directs \cup {Main, NoClient}
    /\ record \in {"none", "daemon", "direct"}
    /\ direct \in [Directs -> {"idle", "execute", "done"}]

\* Whoever executes a mutating operation holds the operation file lock.
FlockInv ==
    /\ \A c \in Clients : pc[c] = "execute" /\ cmd[c] \in Mutating => flock = c
    /\ \A d \in Directs : direct[d] = "execute" => flock = d
    /\ main = "off" => flock = Main

\* Between try_lock and the release of the mutex: which worker holds it.
HasMutex(c) ==
    \/ pc[c] \in {"name", "flock", "waiting", "unname"}
    \/ pc[c] = "execute" /\ cmd[c] \in Mutating
\* Where a worker's name may be advertised.
Advertises(c) == HasMutex(c) /\ pc[c] # "name"

MutexInv ==
    /\ \A c \in Clients : HasMutex(c) => mutex = c
    /\ \A c \in Clients : pc[c] \in {"lock", "name", "flock", "waiting"} => cmd[c] \in Mutating
    /\ name # NoClient => Advertises(name)

OnlyLogs(s) == \A i \in 1..Len(s) : s[i].type = "log"
\* Log frames and one more frame of a type in T behind them.
Ends(s, T) == /\ s # <<>> /\ s[Len(s)].type \in T
              /\ \A i \in 1..Len(s) : i < Len(s) => s[i].type = "log"

\* What a connection has seen, by where its worker is.
WireAt(c) ==
    /\ pc[c] \in Before => wire[c] = <<>> /\ connected[c]
    /\ pc[c] \in Inside =>
          IF connected[c] THEN OnlyLogs(wire[c]) ELSE Ends(wire[c], {"partial"})
    /\ pc[c] \in {"unlock", "close"} => Ends(wire[c], Terminal \cup {"partial"})
    /\ pc[c] \in After => wire[c] = <<>>
WireInv == \A c \in Clients : WireAt(c)

\* The workers active_clients counts.
Uncounted == {"absent", "queued", "notify", "gone"}
Workers == {c \in Clients : pc[c] \notin Uncounted}
Leaving == {"cleanup", "flock", "off", "exit", "exit dirty"}

CountInv ==
    /\ IsFiniteSet(Workers) /\ active = Cardinality(Workers)
    /\ main \in Leaving => Workers = {}
    /\ main = "exit" => record # "daemon"

DaemonInv == TypeOK /\ FlockInv /\ MutexInv /\ WireInv /\ CountInv

-----------------------------------------------------------------------------
(* Types *)

\* A frame that is sent, whole or cut short, is a frame behind the others.
LEMMA SendTypes ==
    ASSUME TypeOK, NEW c \in Clients, NEW f \in Frames, Send(c, f)
    PROVE  wire' \in [Clients -> Seq(Frames)]
<1>1. Frame("partial", NoClient) \in Frames BY DEF Frame, Frames
<1>2. \E g \in Frames : wire' = [wire EXCEPT ![c] = Append(@, g)]
      BY <1>1 DEF Send, Written, Broken
<1> QED BY <1>2 DEF TypeOK

\* The logger keeps the types.
LEMMA LogTypes ==
    ASSUME TypeOK, NEW c \in Clients, Log(c)
    PROVE  /\ wire' \in [Clients -> Seq(Frames)]
           /\ logs' \in [Clients -> 0..MaxLogs]
           /\ connected' \in [Clients -> BOOLEAN]
           /\ name' \in Clients \cup {NoClient}
<1>1. Frame("log", NoClient) \in Frames BY DEF Frame, Frames
<1>2. Send(c, Frame("log", NoClient)) \/ wire' = wire BY DEF Log, Send
<1>3. wire' \in [Clients -> Seq(Frames)] BY <1>1, <1>2, SendTypes DEF TypeOK
<1>4. logs' \in [Clients -> 0..MaxLogs] BY DaemonAssumption DEF TypeOK, Log
<1>5. connected' \in [Clients -> BOOLEAN] /\ name' \in Clients \cup {NoClient}
      BY DEF TypeOK, Log
<1> QED BY <1>3, <1>4, <1>5

\* What a worker does of its own accord, and the progress of an operation.
LEMMA WorkerTypes ==
    ASSUME TypeOK, NEW c \in Clients, WorkerStep(c) \/ Progress(c)
    PROVE  TypeOK'
<1> USE DEF Goto, Places, Before, Inside, After
<1>1. CASE Receive(c)
  <2>1. Frame("error", NoClient) \in Frames BY DEF Frame, Frames
  <2>2. wire' \in [Clients -> Seq(Frames)] BY <1>1, <2>1, SendTypes DEF Receive, TypeOK
  <2>3. cmd' \in [Clients -> Commands] BY <1>1 DEF Receive, TypeOK
  <2>4. pc' \in [Clients -> Places] BY <1>1 DEF Receive, TypeOK
  <2> QED BY <1>1, <2>2, <2>3, <2>4 DEF Receive, TypeOK
<1>2. CASE TryLock(c) BY <1>2 DEF TryLock, TypeOK
<1>3. CASE Refuse(c)
  <2>1. Frame("error", name) \in Frames BY DEF Frame, Frames, TypeOK
  <2>2. wire' \in [Clients -> Seq(Frames)] BY <1>3, <2>1, SendTypes DEF Refuse
  <2> QED BY <1>3, <2>2 DEF Refuse, TypeOK
<1>4. CASE SetName(c) BY <1>4 DEF SetName, TypeOK
<1>5. CASE TakeFlock(c) BY <1>5 DEF TakeFlock, TypeOK
<1>6. CASE WaitFlock(c) BY <1>6, LogTypes DEF WaitFlock, TypeOK
<1>7. CASE GetFlock(c) BY <1>7 DEF GetFlock, TypeOK
<1>8. CASE Executed(c)
  <2>1. \A e \in Effect(cmd[c], "daemon") : e.record \in {"none", "daemon", "direct"}
        BY DEF Effect, TypeOK
  <2>2. record' \in {"none", "daemon", "direct"} BY <1>8, <2>1 DEF Executed
  <2> QED BY <1>8, <2>2 DEF Executed, TypeOK
<1>9. CASE ClearName(c) BY <1>9 DEF ClearName, TypeOK
<1>10. CASE Reply(c)
  <2>1. Frame("result", NoClient) \in Frames /\ Frame("error", NoClient) \in Frames
        BY DEF Frame, Frames
  <2>2. wire' \in [Clients -> Seq(Frames)] BY <1>10, <2>1, SendTypes DEF Reply, TypeOK
  <2> QED BY <1>10, <2>2 DEF Reply, TypeOK
<1>11. CASE Unlock(c) BY <1>11, DaemonAssumption DEF Unlock, TypeOK, Commands
<1>12. CASE Close(c)
  <2>1. <<>> \in Seq(Frames) OBVIOUS
  <2> QED BY <1>12, <2>1 DEF Close, TypeOK
<1>13. CASE Decrement(c) BY <1>13 DEF Decrement, TypeOK
<1>14. CASE NotifyAll(c) BY <1>14 DEF NotifyAll, TypeOK, Mains
<1>15. CASE Progress(c) BY <1>15, LogTypes DEF Progress, TypeOK
<1> QED BY <1>1, <1>2, <1>3, <1>4, <1>5, <1>6, <1>7, <1>8, <1>9, <1>10, <1>11, <1>12,
           <1>13, <1>14, <1>15 DEF WorkerStep

\* The main thread, the arrival of a client and a signal.
LEMMA MainTypes ==
    ASSUME TypeOK, \/ Signal \/ MainStep
                   \/ \E c \in Clients : Connect(c) \/ Accept(c)
    PROVE  TypeOK'
<1> USE DEF TypeOK, Mains, workerVars
<1>1. CASE Signal BY <1>1 DEF Signal
<1>2. CASE MainStep
      BY <1>2 DEF MainStep, LoopHead, PollEnds, Drain, Cleanup, CleanupLock, CleanupOff
<1>3. ASSUME NEW c \in Clients, Connect(c) PROVE TypeOK'
      BY <1>3 DEF Connect, Goto, Places, Before
<1>4. ASSUME NEW c \in Clients, Accept(c) PROVE TypeOK'
  <2>1. pc' = [pc EXCEPT ![c] = "recv"] \/ pc' = [pc EXCEPT ![c] = "gone"]
        BY <1>4 DEF Accept, Goto
  <2>2. pc' \in [Clients -> Places] BY <2>1 DEF Places, Before, After
  <2> QED BY <1>4, <2>2 DEF Accept
<1> QED BY <1>1, <1>2, <1>3, <1>4

\* A direct command.
LEMMA DirectTypes ==
    ASSUME TypeOK, NEW d \in Directs, DirectLock(d) \/ DirectExecuted(d)
    PROVE  TypeOK'
<1>1. CASE DirectLock(d) BY <1>1 DEF DirectLock, TypeOK, workerVars
<1>2. CASE DirectExecuted(d)
  <2>1. \A m \in Mutating : \A e \in Effect(m, "direct") : e.record \in {"none", "daemon", "direct"}
        BY DEF Effect, TypeOK, Mutating
  <2>2. record' \in {"none", "daemon", "direct"} BY <1>2, <2>1 DEF DirectExecuted
  <2> QED BY <1>2, <2>2 DEF DirectExecuted, TypeOK, workerVars
<1> QED BY <1>1, <1>2

\* Every step keeps the types.
LEMMA StepTypes ==
    ASSUME TypeOK, [Next]_vars
    PROVE  TypeOK'
<1>1. CASE UNCHANGED vars BY <1>1 DEF vars, workerVars, TypeOK
<1>2. CASE Signal \/ MainStep BY <1>2, MainTypes
<1>3. ASSUME NEW c \in Clients, Connect(c) \/ Accept(c) PROVE TypeOK' BY <1>3, MainTypes
<1>4. ASSUME NEW c \in Clients, WorkerStep(c) \/ Progress(c) PROVE TypeOK'
      BY <1>4, WorkerTypes
<1>5. ASSUME NEW d \in Directs, DirectLock(d) \/ DirectExecuted(d) PROVE TypeOK'
      BY <1>5, DirectTypes
<1> QED BY <1>1, <1>2, <1>3, <1>4, <1>5 DEF Next

-----------------------------------------------------------------------------
(* Frames *)

\* A worker changes what belongs to its own connection only, and of main's state
\* only that it sleeps.
LEMMA WorkerFrame ==
    ASSUME TypeOK, NEW c \in Clients, WorkerStep(c) \/ Progress(c)
    PROVE  /\ \A b \in Clients \ {c} : /\ pc'[b] = pc[b] /\ cmd'[b] = cmd[b]
                                       /\ wire'[b] = wire[b] /\ connected'[b] = connected[b]
           /\ main' = main \/ (main = "asleep" /\ main' = "drain")
           /\ direct' = direct
<1> USE DEF TypeOK, Goto, Send, Written, Broken, Log
<1>1. CASE Receive(c) \/ TryLock(c) \/ Refuse(c) \/ SetName(c)
      BY <1>1 DEF Receive, TryLock, Refuse, SetName
<1>2. CASE TakeFlock(c) \/ WaitFlock(c) \/ GetFlock(c) \/ Progress(c)
      BY <1>2 DEF TakeFlock, WaitFlock, GetFlock, Progress
<1>3. CASE Executed(c) \/ ClearName(c) \/ Reply(c) \/ Unlock(c)
      BY <1>3 DEF Executed, ClearName, Reply, Unlock
<1>4. CASE Close(c) \/ Decrement(c) \/ NotifyAll(c)
      BY <1>4 DEF Close, Decrement, NotifyAll
<1> QED BY <1>1, <1>2, <1>3, <1>4 DEF WorkerStep

\* No worker of b takes a step; it may just come into being.
Arrives(b) ==
    \/ pc'[b] = pc[b]
    \/ pc[b] \in {"absent", "queued"} /\ pc'[b] \in {"queued", "recv", "gone"}

\* Main, a new client and a direct command leave every worker that is there alone.
LEMMA OtherFrame ==
    ASSUME TypeOK,
           \/ Signal \/ MainStep \/ UNCHANGED vars
           \/ \E c \in Clients : Connect(c) \/ Accept(c)
           \/ \E d \in Directs : DirectLock(d) \/ DirectExecuted(d)
    PROVE  /\ \A b \in Clients : Arrives(b)
           /\ UNCHANGED <<cmd, connected, logs, outcome, wire, mutex, name>>
<1> USE DEF TypeOK, Goto, workerVars, Arrives
<1>1. CASE Signal \/ UNCHANGED vars BY <1>1 DEF Signal, vars
<1>2. CASE MainStep
      BY <1>2 DEF MainStep, LoopHead, PollEnds, Drain, Cleanup, CleanupLock, CleanupOff
<1>3. ASSUME NEW c \in Clients, Connect(c) \/ Accept(c)
      PROVE  /\ \A b \in Clients : Arrives(b)
             /\ UNCHANGED <<cmd, connected, logs, outcome, wire, mutex, name>>
      BY <1>3 DEF Connect, Accept
<1>4. ASSUME NEW d \in Directs, DirectLock(d) \/ DirectExecuted(d)
      PROVE  UNCHANGED <<pc, cmd, connected, logs, outcome, wire, mutex, name>>
      BY <1>4 DEF DirectLock, DirectExecuted
<1> QED BY <1>1, <1>2, <1>3, <1>4

\* Every step is one of a worker or one of the others.
LEMMA Steps ==
    ASSUME [Next]_vars
    PROVE  \/ \E c \in Clients : WorkerStep(c) \/ Progress(c)
           \/ \/ Signal \/ MainStep \/ UNCHANGED vars
              \/ \E c \in Clients : Connect(c) \/ Accept(c)
              \/ \E d \in Directs : DirectLock(d) \/ DirectExecuted(d)
BY DEF Next

-----------------------------------------------------------------------------
(* The operation file lock *)

\* Who executes a mutating operation took the lock when it was free, and nobody
\* else gives it back.
LEMMA FlockStep ==
    ASSUME TypeOK, FlockInv, [Next]_vars
    PROVE  FlockInv'
<1> USE DaemonAssumption DEF FlockInv
<1>1. ASSUME NEW c \in Clients, WorkerStep(c) \/ Progress(c) PROVE FlockInv'
  <2> DEFINE Busy(b) == pc[b] = "execute" /\ cmd[b] \in Mutating
  <2>1. \/ flock' = flock /\ (Busy(c)' => Busy(c))
        \/ flock' = c /\ flock = NoClient
        \/ flock' = NoClient /\ flock = c /\ ~Busy(c)'
    <3> USE DEF TypeOK, Goto
    <3>1. CASE Receive(c)
      <4>1. PICK m \in Commands :
               \/ cmd'[c] = m /\ pc'[c] = IF m \in Mutating THEN "lock" ELSE "execute"
               \/ pc'[c] = "close"
            BY <3>1 DEF Receive, Commands
      <4> QED BY <3>1, <4>1 DEF Receive
    <3>7. CASE TryLock(c) \/ Refuse(c) \/ SetName(c)
          BY <3>7 DEF TryLock, Refuse, SetName
    <3>2. CASE TakeFlock(c) \/ GetFlock(c) BY <3>2 DEF TakeFlock, GetFlock
    <3>3. CASE WaitFlock(c) \/ Progress(c) BY <3>3 DEF WaitFlock, Progress
    <3>4. CASE Executed(c) BY <3>4 DEF Executed
    <3>5. CASE ClearName(c) \/ Reply(c) \/ Unlock(c)
          BY <3>5 DEF ClearName, Reply, Unlock
    <3>6. CASE Close(c) \/ Decrement(c) \/ NotifyAll(c)
          BY <3>6 DEF Close, Decrement, NotifyAll
    <3> QED BY <1>1, <3>1, <3>2, <3>3, <3>4, <3>5, <3>6, <3>7 DEF WorkerStep
  <2>2. \A b \in Clients \ {c} : Busy(b)' => Busy(b) BY <1>1, WorkerFrame
  <2>3. direct' = direct /\ (main' = "off" => main = "off") BY <1>1, WorkerFrame
  <2> QED BY <2>1, <2>2, <2>3
<1>2. ASSUME NEW c \in Clients, Connect(c) \/ Accept(c) PROVE FlockInv'
  BY <1>2 DEF Connect, Accept, Goto, TypeOK
<1>3. CASE MainStep
  BY <1>3 DEF MainStep, LoopHead, PollEnds, Drain, Cleanup, CleanupLock, CleanupOff, workerVars
<1>4. ASSUME NEW d \in Directs, DirectLock(d) \/ DirectExecuted(d) PROVE FlockInv'
  BY <1>4 DEF DirectLock, DirectExecuted, workerVars, TypeOK
<1>5. CASE Signal \/ UNCHANGED vars BY <1>5 DEF Signal, vars, workerVars
<1> QED BY <1>1, <1>2, <1>3, <1>4, <1>5, Steps

-----------------------------------------------------------------------------
(* The mutex and the advertised name *)

\* A name is set by the holder of the mutex, and the mutex is released after the name
\* was cleared.
LEMMA MutexStep ==
    ASSUME TypeOK, MutexInv, [Next]_vars
    PROVE  MutexInv'
<1> USE DaemonAssumption DEF MutexInv, HasMutex, Advertises
<1>1. ASSUME NEW c \in Clients, WorkerStep(c) \/ Progress(c) PROVE MutexInv'
  <2>1. \A b \in Clients \ {c} : pc'[b] = pc[b] /\ cmd'[b] = cmd[b] BY <1>1, WorkerFrame
  <2> USE DEF TypeOK, Goto
  <2>2. CASE Receive(c)
    <3>1. PICK m \in Commands :
             \/ cmd'[c] = m /\ pc'[c] = IF m \in Mutating THEN "lock" ELSE "execute"
             \/ pc'[c] = "close"
          BY <2>2 DEF Receive, Commands
    <3>2. UNCHANGED <<mutex, name>> /\ pc[c] = "recv" BY <2>2 DEF Receive
    <3>3. ~HasMutex(c)' /\ name # c /\ ~HasMutex(c) BY <3>1, <3>2
    <3>4. pc'[c] = "lock" => cmd'[c] \in Mutating BY <3>1
    <3>5. pc'[c] \notin {"name", "flock", "waiting"} BY <3>1
    <3>6. name # NoClient => name \in Clients \ {c} BY <3>3
    <3> HIDE DEF TypeOK
    <3> QED BY <2>1, <3>2, <3>3, <3>4, <3>5, <3>6
  <2>3. CASE TryLock(c) \/ Refuse(c) \/ SetName(c) BY <2>3 DEF TryLock, Refuse, SetName
  <2>4. CASE TakeFlock(c) \/ GetFlock(c) BY <2>4 DEF TakeFlock, GetFlock
  <2>5. CASE WaitFlock(c) BY <2>5 DEF WaitFlock, Log
  <2>6. CASE Progress(c) BY <2>6 DEF Progress, Log
  <2>7. CASE Executed(c) BY <2>7 DEF Executed
  <2>8. CASE ClearName(c) \/ Reply(c) BY <2>8 DEF ClearName, Reply
  <2>9. CASE Unlock(c) BY <2>9 DEF Unlock
  <2>10. CASE Close(c) \/ Decrement(c) \/ NotifyAll(c)
         BY <2>10 DEF Close, Decrement, NotifyAll
  <2> QED BY <1>1, <2>2, <2>3, <2>4, <2>5, <2>6, <2>7, <2>8, <2>9, <2>10 DEF WorkerStep
<1>2. CASE ~\E c \in Clients : WorkerStep(c) \/ Progress(c)
  <2>1. /\ \A b \in Clients : Arrives(b)
        /\ UNCHANGED <<cmd, mutex, name>>
        BY <1>2, Steps, OtherFrame
  <2>2. name # NoClient => name \in Clients BY DEF TypeOK
  <2>3. \A b \in Clients : (HasMutex(b)' => HasMutex(b)) /\ (Advertises(b) => Advertises(b)')
        BY <2>1 DEF Arrives
  <2>4. \A b \in Clients : pc'[b] \in {"lock", "name", "flock", "waiting"} => pc'[b] = pc[b]
        BY <2>1 DEF Arrives
  <2> HIDE DEF HasMutex, Advertises
  <2> QED BY <2>1, <2>2, <2>3, <2>4
<1> QED BY <1>1, <1>2

-----------------------------------------------------------------------------
(* The frames on a connection *)

\* A frame behind log frames, or the first one.
LEMMA AppendEnds ==
    ASSUME NEW s \in Seq(Frames), OnlyLogs(s), NEW f \in Frames
    PROVE  /\ Ends(Append(s, f), {f.type})
           /\ f.type = "log" => OnlyLogs(Append(s, f))
<1>1. Len(s) \in Nat /\ Len(Append(s, f)) = Len(s) + 1 OBVIOUS
<1>2. \A i \in 1..Len(s) : Append(s, f)[i] = s[i] OBVIOUS
<1>3. Append(s, f)[Len(s) + 1] = f /\ Append(s, f) # <<>> OBVIOUS
<1> QED BY <1>1, <1>2, <1>3 DEF Ends, OnlyLogs

\* What the peer sees of a frame that is sent behind log frames.
LEMMA SendEnds ==
    ASSUME TypeOK, NEW c \in Clients, OnlyLogs(wire[c]), NEW f \in Frames, Send(c, f)
    PROVE  Ends(wire'[c], {f.type, "partial"})
<1>1. Frame("partial", NoClient) \in Frames /\ Frame("partial", NoClient).type = "partial"
      BY DEF Frame, Frames
<1>2. \E g \in Frames : wire'[c] = Append(wire[c], g) /\ g.type \in {f.type, "partial"}
      BY <1>1 DEF Send, Written, Broken, TypeOK
<1>3. wire[c] \in Seq(Frames) BY DEF TypeOK
<1> QED BY <1>2, <1>3, AppendEnds DEF Ends

\* The logger writes log frames, and nothing behind one that was cut short.
LEMMA LogEnds ==
    ASSUME TypeOK, NEW c \in Clients, Log(c),
           IF connected[c] THEN OnlyLogs(wire[c]) ELSE Ends(wire[c], {"partial"})
    PROVE  IF connected'[c] THEN OnlyLogs(wire'[c]) ELSE Ends(wire'[c], {"partial"})
<1>1. wire[c] \in Seq(Frames) BY DEF TypeOK
<1>2. \A t \in {"log", "partial"} : Frame(t, NoClient) \in Frames /\ Frame(t, NoClient).type = t
      BY DEF Frame, Frames
<1>3. CASE ~connected[c] BY <1>3 DEF Log
<1>4. CASE connected[c] /\ Written(c, Frame("log", NoClient)) /\ UNCHANGED connected
  <2>1. wire'[c] = Append(wire[c], Frame("log", NoClient)) BY <1>4 DEF Written, TypeOK
  <2> QED BY <1>1, <1>2, <1>4, <2>1, AppendEnds
<1>5. CASE connected[c] /\ Broken(c) /\ connected' = [connected EXCEPT ![c] = FALSE]
  <2>1. wire'[c] = Append(wire[c], Frame("partial", NoClient)) BY <1>5 DEF Broken, TypeOK
  <2> QED BY <1>1, <1>2, <1>5, <2>1, AppendEnds DEF TypeOK
<1> QED BY <1>3, <1>4, <1>5 DEF Log

\* Nothing written is nothing but logs.
LEMMA NothingWritten == OnlyLogs(<<>>)
BY DEF OnlyLogs

\* A worker's steps on its own connection.
LEMMA WireWorker ==
    ASSUME TypeOK, NEW c \in Clients, WireAt(c), WorkerStep(c) \/ Progress(c)
    PROVE  WireAt(c)'
<1> USE NothingWritten DEF WireAt, Goto, Before, Inside, After
<1>1. pc'[c] \in Places /\ pc[c] \in Places BY WorkerTypes DEF TypeOK
<1>2. CASE Receive(c)
  <2>1. \/ pc'[c] \in {"lock", "execute"} /\ wire' = wire /\ connected' = connected
        \/ pc'[c] = "close" /\ Send(c, Frame("error", NoClient))
        BY <1>2 DEF Receive, TypeOK
  <2>2. wire[c] = <<>> /\ connected[c] BY <1>2 DEF Receive
  <2>3. Frame("error", NoClient) \in Frames /\ Frame("error", NoClient).type = "error"
        BY DEF Frame, Frames
  <2>4. pc'[c] = "close" => Ends(wire'[c], Terminal \cup {"partial"})
        BY <2>1, <2>2, <2>3, SendEnds DEF Ends, Terminal
  <2> QED BY <2>1, <2>2, <2>4
<1>3. CASE TryLock(c) BY <1>3 DEF TryLock, TypeOK
<1>4. CASE Refuse(c)
  <2>1. Frame("error", name) \in Frames /\ Frame("error", name).type = "error"
        BY DEF Frame, Frames, TypeOK
  <2>2. Ends(wire'[c], Terminal \cup {"partial"})
        BY <1>4, <2>1, SendEnds DEF Refuse, Ends, Terminal
  <2>3. pc'[c] = "close" BY <1>4 DEF Refuse, TypeOK
  <2> QED BY <2>2, <2>3
<1>5. CASE SetName(c) BY <1>5 DEF SetName, TypeOK
<1>6. CASE TakeFlock(c) \/ GetFlock(c) BY <1>6 DEF TakeFlock, GetFlock, TypeOK
<1>7. CASE WaitFlock(c) \/ Progress(c)
  <2>1. pc[c] \in Inside /\ Log(c) /\ pc'[c] \in Inside
        BY <1>7 DEF WaitFlock, Progress, TypeOK
  <2> QED BY <2>1, LogEnds
<1>8. CASE Executed(c) BY <1>8 DEF Executed, TypeOK
<1>9. CASE ClearName(c) BY <1>9 DEF ClearName, TypeOK
<1>10. CASE Reply(c)
  <2>1. \A t \in Terminal : Frame(t, NoClient) \in Frames /\ Frame(t, NoClient).type = t
        BY DEF Frame, Frames, Terminal
  <2>2. pc[c] = "reply" /\ pc'[c] = "unlock" BY <1>10 DEF Reply, TypeOK
  <2>3. CASE connected[c]
    <3>1. \E t \in Terminal : Send(c, Frame(t, NoClient)) BY <1>10, <2>3 DEF Reply, Terminal
    <3>2. Ends(wire'[c], Terminal \cup {"partial"})
          BY <2>1, <2>2, <2>3, <3>1, SendEnds DEF Ends
    <3> QED BY <2>2, <3>2
  <2>4. CASE ~connected[c]
    <3>1. wire' = wire BY <1>10, <2>4 DEF Reply
    <3> QED BY <2>2, <2>4, <3>1 DEF Ends
  <2> QED BY <2>3, <2>4
<1>11. CASE Unlock(c) BY <1>11 DEF Unlock, TypeOK
<1>12. CASE Close(c) BY <1>12 DEF Close, TypeOK
<1>13. CASE Decrement(c) \/ NotifyAll(c) BY <1>13 DEF Decrement, NotifyAll, TypeOK
<1> QED BY <1>2, <1>3, <1>4, <1>5, <1>6, <1>7, <1>8, <1>9, <1>10, <1>11, <1>12, <1>13
        DEF WorkerStep

\* Every step keeps every connection in order.
LEMMA WireStep ==
    ASSUME TypeOK, WireInv, [Next]_vars
    PROVE  WireInv'
<1>1. ASSUME NEW c \in Clients, WorkerStep(c) \/ Progress(c) PROVE WireInv'
  <2>1. WireAt(c)' BY <1>1, WireWorker DEF WireInv
  <2>2. \A b \in Clients \ {c} : WireAt(b)' BY <1>1, WorkerFrame DEF WireInv, WireAt
  <2> QED BY <2>1, <2>2 DEF WireInv
<1>2. CASE ~\E c \in Clients : WorkerStep(c) \/ Progress(c)
  <2>1. /\ \A b \in Clients : Arrives(b)
        /\ UNCHANGED <<wire, connected>>
        BY <1>2, Steps, OtherFrame
  <2> QED BY <2>1 DEF WireInv, WireAt, Arrives, Before, Inside, After
<1> QED BY <1>1, <1>2

-----------------------------------------------------------------------------
(* The counter of workers and the end of the daemon *)

\* A worker is counted until it decrements the counter, and the record it leaves is
\* nobody's concern while main is still waiting.
LEMMA CountWorker ==
    ASSUME TypeOK, CountInv, NEW c \in Clients, WorkerStep(c) \/ Progress(c)
    PROVE  CountInv'
<1> USE DEF Goto, TypeOK, Uncounted
<1>1. \A b \in Clients \ {c} : pc'[b] = pc[b] BY WorkerFrame
<1>2. main' = main \/ main' = "drain" BY WorkerFrame
<1>3. CASE Decrement(c)
  <2>1. pc[c] = "leave" /\ pc'[c] = "notify" /\ active' = active - 1 BY <1>3 DEF Decrement
  <2>2. c \in Workers /\ Workers' = Workers \ {c} BY <1>1, <2>1 DEF Workers
  <2>3. IsFiniteSet(Workers') /\ Cardinality(Workers') = Cardinality(Workers) - 1
        BY <2>2, FS_RemoveElement DEF CountInv
  <2>4. main \notin Leaving BY <2>2 DEF CountInv
  <2> QED BY <1>2, <2>1, <2>3, <2>4 DEF CountInv, Leaving
<1>4. CASE NotifyAll(c)
  <2>1. pc[c] = "notify" /\ pc'[c] = "gone" /\ active' = active /\ record' = record
        BY <1>4 DEF NotifyAll
  <2>2. Workers' = Workers BY <1>1, <2>1 DEF Workers
  <2> QED BY <1>2, <2>1, <2>2 DEF CountInv, Leaving
<1>5. CASE ~(Decrement(c) \/ NotifyAll(c))
  <2>1. pc[c] \notin Uncounted /\ pc'[c] \notin Uncounted /\ active' = active
    <3>1. CASE Receive(c) \/ TryLock(c) \/ Refuse(c) \/ SetName(c)
          BY <3>1 DEF Receive, TryLock, Refuse, SetName
    <3>2. CASE TakeFlock(c) \/ WaitFlock(c) \/ GetFlock(c) \/ Progress(c)
          BY <3>2 DEF TakeFlock, WaitFlock, GetFlock, Progress
    <3>3. CASE Executed(c) \/ ClearName(c) \/ Reply(c) \/ Unlock(c) \/ Close(c)
          BY <3>3 DEF Executed, ClearName, Reply, Unlock, Close
    <3> QED BY <1>5, <3>1, <3>2, <3>3 DEF WorkerStep
  <2>2. c \in Workers /\ Workers' = Workers BY <1>1, <2>1 DEF Workers
  <2>3. main \notin Leaving BY <2>2 DEF CountInv
  <2> QED BY <1>2, <2>1, <2>2, <2>3 DEF CountInv, Leaving
<1> QED BY <1>3, <1>4, <1>5

\* Main counts a worker before it exists, and goes on to clean up only when the
\* counter, and so the set of workers, is empty; afterwards it accepts nobody.
LEMMA CountMain ==
    ASSUME TypeOK, CountInv, Signal \/ MainStep \/ \E c \in Clients : Connect(c) \/ Accept(c)
    PROVE  CountInv'
<1> USE DEF TypeOK, workerVars
<1>1. CASE Signal BY <1>1 DEF Signal, CountInv, Workers
<1>2. CASE LoopHead \/ PollEnds BY <1>2 DEF LoopHead, PollEnds, CountInv, Workers, Leaving
<1>3. CASE Drain
  <2>1. active = 0 => Workers = {} BY FS_EmptySet DEF CountInv
  <2> QED BY <1>3, <2>1 DEF Drain, CountInv, Workers, Leaving
<1>4. CASE Cleanup BY <1>4 DEF Cleanup, CountInv, Workers, Leaving
<1>5. CASE CleanupLock \/ CleanupOff
      BY <1>5 DEF CleanupLock, CleanupOff, CountInv, Workers, Leaving
<1>6. ASSUME NEW c \in Clients, Connect(c) PROVE CountInv'
  <2>1. Workers' = Workers BY <1>6 DEF Connect, Goto, Workers, Uncounted
  <2> QED BY <1>6, <2>1 DEF Connect, CountInv
<1>7. ASSUME NEW c \in Clients, Accept(c) PROVE CountInv'
  <2>1. main' = "loop" /\ pc[c] = "queued" BY <1>7 DEF Accept
  <2>2. CASE active' = active + 1 /\ Goto(c, "recv")
    <3>1. c \notin Workers /\ Workers' = Workers \cup {c}
          BY <2>1, <2>2 DEF Goto, Workers, Uncounted
    <3>2. IsFiniteSet(Workers') /\ Cardinality(Workers') = Cardinality(Workers) + 1
          BY <3>1, FS_AddElement DEF CountInv
    <3> QED BY <2>1, <2>2, <3>2 DEF CountInv, Leaving
  <2>3. CASE active' = active /\ Goto(c, "gone")
    <3>1. Workers' = Workers BY <2>1, <2>3 DEF Goto, Workers, Uncounted
    <3> QED BY <2>1, <2>3, <3>1 DEF CountInv, Leaving
  <2> QED BY <1>7, <2>2, <2>3 DEF Accept
<1> QED BY <1>1, <1>2, <1>3, <1>4, <1>5, <1>6, <1>7 DEF MainStep

\* A direct command launches a core of its own, never one of the daemon's.
LEMMA CountDirect ==
    ASSUME TypeOK, CountInv, NEW d \in Directs, DirectLock(d) \/ DirectExecuted(d)
    PROVE  CountInv'
<1>1. \A m \in Mutating : \A e \in Effect(m, "direct") : e.record \in {record, "none", "direct"}
      BY DEF Effect, Mutating
<1>2. record' \in {record, "none", "direct"} BY <1>1 DEF DirectLock, DirectExecuted
<1>3. UNCHANGED <<main, active, pc>> BY DEF DirectLock, DirectExecuted, workerVars
<1> QED BY <1>2, <1>3 DEF CountInv, Workers

\* Every step keeps the count.
LEMMA CountStep ==
    ASSUME TypeOK, CountInv, [Next]_vars
    PROVE  CountInv'
<1>1. ASSUME NEW c \in Clients, WorkerStep(c) \/ Progress(c) PROVE CountInv'
      BY <1>1, CountWorker
<1>2. CASE Signal \/ MainStep BY <1>2, CountMain
<1>3. ASSUME NEW c \in Clients, Connect(c) \/ Accept(c) PROVE CountInv' BY <1>3, CountMain
<1>4. ASSUME NEW d \in Directs, DirectLock(d) \/ DirectExecuted(d) PROVE CountInv'
      BY <1>4, CountDirect
<1>5. CASE UNCHANGED vars BY <1>5 DEF vars, workerVars, CountInv, Workers
<1> QED BY <1>1, <1>2, <1>3, <1>4, <1>5, Steps

-----------------------------------------------------------------------------
(* Theorems *)

\* The invariant holds initially.
LEMMA InitInv == Init => DaemonInv
<1> SUFFICES ASSUME Init PROVE DaemonInv OBVIOUS
<1> USE DEF Init
<1>1. TypeOK
  <2>1. <<>> \in Seq(Frames) OBVIOUS
  <2>2. wire \in [Clients -> Seq(Frames)] BY <2>1
  <2>3. logs \in [Clients -> 0..MaxLogs] BY DaemonAssumption
  <2>4. pc \in [Clients -> Places] BY DEF Places, Before
  <2>5. cmd \in [Clients -> Commands] BY DEF Commands
  <2>6. /\ connected \in [Clients -> BOOLEAN]
        /\ outcome \in [Clients -> {"none", "ok", "failed"}]
        /\ direct \in [Directs -> {"idle", "execute", "done"}]
        OBVIOUS
  <2>8. stop \in BOOLEAN OBVIOUS
  <2>7. /\ main \in Mains /\ active \in Int
        /\ flock \in Clients \cup Directs \cup {Main, NoClient}
        /\ mutex \in Clients \cup {NoClient} /\ name \in Clients \cup {NoClient}
        /\ record \in {"none", "daemon", "direct"}
        BY DEF Mains
  <2> QED BY <2>2, <2>3, <2>4, <2>5, <2>6, <2>7, <2>8 DEF TypeOK
<1>2. FlockInv BY DEF FlockInv
<1>3. MutexInv BY DEF MutexInv, HasMutex
<1>4. WireInv BY DEF WireInv, WireAt, Before, Inside, After
<1>5. CountInv
  <2>1. Workers = {} BY DEF Workers, Uncounted
  <2> QED BY <2>1, FS_EmptySet DEF CountInv, Leaving
<1> QED BY <1>1, <1>2, <1>3, <1>4, <1>5 DEF DaemonInv

\* The invariant of the daemon: types, both locks, the frames and the count.
THEOREM DaemonCorrect == Spec => []DaemonInv
<1>1. Init => DaemonInv BY InitInv
<1>2. DaemonInv /\ [Next]_vars => DaemonInv'
      BY StepTypes, FlockStep, MutexStep, WireStep, CountStep DEF DaemonInv
<1> QED BY <1>1, <1>2, PTL DEF Spec

\* daemon_main.cpp 255-300, controller.cpp: however many clients and direct commands
\* there are, one mutating operation is carried out at a time, the clean-up of main
\* included.
THEOREM OperationsExclude == Spec => []OneOperation
<1>1. DaemonInv => OneOperation
  <2> SUFFICES ASSUME DaemonInv, NEW x \in Executing, NEW y \in Executing PROVE x = y
      BY DEF OneOperation
  <2>1. \A z \in Executing : flock = z BY DEF Executing, DaemonInv, FlockInv
  <2> QED BY <2>1
<1> QED BY <1>1, DaemonCorrect, PTL

\* The name another client is told is always that of the holder of the mutex.
THEOREM NameCorrect == Spec => []NameIsOfHolder
<1>1. DaemonInv => NameIsOfHolder
  <2> SUFFICES ASSUME DaemonInv, name # NoClient PROVE name = mutex BY DEF NameIsOfHolder
  <2>1. name \in Clients BY DEF DaemonInv, TypeOK
  <2> QED BY <2>1 DEF DaemonInv, MutexInv, Advertises
<1> QED BY <1>1, DaemonCorrect, PTL

\* A client sees log frames and then its answer, or a frame cut short by a failed
\* write as the last thing.
THEOREM AnswersCorrect == Spec => []Answered
<1>1. DaemonInv => Answered
  <2> SUFFICES ASSUME DaemonInv, NEW c \in Clients
               PROVE  /\ \A i \in 1..Len(wire[c]) : i < Len(wire[c]) => wire[c][i].type = "log"
                      /\ pc[c] = "close" => /\ wire[c] # <<>>
                                            /\ wire[c][Len(wire[c])].type \in Terminal \cup {"partial"}
      BY DEF Answered
  <2>1. WireAt(c) /\ pc[c] \in Places BY DEF DaemonInv, WireInv, TypeOK
  <2>2. wire[c] = <<>> \/ OnlyLogs(wire[c]) \/ \E T : Ends(wire[c], T)
        BY <2>1 DEF WireAt, Places
  <2>3. \A i \in 1..Len(wire[c]) : i < Len(wire[c]) => wire[c][i].type = "log"
        BY <2>2 DEF OnlyLogs, Ends
  <2> QED BY <2>1, <2>3 DEF WireAt, Ends
<1> QED BY <1>1, DaemonCorrect, PTL

\* The counter is the number of workers, however many there are; main cleans up when
\* there is none, and a clean exit leaves no record of a core of the daemon's.
THEOREM ExitCorrect == Spec => []CleanExit
<1>1. DaemonInv => CleanExit
      BY DEF DaemonInv, CountInv, CleanExit, Workers, Uncounted, Leaving
<1> QED BY <1>1, DaemonCorrect, PTL
=============================================================================
