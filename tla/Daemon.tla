------------------------------- MODULE Daemon -------------------------------
(***************************************************************************)
(* tunproxyd (src/src/daemon_main.cpp): the accept loop, one detached      *)
(* worker thread per client, the operation mutex with its advertised name, *)
(* the frames a client gets back, and the shutdown.  Operations also hold  *)
(* the flock of CommandController::execute, which root's `--direct`        *)
(* commands (src/src/main.cpp) take without asking the daemon.             *)
(*                                                                         *)
(* What an operation does to the proxy is in ProxyManager; here it is the  *)
(* existence of the state file and who launched the core it names.         *)
(***************************************************************************)
EXTENDS Naturals, Sequences, FiniteSets

CONSTANTS
    Clients,    \* connections to the control socket
    Directs,    \* direct commands, each run once
    MaxLogs,    \* bound: log messages of one operation
    NoClient,   \* std::string{} in active_name, an unlocked mutex
    Main        \* the main thread as holder of the flock

ASSUME DaemonAssumption ==
    /\ Clients \cap Directs = {} /\ NoClient \notin Clients
    /\ Main \notin Clients \cup Directs
    /\ NoClient \notin Directs \cup {Main}
    /\ MaxLogs \in Nat \ {0}

Mutating == {"on", "off", "set"}
Commands == Mutating \cup {"query"}   \* query: status, bypass, setting query

VARIABLES
    main,       \* where the main thread is
    stop,       \* stop_requested
    active,     \* active_clients
    pc,         \* where each worker is; "queued" and "absent" before it exists
    cmd,        \* the command a worker decoded
    connected,  \* serveClient's local of that name
    logs,       \* log messages an operation has emitted
    outcome,    \* the Result of controller.execute
    wire,       \* frames written to the connection that is open
    mutex,      \* holder of DaemonState::operation
    name,       \* whose operation active_name shows
    flock,      \* holder of the operation lock file
    record,     \* who launched the core of the state file, "none" without one
    direct      \* where each direct command is

workerVars == <<pc, cmd, connected, logs, outcome, wire>>
vars == <<main, stop, active, workerVars, mutex, name, flock, record, direct>>

\* A refusal also carries the name it was made with.
Frame(t, about) == [type |-> t, about |-> about]
Terminal == {"result", "error"}

-----------------------------------------------------------------------------
(* Writing to a client *)

\* sendIpcFrame: the frame arrives, or the client has gone away or stalls past
\* SO_SNDTIMEO and a prefix of the frame, maybe empty, is all that is written.
Written(c, f)  == wire' = [wire EXCEPT ![c] = Append(@, f)]
Broken(c)      == wire' = [wire EXCEPT ![c] = Append(@, Frame("partial", NoClient))]
Send(c, f)     == Written(c, f) \/ Broken(c)

Goto(c, l) == pc' = [pc EXCEPT ![c] = l]

-----------------------------------------------------------------------------
(* Clients *)

Connect(c) ==
    /\ pc[c] = "absent"
    /\ Goto(c, "queued")
    /\ UNCHANGED <<main, stop, active, cmd, connected, logs, outcome, wire,
                   mutex, name, flock, record, direct>>

-----------------------------------------------------------------------------
(* The main thread *)

Signal ==
    /\ ~stop
    /\ stop' = TRUE
    /\ UNCHANGED <<main, active, workerVars, mutex, name, flock, record, direct>>

\* The head of the loop: `while (stop_requested == 0)`.
LoopHead ==
    /\ main = "loop"
    /\ main' = IF stop THEN "drain" ELSE "poll"
    /\ UNCHANGED <<stop, active, workerVars, mutex, name, flock, record, direct>>

\* poll() times out or is interrupted, or the listener fails and the loop ends.
PollEnds ==
    /\ main = "poll"
    /\ main' \in {"loop", "drain"}
    /\ UNCHANGED <<stop, active, workerVars, mutex, name, flock, record, direct>>

\* accept4; an unauthorized client, or one no thread can be made for, is told so
\* and closed, which leaves nothing here; the counter is raised before the thread exists.
Accept(c) ==
    /\ main = "poll" /\ pc[c] = "queued"
    /\ main' = "loop"
    /\ \/ /\ active' = active + 1
          /\ Goto(c, "recv")
       \/ /\ Goto(c, "gone")
          /\ UNCHANGED active
    /\ UNCHANGED <<stop, cmd, connected, logs, outcome, wire, mutex, name, flock, record, direct>>

\* Mutant of Drain: the wait is left out.
DrainSkipped ==
    /\ main = "drain"
    /\ main' = "cleanup"
    /\ UNCHANGED <<stop, active, workerVars, mutex, name, flock, record, direct>>

\* clients_finished.wait: the predicate is checked with clients_mutex held.
Drain ==
    /\ main = "drain"
    /\ main' = IF active = 0 THEN "cleanup" ELSE "asleep"
    /\ UNCHANGED <<stop, active, workerVars, mutex, name, flock, record, direct>>

\* exists(state_file) is read without the operation lock.
Cleanup ==
    /\ main = "cleanup"
    /\ main' = IF record = "none" THEN "exit" ELSE "flock"
    /\ UNCHANGED <<stop, active, workerVars, mutex, name, flock, record, direct>>

CleanupLock ==
    /\ main = "flock" /\ flock = NoClient
    /\ flock' = Main
    /\ main' = "off"
    /\ UNCHANGED <<stop, active, workerVars, mutex, name, record, direct>>

\* execute(Command::Off); a failure is only logged.
CleanupOff ==
    /\ main = "off"
    /\ \/ record' = "none" /\ main' = "exit"
       \/ UNCHANGED record /\ main' = "exit dirty"
    /\ flock' = NoClient
    /\ UNCHANGED <<stop, active, workerVars, mutex, name, direct>>

-----------------------------------------------------------------------------
(* serveClient, one worker per client *)

\* receiveIpcFrame and decodeCommand.
Receive(c) ==
    /\ pc[c] = "recv"
    /\ \/ \E m \in Commands :
            /\ cmd' = [cmd EXCEPT ![c] = m]
            /\ Goto(c, IF m \in Mutating THEN "lock" ELSE "execute")
            /\ UNCHANGED wire
       \/ /\ Send(c, Frame("error", NoClient))
          /\ Goto(c, "close")
          /\ UNCHANGED cmd
    /\ UNCHANGED <<main, stop, active, connected, logs, outcome, mutex, name,
                   flock, record, direct>>

TryLock(c) ==
    /\ pc[c] = "lock"
    /\ \/ /\ mutex = NoClient
          /\ mutex' = c
          /\ Goto(c, "name")
       \/ /\ mutex # NoClient
          /\ UNCHANGED mutex
          /\ Goto(c, "refuse")
    /\ UNCHANGED <<main, stop, active, cmd, connected, logs, outcome, wire, name,
                   flock, record, direct>>

\* "another operation is in progress", with the name if there is one.
Refuse(c) ==
    /\ pc[c] = "refuse"
    /\ Send(c, Frame("error", name))
    /\ Goto(c, "close")
    /\ UNCHANGED <<main, stop, active, cmd, connected, logs, outcome, mutex, name,
                   flock, record, direct>>

SetName(c) ==
    /\ pc[c] = "name"
    /\ name' = c
    /\ Goto(c, "flock")
    /\ UNCHANGED <<main, stop, active, cmd, connected, logs, outcome, wire, mutex,
                   flock, record, direct>>

\* The LogCallback: nothing more once a send failed; a mutating operation also
\* advertises its message.
Log(c) ==
    /\ logs[c] < MaxLogs
    /\ logs' = [logs EXCEPT ![c] = @ + 1]
    /\ \/ /\ connected[c]
          /\ name' = IF cmd[c] \in Mutating THEN c ELSE name
          /\ \/ /\ Written(c, Frame("log", NoClient))
                /\ UNCHANGED connected
             \/ /\ Broken(c)
                /\ connected' = [connected EXCEPT ![c] = FALSE]
       \/ ~connected[c] /\ UNCHANGED <<connected, wire, name>>

\* FileLock::acquire: at once, or after a log message and a wait.
TakeFlock(c) ==
    /\ pc[c] = "flock" /\ flock = NoClient
    /\ flock' = c
    /\ Goto(c, "execute")
    /\ UNCHANGED <<main, stop, active, cmd, connected, logs, outcome, wire, mutex,
                   name, record, direct>>

\* Mutant of WaitFlock: EWOULDBLOCK is reported and then ignored.
WaitFlockNot(c) ==
    /\ pc[c] = "flock" /\ flock # NoClient
    /\ Log(c)
    /\ Goto(c, "execute")
    /\ UNCHANGED <<main, stop, active, cmd, outcome, mutex, flock, record, direct>>

WaitFlock(c) ==
    /\ pc[c] = "flock" /\ flock # NoClient
    /\ Log(c)
    /\ Goto(c, "waiting")
    /\ UNCHANGED <<main, stop, active, cmd, outcome, mutex, flock, record, direct>>

GetFlock(c) ==
    /\ pc[c] = "waiting" /\ flock = NoClient
    /\ flock' = c
    /\ Goto(c, "execute")
    /\ UNCHANGED <<main, stop, active, cmd, connected, logs, outcome, wire, mutex,
                   name, record, direct>>

Progress(c) ==
    /\ pc[c] = "execute"
    /\ Log(c)
    /\ UNCHANGED <<main, stop, active, pc, cmd, outcome, mutex, flock, record, direct>>

\* What `on` and `off` of the launcher w leave in the state file.
Effect(m, w) ==
    CASE m = "on"  -> {[ok |-> TRUE, record |-> IF record = "none" THEN w ELSE record],
                       [ok |-> FALSE, record |-> "none"], [ok |-> FALSE, record |-> record]}
      [] m = "off" -> {[ok |-> TRUE, record |-> "none"], [ok |-> FALSE, record |-> record]}
      [] OTHER     -> {[ok |-> b, record |-> record] : b \in BOOLEAN}

\* Mutant of Executed: an error return keeps the lock file locked.
ExecutedLocked(c) ==
    /\ pc[c] = "execute"
    /\ \E e \in Effect(cmd[c], "daemon") :
          /\ outcome' = [outcome EXCEPT ![c] = IF e.ok THEN "ok" ELSE "failed"]
          /\ record' = e.record
          /\ flock' = IF cmd[c] \in Mutating /\ e.ok THEN NoClient ELSE flock
    /\ Goto(c, IF cmd[c] \in Mutating THEN "unname" ELSE "reply")
    /\ UNCHANGED <<main, stop, active, cmd, connected, logs, wire, mutex, name, direct>>

\* controller.execute returns and drops the flock.
Executed(c) ==
    /\ pc[c] = "execute"
    /\ \E e \in Effect(cmd[c], "daemon") :
          /\ outcome' = [outcome EXCEPT ![c] = IF e.ok THEN "ok" ELSE "failed"]
          /\ record' = e.record
    /\ flock' = IF cmd[c] \in Mutating THEN NoClient ELSE flock
    /\ Goto(c, IF cmd[c] \in Mutating THEN "unname" ELSE "reply")
    /\ UNCHANGED <<main, stop, active, cmd, connected, logs, wire, mutex, name, direct>>

\* Mutant of ClearName: the name is left for the next operation to overwrite.
ClearNameSkipped(c) ==
    /\ pc[c] = "unname"
    /\ Goto(c, "reply")
    /\ UNCHANGED <<main, stop, active, cmd, connected, logs, outcome, wire, mutex, name,
                   flock, record, direct>>

ClearName(c) ==
    /\ pc[c] = "unname"
    /\ name' = NoClient
    /\ Goto(c, "reply")
    /\ UNCHANGED <<main, stop, active, cmd, connected, logs, outcome, wire, mutex,
                   flock, record, direct>>

\* Mutant of Reply: only a success is reported.
ReplyResultOnly(c) ==
    /\ pc[c] = "reply"
    /\ \/ connected[c] /\ outcome[c] = "ok" /\ Send(c, Frame("result", NoClient))
       \/ ~(connected[c] /\ outcome[c] = "ok") /\ UNCHANGED wire
    /\ Goto(c, "unlock")
    /\ UNCHANGED <<main, stop, active, cmd, connected, logs, outcome, mutex, name,
                   flock, record, direct>>

\* The terminal frame, unless a log frame could not be sent.
Reply(c) ==
    /\ pc[c] = "reply"
    /\ \/ connected[c] /\ Send(c, Frame(IF outcome[c] = "ok" THEN "result" ELSE "error", NoClient))
       \/ ~connected[c] /\ UNCHANGED wire
    /\ Goto(c, "unlock")
    /\ UNCHANGED <<main, stop, active, cmd, connected, logs, outcome, mutex, name,
                   flock, record, direct>>

\* serveClient returns: its locals go, ~unique_lock with them, after the reply.
Unlock(c) ==
    /\ pc[c] = "unlock"
    /\ mutex' = IF mutex = c THEN NoClient ELSE mutex
    /\ cmd' = [cmd EXCEPT ![c] = "query"]
    /\ connected' = [connected EXCEPT ![c] = TRUE]
    /\ logs' = [logs EXCEPT ![c] = 0]
    /\ outcome' = [outcome EXCEPT ![c] = "none"]
    /\ Goto(c, "close")
    /\ UNCHANGED <<main, stop, active, wire, name,
                   flock, record, direct>>

\* close(client); then --active_clients under clients_mutex; then notify_all.
Close(c) ==
    /\ pc[c] = "close"
    /\ Goto(c, "leave")
    /\ wire' = [wire EXCEPT ![c] = <<>>]
    /\ UNCHANGED <<main, stop, active, cmd, connected, logs, outcome, mutex, name,
                   flock, record, direct>>

Decrement(c) ==
    /\ pc[c] = "leave"
    /\ active' = active - 1
    /\ Goto(c, "notify")
    /\ UNCHANGED <<main, stop, cmd, connected, logs, outcome, wire, mutex, name,
                   flock, record, direct>>

\* Mutant of NotifyAll: nobody is woken.
NotifyNobody(c) ==
    /\ pc[c] = "notify"
    /\ Goto(c, "gone")
    /\ UNCHANGED <<main, stop, active, cmd, connected, logs, outcome, wire, mutex, name,
                   flock, record, direct>>

NotifyAll(c) ==
    /\ pc[c] = "notify"
    /\ main' = IF main = "asleep" THEN "drain" ELSE main
    /\ Goto(c, "gone")
    /\ UNCHANGED <<stop, active, cmd, connected, logs, outcome, wire, mutex, name,
                   flock, record, direct>>

-----------------------------------------------------------------------------
(* `tunproxy --direct`: the same CommandController in another process *)

DirectLock(d) ==
    /\ direct[d] = "idle" /\ flock = NoClient
    /\ flock' = d
    /\ direct' = [direct EXCEPT ![d] = "execute"]
    /\ UNCHANGED <<main, stop, active, workerVars, mutex, name, record>>

DirectExecuted(d) ==
    /\ direct[d] = "execute"
    /\ \E m \in Mutating : \E e \in Effect(m, "direct") : record' = e.record
    /\ flock' = NoClient
    /\ direct' = [direct EXCEPT ![d] = "done"]
    /\ UNCHANGED <<main, stop, active, workerVars, mutex, name>>

-----------------------------------------------------------------------------
Init ==
    /\ main = "loop" /\ stop = FALSE /\ active = 0
    /\ pc = [c \in Clients |-> "absent"]
    /\ cmd = [c \in Clients |-> "query"]
    /\ connected = [c \in Clients |-> TRUE]
    /\ logs = [c \in Clients |-> 0]
    /\ outcome = [c \in Clients |-> "none"]
    /\ wire = [c \in Clients |-> <<>>]
    /\ mutex = NoClient /\ name = NoClient /\ flock = NoClient
    /\ record = "none"
    /\ direct = [d \in Directs |-> "idle"]

\* What a worker does of its own accord; each receive and send has a timeout.
WorkerStep(c) ==
    \/ Receive(c) \/ TryLock(c) \/ Refuse(c) \/ SetName(c)
    \/ TakeFlock(c) \/ WaitFlock(c) \/ GetFlock(c) \/ Executed(c)
    \/ ClearName(c) \/ Reply(c) \/ Unlock(c) \/ Close(c) \/ Decrement(c) \/ NotifyAll(c)

MainStep == LoopHead \/ PollEnds \/ Drain \/ Cleanup \/ CleanupLock \/ CleanupOff

Next ==
    \/ Signal \/ MainStep
    \/ \E c \in Clients : Connect(c) \/ Accept(c) \/ WorkerStep(c) \/ Progress(c)
    \/ \E d \in Directs : DirectLock(d) \/ DirectExecuted(d)

\* Threads run, poll() returns within 500 ms, every receive and send within 30 s,
\* and every operation ends (ProxyManager: OperationTerminates).
Fairness ==
    /\ WF_vars(MainStep)
    /\ \A c \in Clients : WF_vars(WorkerStep(c))
    /\ \A d \in Directs : WF_vars(DirectExecuted(d))

Spec == Init /\ [][Next]_vars
FairSpec == Spec /\ Fairness

-----------------------------------------------------------------------------
(* Properties *)

\* Mutating operations exclude one another: those of two clients, of the daemon's
\* own clean-up and of direct commands in other processes.
Executing ==
    {c \in Clients : pc[c] = "execute" /\ cmd[c] \in Mutating}
    \cup {d \in Directs : direct[d] = "execute"}
    \cup {m \in {Main} : main = "off"}

OneOperation == \A x, y \in Executing : x = y

\* active_name never shows an operation that does not hold the mutex: it is set
\* after try_lock, and the callback of the last log cannot set it again after
\* it was cleared.
NameIsOfHolder == name # NoClient => name = mutex

\* A client sees log frames and then one terminal frame; a frame cut short by a
\* failed write is the last thing it sees, so framing is never lost.  A worker never
\* closes a connection it could write to without an answer on it.
Answered ==
    \A c \in Clients :
        /\ \A i \in 1..Len(wire[c]) : i < Len(wire[c]) => wire[c][i].type = "log"
        /\ pc[c] = "close" => /\ wire[c] # <<>>
                              /\ wire[c][Len(wire[c])].type \in Terminal \cup {"partial"}

\* The daemon cleans up and leaves only after the last worker has: active_clients
\* counts the workers that are there, so that nothing the daemon started can launch a
\* core behind its back, and a clean exit leaves no record of a core it launched.
CleanExit ==
    LET Workers == {c \in Clients : pc[c] \notin {"absent", "queued", "notify", "gone"}} IN
    /\ active = Cardinality(Workers)
    /\ main \in {"cleanup", "flock", "off", "exit", "exit dirty"} => Workers = {}
    /\ main = "exit" => record # "daemon"

\* README.md: while an operation runs, a new mutating request is told at once which
\* operation that is.
RefusalNamesOperation ==
    \A c \in Clients : pc[c] = "refuse" => mutex # NoClient /\ name = mutex

\* Every client that got a worker is answered and closed, whatever it does.
WorkerFinishes == \A c \in Clients : (pc[c] = "recv") ~> (pc[c] = "gone")

\* SIGTERM ends the daemon: no lost wake-up between the workers and main.
StopExits == stop ~> (main \in {"exit", "exit dirty"})
=============================================================================
