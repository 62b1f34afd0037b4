---------------------------- MODULE ProxyManager ----------------------------
(***************************************************************************)
(* The lifecycle of the managed sing-box core: ProxyManager::start, stop   *)
(* and status (src/src/proxy_manager.cpp), the runtime state file they     *)
(* trust (src/src/runtime_state.cpp), and the processes, the TUN interface *)
(* and the crashes they have to live with.                                 *)
(*                                                                         *)
(* A host is a process that executes commands: the daemon, or a root       *)
(* `tunproxy --direct` (src/src/controller.cpp).  Mutating commands hold   *)
(* the flock; status readers take no lock at all.                          *)
(***************************************************************************)
EXTENDS Naturals, FiniteSets

CONSTANTS
    Hosts,        \* processes that execute commands
    Readers,      \* processes that serve status and bypass without the lock
    Supervised,   \* hosts in a systemd unit, killed with their control group
    Pids,         \* process ids a core may get
    Settings,     \* upstream settings
    Confined,     \* processes that run with the capability bounding set of the
                  \*   unit: the kernel refuses them /proc/<pid>/exe of others
    ExternalTun,  \* another program may create an interface of our name
    FastPidReuse, \* a pid may be reused between a check and the next kill()
    CrashUntracked, \* a direct command may die between fork() and the save
    Polls,        \* pollIterations(): how often each wait loop looks
    MaxGen,       \* bound: births of one pid
    NoHost, NoPlan, NoState, NoTun, External, Orphan

ASSUME HostAssumption ==
    /\ Supervised \subseteq Hosts
    /\ Hosts \cap {NoHost, Orphan} = {}
    /\ NoHost # Orphan

ASSUME BoundAssumption == Polls \in Nat \ {0} /\ MaxGen \in Nat

\* The part of SingBoxRuntimeConfig the properties tell apart.
Plans == [auto : BOOLEAN, upstream : Settings]

\* RuntimeState: (pid, start_ticks) is the identity of the process; cfg stands
\* for routing_mode, upstream, upstream_address and bypass_cidrs.
RuntimeStates == [pid : Pids, gen : Nat, phase : {"starting", "running"}, cfg : Plans]

Tuns == [pid : Pids, gen : Nat]

\* A row of the kernel's process table.  A core that is not alive is a zombie.  A
\* doomed core executes no more code of its own: SIGKILL is pending, or systemd is
\* taking its unit down; a doomed foreign process was signalled by mistake.
Processes ==
    [kind : {"free", "core", "foreign"}, gen : Nat, alive : BOOLEAN,
     parent : Hosts \cup {NoHost, Orphan}, cgroup : Hosts \cup {NoHost},
     doomed : BOOLEAN, cfg : Plans \cup {NoPlan}]

ASSUME NullAssumption ==
    /\ NoPlan \notin Plans
    /\ NoState \notin RuntimeStates
    /\ NoTun \notin Tuns /\ External \notin Tuns /\ NoTun # External

StartLabels == {"start.load", "start.clear", "start.prepare", "start.probe",
                "start.configure", "start.spawn", "start.ticks", "start.reap",
                "start.provisional", "wait.reap", "wait.tun", "start.running",
                "start.undo", "start.retry"}
StopLabels  == {"stop.load", "stop.clear"}
TermLabels  == {"term.check", "term.signal", "term.reap", "term.poll",
                "kill.check", "kill.signal", "kill.reap", "kill.poll"}
OpLabels    == StartLabels \cup StopLabels \cup TermLabels \cup {"await", "set.save"}
Labels      == OpLabels \cup {"idle", "down"}

\* Why terminateCore or awaitTunRemoval was called: where control returns to.
Sites == {"none", "previous", "provisional", "saved", "retry", "stop"}
Replies == {"none", "on", "off", "set", "error"}

VARIABLES
    pc,          \* where each host is in the command it executes
    rs,          \* its local RuntimeState
    plan,        \* its local SingBoxRuntimeConfig
    site,        \* the call site to return to
    tries,       \* polls left in the current wait loop
    lock,        \* holder of the operation flock
    reply,       \* what the last command to finish answered
    stateFile,   \* paths.state_file()
    coreConfig,  \* paths.core_config_file()
    setting,     \* the upstream in config.ini
    proc,        \* process table
    tun,         \* the interface paths.tun_interface
    seen         \* the record each status reader has loaded

hostVars == <<pc, rs, plan, site, tries, lock, reply>>
fileVars == <<stateFile, coreConfig, setting>>
vars == <<hostVars, fileVars, proc, tun, seen>>

-----------------------------------------------------------------------------
(* Processes *)

FreeAt(g) == [kind |-> "free", gen |-> g, alive |-> FALSE, parent |-> NoHost,
              cgroup |-> NoHost, doomed |-> FALSE, cfg |-> NoPlan]

\* Mutant of IsSame: the start time of the process is not compared.
IsSameByPid(st) == proc[st.pid].kind = "core"

\* The process the record names is still that process, dead or alive.
IsSame(st) == proc[st.pid].kind = "core" /\ proc[st.pid].gen = st.gen

\* The truth isManagedProcessRunning is after.
IsLive(st) == IsSame(st) /\ proc[st.pid].alive

\* isManagedProcessRunning: kill(pid, 0), start time and exe link agree.  An exe
\* link the observer may not read counts as a process that is not ours.
Managed(o, st) == IsLive(st) /\ (o \in Confined => proc[st.pid].cgroup \in Confined)

\* Mutant of RecordRuns: a record of phase "starting" counts as stale.
RecordRunsFinal(o) == stateFile # NoState /\ Managed(o, stateFile) /\ stateFile.phase = "running"

\* There is a record and the process it names looks like ours to o.
RecordRuns(o) == stateFile # NoState /\ Managed(o, stateFile)

\* waitpid(pid, WNOHANG) returns the pid.
CanReap(h, p) == proc[p].kind = "core" /\ ~proc[p].alive /\ proc[p].parent = h

Reap(p) == proc' = [proc EXCEPT ![p] = FreeAt(@.gen)]

\* kill() reaches whatever has the pid now.  SIGTERM asks a core to exit, which it
\* does in its own time or not at all (CoreExit), and kills a foreign process.
SigTerm(p) == proc' = [proc EXCEPT ![p].doomed = @ \/ proc[p].kind = "foreign"]

\* Mutant of SigKill: SIGTERM a second time.
SigKillAsTerm(p) == proc' = [proc EXCEPT ![p].doomed = @ \/ proc[p].kind = "foreign"]

\* Nothing survives it, but a core may linger in the kernel.
SigKill(p) == proc' = [proc EXCEPT ![p].doomed = @ \/ (proc[p].kind # "free" /\ proc[p].alive)]

-----------------------------------------------------------------------------
(* Control *)

Goto(h, l) == pc' = [pc EXCEPT ![h] = l]

\* Enters a loop that polls Polls times.
Loop(h, l) == Goto(h, l) /\ tries' = [tries EXCEPT ![h] = Polls]

\* The command returns: FileLock is released, its locals are gone.
Leave(h, l, r) ==
    /\ pc' = [pc EXCEPT ![h] = l]
    /\ rs' = [rs EXCEPT ![h] = NoState]
    /\ plan' = [plan EXCEPT ![h] = NoPlan]
    /\ site' = [site EXCEPT ![h] = "none"]
    /\ tries' = [tries EXCEPT ![h] = 0]
    /\ lock' = NoHost
    /\ reply' = r

Finish(h, r) == Leave(h, "idle", r)
Fail(h) == Finish(h, "error")

\* Calls terminateCore(rs[h]) from call site s.
Terminate(h, s) ==
    /\ Goto(h, "term.check")
    /\ site' = [site EXCEPT ![h] = s]

\* Calls awaitTunRemoval from call site s.
Await(h, s) ==
    /\ Loop(h, "await")
    /\ site' = [site EXCEPT ![h] = s]

\* terminateCore returned success: the next statement of each caller.
Terminated(h) ==
    \/ /\ site[h] = "previous"
       /\ Goto(h, "start.clear")
       /\ UNCHANGED <<rs, plan, site, tries, lock, reply>>
    \/ /\ site[h] = "saved"
       /\ Goto(h, "start.undo")
       /\ UNCHANGED <<rs, plan, site, tries, lock, reply>>
    \/ /\ site[h] = "retry"
       /\ Goto(h, "start.retry")
       /\ UNCHANGED <<rs, plan, site, tries, lock, reply>>
    \/ /\ site[h] \in {"provisional", "stop"}
       /\ Await(h, site[h])
       /\ UNCHANGED <<rs, plan, lock, reply>>

\* Mutant of NextAttempt: the configuration is written before the loop, once.
NextAttemptSameFile(h) ==
    \/ /\ plan[h].auto
       /\ Goto(h, "start.spawn")
       /\ plan' = [plan EXCEPT ![h].auto = FALSE]
       /\ rs' = [rs EXCEPT ![h] = NoState]
       /\ site' = [site EXCEPT ![h] = "none"]
       /\ UNCHANGED <<tries, lock, reply>>
    \/ /\ ~plan[h].auto
       /\ Fail(h)

\* The `for (auto_redirect : {true, false})` loop: the second attempt, or the
\* error of the last one.
NextAttempt(h) ==
    \/ /\ plan[h].auto
       /\ Goto(h, "start.probe")
       /\ plan' = [plan EXCEPT ![h].auto = FALSE]
       /\ rs' = [rs EXCEPT ![h] = NoState]
       /\ site' = [site EXCEPT ![h] = "none"]
       /\ UNCHANGED <<tries, lock, reply>>
    \/ /\ ~plan[h].auto
       /\ Fail(h)

-----------------------------------------------------------------------------
(* CommandController::execute: take the flock, run the command *)

Entry == [on |-> "start.load", off |-> "stop.load", set |-> "set.save"]

Begin(h, c) ==
    /\ pc[h] = "idle"
    /\ lock = NoHost
    /\ lock' = h
    /\ Goto(h, Entry[c])
    /\ reply' = "none"
    /\ UNCHANGED <<rs, plan, site, tries, fileVars, proc, tun, seen>>

SetSetting(h) ==
    /\ pc[h] = "set.save"
    /\ \/ \E s \in Settings : setting' = s /\ Finish(h, "set")
       \/ UNCHANGED setting /\ Fail(h)
    /\ UNCHANGED <<stateFile, coreConfig, proc, tun, seen>>

-----------------------------------------------------------------------------
(* ProxyManager::start *)

\* Loads the previous record and looks at the process it names.
StartLoad(h) ==
    /\ pc[h] = "start.load"
    /\ \/ /\ RecordRuns(h) /\ stateFile.phase = "running"
          /\ Finish(h, "on")
       \/ /\ RecordRuns(h) /\ stateFile.phase = "starting"
          /\ rs' = [rs EXCEPT ![h] = stateFile]
          /\ Terminate(h, "previous")
          /\ UNCHANGED <<plan, tries, lock, reply>>
       \/ /\ ~RecordRuns(h)
          /\ Goto(h, "start.clear")
          /\ UNCHANGED <<rs, plan, site, tries, lock, reply>>
    /\ UNCHANGED <<fileVars, proc, tun, seen>>

\* Clears the record; only a core that was stopped here is waited for.
StartClear(h) ==
    /\ pc[h] = "start.clear"
    /\ \/ /\ stateFile' = NoState
          /\ \/ site[h] = "previous" /\ Await(h, "previous") /\ UNCHANGED <<rs, plan, lock, reply>>
             \/ site[h] # "previous" /\ Goto(h, "start.prepare")
                                     /\ UNCHANGED <<rs, plan, site, tries, lock, reply>>
       \/ UNCHANGED stateFile /\ Fail(h)
    /\ UNCHANGED <<coreConfig, setting, proc, tun, seen>>

\* ensureTunDevice, ConfigManager::load, resolveAndProbeUpstream,
\* collectBypassPolicy, ensureCore, ensureDirectory: all succeed or one fails.
StartPrepare(h) ==
    /\ pc[h] = "start.prepare"
    /\ \/ /\ plan' = [plan EXCEPT ![h] = [auto |-> TRUE, upstream |-> setting]]
          /\ rs' = [rs EXCEPT ![h] = NoState]
          /\ site' = [site EXCEPT ![h] = "none"]
          /\ Goto(h, "start.probe")
          /\ UNCHANGED <<tries, lock, reply>>
       \/ Fail(h)
    /\ UNCHANGED <<fileVars, proc, tun, seen>>

\* Mutant of StartProbe: an interface left by a dead core is not looked for.
StartProbeSkipped(h) ==
    /\ pc[h] = "start.probe"
    /\ Goto(h, "start.configure")
    /\ UNCHANGED <<rs, plan, site, tries, lock, reply, fileVars, proc, tun, seen>>

\* An interface of our name that exists before the attempt is not ours.
StartProbe(h) ==
    /\ pc[h] = "start.probe"
    /\ \/ tun # NoTun /\ Fail(h)
       \/ tun = NoTun /\ Goto(h, "start.configure")
                      /\ UNCHANGED <<rs, plan, site, tries, lock, reply>>
    /\ UNCHANGED <<fileVars, proc, tun, seen>>

\* Builds and writes the core's configuration and runs `sing-box check` on it.
StartConfigure(h) ==
    /\ pc[h] = "start.configure"
    /\ \/ /\ coreConfig' = plan[h]
          /\ \/ Goto(h, "start.spawn") /\ UNCHANGED <<rs, plan, site, tries, lock, reply>>
             \/ Fail(h)
       \/ UNCHANGED coreConfig /\ Fail(h)
    /\ UNCHANGED <<stateFile, setting, proc, tun, seen>>

\* spawnCore.  A child that does not complete the exec handshake is killed and
\* reaped inside spawnCore and leaves nothing behind.
StartSpawn(h) ==
    /\ pc[h] = "start.spawn"
    /\ \/ \E p \in Pids :
            /\ proc[p].kind = "free" /\ proc[p].gen < MaxGen
            /\ proc' = [proc EXCEPT ![p] =
                  [kind |-> "core", gen |-> @.gen + 1, alive |-> TRUE, parent |-> h,
                   cgroup |-> h, doomed |-> FALSE, cfg |-> NoPlan]]
            /\ rs' = [rs EXCEPT ![h] = [pid |-> p, gen |-> proc[p].gen + 1,
                                        phase |-> "starting", cfg |-> plan[h]]]
            /\ Goto(h, "start.ticks")
            /\ UNCHANGED <<plan, site, tries, lock, reply>>
       \/ NextAttempt(h) /\ UNCHANGED proc
    /\ UNCHANGED <<fileVars, tun, seen>>

\* processStartTicks.  It is readable as long as the child is not reaped; when it
\* cannot be read the child is killed without a record.
StartTicks(h) ==
    /\ pc[h] = "start.ticks"
    /\ \/ Goto(h, "start.provisional") /\ UNCHANGED proc
       \/ SigKill(rs[h].pid) /\ Goto(h, "start.reap")
    /\ UNCHANGED <<rs, plan, site, tries, lock, reply, fileVars, tun, seen>>

\* The blocking waitpid after that kill.
StartReap(h) ==
    /\ pc[h] = "start.reap"
    /\ CanReap(h, rs[h].pid)
    /\ Reap(rs[h].pid)
    /\ Fail(h)
    /\ UNCHANGED <<fileVars, tun, seen>>

\* Saves the "starting" record.
StartProvisional(h) ==
    /\ pc[h] = "start.provisional"
    /\ \/ /\ stateFile' = rs[h]
          /\ Loop(h, "wait.reap")
          /\ UNCHANGED <<rs, plan, site, lock, reply>>
       \/ /\ Terminate(h, "provisional")
          /\ UNCHANGED <<stateFile, rs, plan, tries, lock, reply>>
    /\ UNCHANGED <<coreConfig, setting, proc, tun, seen>>

\* Mutant of WaitReap: waitForTun goes on after it has reaped the child.
WaitReapGoesOn(h) ==
    /\ pc[h] = "wait.reap"
    /\ \/ CanReap(h, rs[h].pid) /\ Reap(rs[h].pid)
       \/ ~CanReap(h, rs[h].pid) /\ UNCHANGED proc
    /\ Goto(h, "wait.tun")
    /\ UNCHANGED <<rs, plan, site, tries, lock, reply, fileVars, tun, seen>>

\* waitForTun, first half of a poll: waitpid.
WaitReap(h) ==
    /\ pc[h] = "wait.reap"
    /\ \/ /\ CanReap(h, rs[h].pid)
          /\ Reap(rs[h].pid)
          /\ Goto(h, "start.retry")
       \/ /\ ~CanReap(h, rs[h].pid)
          /\ UNCHANGED proc
          /\ Goto(h, "wait.tun")
    /\ UNCHANGED <<rs, plan, site, tries, lock, reply, fileVars, tun, seen>>

\* waitForTun, second half: if_nametoindex, then sleep or time out.
WaitTun(h) ==
    /\ pc[h] = "wait.tun"
    /\ \/ /\ tun # NoTun
          /\ Goto(h, "start.running")
          /\ UNCHANGED <<site, tries>>
       \/ /\ tun = NoTun /\ tries[h] > 1
          /\ Goto(h, "wait.reap")
          /\ tries' = [tries EXCEPT ![h] = @ - 1]
          /\ UNCHANGED site
       \/ /\ tun = NoTun /\ tries[h] <= 1
          /\ Terminate(h, "retry")
          /\ UNCHANGED tries
    /\ UNCHANGED <<rs, plan, lock, reply, fileVars, proc, tun, seen>>

\* Saves the "running" record; a failure takes the core down again.
StartRunning(h) ==
    /\ pc[h] = "start.running"
    /\ \/ /\ stateFile' = [rs[h] EXCEPT !.phase = "running"]
          /\ Finish(h, "on")
       \/ /\ Terminate(h, "saved")
          /\ UNCHANGED <<stateFile, rs, plan, tries, lock, reply>>
    /\ UNCHANGED <<coreConfig, setting, proc, tun, seen>>

\* (void)clear() after a failed "running" save.
StartUndo(h) ==
    /\ pc[h] = "start.undo"
    /\ \E st \in {NoState, stateFile} : stateFile' = st
    /\ Await(h, "saved")
    /\ UNCHANGED <<rs, plan, lock, reply, coreConfig, setting, proc, tun, seen>>

\* The attempt failed and its core is gone: clear, wait, try the next mode.
StartRetry(h) ==
    /\ pc[h] = "start.retry"
    /\ \/ /\ stateFile' = NoState
          /\ Await(h, "retry")
          /\ UNCHANGED <<rs, plan, lock, reply>>
       \/ UNCHANGED stateFile /\ Fail(h)
    /\ UNCHANGED <<coreConfig, setting, proc, tun, seen>>

-----------------------------------------------------------------------------
(* ProxyManager::stop *)

StopLoad(h) ==
    /\ pc[h] = "stop.load"
    /\ \/ /\ RecordRuns(h)
          /\ rs' = [rs EXCEPT ![h] = stateFile]
          /\ Terminate(h, "stop")
          /\ UNCHANGED <<plan, tries, lock, reply>>
       \/ /\ stateFile # NoState /\ ~RecordRuns(h)
          /\ rs' = [rs EXCEPT ![h] = stateFile]
          /\ Goto(h, "stop.clear")
          /\ UNCHANGED <<plan, site, tries, lock, reply>>
       \/ /\ stateFile = NoState
          /\ Goto(h, "stop.clear")
          /\ UNCHANGED <<rs, plan, site, tries, lock, reply>>
    /\ UNCHANGED <<fileVars, proc, tun, seen>>

\* clear(), then the core's configuration is removed unless there was no record;
\* that removal may fail unnoticed.
StopClear(h) ==
    /\ pc[h] = "stop.clear"
    /\ \/ /\ stateFile' = NoState
          /\ coreConfig' \in IF rs[h] = NoState THEN {coreConfig} ELSE {NoPlan, coreConfig}
          /\ Finish(h, "off")
       \/ UNCHANGED <<stateFile, coreConfig>> /\ Fail(h)
    /\ UNCHANGED <<setting, proc, tun, seen>>

-----------------------------------------------------------------------------
(* ProxyManager::terminateCore and awaitTunRemoval *)

TermCheck(h) ==
    /\ pc[h] = "term.check"
    /\ \/ /\ Managed(h, rs[h])
          /\ Goto(h, "term.signal")
          /\ UNCHANGED <<rs, plan, site, tries, lock, reply>>
       \/ ~Managed(h, rs[h]) /\ Terminated(h)
    /\ UNCHANGED <<fileVars, proc, tun, seen>>

TermSignal(h) ==
    /\ pc[h] = "term.signal"
    /\ SigTerm(rs[h].pid)
    /\ Loop(h, "term.reap")
    /\ UNCHANGED <<rs, plan, site, lock, reply, fileVars, tun, seen>>

\* One poll of either loop, first half: waitpid.
TermReap(h) ==
    /\ pc[h] \in {"term.reap", "kill.reap"}
    /\ \/ /\ CanReap(h, rs[h].pid)
          /\ Reap(rs[h].pid)
          /\ Terminated(h)
       \/ /\ ~CanReap(h, rs[h].pid)
          /\ Goto(h, IF pc[h] = "term.reap" THEN "term.poll" ELSE "kill.poll")
          /\ UNCHANGED <<rs, plan, site, tries, lock, reply, proc>>
    /\ UNCHANGED <<fileVars, tun, seen>>

\* One poll, second half: isManagedProcessRunning, then sleep or give up.
TermPoll(h) ==
    /\ pc[h] \in {"term.poll", "kill.poll"}
    /\ \/ ~Managed(h, rs[h]) /\ Terminated(h)
       \/ /\ Managed(h, rs[h]) /\ tries[h] > 1
          /\ Goto(h, IF pc[h] = "term.poll" THEN "term.reap" ELSE "kill.reap")
          /\ tries' = [tries EXCEPT ![h] = @ - 1]
          /\ UNCHANGED <<rs, plan, site, lock, reply>>
       \/ /\ Managed(h, rs[h]) /\ tries[h] <= 1 /\ pc[h] = "term.poll"
          /\ Goto(h, "kill.check")
          /\ UNCHANGED <<rs, plan, site, tries, lock, reply>>
       \/ /\ Managed(h, rs[h]) /\ tries[h] <= 1 /\ pc[h] = "kill.poll"
          /\ Fail(h)
    /\ UNCHANGED <<fileVars, proc, tun, seen>>

\* Mutant of KillCheck: SIGKILL without looking again.
KillUnchecked(h) ==
    /\ pc[h] = "kill.check"
    /\ Goto(h, "kill.signal")
    /\ UNCHANGED <<rs, plan, site, tries, lock, reply, fileVars, proc, tun, seen>>

\* before_kill
KillCheck(h) ==
    /\ pc[h] = "kill.check"
    /\ \/ /\ Managed(h, rs[h])
          /\ Goto(h, "kill.signal")
          /\ UNCHANGED <<rs, plan, site, tries, lock, reply>>
       \/ ~Managed(h, rs[h]) /\ Terminated(h)
    /\ UNCHANGED <<fileVars, proc, tun, seen>>

KillSignal(h) ==
    /\ pc[h] = "kill.signal"
    /\ SigKill(rs[h].pid)
    /\ Loop(h, "kill.reap")
    /\ UNCHANGED <<rs, plan, site, lock, reply, fileVars, tun, seen>>

\* awaitTunRemoval, then the statement after it at each call site.
AwaitTunRemoval(h) ==
    /\ pc[h] = "await"
    /\ \/ /\ tun # NoTun /\ tries[h] > 0
          /\ tries' = [tries EXCEPT ![h] = @ - 1]
          /\ UNCHANGED <<pc, rs, plan, site, lock, reply>>
       \/ tun # NoTun /\ tries[h] = 0 /\ Fail(h)
       \/ /\ tun = NoTun /\ site[h] \in {"previous", "stop"}
          /\ Goto(h, IF site[h] = "stop" THEN "stop.clear" ELSE "start.prepare")
          /\ UNCHANGED <<rs, plan, site, tries, lock, reply>>
       \/ tun = NoTun /\ site[h] = "retry" /\ NextAttempt(h)
       \/ tun = NoTun /\ site[h] \in {"provisional", "saved"} /\ Fail(h)
    /\ UNCHANGED <<fileVars, proc, tun, seen>>

-----------------------------------------------------------------------------
(* ProxyManager::status and the bypass query: two reads, no lock *)

ReaderLoads(r) ==
    /\ seen[r] = NoState /\ stateFile # NoState
    /\ seen' = [seen EXCEPT ![r] = stateFile]
    /\ UNCHANGED <<hostVars, fileVars, proc, tun>>

\* What the reader with a loaded record answers if it looks at the process now.
ReportsOn(r) ==
    /\ seen[r] # NoState
    /\ Managed(r, seen[r])
    /\ seen[r].phase = "running"

ReaderReports(r) ==
    /\ seen[r] # NoState
    /\ seen' = [seen EXCEPT ![r] = NoState]
    /\ UNCHANGED <<hostVars, fileVars, proc, tun>>

-----------------------------------------------------------------------------
(* The operating system *)

\* The core h has forked is known to nobody else yet.
Untracked(h) ==
    \/ pc[h] \in {"start.ticks", "start.provisional"}
    \/ pc[h] \in TermLabels /\ site[h] = "provisional"

\* A host dies, or a direct command exits: the kernel drops its flock and hands
\* its children to init; systemd kills what a supervised host leaves behind.
HostExit(h) ==
    /\ pc[h] # "down"
    /\ Untracked(h) => h \in Supervised \/ CrashUntracked
    /\ proc' = [p \in Pids |->
          [proc[p] EXCEPT
             !.parent = IF @ = h THEN Orphan ELSE @,
             !.doomed = @ \/ (h \in Supervised /\ proc[p].cgroup = h /\ proc[p].alive)]]
    /\ pc' = [pc EXCEPT ![h] = IF h \in Supervised THEN "down" ELSE "idle"]
    /\ rs' = [rs EXCEPT ![h] = NoState]
    /\ plan' = [plan EXCEPT ![h] = NoPlan]
    /\ site' = [site EXCEPT ![h] = "none"]
    /\ tries' = [tries EXCEPT ![h] = 0]
    /\ lock' = IF lock = h THEN NoHost ELSE lock
    /\ reply' = IF lock = h THEN "none" ELSE reply
    /\ UNCHANGED <<fileVars, tun, seen>>

\* systemd starts the service again once its control group is empty.
Restart(h) ==
    /\ pc[h] = "down"
    /\ \A p \in Pids : proc[p].cgroup = h => ~proc[p].alive
    /\ Goto(h, "idle")
    /\ UNCHANGED <<rs, plan, site, tries, lock, reply, fileVars, proc, tun, seen>>

InitReaps(p) ==
    /\ proc[p].kind = "core" /\ ~proc[p].alive /\ proc[p].parent = Orphan
    /\ Reap(p)
    /\ UNCHANGED <<hostVars, fileVars, tun, seen>>

\* The core exits: it obeys SIGTERM, it crashes, or SIGKILL takes effect.
CoreExit(p) ==
    /\ proc[p].kind = "core" /\ proc[p].alive
    /\ proc' = [proc EXCEPT ![p] = [@ EXCEPT !.alive = FALSE, !.doomed = FALSE, !.cfg = NoPlan]]
    /\ UNCHANGED <<hostVars, fileVars, tun, seen>>

CoreDies(p) == proc[p].doomed /\ CoreExit(p)

\* `sing-box run -c <file>` reads its configuration after the exec.
CoreLoads(p) ==
    /\ proc[p].kind = "core" /\ proc[p].alive /\ ~proc[p].doomed
    /\ proc[p].cfg = NoPlan /\ coreConfig # NoPlan
    /\ proc' = [proc EXCEPT ![p].cfg = coreConfig]
    /\ UNCHANGED <<hostVars, fileVars, tun, seen>>

CoreTun(p) ==
    /\ proc[p].kind = "core" /\ proc[p].alive /\ ~proc[p].doomed
    /\ proc[p].cfg # NoPlan
    /\ tun = NoTun
    /\ tun' = [pid |-> p, gen |-> proc[p].gen]
    /\ UNCHANGED <<hostVars, fileVars, proc, seen>>

\* The kernel removes the interface of a dead core, not at once.
TunVanishes ==
    /\ tun \notin {NoTun, External}
    /\ ~IsLive(tun)
    /\ tun' = NoTun
    /\ UNCHANGED <<hostVars, fileVars, proc, seen>>

ExternalTunChanges ==
    /\ ExternalTun
    /\ \/ tun = NoTun /\ tun' = External
       \/ tun = External /\ tun' = NoTun
    /\ UNCHANGED <<hostVars, fileVars, proc, seen>>

\* Some h has checked the process p and is about to signal it.
AboutToSignal(p) ==
    \E h \in Hosts : pc[h] \in {"term.signal", "kill.signal"} /\ rs[h].pid = p

ForeignStarts(p) ==
    /\ proc[p].kind = "free" /\ proc[p].gen < MaxGen
    /\ AboutToSignal(p) => FastPidReuse
    /\ proc' = [proc EXCEPT ![p] =
          [FreeAt(@.gen + 1) EXCEPT !.kind = "foreign", !.alive = TRUE]]
    /\ UNCHANGED <<hostVars, fileVars, tun, seen>>

ForeignExits(p) ==
    /\ proc[p].kind = "foreign"
    /\ Reap(p)
    /\ UNCHANGED <<hostVars, fileVars, tun, seen>>

-----------------------------------------------------------------------------
Init ==
    /\ pc = [h \in Hosts |-> "idle"]
    /\ rs = [h \in Hosts |-> NoState]
    /\ plan = [h \in Hosts |-> NoPlan]
    /\ site = [h \in Hosts |-> "none"]
    /\ tries = [h \in Hosts |-> 0]
    /\ lock = NoHost
    /\ reply = "none"
    /\ stateFile = NoState
    /\ coreConfig = NoPlan
    /\ setting \in Settings
    /\ proc = [p \in Pids |-> FreeAt(0)]
    /\ tun = NoTun
    /\ seen = [r \in Readers |-> NoState]

StartStep(h) ==
    \/ StartLoad(h) \/ StartClear(h) \/ StartPrepare(h) \/ StartProbe(h)
    \/ StartConfigure(h) \/ StartSpawn(h) \/ StartTicks(h) \/ StartReap(h)
    \/ StartProvisional(h) \/ WaitReap(h) \/ WaitTun(h) \/ StartRunning(h)
    \/ StartUndo(h) \/ StartRetry(h)

TermStep(h) ==
    \/ TermCheck(h) \/ TermSignal(h) \/ TermReap(h) \/ TermPoll(h)
    \/ KillCheck(h) \/ KillSignal(h) \/ AwaitTunRemoval(h)

\* The code of h takes a step inside a command.
HostStep(h) ==
    StartStep(h) \/ StopLoad(h) \/ StopClear(h) \/ TermStep(h) \/ SetSetting(h)

Command(h) == \E c \in {"on", "off", "set"} : Begin(h, c)

OsStep ==
    \/ \E h \in Hosts : HostExit(h) \/ Restart(h)
    \/ \E p \in Pids : \/ InitReaps(p) \/ CoreExit(p) \/ CoreLoads(p) \/ CoreTun(p)
                       \/ ForeignStarts(p) \/ ForeignExits(p)
    \/ TunVanishes
    \/ ExternalTunChanges

Next ==
    \/ \E h \in Hosts : Command(h) \/ HostStep(h)
    \/ \E r \in Readers : ReaderLoads(r) \/ ReaderReports(r)
    \/ OsStep

\* The scheduler runs a command that can go on, and SIGKILL ends a process.
Fairness ==
    /\ \A h \in Hosts : WF_vars(HostStep(h))
    /\ \A p \in Pids : WF_vars(CoreDies(p))

Spec == Init /\ [][Next]_vars
FairSpec == Spec /\ Fairness

-----------------------------------------------------------------------------
(* Properties *)

\* Every variable holds what its C++ counterpart can hold.
TypeOK ==
    /\ pc \in [Hosts -> Labels]
    /\ rs \in [Hosts -> RuntimeStates \cup {NoState}]
    /\ plan \in [Hosts -> Plans \cup {NoPlan}]
    /\ site \in [Hosts -> Sites]
    /\ tries \in [Hosts -> 0..Polls]
    /\ lock \in Hosts \cup {NoHost}
    /\ reply \in Replies
    /\ stateFile \in RuntimeStates \cup {NoState}
    /\ coreConfig \in Plans \cup {NoPlan}
    /\ setting \in Settings
    /\ proc \in [Pids -> Processes]
    /\ tun \in Tuns \cup {NoTun, External}
    /\ seen \in [Readers -> RuntimeStates \cup {NoState}]

\* A core that executes code: nothing has condemned it yet.
Running(p) == proc[p].kind = "core" /\ proc[p].alive /\ ~proc[p].doomed

Names(st, p) == st # NoState /\ st.pid = p /\ st.gen = proc[p].gen

\* A running core is never lost: the state file names it, or the host that has
\* just forked it still holds it (start: fork, ticks, provisional save).
NoLostCore ==
    \A p \in Pids : Running(p) =>
        \/ Names(stateFile, p)
        \/ \E h \in Hosts : Untracked(h) /\ Names(rs[h], p)

\* Two cores never run at a time, whatever start, retry, crash and restart did.
OnlyOneCore == \A p, q \in Pids : Running(p) /\ Running(q) => p = q

\* The record describes the configuration the core really read: routing mode and
\* upstream in state_file belong to the process it names (start, status).
StateMatchesCore ==
    (stateFile # NoState /\ IsLive(stateFile)) =>
        proc[stateFile.pid].cfg \in {NoPlan, stateFile.cfg}

\* An unlocked status that answers ON answers it about the record that is in the
\* state file now, although it loaded the record earlier.
StatusFresh == \A r \in Readers : ReportsOn(r) => stateFile = seen[r]

\* waitForTun takes an interface for ready only if the core it waits for made it.
ReadyIsOurTun ==
    \A h \in Hosts : pc[h] = "wait.tun" /\ tun # NoTun =>
        tun = [pid |-> rs[h].pid, gen |-> rs[h].gen]

\* "The child is still owned by this process, so it cannot be replaced by another
\* process before it is reaped": while start or its clean-up refers to the child
\* by pid, that pid is the child or its zombie.
OwnChildPinned ==
    \A h \in Hosts :
        (\/ pc[h] \in {"start.ticks", "start.reap", "start.provisional", "wait.reap",
                       "wait.tun", "start.running"}
         \/ pc[h] \in TermLabels /\ site[h] \in {"provisional", "saved", "retry"})
        => IsSame(rs[h]) /\ proc[rs[h].pid].parent = h

\* terminateCore never signals a process that is not a core.
SignalsSpareForeign == \A p \in Pids : proc[p].kind = "foreign" => ~proc[p].doomed

\* `off` answers OFF only when the record is gone and no core runs.
OffMeansStopped ==
    [][ reply' = "off" /\ reply # "off" =>
          /\ stateFile' = NoState
          /\ \A p \in Pids : ~Running(p)' ]_vars

\* An `on` or `off` that fails leaves no core running: each error path of start
\* has taken down what the attempt had brought up.
ErrorLeavesNoCore ==
    [][ \A h \in Hosts :
          (/\ pc[h] \in OpLabels \ {"set.save"} /\ pc'[h] = "idle"
           /\ reply' = "error" /\ reply # "error")
          => \A p \in Pids : ~Running(p)' ]_vars

\* The process whose record is in the state file, as long as it lives, carries the
\* service; ProxyManager implements ProxyService under this mapping.
Alive == stateFile # NoState /\ IsLive(stateFile)
CoreId == [pid |-> stateFile.pid, gen |-> stateFile.gen]

Service == INSTANCE ProxyService WITH
    Cores <- Tuns, NoCore <- NoTun,
    mode <- IF ~Alive THEN "off" ELSE IF stateFile.phase = "running" THEN "on" ELSE "starting",
    core <- IF Alive THEN CoreId ELSE NoTun,
    plan <- IF Alive THEN stateFile.cfg ELSE NoPlan,
    up   <- Alive /\ tun = CoreId

\* start, stop, crashes and the core's own life only ever move the service along
\* its life cycle: off, starting, on, off.
ImplementsService == Service!Spec

\* Every command that got the lock returns, whatever the core and the TUN do:
\* each wait loop is bounded and the one blocking waitpid follows a SIGKILL.
OperationTerminates == \A h \in Hosts : (lock = h) ~> (lock # h)
=============================================================================
