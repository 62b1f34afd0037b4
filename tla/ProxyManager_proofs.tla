------------------------ MODULE ProxyManager_proofs ------------------------
(***************************************************************************)
(* Proofs about ProxyManager.  The inductive invariant of ProxyManagerInv  *)
(* is shown in three layers: the types, what holds in every environment    *)
(* (ControlInv), and what holds when no core is lost track of (IInv).      *)
(***************************************************************************)
EXTENDS ProxyManagerInv, TLAPS

-----------------------------------------------------------------------------
(* Types, in the groups the actions change *)

HostTypes ==
    /\ pc \in [Hosts -> Labels]
    /\ rs \in [Hosts -> RuntimeStates \cup {NoState}]
    /\ plan \in [Hosts -> Plans \cup {NoPlan}]
    /\ site \in [Hosts -> Sites]
    /\ tries \in [Hosts -> 0..Polls]
    /\ lock \in Hosts \cup {NoHost}
    /\ reply \in Replies

FileTypes ==
    /\ stateFile \in RuntimeStates \cup {NoState}
    /\ coreConfig \in Plans \cup {NoPlan}
    /\ setting \in Settings

ProcType == proc \in [Pids -> Processes]
TunType == tun \in Tuns \cup {NoTun, External}
SeenType == seen \in [Readers -> RuntimeStates \cup {NoState}]

\* The type invariant is the conjunction of its groups.
LEMMA TypeGroups == TypeOK <=> HostTypes /\ FileTypes /\ ProcType /\ TunType /\ SeenType
BY DEF TypeOK, HostTypes, FileTypes, ProcType, TunType, SeenType

\* The same for the next state, in the direction the step lemmas need.
LEMMA TypeGroupsNext == HostTypes' /\ FileTypes' /\ ProcType' /\ TunType' /\ SeenType' => TypeOK'
BY DEF TypeOK, HostTypes, FileTypes, ProcType, TunType, SeenType

\* The literals of the labels a step may go to are labels.
LEMMA LabelsAre ==
    /\ StartLabels \subseteq OpLabels /\ StopLabels \subseteq OpLabels
    /\ TermLabels \subseteq OpLabels /\ OpLabels \subseteq Labels
    /\ {"await", "set.save"} \subseteq OpLabels
    /\ {"idle", "down"} \subseteq Labels
    /\ "idle" \notin OpLabels /\ "down" \notin OpLabels
BY DEF Labels, OpLabels, StartLabels, StopLabels, TermLabels

\* Returning from a command (Leave) resets the locals of the host.
LEMMA FinishTypes ==
    ASSUME HostTypes, NEW h \in Hosts, NEW r \in Replies, Finish(h, r)
    PROVE  HostTypes'
BY BoundAssumption, LabelsAre DEF HostTypes, Finish, Leave, Sites

\* A jump alone keeps the types.
LEMMA GotoTypes ==
    ASSUME HostTypes, NEW h \in Hosts, NEW l \in Labels, Goto(h, l),
           UNCHANGED <<rs, plan, site, tries, lock, reply>>
    PROVE  HostTypes'
BY DEF HostTypes, Goto

\* Calling awaitTunRemoval keeps the types.
LEMMA AwaitTypes ==
    ASSUME HostTypes, NEW h \in Hosts, NEW s \in Sites, Await(h, s),
           UNCHANGED <<rs, plan, lock, reply>>
    PROVE  HostTypes'
BY BoundAssumption, LabelsAre DEF HostTypes, Await, Loop, Goto

\* Calling terminateCore keeps the types, with the record in hand or a loaded one.
LEMMA TerminateTypes ==
    ASSUME HostTypes, NEW h \in Hosts, NEW s \in Sites, Terminate(h, s),
           rs' = rs \/ \E st \in RuntimeStates : rs' = [rs EXCEPT ![h] = st],
           UNCHANGED <<plan, tries, lock, reply>>
    PROVE  HostTypes'
BY LabelsAre DEF HostTypes, Terminate, Goto, TermLabels

\* Entering a wait loop keeps the types.
LEMMA LoopTypes ==
    ASSUME HostTypes, NEW h \in Hosts, NEW l \in Labels, Loop(h, l),
           UNCHANGED <<rs, plan, site, lock, reply>>
    PROVE  HostTypes'
BY BoundAssumption DEF HostTypes, Loop, Goto

\* A poll that goes round once more keeps the types.
LEMMA PollTypes ==
    ASSUME HostTypes, NEW h \in Hosts, NEW l \in Labels, Goto(h, l), tries[h] > 0,
           tries' = [tries EXCEPT ![h] = @ - 1],
           UNCHANGED <<rs, plan, site, lock, reply>>
    PROVE  HostTypes'
BY BoundAssumption DEF HostTypes, Goto

\* Returning from terminateCore keeps the types.
LEMMA TerminatedTypes ==
    ASSUME HostTypes, NEW h \in Hosts, Terminated(h)
    PROVE  HostTypes'
<1>1. CASE site[h] \in {"previous", "saved", "retry"}
  <2>1. \E l \in {"start.clear", "start.undo", "start.retry"} : Goto(h, l)
        BY <1>1 DEF Terminated
  <2>2. UNCHANGED <<rs, plan, site, tries, lock, reply>>
        BY <1>1 DEF Terminated
  <2> QED BY <2>1, <2>2, GotoTypes, LabelsAre DEF StartLabels
<1>2. CASE site[h] \in {"provisional", "stop"}
  BY <1>2, AwaitTypes DEF Terminated, Sites
<1> QED BY <1>1, <1>2 DEF Terminated

\* The next attempt, or the end of the last one, keeps the types.
LEMMA NextAttemptTypes ==
    ASSUME HostTypes, NEW h \in Hosts, plan[h] # NoPlan, NextAttempt(h)
    PROVE  HostTypes'
<1>1. CASE plan[h].auto
  <2>1. plan[h] \in Plans BY DEF HostTypes
  <2>2. [plan[h] EXCEPT !.auto = FALSE] \in Plans BY <2>1 DEF Plans
  <2>3. plan' = [plan EXCEPT ![h] = [plan[h] EXCEPT !.auto = FALSE]]
        BY <1>1 DEF NextAttempt
  <2>4. plan' \in [Hosts -> Plans \cup {NoPlan}] BY <2>2, <2>3 DEF HostTypes
  <2> QED BY <1>1, <2>4, LabelsAre DEF NextAttempt, HostTypes, Goto, StartLabels, Sites
<1>2. CASE ~plan[h].auto
  BY <1>2, FinishTypes DEF NextAttempt, Fail, Replies
<1> QED BY <1>1, <1>2

-----------------------------------------------------------------------------
(* The process table *)

\* A reaped process leaves a free row.
LEMMA ReapType ==
    ASSUME ProcType, NEW p \in Pids, Reap(p)
    PROVE  /\ ProcType'
           /\ proc' = [proc EXCEPT ![p] = FreeAt(proc[p].gen)]
<1>1. proc' = [proc EXCEPT ![p] = FreeAt(proc[p].gen)] BY DEF Reap, ProcType
<1>2. proc[p].gen \in Nat BY DEF ProcType, Processes
<1>3. FreeAt(proc[p].gen) \in Processes BY <1>2 DEF FreeAt, Processes
<1> QED BY <1>1, <1>3 DEF ProcType

\* A signal changes nothing but the doom of its target.
LEMMA SignalType ==
    ASSUME ProcType, NEW p \in Pids, SigTerm(p) \/ SigKill(p)
    PROVE  /\ ProcType'
           /\ \A q \in Pids : proc'[q] = [proc[q] EXCEPT !.doomed = proc'[q].doomed]
           /\ \A q \in Pids : proc[q].doomed => proc'[q].doomed
<1>1. PICK d \in BOOLEAN : /\ proc' = [proc EXCEPT ![p] = [proc[p] EXCEPT !.doomed = d]]
                           /\ proc[p].doomed => d
  <2>1. proc[p].doomed \in BOOLEAN /\ proc[p].alive \in BOOLEAN BY DEF ProcType, Processes
  <2> QED BY <2>1 DEF SigTerm, SigKill
<1>2. proc[p] \in Processes BY DEF ProcType
<1>3. [proc[p] EXCEPT !.doomed = d] \in Processes BY <1>2, <1>1 DEF Processes
<1> QED BY <1>1, <1>2, <1>3 DEF ProcType, Processes

-----------------------------------------------------------------------------
(* Type correctness of each step *)

\* What the locals read at a program point are, once LocalInv holds.
LEMMA Locals ==
    ASSUME HostTypes, LocalInv, NEW h \in Hosts
    PROVE  /\ pc[h] \in UsesState => rs[h] \in RuntimeStates
           /\ pc[h] \in UsesPlan => plan[h] \in Plans
           /\ pc[h] \in TermLabels \cup {"await"} /\ site[h] = "retry" => plan[h] \in Plans
BY DEF HostTypes, LocalInv

\* Every step of start keeps the types.
LEMMA StartTypes ==
    ASSUME TypeOK, LocalInv, NEW h \in Hosts, StartStep(h)
    PROVE  TypeOK'
<1> USE TypeGroups, TypeGroupsNext, LabelsAre
<1>a. HostTypes /\ FileTypes /\ ProcType /\ TunType /\ SeenType OBVIOUS
<1>1. CASE StartLoad(h)
  <2>1. FileTypes' /\ ProcType' /\ TunType' /\ SeenType'
        BY <1>a, <1>1 DEF StartLoad, fileVars, FileTypes, ProcType, TunType, SeenType
  <2> SUFFICES HostTypes' BY <2>1
  <2>2. CASE Finish(h, "on") BY <2>2, <1>a, FinishTypes DEF Replies
  <2>3. CASE /\ rs' = [rs EXCEPT ![h] = stateFile] /\ stateFile # NoState
             /\ Terminate(h, "previous") /\ UNCHANGED <<plan, tries, lock, reply>>
        BY <2>3, <1>a, TerminateTypes DEF FileTypes, Sites
  <2>4. CASE Goto(h, "start.clear") /\ UNCHANGED <<rs, plan, site, tries, lock, reply>>
        BY <2>4, <1>a, GotoTypes DEF StartLabels
  <2> QED BY <1>1, <2>1, <2>2, <2>3, <2>4 DEF StartLoad, RecordRuns
<1>2. CASE StartClear(h)
  <2>1. FileTypes' /\ ProcType' /\ TunType' /\ SeenType'
        BY <1>a, <1>2 DEF StartClear, FileTypes, ProcType, TunType, SeenType
  <2> SUFFICES HostTypes' BY <2>1
  <2>2. CASE Await(h, "previous") /\ UNCHANGED <<rs, plan, lock, reply>>
        BY <2>2, <1>a, AwaitTypes DEF Sites
  <2>3. CASE Goto(h, "start.prepare") /\ UNCHANGED <<rs, plan, site, tries, lock, reply>>
        BY <2>3, <1>a, GotoTypes DEF StartLabels
  <2>4. CASE Fail(h) BY <2>4, <1>a, FinishTypes DEF Fail, Replies
  <2> QED BY <1>2, <2>1, <2>2, <2>3, <2>4 DEF StartClear
<1>3. CASE StartPrepare(h)
  <2>1. FileTypes' /\ ProcType' /\ TunType' /\ SeenType'
        BY <1>a, <1>3 DEF StartPrepare, fileVars, FileTypes, ProcType, TunType, SeenType
  <2> SUFFICES HostTypes' BY <2>1
  <2>2. CASE Fail(h) BY <2>1, <2>2, <1>a, FinishTypes DEF Fail, Replies
  <2>3. CASE ~Fail(h)
    <3>1. [auto |-> TRUE, upstream |-> setting] \in Plans BY <1>a DEF Plans, FileTypes
    <3>2. /\ plan' = [plan EXCEPT ![h] = [auto |-> TRUE, upstream |-> setting]]
          /\ rs' = [rs EXCEPT ![h] = NoState] /\ site' = [site EXCEPT ![h] = "none"]
          /\ Goto(h, "start.probe") /\ UNCHANGED <<tries, lock, reply>>
          BY <1>3, <2>3 DEF StartPrepare
    <3> QED BY <3>1, <3>2, <1>a DEF HostTypes, Goto, StartLabels, Sites
  <2> QED BY <2>2, <2>3
<1>4. CASE StartProbe(h)
  <2>1. FileTypes' /\ ProcType' /\ TunType' /\ SeenType'
        BY <1>a, <1>4 DEF StartProbe, fileVars, FileTypes, ProcType, TunType, SeenType
  <2> SUFFICES HostTypes' BY <2>1
  <2>2. CASE Goto(h, "start.configure") /\ UNCHANGED <<rs, plan, site, tries, lock, reply>>
        BY <2>2, <1>a, GotoTypes DEF StartLabels
  <2>3. CASE Fail(h) BY <2>3, <1>a, FinishTypes DEF Fail, Replies
  <2> QED BY <1>4, <2>1, <2>2, <2>3 DEF StartProbe
<1>5. CASE StartConfigure(h)
  <2>1. plan[h] \in Plans BY <1>5, <1>a, Locals DEF StartConfigure, UsesPlan
  <2>2. FileTypes' /\ ProcType' /\ TunType' /\ SeenType'
        BY <1>a, <1>5, <2>1 DEF StartConfigure, FileTypes, ProcType, TunType, SeenType
  <2> SUFFICES HostTypes' BY <2>2
  <2>3. CASE Goto(h, "start.spawn") /\ UNCHANGED <<rs, plan, site, tries, lock, reply>>
        BY <2>3, <1>a, GotoTypes DEF StartLabels
  <2>4. CASE Fail(h) BY <2>4, <1>a, FinishTypes DEF Fail, Replies
  <2> QED BY <1>5, <2>2, <2>3, <2>4 DEF StartConfigure
<1>6. CASE StartSpawn(h)
  <2>1. plan[h] \in Plans BY <1>6, <1>a, Locals DEF StartSpawn, UsesPlan
  <2>2. FileTypes' /\ TunType' /\ SeenType'
        BY <1>a, <1>6 DEF StartSpawn, fileVars, FileTypes, TunType, SeenType
  <2>3. CASE NextAttempt(h) /\ UNCHANGED proc
        BY <2>1, <2>2, <2>3, <1>a, NextAttemptTypes, NullAssumption DEF ProcType
  <2>4. ASSUME NEW p \in Pids, proc[p].kind = "free",
               proc' = [proc EXCEPT ![p] =
                  [kind |-> "core", gen |-> proc[p].gen + 1, alive |-> TRUE, parent |-> h,
                   cgroup |-> h, doomed |-> FALSE, cfg |-> NoPlan]],
               rs' = [rs EXCEPT ![h] = [pid |-> p, gen |-> proc[p].gen + 1,
                                        phase |-> "starting", cfg |-> plan[h]]],
               Goto(h, "start.ticks"), UNCHANGED <<plan, site, tries, lock, reply>>
        PROVE  TypeOK'
    <3>1. proc[p].gen + 1 \in Nat BY <1>a DEF ProcType, Processes
    <3>2. ProcType' BY <2>4, <3>1, <1>a DEF ProcType, Processes
    <3>3. HostTypes' BY <2>4, <3>1, <2>1, <1>a DEF HostTypes, RuntimeStates, Goto, StartLabels
    <3> QED BY <3>2, <3>3, <2>2
  <2>5. \/ NextAttempt(h) /\ UNCHANGED proc
        \/ \E p \in Pids :
             /\ proc[p].kind = "free"
             /\ proc' = [proc EXCEPT ![p] =
                  [kind |-> "core", gen |-> proc[p].gen + 1, alive |-> TRUE, parent |-> h,
                   cgroup |-> h, doomed |-> FALSE, cfg |-> NoPlan]]
             /\ rs' = [rs EXCEPT ![h] = [pid |-> p, gen |-> proc[p].gen + 1,
                                        phase |-> "starting", cfg |-> plan[h]]]
             /\ Goto(h, "start.ticks") /\ UNCHANGED <<plan, site, tries, lock, reply>>
        BY <1>6, <1>a DEF StartSpawn, ProcType
  <2> QED BY <2>3, <2>4, <2>5
<1>7. CASE StartTicks(h)
  <2>1. rs[h] \in RuntimeStates BY <1>7, <1>a, Locals DEF StartTicks, UsesState
  <2>2. FileTypes' /\ TunType' /\ SeenType'
        BY <1>a, <1>7 DEF StartTicks, fileVars, FileTypes, TunType, SeenType
  <2>3. ProcType' BY <1>7, <2>1, <1>a, SignalType DEF StartTicks, ProcType, RuntimeStates
  <2>4. HostTypes' BY <1>7, <1>a, GotoTypes DEF StartTicks, StartLabels
  <2> QED BY <2>2, <2>3, <2>4
<1>8. CASE StartReap(h)
  <2>1. rs[h] \in RuntimeStates BY <1>8, <1>a, Locals DEF StartReap, UsesState
  <2>2. FileTypes' /\ TunType' /\ SeenType'
        BY <1>a, <1>8 DEF StartReap, fileVars, FileTypes, TunType, SeenType
  <2>3. ProcType' BY <1>8, <2>1, <1>a, ReapType DEF StartReap, RuntimeStates
  <2>4. HostTypes' BY <1>8, <1>a, FinishTypes DEF StartReap, Fail, Replies
  <2> QED BY <2>2, <2>3, <2>4
<1>9. CASE StartProvisional(h)
  <2>1. rs[h] \in RuntimeStates BY <1>9, <1>a, Locals DEF StartProvisional, UsesState
  <2>2. FileTypes' /\ ProcType' /\ TunType' /\ SeenType'
        BY <1>a, <1>9, <2>1 DEF StartProvisional, FileTypes, ProcType, TunType, SeenType
  <2> SUFFICES HostTypes' BY <2>2
  <2>3. CASE Loop(h, "wait.reap") /\ UNCHANGED <<rs, plan, site, lock, reply>>
        BY <2>3, <1>a, LoopTypes DEF StartLabels
  <2>4. CASE Terminate(h, "provisional") /\ UNCHANGED <<rs, plan, tries, lock, reply>>
        BY <2>4, <1>a, TerminateTypes DEF Sites
  <2> QED BY <1>9, <2>2, <2>3, <2>4 DEF StartProvisional
<1>10. CASE WaitReap(h)
  <2>1. rs[h] \in RuntimeStates BY <1>10, <1>a, Locals DEF WaitReap, UsesState
  <2>2. FileTypes' /\ TunType' /\ SeenType'
        BY <1>a, <1>10 DEF WaitReap, fileVars, FileTypes, TunType, SeenType
  <2>3. ProcType' BY <1>10, <2>1, <1>a, ReapType DEF WaitReap, RuntimeStates, ProcType
  <2>4. HostTypes' BY <1>10, <1>a, GotoTypes DEF WaitReap, StartLabels
  <2> QED BY <2>2, <2>3, <2>4
<1>11. CASE WaitTun(h)
  <2>1. FileTypes' /\ ProcType' /\ TunType' /\ SeenType'
        BY <1>a, <1>11 DEF WaitTun, fileVars, FileTypes, ProcType, TunType, SeenType
  <2> SUFFICES HostTypes' BY <2>1
  <2>2. CASE Goto(h, "start.running") /\ UNCHANGED <<rs, plan, site, tries, lock, reply>>
        BY <2>2, <1>a, GotoTypes DEF StartLabels
  <2>3. CASE /\ Goto(h, "wait.reap") /\ tries[h] > 1 /\ tries' = [tries EXCEPT ![h] = @ - 1]
             /\ UNCHANGED <<rs, plan, site, lock, reply>>
    <3>1. tries[h] > 0 BY <2>3, <1>a, BoundAssumption DEF HostTypes
    <3> QED BY <2>1, <2>3, <3>1, <1>a, PollTypes DEF StartLabels
  <2>4. CASE Terminate(h, "retry") /\ UNCHANGED <<rs, plan, tries, lock, reply>>
        BY <2>1, <2>4, <1>a, TerminateTypes DEF Sites
  <2> QED BY <1>11, <2>1, <2>2, <2>3, <2>4 DEF WaitTun
<1>12. CASE StartRunning(h)
  <2>1. rs[h] \in RuntimeStates BY <1>12, <1>a, Locals DEF StartRunning, UsesState
  <2>2. [rs[h] EXCEPT !.phase = "running"] \in RuntimeStates BY <2>1 DEF RuntimeStates
  <2>3. FileTypes' /\ ProcType' /\ TunType' /\ SeenType'
        BY <1>a, <1>12, <2>2 DEF StartRunning, FileTypes, ProcType, TunType, SeenType
  <2> SUFFICES HostTypes' BY <2>3
  <2>4. CASE Finish(h, "on") BY <2>3, <2>4, <1>a, FinishTypes DEF Replies
  <2>5. CASE Terminate(h, "saved") /\ UNCHANGED <<rs, plan, tries, lock, reply>>
        BY <2>3, <2>5, <1>a, TerminateTypes DEF Sites
  <2> QED BY <1>12, <2>4, <2>5 DEF StartRunning
<1>13. CASE StartUndo(h)
  <2>1. FileTypes' /\ ProcType' /\ TunType' /\ SeenType'
        BY <1>a, <1>13 DEF StartUndo, FileTypes, ProcType, TunType, SeenType
  <2> SUFFICES HostTypes' BY <2>1
  <2> QED BY <1>13, <2>1, <1>a, AwaitTypes DEF StartUndo, Sites
<1>14. CASE StartRetry(h)
  <2>1. FileTypes' /\ ProcType' /\ TunType' /\ SeenType'
        BY <1>a, <1>14 DEF StartRetry, FileTypes, ProcType, TunType, SeenType
  <2> SUFFICES HostTypes' BY <2>1
  <2>2. CASE Await(h, "retry") /\ UNCHANGED <<rs, plan, lock, reply>>
        BY <2>2, <2>1, <1>a, AwaitTypes DEF Sites
  <2>3. CASE Fail(h) BY <2>1, <2>3, <1>a, FinishTypes DEF Fail, Replies
  <2> QED BY <1>14, <2>2, <2>3 DEF StartRetry
<1> QED BY <1>1, <1>2, <1>3, <1>4, <1>5, <1>6, <1>7, <1>8, <1>9, <1>10, <1>11, <1>12,
           <1>13, <1>14 DEF StartStep

\* Every step of stop, terminateCore, awaitTunRemoval and `set` keeps the types.
LEMMA StopTypes ==
    ASSUME TypeOK, LocalInv, NEW h \in Hosts,
           StopLoad(h) \/ StopClear(h) \/ TermStep(h) \/ SetSetting(h)
    PROVE  TypeOK'
<1> USE TypeGroups, TypeGroupsNext, LabelsAre
<1>a. HostTypes /\ FileTypes /\ ProcType /\ TunType /\ SeenType OBVIOUS
<1>1. CASE StopLoad(h)
  <2>1. FileTypes' /\ ProcType' /\ TunType' /\ SeenType'
        BY <1>a, <1>1 DEF StopLoad, fileVars, FileTypes, ProcType, TunType, SeenType
  <2> SUFFICES HostTypes' BY <2>1
  <2>2. CASE RecordRuns(h)
    <3>1. stateFile \in RuntimeStates BY <2>2, <1>a DEF RecordRuns, FileTypes
    <3> QED BY <1>1, <2>2, <3>1, <1>a, TerminateTypes DEF StopLoad, RecordRuns, Sites
  <2>3. CASE stateFile # NoState /\ ~RecordRuns(h)
    <3>1. stateFile \in RuntimeStates BY <2>3, <1>a DEF FileTypes
    <3>2. /\ rs' = [rs EXCEPT ![h] = stateFile] /\ Goto(h, "stop.clear")
          /\ UNCHANGED <<plan, site, tries, lock, reply>>
          BY <1>1, <2>3 DEF StopLoad
    <3>3. "stop.clear" \in Labels BY DEF StopLabels
    <3> QED BY <3>1, <3>2, <3>3, <1>a DEF HostTypes, Goto
  <2>4. CASE stateFile = NoState
        BY <1>1, <2>4, <1>a, GotoTypes DEF StopLoad, RecordRuns, StopLabels
  <2> QED BY <2>2, <2>3, <2>4
<1>2. CASE StopClear(h)
  <2>1. FileTypes' /\ ProcType' /\ TunType' /\ SeenType'
        BY <1>a, <1>2 DEF StopClear, FileTypes, ProcType, TunType, SeenType
  <2> SUFFICES HostTypes' BY <2>1
  <2> QED BY <1>2, <1>a, FinishTypes DEF StopClear, Fail, Replies
<1>3. CASE TermCheck(h)
  <2>1. FileTypes' /\ ProcType' /\ TunType' /\ SeenType'
        BY <1>a, <1>3 DEF TermCheck, fileVars, FileTypes, ProcType, TunType, SeenType
  <2> SUFFICES HostTypes' BY <2>1
  <2> QED BY <1>3, <1>a, GotoTypes, TerminatedTypes DEF TermCheck, TermLabels
<1>4. CASE TermSignal(h)
  <2>1. rs[h] \in RuntimeStates BY <1>4, <1>a, Locals DEF TermSignal, UsesState, TermLabels
  <2>2. FileTypes' /\ TunType' /\ SeenType'
        BY <1>a, <1>4 DEF TermSignal, fileVars, FileTypes, TunType, SeenType
  <2>3. ProcType' BY <1>4, <2>1, <1>a, SignalType DEF TermSignal, RuntimeStates
  <2>4. HostTypes' BY <1>4, <1>a, LoopTypes DEF TermSignal, TermLabels
  <2> QED BY <2>2, <2>3, <2>4
<1>5. CASE TermReap(h)
  <2>1. rs[h] \in RuntimeStates BY <1>5, <1>a, Locals DEF TermReap, UsesState, TermLabels
  <2>2. FileTypes' /\ TunType' /\ SeenType'
        BY <1>a, <1>5 DEF TermReap, fileVars, FileTypes, TunType, SeenType
  <2>3. ProcType' BY <1>5, <2>1, <1>a, ReapType DEF TermReap, RuntimeStates, ProcType
  <2>4. CASE Terminated(h) BY <2>2, <2>3, <2>4, <1>a, TerminatedTypes
  <2>5. ASSUME NEW l \in {"term.poll", "kill.poll"}, Goto(h, l),
               UNCHANGED <<rs, plan, site, tries, lock, reply>>
        PROVE  TypeOK'
        BY <2>2, <2>3, <2>5, <1>a, GotoTypes DEF TermLabels
  <2> QED BY <1>5, <2>4, <2>5 DEF TermReap
<1>6. CASE TermPoll(h)
  <2>1. FileTypes' /\ ProcType' /\ TunType' /\ SeenType'
        BY <1>a, <1>6 DEF TermPoll, fileVars, FileTypes, ProcType, TunType, SeenType
  <2> SUFFICES HostTypes' BY <2>1
  <2>2. CASE Terminated(h) BY <2>2, <1>a, TerminatedTypes
  <2>3. ASSUME NEW l \in {"term.reap", "kill.reap"}, Goto(h, l), tries[h] > 1,
               tries' = [tries EXCEPT ![h] = @ - 1], UNCHANGED <<rs, plan, site, lock, reply>>
        PROVE  HostTypes'
    <3>1. tries[h] > 0 BY <2>3, <1>a, BoundAssumption DEF HostTypes
    <3> QED BY <2>3, <3>1, <1>a, PollTypes DEF TermLabels
  <2>4. CASE Goto(h, "kill.check") /\ UNCHANGED <<rs, plan, site, tries, lock, reply>>
        BY <2>4, <1>a, GotoTypes DEF TermLabels
  <2>5. CASE Fail(h) BY <2>5, <1>a, FinishTypes DEF Fail, Replies
  <2> QED BY <1>6, <2>2, <2>3, <2>4, <2>5 DEF TermPoll
<1>7. CASE KillCheck(h)
  <2>1. FileTypes' /\ ProcType' /\ TunType' /\ SeenType'
        BY <1>a, <1>7 DEF KillCheck, fileVars, FileTypes, ProcType, TunType, SeenType
  <2> SUFFICES HostTypes' BY <2>1
  <2> QED BY <1>7, <1>a, GotoTypes, TerminatedTypes DEF KillCheck, TermLabels
<1>8. CASE KillSignal(h)
  <2>1. rs[h] \in RuntimeStates BY <1>8, <1>a, Locals DEF KillSignal, UsesState, TermLabels
  <2>2. FileTypes' /\ TunType' /\ SeenType'
        BY <1>a, <1>8 DEF KillSignal, fileVars, FileTypes, TunType, SeenType
  <2>3. ProcType' BY <1>8, <2>1, <1>a, SignalType DEF KillSignal, RuntimeStates
  <2>4. HostTypes' BY <1>8, <1>a, LoopTypes DEF KillSignal, TermLabels
  <2> QED BY <2>2, <2>3, <2>4
<1>9. CASE AwaitTunRemoval(h)
  <2>1. FileTypes' /\ ProcType' /\ TunType' /\ SeenType'
        BY <1>a, <1>9 DEF AwaitTunRemoval, fileVars, FileTypes, ProcType, TunType, SeenType
  <2> SUFFICES HostTypes' BY <2>1
  <2>2. CASE /\ tries[h] > 0 /\ tries' = [tries EXCEPT ![h] = @ - 1]
             /\ UNCHANGED <<pc, rs, plan, site, lock, reply>>
        BY <2>2, <1>a, BoundAssumption DEF HostTypes
  <2>3. CASE Fail(h) BY <2>3, <1>a, FinishTypes DEF Fail, Replies
  <2>4. ASSUME NEW l \in {"stop.clear", "start.prepare"}, Goto(h, l),
               UNCHANGED <<rs, plan, site, tries, lock, reply>>
        PROVE  HostTypes'
        BY <2>4, <1>a, GotoTypes DEF StopLabels, StartLabels
  <2>5. CASE site[h] = "retry" /\ NextAttempt(h)
    <3>1. plan[h] \in Plans BY <1>9, <2>5, <1>a, Locals DEF AwaitTunRemoval
    <3> QED BY <2>5, <3>1, <1>a, NextAttemptTypes, NullAssumption
  <2> QED BY <1>9, <2>2, <2>3, <2>4, <2>5 DEF AwaitTunRemoval
<1>10. CASE SetSetting(h)
  <2>1. FileTypes' /\ ProcType' /\ TunType' /\ SeenType'
        BY <1>a, <1>10 DEF SetSetting, FileTypes, ProcType, TunType, SeenType
  <2> SUFFICES HostTypes' BY <2>1
  <2> QED BY <1>10, <1>a, FinishTypes DEF SetSetting, Fail, Replies
<1> QED BY <1>1, <1>2, <1>3, <1>4, <1>5, <1>6, <1>7, <1>8, <1>9, <1>10 DEF TermStep

\* Commands, readers and the operating system keep the types.
LEMMA OsTypes ==
    ASSUME TypeOK,
           \/ \E h \in Hosts : Command(h)
           \/ \E r \in Readers : ReaderLoads(r) \/ ReaderReports(r)
           \/ OsStep
    PROVE  TypeOK'
<1> USE TypeGroups, TypeGroupsNext, LabelsAre
<1>a. HostTypes /\ FileTypes /\ ProcType /\ TunType /\ SeenType OBVIOUS
<1>1. ASSUME NEW h \in Hosts, NEW c \in {"on", "off", "set"}, Begin(h, c) PROVE TypeOK'
  <2>1. Entry[c] \in Labels BY DEF Entry, StartLabels, StopLabels
  <2> QED BY <1>1, <2>1, <1>a
          DEF Begin, Goto, fileVars, HostTypes, FileTypes, ProcType, TunType, SeenType, Replies
<1>2. ASSUME NEW r \in Readers, ReaderLoads(r) \/ ReaderReports(r) PROVE TypeOK'
  BY <1>2, <1>a DEF ReaderLoads, ReaderReports, hostVars, fileVars,
                    HostTypes, FileTypes, ProcType, TunType, SeenType
<1>3. ASSUME NEW h \in Hosts, HostExit(h) PROVE TypeOK'
  <2>1. FileTypes' /\ TunType' /\ SeenType'
        BY <1>3, <1>a DEF HostExit, fileVars, FileTypes, TunType, SeenType
  <2>2. HostTypes'
    <3>1. /\ pc' \in [Hosts -> Labels] /\ rs' \in [Hosts -> RuntimeStates \cup {NoState}]
          /\ plan' \in [Hosts -> Plans \cup {NoPlan}]
          BY <1>3, <1>a DEF HostExit, HostTypes
    <3>2. site' \in [Hosts -> Sites] BY <1>3, <1>a DEF HostExit, HostTypes, Sites
    <3>3. tries' \in [Hosts -> 0..Polls]
      <4>1. 0 \in 0..Polls BY BoundAssumption
      <4>2. tries' = [tries EXCEPT ![h] = 0] BY <1>3 DEF HostExit
      <4> QED BY <4>1, <4>2, <1>a DEF HostTypes
    <3>4. lock' \in Hosts \cup {NoHost} /\ reply' \in Replies
          BY <1>3, <1>a DEF HostExit, HostTypes, Replies
    <3> QED BY <3>1, <3>2, <3>3, <3>4 DEF HostTypes
  <2>3. ASSUME NEW p \in Pids PROVE proc'[p] \in Processes
    <3>1. proc[p] \in Processes BY <1>a DEF ProcType
    <3>2. proc'[p] = [proc[p] EXCEPT
             !.parent = IF proc[p].parent = h THEN Orphan ELSE proc[p].parent,
             !.doomed = proc[p].doomed
                \/ (h \in Supervised /\ proc[p].cgroup = h /\ proc[p].alive)]
          BY <1>3 DEF HostExit
    <3>3. (proc[p].doomed \/ (h \in Supervised /\ proc[p].cgroup = h /\ proc[p].alive)) \in BOOLEAN
          OBVIOUS
    <3> QED BY <3>1, <3>2, <3>3 DEF Processes
  <2>4. proc' = [p \in Pids |-> proc'[p]] BY <1>3 DEF HostExit
  <2> QED BY <2>1, <2>2, <2>3, <2>4 DEF ProcType
<1>4. ASSUME NEW h \in Hosts, Restart(h) PROVE TypeOK'
  BY <1>4, <1>a DEF Restart, Goto, fileVars, HostTypes, FileTypes, ProcType, TunType, SeenType
<1>5. ASSUME NEW p \in Pids, InitReaps(p) \/ ForeignExits(p) PROVE TypeOK'
  <2>1. ProcType' BY <1>5, <1>a, ReapType DEF InitReaps, ForeignExits
  <2> QED BY <1>5, <2>1, <1>a DEF InitReaps, ForeignExits, hostVars, fileVars,
                                  HostTypes, FileTypes, TunType, SeenType
<1>6. ASSUME NEW p \in Pids, CoreExit(p) \/ CoreLoads(p) \/ ForeignStarts(p) PROVE TypeOK'
  <2>1. proc[p] \in Processes /\ coreConfig \in Plans \cup {NoPlan}
        BY <1>a DEF ProcType, FileTypes
  <2>2. \E row \in Processes : proc' = [proc EXCEPT ![p] = row]
    <3>1. CASE CoreExit(p)
      <4>1. [proc[p] EXCEPT !.alive = FALSE, !.doomed = FALSE, !.cfg = NoPlan] \in Processes
            BY <2>1 DEF Processes
      <4> QED BY <3>1, <4>1, <1>a DEF CoreExit, ProcType
    <3>2. CASE CoreLoads(p)
      <4>1. [proc[p] EXCEPT !.cfg = coreConfig] \in Processes BY <2>1 DEF Processes
      <4> QED BY <3>2, <4>1, <1>a DEF CoreLoads, ProcType
    <3>3. CASE ForeignStarts(p)
      <4>1. proc[p].gen + 1 \in Nat BY <2>1 DEF Processes
      <4>2. [FreeAt(proc[p].gen + 1) EXCEPT !.kind = "foreign", !.alive = TRUE] \in Processes
            BY <4>1 DEF FreeAt, Processes
      <4> QED BY <3>3, <4>2, <1>a DEF ForeignStarts, ProcType
    <3> QED BY <1>6, <3>1, <3>2, <3>3
  <2>3. ProcType' BY <2>2, <1>a DEF ProcType
  <2> QED BY <1>6, <2>3, <1>a DEF CoreExit, CoreLoads, ForeignStarts, hostVars, fileVars,
                                  HostTypes, FileTypes, TunType, SeenType
<1>7. ASSUME NEW p \in Pids, CoreTun(p) PROVE TypeOK'
  <2>1. TunType' BY <1>7, <1>a DEF CoreTun, TunType, Tuns, ProcType, Processes
  <2> QED BY <1>7, <2>1, <1>a DEF CoreTun, hostVars, fileVars, HostTypes, FileTypes, ProcType, SeenType
<1>8. ASSUME TunVanishes \/ ExternalTunChanges PROVE TypeOK'
  BY <1>8, <1>a DEF TunVanishes, ExternalTunChanges, hostVars, fileVars,
                    HostTypes, FileTypes, ProcType, SeenType, TunType
<1> QED BY <1>1, <1>2, <1>3, <1>4, <1>5, <1>6, <1>7, <1>8 DEF Command, OsStep

-----------------------------------------------------------------------------
(* Control: the lock, the locals and the child of a command *)

\* The parts of the invariant that are about one host.
LocalAt(h) ==
    /\ pc[h] \in UsesState => rs[h] # NoState
    /\ pc[h] \in UsesPlan => plan[h] # NoPlan
    /\ pc[h] \in TermLabels \cup {"await"} => site[h] # "none"
    /\ pc[h] \in TermLabels \cup {"await"} /\ site[h] = "retry" => plan[h] # NoPlan

ChildAt(h) ==
    OwnsChild(h) =>
        /\ IsSame(rs[h])
        /\ proc[rs[h].pid].parent = h
        /\ proc[rs[h].pid].cgroup = h

\* A step of h moves only h, keeps it inside the command or lets go of the lock.
FrameOf(h) ==
    /\ pc[h] \in OpLabels
    /\ \/ pc'[h] \in OpLabels /\ lock' = lock
       \/ pc'[h] = "idle" /\ lock' = NoHost
    /\ \A g \in Hosts \ {h} : /\ pc'[g] = pc[g] /\ rs'[g] = rs[g]
                              /\ site'[g] = site[g] /\ plan'[g] = plan[g]

LEMMA HostFrame ==
    ASSUME HostTypes, NEW h \in Hosts, HostStep(h)
    PROVE  FrameOf(h)
<1> USE DEF FrameOf, HostTypes, Goto, Loop, Finish, Fail, Leave, Await, Terminate,
            OpLabels, StartLabels, StopLabels, TermLabels
<1>0. CASE SetSetting(h) BY <1>0 DEF SetSetting
<1>1. CASE StartLoad(h) BY <1>1 DEF StartLoad
<1>2. CASE StartClear(h) BY <1>2 DEF StartClear
<1>3. CASE StartPrepare(h) BY <1>3 DEF StartPrepare
<1>4. CASE StartProbe(h) BY <1>4 DEF StartProbe
<1>5. CASE StartConfigure(h) BY <1>5 DEF StartConfigure
<1>6. CASE StartSpawn(h) BY <1>6 DEF StartSpawn, NextAttempt
<1>7. CASE StartTicks(h) BY <1>7 DEF StartTicks
<1>8. CASE StartReap(h) BY <1>8 DEF StartReap
<1>9. CASE StartProvisional(h) BY <1>9 DEF StartProvisional
<1>10. CASE WaitReap(h) BY <1>10 DEF WaitReap
<1>11. CASE WaitTun(h) BY <1>11 DEF WaitTun
<1>12. CASE StartRunning(h) BY <1>12 DEF StartRunning
<1>13. CASE StartUndo(h) BY <1>13 DEF StartUndo
<1>14. CASE StartRetry(h) BY <1>14 DEF StartRetry
<1>15. CASE StopLoad(h) BY <1>15 DEF StopLoad
<1>16. CASE StopClear(h) BY <1>16 DEF StopClear
<1>17. CASE TermCheck(h) BY <1>17 DEF TermCheck, Terminated
<1>18. CASE TermSignal(h) BY <1>18 DEF TermSignal
<1>19. CASE TermReap(h) BY <1>19 DEF TermReap, Terminated
<1>20. CASE TermPoll(h) BY <1>20 DEF TermPoll, Terminated
<1>21. CASE KillCheck(h) BY <1>21 DEF KillCheck, Terminated
<1>22. CASE KillSignal(h) BY <1>22 DEF KillSignal
<1>23. CASE AwaitTunRemoval(h) BY <1>23 DEF AwaitTunRemoval, NextAttempt
<1> QED BY <1>0, <1>1, <1>2, <1>3, <1>4, <1>5, <1>6, <1>7, <1>8, <1>9, <1>10, <1>11, <1>12, <1>13, <1>14, <1>15, <1>16, <1>17, <1>18, <1>19, <1>20, <1>21, <1>22, <1>23 DEF HostStep, StartStep, TermStep

\* The second attempt has a plan; after the last one the command has returned.
LEMMA NextAttemptLocals ==
    ASSUME TypeOK, NEW h \in Hosts, plan[h] # NoPlan, NextAttempt(h)
    PROVE  LocalAt(h)'
<1>1. CASE plan[h].auto
  <2>1. plan[h] \in Plans BY DEF TypeOK
  <2>2. [plan[h] EXCEPT !.auto = FALSE] \in Plans BY <2>1 DEF Plans
  <2>3. plan'[h] = [plan[h] EXCEPT !.auto = FALSE] BY <1>1 DEF NextAttempt, TypeOK
  <2>4. plan'[h] # NoPlan BY <2>2, <2>3, NullAssumption
  <2>5. pc'[h] = "start.probe" BY <1>1 DEF NextAttempt, Goto, TypeOK
  <2> QED BY <2>4, <2>5 DEF LocalAt, UsesState, TermLabels
<1>2. CASE ~plan[h].auto
  BY <1>2 DEF NextAttempt, Fail, Finish, Leave, TypeOK, LocalAt, UsesState, UsesPlan, TermLabels
<1> QED BY <1>1, <1>2

\* Every step of a command leaves the locals its next program point needs.
LEMMA LocalStep ==
    ASSUME TypeOK, NEW h \in Hosts, LocalAt(h), HostStep(h)
    PROVE  LocalAt(h)'
<1> USE NullAssumption DEF LocalAt, TypeOK, Goto, Loop, Finish, Fail, Leave, Await,
        Terminate, UsesState, UsesPlan, TermLabels
<1>1. CASE StartLoad(h) BY <1>1 DEF StartLoad, RecordRuns
<1>2. CASE StartClear(h) BY <1>2 DEF StartClear
<1>3. CASE StartPrepare(h)
  <2>1. [auto |-> TRUE, upstream |-> setting] \in Plans BY DEF Plans
  <2>2. [auto |-> TRUE, upstream |-> setting] # NoPlan BY <2>1
  <2> QED BY <1>3, <2>2 DEF StartPrepare
<1>4. CASE StartProbe(h) BY <1>4 DEF StartProbe
<1>5. CASE StartConfigure(h) BY <1>5 DEF StartConfigure
<1>6. CASE StartSpawn(h)
  <2>1. CASE NextAttempt(h) BY <2>1, <1>6, NextAttemptLocals DEF StartSpawn
  <2>2. CASE ~NextAttempt(h)
    <3>1. PICK p \in Pids :
             /\ rs' = [rs EXCEPT ![h] = [pid |-> p, gen |-> proc[p].gen + 1,
                                        phase |-> "starting", cfg |-> plan[h]]]
             /\ Goto(h, "start.ticks") /\ UNCHANGED plan
          BY <1>6, <2>2 DEF StartSpawn
    <3>2. plan[h] \in Plans /\ proc[p].gen + 1 \in Nat BY <1>6 DEF StartSpawn, Processes
    <3>3. rs'[h] # NoState BY <3>1, <3>2 DEF RuntimeStates
    <3> QED BY <1>6, <3>1, <3>3 DEF StartSpawn
  <2> QED BY <2>1, <2>2
<1>7. CASE StartTicks(h) BY <1>7 DEF StartTicks
<1>8. CASE StartReap(h) BY <1>8 DEF StartReap
<1>9. CASE StartProvisional(h) BY <1>9 DEF StartProvisional
<1>10. CASE WaitReap(h) BY <1>10 DEF WaitReap
<1>11. CASE WaitTun(h) BY <1>11 DEF WaitTun
<1>12. CASE StartRunning(h) BY <1>12 DEF StartRunning
<1>13. CASE StartUndo(h) BY <1>13 DEF StartUndo
<1>14. CASE StartRetry(h) BY <1>14 DEF StartRetry
<1>15. CASE StopLoad(h) BY <1>15 DEF StopLoad, RecordRuns
<1>16. CASE StopClear(h) BY <1>16 DEF StopClear
<1>17. CASE TermCheck(h) BY <1>17 DEF TermCheck, Terminated
<1>18. CASE TermSignal(h) BY <1>18 DEF TermSignal
<1>19. CASE TermReap(h) BY <1>19 DEF TermReap, Terminated
<1>20. CASE TermPoll(h) BY <1>20 DEF TermPoll, Terminated
<1>21. CASE KillCheck(h) BY <1>21 DEF KillCheck, Terminated
<1>22. CASE KillSignal(h) BY <1>22 DEF KillSignal
<1>23. CASE AwaitTunRemoval(h)
  <2>1. CASE site[h] = "retry" /\ NextAttempt(h)
        BY <2>1, <1>23, NextAttemptLocals DEF AwaitTunRemoval
  <2>2. CASE ~(site[h] = "retry" /\ NextAttempt(h))
        BY <2>2, <1>23 DEF AwaitTunRemoval
  <2> QED BY <2>1, <2>2
<1>24. CASE SetSetting(h) BY <1>24 DEF SetSetting
<1> QED BY <1>1, <1>2, <1>3, <1>4, <1>5, <1>6, <1>7, <1>8, <1>9, <1>10, <1>11, <1>12, <1>13, <1>14, <1>15, <1>16, <1>17, <1>18, <1>19, <1>20, <1>21, <1>22, <1>23, <1>24 DEF HostStep, StartStep, TermStep

\* A signal leaves the identity of every process alone.
LEMMA SignalKeeps ==
    ASSUME TypeOK, NEW p \in Pids, SigTerm(p) \/ SigKill(p)
    PROVE  \A q \in Pids :
             /\ proc'[q].kind = proc[q].kind /\ proc'[q].gen = proc[q].gen
             /\ proc'[q].parent = proc[q].parent /\ proc'[q].cgroup = proc[q].cgroup
             /\ proc'[q].alive = proc[q].alive
             /\ proc[q].doomed => proc'[q].doomed
<1>1. ProcType BY TypeGroups
<1>2. /\ \A q \in Pids : proc'[q] = [proc[q] EXCEPT !.doomed = proc'[q].doomed]
      /\ \A q \in Pids : proc[q].doomed => proc'[q].doomed
      BY <1>1, SignalType
<1>3. \A q \in Pids : proc[q] \in Processes BY <1>1 DEF ProcType
<1>4. ASSUME NEW q \in Pids
      PROVE  /\ proc'[q].kind = proc[q].kind /\ proc'[q].gen = proc[q].gen
             /\ proc'[q].parent = proc[q].parent /\ proc'[q].cgroup = proc[q].cgroup
             /\ proc'[q].alive = proc[q].alive
  <2>1. PICK d : proc'[q] = [proc[q] EXCEPT !.doomed = d] BY <1>2
  <2> QED BY <2>1, <1>3 DEF Processes
<1> QED BY <1>2, <1>4

\* Every step of a command keeps hold of the child it refers to by pid.
LEMMA ChildStep ==
    ASSUME TypeOK, NEW h \in Hosts, LocalAt(h), ChildAt(h), HostStep(h)
    PROVE  ChildAt(h)'
<1> USE DEF ChildAt, TypeOK, Goto, Loop, Finish, Fail, Leave, Await,
        Terminate, OwnsChild, UsesState, TermLabels
<1>1. CASE StartLoad(h) BY <1>1 DEF StartLoad, IsSame
<1>2. CASE StartClear(h) BY <1>2 DEF StartClear, IsSame
<1>3. CASE StartPrepare(h) BY <1>3 DEF StartPrepare, IsSame
<1>4. CASE StartProbe(h) BY <1>4 DEF StartProbe, IsSame
<1>5. CASE StartConfigure(h) BY <1>5 DEF StartConfigure, IsSame
<1>6. CASE StartSpawn(h)
  <2>1. CASE NextAttempt(h)
        BY <2>1, <1>6 DEF NextAttempt
  <2>2. CASE ~NextAttempt(h)
    <3>1. PICK p \in Pids :
             /\ proc' = [proc EXCEPT ![p] =
                  [kind |-> "core", gen |-> proc[p].gen + 1, alive |-> TRUE, parent |-> h,
                   cgroup |-> h, doomed |-> FALSE, cfg |-> NoPlan]]
             /\ rs' = [rs EXCEPT ![h] = [pid |-> p, gen |-> proc[p].gen + 1,
                                        phase |-> "starting", cfg |-> plan[h]]]
             /\ Goto(h, "start.ticks")
          BY <1>6, <2>2 DEF StartSpawn
    <3>2. rs'[h].pid = p /\ rs'[h].gen = proc[p].gen + 1 BY <3>1
    <3>3. /\ proc'[p].kind = "core" /\ proc'[p].gen = proc[p].gen + 1
          /\ proc'[p].parent = h /\ proc'[p].cgroup = h
          BY <3>1
    <3> QED BY <3>2, <3>3 DEF IsSame
  <2> QED BY <2>1, <2>2
<1>7. CASE StartTicks(h)
  <2>1. rs[h] \in RuntimeStates BY <1>7 DEF StartTicks, LocalAt, UsesState
  <2>2. rs[h].pid \in Pids BY <2>1 DEF RuntimeStates
  <2>3. LET p == rs[h].pid IN
          /\ proc'[p].kind = proc[p].kind /\ proc'[p].gen = proc[p].gen
          /\ proc'[p].parent = proc[p].parent /\ proc'[p].cgroup = proc[p].cgroup
        BY <1>7, <2>2, SignalKeeps DEF StartTicks
  <2> QED BY <1>7, <2>3 DEF StartTicks, IsSame
<1>8. CASE StartReap(h) BY <1>8 DEF StartReap, IsSame
<1>9. CASE StartProvisional(h) BY <1>9 DEF StartProvisional, IsSame
<1>10. CASE WaitReap(h) BY <1>10 DEF WaitReap, IsSame
<1>11. CASE WaitTun(h) BY <1>11 DEF WaitTun, IsSame
<1>12. CASE StartRunning(h) BY <1>12 DEF StartRunning, IsSame
<1>13. CASE StartUndo(h) BY <1>13 DEF StartUndo, IsSame
<1>14. CASE StartRetry(h) BY <1>14 DEF StartRetry, IsSame
<1>15. CASE StopLoad(h) BY <1>15 DEF StopLoad, IsSame
<1>16. CASE StopClear(h) BY <1>16 DEF StopClear, IsSame
<1>17. CASE TermCheck(h) BY <1>17 DEF TermCheck, Terminated, IsSame
<1>18. CASE TermSignal(h)
  <2>1. rs[h] \in RuntimeStates BY <1>18 DEF TermSignal, LocalAt, UsesState
  <2>2. rs[h].pid \in Pids BY <2>1 DEF RuntimeStates
  <2>3. LET p == rs[h].pid IN
          /\ proc'[p].kind = proc[p].kind /\ proc'[p].gen = proc[p].gen
          /\ proc'[p].parent = proc[p].parent /\ proc'[p].cgroup = proc[p].cgroup
        BY <1>18, <2>2, SignalKeeps DEF TermSignal
  <2> QED BY <1>18, <2>3 DEF TermSignal, IsSame
<1>19. CASE TermReap(h) BY <1>19 DEF TermReap, Terminated, IsSame
<1>20. CASE TermPoll(h) BY <1>20 DEF TermPoll, Terminated, IsSame
<1>21. CASE KillCheck(h) BY <1>21 DEF KillCheck, Terminated, IsSame
<1>22. CASE KillSignal(h)
  <2>1. rs[h] \in RuntimeStates BY <1>22 DEF KillSignal, LocalAt, UsesState
  <2>2. rs[h].pid \in Pids BY <2>1 DEF RuntimeStates
  <2>3. LET p == rs[h].pid IN
          /\ proc'[p].kind = proc[p].kind /\ proc'[p].gen = proc[p].gen
          /\ proc'[p].parent = proc[p].parent /\ proc'[p].cgroup = proc[p].cgroup
        BY <1>22, <2>2, SignalKeeps DEF KillSignal
  <2> QED BY <1>22, <2>3 DEF KillSignal, IsSame
<1>23. CASE AwaitTunRemoval(h) BY <1>23 DEF AwaitTunRemoval, NextAttempt, IsSame
<1>24. CASE SetSetting(h) BY <1>24 DEF SetSetting, IsSame
<1> QED BY <1>1, <1>2, <1>3, <1>4, <1>5, <1>6, <1>7, <1>8, <1>9, <1>10, <1>11, <1>12, <1>13, <1>14, <1>15, <1>16, <1>17, <1>18, <1>19, <1>20, <1>21, <1>22, <1>23, <1>24 DEF HostStep, StartStep, TermStep

\* Taking the lock starts a command with nothing in hand.
LEMMA BeginControl ==
    ASSUME ControlInv, NEW h \in Hosts, Command(h)
    PROVE  LockInv' /\ LocalInv' /\ ChildInv'
<1>1. PICK c \in {"on", "off", "set"} : Begin(h, c) BY DEF Command
<1>2. pc' = [pc EXCEPT ![h] = Entry[c]] BY <1>1 DEF Begin, Goto
<1>3. Entry[c] \in {"start.load", "stop.load", "set.save"} BY DEF Entry
<1>4. /\ Entry[c] \in OpLabels
      /\ Entry[c] \notin UsesState \cup UsesPlan \cup TermLabels \cup {"await"}
      BY <1>3 DEF OpLabels, StartLabels, StopLabels, UsesState, UsesPlan, TermLabels
<1>5. \A g \in Hosts : pc[g] \notin OpLabels
      BY <1>1, HostAssumption DEF Begin, ControlInv, LockInv
<1>6. /\ pc \in [Hosts -> Labels] /\ lock' = h /\ UNCHANGED <<rs, plan, site, proc>>
      BY <1>1 DEF Begin, ControlInv, TypeOK
<1>7. pc'[h] = Entry[c] /\ \A g \in Hosts : g # h => pc'[g] = pc[g] BY <1>2, <1>6
<1>8. LockInv' BY <1>4, <1>5, <1>6, <1>7 DEF LockInv
<1>9. LocalInv' BY <1>4, <1>6, <1>7 DEF LocalInv, ControlInv
<1>10. ChildInv' BY <1>4, <1>6, <1>7 DEF ChildInv, ControlInv, OwnsChild, IsSame
<1> QED BY <1>8, <1>9, <1>10

\* Neither a crash, nor a restart, nor anything the processes do takes a child or
\* a local away from a command that still runs.
LEMMA OsControl ==
    ASSUME ControlInv, OsStep
    PROVE  LockInv' /\ LocalInv' /\ ChildInv'
<1> USE DEF ControlInv
<1>a. TypeOK /\ ProcType BY TypeGroups
<1>b. \A p \in Pids : proc[p] \in Processes BY <1>a DEF ProcType
<1>c. \A g \in Hosts : OwnsChild(g) => rs[g] \in RuntimeStates /\ rs[g].pid \in Pids
      BY <1>a DEF OwnsChild, UsesState, LocalInv, TypeOK, RuntimeStates
<1>1. ASSUME NEW h \in Hosts, HostExit(h) PROVE LockInv' /\ LocalInv' /\ ChildInv'
  <2>1. /\ pc'[h] \in {"idle", "down"}
        /\ \A g \in Hosts \ {h} : /\ pc'[g] = pc[g] /\ rs'[g] = rs[g]
                                  /\ site'[g] = site[g] /\ plan'[g] = plan[g]
        /\ lock' = IF lock = h THEN NoHost ELSE lock
        BY <1>1 DEF HostExit, TypeOK
  <2>2. {"idle", "down"} \cap (OpLabels \cup UsesState \cup UsesPlan \cup TermLabels \cup {"await"}) = {}
        BY DEF OpLabels, StartLabels, StopLabels, UsesState, UsesPlan, TermLabels
  <2>3. LockInv' BY <2>1, <2>2, HostAssumption DEF LockInv
  <2>4. LocalInv' BY <2>1, <2>2 DEF LocalInv
  <2>5. ASSUME NEW g \in Hosts \ {h}, OwnsChild(g)
        PROVE  /\ proc'[rs[g].pid].kind = "core" /\ proc'[rs[g].pid].gen = rs[g].gen
               /\ proc'[rs[g].pid].parent = g /\ proc'[rs[g].pid].cgroup = g
    <3> DEFINE p == rs[g].pid
    <3>1. p \in Pids BY <2>5, <1>c
    <3>2. proc[p].kind = "core" /\ proc[p].gen = rs[g].gen /\ proc[p].parent = g /\ proc[p].cgroup = g
          BY <2>5 DEF ChildInv, IsSame
    <3>3. \E d : proc'[p] = [proc[p] EXCEPT
             !.parent = IF proc[p].parent = h THEN Orphan ELSE proc[p].parent, !.doomed = d]
          BY <1>1, <3>1 DEF HostExit
    <3> QED BY <1>b, <3>1, <3>2, <3>3 DEF Processes
  <2>6. ChildInv' BY <2>1, <2>2, <2>5 DEF ChildInv, OwnsChild, IsSame
  <2> QED BY <2>3, <2>4, <2>6
<1>2. ASSUME NEW h \in Hosts, Restart(h) PROVE LockInv' /\ LocalInv' /\ ChildInv'
  BY <1>2, <1>a DEF Restart, Goto, TypeOK, LockInv, LocalInv, ChildInv, OwnsChild, IsSame,
     OpLabels, StartLabels, StopLabels, UsesState, UsesPlan, TermLabels
<1>3. ASSUME UNCHANGED hostVars,
             \A g \in Hosts : OwnsChild(g) =>
                LET q == rs[g].pid IN
                  /\ proc'[q].kind = proc[q].kind /\ proc'[q].gen = proc[q].gen
                  /\ proc'[q].parent = proc[q].parent /\ proc'[q].cgroup = proc[q].cgroup
      PROVE  LockInv' /\ LocalInv' /\ ChildInv'
  BY <1>3 DEF hostVars, LockInv, LocalInv, ChildInv, OwnsChild, IsSame
<1>4. ASSUME NEW p \in Pids,
             InitReaps(p) \/ CoreExit(p) \/ CoreLoads(p) \/ ForeignStarts(p) \/ ForeignExits(p)
      PROVE  LockInv' /\ LocalInv' /\ ChildInv'
  <2>1. UNCHANGED hostVars
        BY <1>4 DEF InitReaps, CoreExit, CoreLoads, ForeignStarts, ForeignExits
  <2>2. ASSUME NEW g \in Hosts, OwnsChild(g)
        PROVE  LET q == rs[g].pid IN
                  /\ proc'[q].kind = proc[q].kind /\ proc'[q].gen = proc[q].gen
                  /\ proc'[q].parent = proc[q].parent /\ proc'[q].cgroup = proc[q].cgroup
    <3> DEFINE q == rs[g].pid
    <3>1. q \in Pids /\ proc[q] \in Processes BY <2>2, <1>b, <1>c
    <3>2. proc[q].kind = "core" /\ proc[q].parent = g BY <2>2 DEF ChildInv, IsSame
    <3>3. CASE p # q
      BY <1>4, <1>a, <3>1, <3>3
         DEF InitReaps, CoreExit, CoreLoads, ForeignStarts, ForeignExits, Reap, ProcType
    <3>4. CASE p = q
      <4>1. CoreExit(q) \/ CoreLoads(q)
            BY <1>4, <3>2, <3>4, HostAssumption DEF InitReaps, ForeignStarts, ForeignExits
      <4>2. CASE CoreExit(q)
        <5>1. proc'[q] = [proc[q] EXCEPT !.alive = FALSE, !.doomed = FALSE, !.cfg = NoPlan]
              BY <4>2, <3>1, <1>a DEF CoreExit, ProcType
        <5> QED BY <5>1, <3>1 DEF Processes
      <4>3. CASE CoreLoads(q)
        <5>1. proc'[q] = [proc[q] EXCEPT !.cfg = coreConfig]
              BY <4>3, <3>1, <1>a DEF CoreLoads, ProcType
        <5> QED BY <5>1, <3>1 DEF Processes
      <4> QED BY <4>1, <4>2, <4>3
    <3> QED BY <3>3, <3>4
  <2> QED BY <2>1, <2>2, <1>3
<1>5. ASSUME NEW p \in Pids, CoreTun(p) PROVE LockInv' /\ LocalInv' /\ ChildInv'
  BY <1>5, <1>3 DEF CoreTun
<1>6. ASSUME TunVanishes \/ ExternalTunChanges PROVE LockInv' /\ LocalInv' /\ ChildInv'
  BY <1>6, <1>3 DEF TunVanishes, ExternalTunChanges
<1> QED BY <1>1, <1>2, <1>4, <1>5, <1>6 DEF OsStep

\* ControlInv is inductive in every environment.
LEMMA ControlInductive ==
    ASSUME ControlInv, [Next]_vars
    PROVE  ControlInv'
<1> USE DEF ControlInv
<1>1. ASSUME NEW h \in Hosts, HostStep(h) PROVE ControlInv'
  <2>1. HostTypes BY TypeGroups
  <2>2. FrameOf(h) BY <1>1, <2>1, HostFrame
  <2>3. LocalAt(h) /\ ChildAt(h) BY DEF LocalAt, ChildAt, LocalInv, ChildInv
  <2>4. LocalAt(h)' /\ ChildAt(h)' BY <1>1, <2>3, LocalStep, ChildStep
  <2>5. TypeOK' BY <1>1, StartTypes, StopTypes DEF HostStep
  <2>6. LockInv'
        BY <2>2, HostAssumption, LabelsAre DEF LockInv, FrameOf
  <2>7. LocalInv' BY <2>2, <2>4 DEF LocalInv, LocalAt, FrameOf
  <2>8. ASSUME NEW g \in Hosts \ {h} PROVE ~OwnsChild(g)'
    <3>1. pc'[g] \notin OpLabels BY <2>2, LabelsAre DEF FrameOf, LockInv
    <3> QED BY <3>1, LabelsAre DEF OwnsChild, UsesState, StartLabels
  <2>9. ChildInv' BY <2>4, <2>8 DEF ChildInv, ChildAt
  <2> QED BY <2>5, <2>6, <2>7, <2>9
<1>2. ASSUME NEW h \in Hosts, Command(h) PROVE ControlInv'
  BY <1>2, BeginControl, OsTypes
<1>3. CASE OsStep BY <1>3, OsControl, OsTypes
<1>4. ASSUME NEW r \in Readers, ReaderLoads(r) \/ ReaderReports(r) PROVE ControlInv'
  <2>1. TypeOK' BY <1>4, OsTypes
  <2>2. UNCHANGED hostVars /\ UNCHANGED proc BY <1>4 DEF ReaderLoads, ReaderReports
  <2> QED BY <2>1, <2>2 DEF hostVars, LockInv, LocalInv, ChildInv, OwnsChild, IsSame
<1>5. CASE UNCHANGED vars
  BY <1>5 DEF vars, hostVars, fileVars, TypeOK, LockInv, LocalInv, ChildInv, OwnsChild, IsSame
<1> QED BY <1>1, <1>2, <1>3, <1>4, <1>5 DEF Next

\* It holds initially.
LEMMA ControlInit == Init => ControlInv
<1> SUFFICES ASSUME Init PROVE ControlInv OBVIOUS
<1>1. FreeAt(0) \in Processes BY DEF FreeAt, Processes
<1>2. TypeOK
      BY <1>1, BoundAssumption, LabelsAre DEF Init, TypeOK, Sites, Replies
<1>3. LockInv BY HostAssumption, LabelsAre DEF Init, LockInv
<1>4. LocalInv /\ ChildInv
      BY DEF Init, LocalInv, ChildInv, OwnsChild, UsesState, UsesPlan, TermLabels
<1> QED BY <1>2, <1>3, <1>4 DEF ControlInv

\* ControlInv is an invariant.
THEOREM ControlCorrect == Spec => []ControlInv
<1>1. Init => ControlInv BY ControlInit
<1>2. ControlInv /\ [Next]_vars => ControlInv' BY ControlInductive
<1> QED BY <1>1, <1>2, PTL DEF Spec

\* Every variable of every run of the program has its type.
THEOREM TypeCorrect == Spec => []TypeOK
<1>1. ControlInv => TypeOK BY DEF ControlInv
<1> QED BY <1>1, ControlCorrect, PTL

\* The comment of start, proxy_manager.cpp:385, for every set of hosts, pids and
\* environments: the pid start works with is its own child until it is reaped.
THEOREM ChildPinned == Spec => []OwnChildPinned
<1>1. ControlInv => OwnChildPinned
      BY DEF ControlInv, ChildInv, OwnChildPinned, OwnsChild, UsesState, TermLabels
<1> QED BY <1>1, ControlCorrect, PTL

-----------------------------------------------------------------------------
(* No running core is lost track of: the full inductive invariant IInv and the safety     *)
(* properties that follow from it.  They hold unless a direct command dies between        *)
(* fork() and the provisional save, or an exe link may not be read (run `confined`).      *)

\* The environments the invariant is about.
Benign == Confined = {} /\ ~CrashUntracked

\* What QuietInv, HoldInv and NoLostCore say of one host.
QuietAt(h) == pc[h] \in Quiet => NothingRuns
HoldAt(h) == pc[h] \in Holds => \A p \in Pids : Running(p) => Names(rs[h], p)
NoLostAt(h) ==
    \A p \in Pids : Running(p) => Names(stateFile, p) \/ (Untracked(h) /\ Names(rs[h], p))

Track(h) == QuietAt(h) /\ HoldAt(h) /\ NoLostAt(h)

\* No core starts or becomes another one in this step.
NoNewCore == \A p \in Pids : (Running(p)' => Running(p)) /\ proc'[p].gen = proc[p].gen

-----------------------------------------------------------------------------
(* What a check, a reap or a signal tells the command about running cores *)

\* A step that leaves the process table alone leaves the running cores alone.
LEMMA SameProc ==
    ASSUME proc' = proc
    PROVE  NoNewCore /\ (NothingRuns => NothingRuns')
BY DEF NoNewCore, NothingRuns, Running

\* Signals start no core.
LEMMA SignalNoNew ==
    ASSUME TypeOK, NEW p \in Pids, SigTerm(p) \/ SigKill(p)
    PROVE  NoNewCore
<1>1. \A q \in Pids : /\ proc'[q].kind = proc[q].kind /\ proc'[q].gen = proc[q].gen
                      /\ proc'[q].alive = proc[q].alive
      BY SignalKeeps
<1>2. \A q \in Pids : proc[q].doomed => proc'[q].doomed
      BY DEF SigTerm, SigKill, TypeOK, Processes
<1> QED BY <1>1, <1>2 DEF NoNewCore, Running

\* waitpid starts no core.
LEMMA ReapNoNew ==
    ASSUME TypeOK, NEW p \in Pids, Reap(p)
    PROVE  NoNewCore
BY DEF NoNewCore, Running, Reap, FreeAt, TypeOK, Processes

\* Where nothing runs, nothing runs after a step without a new core.
LEMMA StaysQuiet ==
    ASSUME NothingRuns, NoNewCore
    PROVE  NothingRuns'
BY DEF NothingRuns, NoNewCore

\* The record names no managed process: no core runs.
LEMMA RecordTells ==
    ASSUME Benign, NEW h \in Hosts, NoLostAt(h), ~Untracked(h), ~RecordRuns(h)
    PROVE  NothingRuns
BY DEF Benign, NoLostAt, RecordRuns, NothingRuns, Names, Managed, IsLive, IsSame, Running

\* The process the command holds is not managed: no core runs.
LEMMA CheckTells ==
    ASSUME Benign, NEW h \in Hosts, HoldAt(h), pc[h] \in Holds, ~Managed(h, rs[h])
    PROVE  NothingRuns
BY DEF Benign, HoldAt, NothingRuns, Names, Managed, IsLive, IsSame, Running

\* The process the command holds is a zombie: no core runs.
LEMMA ReapTells ==
    ASSUME NEW h \in Hosts, HoldAt(h), pc[h] \in Holds, CanReap(h, rs[h].pid)
    PROVE  NothingRuns
BY DEF HoldAt, NothingRuns, Names, CanReap, Running

\* SIGKILL to the process the command holds: no core runs from here on.
LEMMA KillTells ==
    ASSUME TypeOK, NEW h \in Hosts, NEW q \in Pids, HoldAt(h), pc[h] \in Holds,
           rs[h].pid = q, SigKill(q)
    PROVE  NothingRuns'
<1>1. NoNewCore BY SignalNoNew
<1>2. \A p \in Pids : Running(p) => p = q BY DEF HoldAt, Names
<1>3. ~Running(q)'
  <2>1. proc[q] \in Processes BY DEF TypeOK
  <2>2. proc'[q].doomed = (proc[q].doomed \/ (proc[q].kind # "free" /\ proc[q].alive))
        BY <2>1 DEF SigKill, TypeOK, Processes
  <2>3. proc'[q].kind = proc[q].kind /\ proc'[q].alive = proc[q].alive
        BY SignalKeeps
  <2> QED BY <2>2, <2>3 DEF Running
<1> QED BY <1>1, <1>2, <1>3 DEF NothingRuns, NoNewCore

-----------------------------------------------------------------------------
(* How Track survives a step *)

\* Where nothing runs there is nothing to know.
LEMMA NothingTrack ==
    ASSUME NEW h \in Hosts, NothingRuns'
    PROVE  Track(h)'
BY DEF Track, QuietAt, HoldAt, NoLostAt, NothingRuns

\* The command goes on holding what it held.
LEMMA HoldTrack ==
    ASSUME NEW h \in Hosts, Track(h), pc[h] \in Holds, pc'[h] \in Holds, NoNewCore,
           rs'[h] = rs[h], stateFile' = stateFile, Untracked(h) => Untracked(h)'
    PROVE  Track(h)'
<1>1. QuietAt(h)' BY DEF QuietAt, Quiet, Holds
<1>2. \A p \in Pids : Names(rs[h], p) => Names(rs[h], p)' BY DEF Names, NoNewCore
<1>3. \A p \in Pids : Names(stateFile, p) => Names(stateFile, p)' BY DEF Names, NoNewCore
<1>4. HoldAt(h)' BY <1>2 DEF HoldAt, Track, NoNewCore
<1>5. NoLostAt(h)' BY <1>2, <1>3 DEF NoLostAt, Track, NoNewCore
<1> QED BY <1>1, <1>4, <1>5 DEF Track

\* A command that has ended knows only what the record says.
LEMMA RecordTrack ==
    ASSUME NEW h \in Hosts, Track(h), NoNewCore, pc'[h] = "idle",
           \A p \in Pids : Running(p) => Names(stateFile, p)',
           stateFile' = stateFile
    PROVE  Track(h)'
<1> QED BY DEF Track, QuietAt, HoldAt, NoLostAt, Quiet, Holds, NoNewCore

-----------------------------------------------------------------------------
(* The steps of start *)

\* The locals the program points that hold a record have.
LEMMA HeldRecord ==
    ASSUME TypeOK, NEW h \in Hosts, LocalAt(h), pc[h] \in Holds
    PROVE  rs[h] \in RuntimeStates /\ rs[h].pid \in Pids
<1>1. Holds \subseteq UsesState BY DEF Holds, UsesState, TermLabels
<1>2. rs[h] # NoState BY <1>1 DEF LocalAt
<1>3. rs[h] \in RuntimeStates BY <1>2 DEF TypeOK
<1> QED BY <1>3 DEF RuntimeStates

\* start loads the record: it holds the core it names, or knows that nothing runs.
LEMMA StartLoadTrack ==
    ASSUME TypeOK, Benign, NEW h \in Hosts, LocalAt(h), Track(h), StartLoad(h)
    PROVE  Track(h)'
<1>1. pc[h] = "start.load" /\ UNCHANGED <<stateFile, proc>> BY DEF StartLoad, fileVars
<1>2. NoNewCore /\ (NothingRuns => NothingRuns') BY <1>1, SameProc
<1>3. ~Untracked(h) BY <1>1 DEF Untracked, TermLabels
<1>4. NoLostAt(h) BY DEF Track
<1>5. \A p \in Pids : Running(p) => Names(stateFile, p) BY <1>3, <1>4 DEF NoLostAt
<1>6. \A p \in Pids : Names(stateFile, p) => Names(stateFile, p)' BY <1>1, <1>2 DEF Names, NoNewCore
<1>7. CASE RecordRuns(h) /\ Finish(h, "on")
  <2>1. pc'[h] = "idle" BY <1>7 DEF Finish, Leave, TypeOK
  <2> QED BY <1>1, <1>2, <1>5, <1>6, <2>1, RecordTrack
<1>8. CASE RecordRuns(h) /\ rs' = [rs EXCEPT ![h] = stateFile] /\ Terminate(h, "previous")
  <2>1. pc'[h] = "term.check" /\ rs'[h] = stateFile BY <1>8 DEF Terminate, Goto, TypeOK
  <2>2. QuietAt(h)' BY <2>1 DEF QuietAt, Quiet
  <2>3. \A p \in Pids : Names(stateFile, p)' => Names(rs[h], p)' BY <1>1, <2>1 DEF Names
  <2>4. HoldAt(h)' BY <1>2, <1>5, <1>6, <2>3 DEF HoldAt, NoNewCore
  <2>5. NoLostAt(h)' BY <1>2, <1>5, <1>6 DEF NoLostAt, NoNewCore
  <2> QED BY <2>2, <2>4, <2>5 DEF Track
<1>9. CASE ~RecordRuns(h)
  <2>1. NothingRuns BY <1>3, <1>4, <1>9, RecordTells
  <2> QED BY <1>2, <2>1, NothingTrack
<1> QED BY <1>7, <1>8, <1>9 DEF StartLoad

\* After the fork the start time is read, or the child is killed.
LEMMA TicksTrack ==
    ASSUME TypeOK, Benign, NEW h \in Hosts, LocalAt(h), Track(h),
           StartTicks(h)
    PROVE  Track(h)'
<1>1. /\ pc[h] = "start.ticks" /\ pc[h] \in Holds /\ UNCHANGED <<rs, stateFile, site>>
      BY DEF StartTicks, Holds, fileVars
<1>2. PICK q \in Pids : rs[h].pid = q BY <1>1, HeldRecord
<1>3. CASE Goto(h, "start.provisional") /\ UNCHANGED proc
  <2>1. pc'[h] = "start.provisional" BY <1>3 DEF Goto, TypeOK
  <2>2. Untracked(h)' /\ pc'[h] \in Holds BY <2>1 DEF Untracked, Holds
  <2>3. NoNewCore BY <1>3, SameProc
  <2> QED BY <1>1, <2>2, <2>3, HoldTrack
<1>4. CASE SigKill(rs[h].pid)
  <2>1. SigKill(q) BY <1>2, <1>4
  <2>2. HoldAt(h) BY DEF Track
  <2>3. NothingRuns' BY <1>1, <1>2, <2>1, <2>2, KillTells
  <2> QED BY <2>3, NothingTrack
<1> QED BY <1>3, <1>4 DEF StartTicks

\* The killed child is reaped.
LEMMA StartReapTrack ==
    ASSUME TypeOK, NEW h \in Hosts, LocalAt(h), Track(h), StartReap(h)
    PROVE  Track(h)'
<1>1. pc[h] = "start.reap" BY DEF StartReap
<1>2. NothingRuns BY <1>1 DEF Track, QuietAt, Quiet
<1>3. rs[h] \in RuntimeStates BY <1>1 DEF LocalAt, UsesState, TypeOK
<1>4. PICK q \in Pids : rs[h].pid = q BY <1>3 DEF RuntimeStates
<1>5. Reap(q) BY <1>4 DEF StartReap
<1>6. NoNewCore BY <1>5, ReapNoNew
<1>7. NothingRuns' BY <1>2, <1>6, StaysQuiet
<1> QED BY <1>7, NothingTrack

\* The provisional save hands the core from the command to the record.
LEMMA ProvisionalTrack ==
    ASSUME TypeOK, NEW h \in Hosts, LocalAt(h), Track(h), StartProvisional(h)
    PROVE  Track(h)'
<1>1. pc[h] = "start.provisional" /\ pc[h] \in Holds /\ UNCHANGED <<rs, proc>>
      BY DEF StartProvisional, Holds
<1>2. NoNewCore BY <1>1, SameProc
<1>3. CASE stateFile' = rs[h] /\ Loop(h, "wait.reap")
  <2>1. pc'[h] = "wait.reap" BY <1>3 DEF Loop, Goto, TypeOK
  <2>2. QuietAt(h)' BY <2>1 DEF QuietAt, Quiet
  <2>3. \A p \in Pids : Names(rs[h], p) => Names(rs[h], p)' /\ Names(stateFile, p)'
        BY <1>1, <1>2, <1>3 DEF Names, NoNewCore
  <2>4. \A p \in Pids : Running(p)' => Names(rs[h], p) BY <1>1, <1>2 DEF Track, HoldAt, NoNewCore
  <2>5. HoldAt(h)' BY <2>3, <2>4 DEF HoldAt
  <2>6. NoLostAt(h)' BY <2>3, <2>4 DEF NoLostAt
  <2> QED BY <2>2, <2>5, <2>6 DEF Track
<1>4. CASE Terminate(h, "provisional") /\ UNCHANGED stateFile
  <2>1. pc'[h] = "term.check" /\ site'[h] = "provisional" BY <1>4 DEF Terminate, Goto, TypeOK
  <2>2. Untracked(h)' /\ pc'[h] \in Holds BY <2>1 DEF Untracked, TermLabels, Holds
  <2> QED BY <1>1, <1>2, <1>4, <2>2, HoldTrack
<1> QED BY <1>3, <1>4 DEF StartProvisional

\* waitForTun goes on holding the core, or reaps it.
LEMMA WaitTrack ==
    ASSUME TypeOK, NEW h \in Hosts, LocalAt(h), Track(h), WaitReap(h) \/ WaitTun(h)
    PROVE  Track(h)'
<1>1. /\ pc[h] \in {"wait.reap", "wait.tun"} /\ pc[h] \in Holds
      /\ UNCHANGED <<rs, stateFile>>
      BY DEF WaitReap, WaitTun, Holds, fileVars
<1>2. ~Untracked(h) BY <1>1 DEF Untracked, TermLabels
<1>3. PICK q \in Pids : rs[h].pid = q BY <1>1, HeldRecord
<1>4. CASE WaitReap(h) /\ CanReap(h, rs[h].pid)
  <2>1. Reap(q) BY <1>3, <1>4 DEF WaitReap
  <2>2. NothingRuns BY <1>1, <1>4, ReapTells DEF Track
  <2>3. NothingRuns' BY <2>1, <2>2, ReapNoNew, StaysQuiet
  <2> QED BY <2>3, NothingTrack
<1>5. CASE WaitReap(h) /\ ~CanReap(h, rs[h].pid)
  <2>1. UNCHANGED proc /\ pc'[h] \in Holds BY <1>5 DEF WaitReap, Goto, TypeOK, Holds
  <2>2. NoNewCore BY <2>1, SameProc
  <2> QED BY <1>1, <1>2, <2>1, <2>2, HoldTrack
<1>6. CASE WaitTun(h)
  <2>1. UNCHANGED proc /\ pc'[h] \in Holds BY <1>6 DEF WaitTun, Terminate, Goto, TypeOK, Holds
  <2>2. NoNewCore BY <2>1, SameProc
  <2> QED BY <1>1, <1>2, <2>1, <2>2, HoldTrack
<1> QED BY <1>4, <1>5, <1>6

\* The final save keeps the core on record when the command lets go of it.
LEMMA RunningTrack ==
    ASSUME TypeOK, NEW h \in Hosts, LocalAt(h), Track(h), StartRunning(h)
    PROVE  Track(h)'
<1>1. pc[h] = "start.running" /\ pc[h] \in Holds /\ UNCHANGED proc
      BY DEF StartRunning, Holds
<1>2. NoNewCore BY <1>1, SameProc
<1>3. ~Untracked(h) BY <1>1 DEF Untracked, TermLabels
<1>4. CASE stateFile' = [rs[h] EXCEPT !.phase = "running"] /\ Finish(h, "on")
  <2>1. pc'[h] = "idle" BY <1>4 DEF Finish, Leave, TypeOK
  <2>2. rs[h] \in RuntimeStates BY <1>1, HeldRecord
  <2>3. /\ stateFile' \in RuntimeStates
        /\ stateFile'.pid = rs[h].pid /\ stateFile'.gen = rs[h].gen
        BY <1>4, <2>2 DEF RuntimeStates
  <2>4. stateFile' # NoState BY <2>3, NullAssumption
  <2>5. \A p \in Pids : Names(rs[h], p) => Names(stateFile, p)'
        BY <1>2, <2>3, <2>4 DEF Names, NoNewCore
  <2>6. \A p \in Pids : Running(p)' => Names(stateFile, p)'
        BY <1>1, <1>2, <2>5 DEF Track, HoldAt, NoNewCore
  <2>7. pc'[h] \notin Quiet \cup Holds BY <2>1 DEF Quiet, Holds
  <2> QED BY <2>6, <2>7 DEF Track, QuietAt, HoldAt, NoLostAt
<1>5. CASE Terminate(h, "saved") /\ UNCHANGED <<stateFile, rs>>
  <2>1. pc'[h] \in Holds BY <1>5 DEF Terminate, Goto, TypeOK, Holds
  <2> QED BY <1>1, <1>2, <1>3, <1>5, <2>1, HoldTrack
<1> QED BY <1>4, <1>5 DEF StartRunning

\* The steps that can only be taken, or only lead on, where nothing runs.
LEMMA QuietTrack ==
    ASSUME TypeOK, NEW h \in Hosts, LocalAt(h), Track(h),
           \/ StartClear(h) \/ StartPrepare(h) \/ StartProbe(h) \/ StartConfigure(h)
           \/ StartUndo(h) \/ StartRetry(h) \/ StopClear(h) \/ AwaitTunRemoval(h)
    PROVE  Track(h)'
<1>1. pc[h] \in Quiet /\ UNCHANGED proc
      BY DEF StartClear, StartPrepare, StartProbe, StartConfigure, StartUndo, StartRetry,
             StopClear, AwaitTunRemoval, Quiet
<1>2. NothingRuns BY <1>1 DEF Track, QuietAt
<1>3. NothingRuns' BY <1>1, <1>2, SameProc
<1> QED BY <1>3, NothingTrack

\* The fork: the one step that makes a core, and the command holds it.
LEMMA SpawnTrack ==
    ASSUME TypeOK, NEW h \in Hosts, LocalAt(h), Track(h), StartSpawn(h)
    PROVE  Track(h)'
<1>1. pc[h] = "start.spawn" BY DEF StartSpawn
<1>2. NothingRuns BY <1>1 DEF Track, QuietAt, Quiet
<1>3. CASE NextAttempt(h) /\ UNCHANGED proc
  <2>1. NothingRuns' BY <1>2, <1>3, SameProc
  <2> QED BY <2>1, NothingTrack
<1>4. ASSUME NEW p \in Pids, proc[p].kind = "free", proc[p].gen < MaxGen,
             proc' = [proc EXCEPT ![p] =
                  [kind |-> "core", gen |-> @.gen + 1, alive |-> TRUE, parent |-> h,
                   cgroup |-> h, doomed |-> FALSE, cfg |-> NoPlan]],
             rs' = [rs EXCEPT ![h] = [pid |-> p, gen |-> proc[p].gen + 1,
                                        phase |-> "starting", cfg |-> plan[h]]],
             Goto(h, "start.ticks")
      PROVE  Track(h)'
  <2>1. pc'[h] = "start.ticks" BY <1>4 DEF Goto, TypeOK
  <2>2. rs'[h] = [pid |-> p, gen |-> proc[p].gen + 1, phase |-> "starting", cfg |-> plan[h]]
        BY <1>4 DEF TypeOK
  <2>3. plan[h] \in Plans BY <1>1 DEF LocalAt, UsesPlan, TypeOK
  <2>4. proc[p].gen \in Nat BY DEF TypeOK, Processes
  <2>5. rs'[h] \in RuntimeStates BY <2>2, <2>3, <2>4 DEF RuntimeStates
  <2>6. rs'[h] # NoState BY <2>5, NullAssumption
  <2>7. proc'[p].gen = proc[p].gen + 1 BY <1>4 DEF TypeOK
  <2>8. Names(rs[h], p)' BY <2>2, <2>6, <2>7 DEF Names
  <2>9. \A q \in Pids : Running(q)' => q = p
        BY <1>2, <1>4 DEF NothingRuns, Running, TypeOK
  <2>10. HoldAt(h)' BY <2>8, <2>9 DEF HoldAt
  <2>11. Untracked(h)' BY <2>1 DEF Untracked
  <2>12. NoLostAt(h)' BY <2>8, <2>9, <2>11 DEF NoLostAt
  <2>13. QuietAt(h)' BY <2>1 DEF QuietAt, Quiet
  <2> QED BY <2>10, <2>12, <2>13 DEF Track
<1> QED BY <1>3, <1>4 DEF StartSpawn

-----------------------------------------------------------------------------
(* The steps of stop and terminateCore *)

\* stop loads the record: it holds the core it names, or knows that nothing runs.
LEMMA StopLoadTrack ==
    ASSUME TypeOK, Benign, NEW h \in Hosts, LocalAt(h), Track(h), StopLoad(h)
    PROVE  Track(h)'
<1>1. pc[h] = "stop.load" /\ UNCHANGED <<stateFile, proc>> BY DEF StopLoad, fileVars
<1>2. NoNewCore /\ (NothingRuns => NothingRuns') BY <1>1, SameProc
<1>3. ~Untracked(h) BY <1>1 DEF Untracked, TermLabels
<1>4. NoLostAt(h) BY DEF Track
<1>5. \A p \in Pids : Running(p) => Names(stateFile, p) BY <1>3, <1>4 DEF NoLostAt
<1>6. \A p \in Pids : Names(stateFile, p) => Names(stateFile, p)' BY <1>1, <1>2 DEF Names, NoNewCore
<1>7. CASE RecordRuns(h) /\ rs' = [rs EXCEPT ![h] = stateFile] /\ Terminate(h, "stop")
  <2>1. pc'[h] = "term.check" /\ rs'[h] = stateFile BY <1>7 DEF Terminate, Goto, TypeOK
  <2>2. QuietAt(h)' BY <2>1 DEF QuietAt, Quiet
  <2>3. \A p \in Pids : Names(stateFile, p)' => Names(rs[h], p)' BY <1>1, <2>1 DEF Names
  <2>4. HoldAt(h)' BY <1>2, <1>5, <1>6, <2>3 DEF HoldAt, NoNewCore
  <2>5. NoLostAt(h)' BY <1>2, <1>5, <1>6 DEF NoLostAt, NoNewCore
  <2> QED BY <2>2, <2>4, <2>5 DEF Track
<1>8. CASE ~RecordRuns(h)
  <2>1. NothingRuns BY <1>3, <1>4, <1>8, RecordTells
  <2> QED BY <1>2, <2>1, NothingTrack
<1>9. stateFile = NoState => ~RecordRuns(h) BY DEF RecordRuns
<1> QED BY <1>7, <1>8, <1>9 DEF StopLoad

\* The steps that look at the process: on failure nothing runs, else h holds on.
LEMMA CheckTrack ==
    ASSUME TypeOK, Benign, NEW h \in Hosts, LocalAt(h), Track(h),
           TermCheck(h) \/ KillCheck(h)
    PROVE  Track(h)'
<1>1. pc[h] \in {"term.check", "kill.check"} /\ UNCHANGED <<stateFile, proc>>
      BY DEF TermCheck, KillCheck, fileVars
<1>2. pc[h] \in Holds BY <1>1 DEF Holds
<1>3. NoNewCore /\ (NothingRuns => NothingRuns') BY <1>1, SameProc
<1>4. CASE Managed(h, rs[h])
  <2>1. /\ pc'[h] \in {"term.signal", "kill.signal"}
        /\ UNCHANGED <<rs, site>>
        BY <1>4 DEF TermCheck, KillCheck, Goto, TypeOK
  <2>2. Untracked(h) => Untracked(h)' BY <1>1, <2>1 DEF Untracked, TermLabels
  <2>3. pc'[h] \in Holds BY <2>1 DEF Holds
  <2> QED BY <1>1, <1>2, <1>3, <2>1, <2>2, <2>3, HoldTrack
<1>5. CASE ~Managed(h, rs[h])
  <2>1. NothingRuns BY <1>2, <1>5, CheckTells DEF Track
  <2> QED BY <1>3, <2>1, NothingTrack
<1> QED BY <1>4, <1>5

\* A poll of terminateCore: nothing runs, or h holds on, or SIGKILL is pending.
LEMMA PollTrack ==
    ASSUME TypeOK, Benign, NEW h \in Hosts, LocalAt(h), Track(h), TermPoll(h)
    PROVE  Track(h)'
<1>1. pc[h] \in {"term.poll", "kill.poll"} /\ UNCHANGED <<stateFile, proc>>
      BY DEF TermPoll, fileVars
<1>2. NoNewCore /\ (NothingRuns => NothingRuns') BY <1>1, SameProc
<1>3. CASE pc[h] = "kill.poll"
  <2>1. NothingRuns BY <1>3 DEF Track, QuietAt, Quiet
  <2> QED BY <1>2, <2>1, NothingTrack
<1>4. CASE pc[h] = "term.poll" /\ ~Managed(h, rs[h])
  <2>1. pc[h] \in Holds BY <1>4 DEF Holds
  <2>2. NothingRuns BY <1>4, <2>1, CheckTells DEF Track
  <2> QED BY <1>2, <2>2, NothingTrack
<1>5. CASE pc[h] = "term.poll" /\ Managed(h, rs[h])
  <2>1. pc'[h] \in {"term.reap", "kill.check"} /\ UNCHANGED <<rs, site>>
        BY <1>5 DEF TermPoll, Goto, TypeOK
  <2>2. Untracked(h) => Untracked(h)' BY <1>1, <2>1 DEF Untracked, TermLabels
  <2>3. pc[h] \in Holds /\ pc'[h] \in Holds BY <1>5, <2>1 DEF Holds
  <2> QED BY <1>1, <1>2, <2>1, <2>2, <2>3, HoldTrack
<1> QED BY <1>1, <1>3, <1>4, <1>5

\* waitpid in terminateCore: what it reaps was the only core.
LEMMA TermReapTrack ==
    ASSUME TypeOK, NEW h \in Hosts, LocalAt(h), Track(h), TermReap(h)
    PROVE  Track(h)'
<1>1. pc[h] \in {"term.reap", "kill.reap"} /\ UNCHANGED stateFile
      BY DEF TermReap, fileVars
<1>2. rs[h] \in RuntimeStates BY <1>1 DEF LocalAt, UsesState, TermLabels, TypeOK
<1>3. PICK q \in Pids : rs[h].pid = q BY <1>2 DEF RuntimeStates
<1>4. NoNewCore
  <2>1. CASE Reap(q) BY <2>1, ReapNoNew
  <2>2. CASE UNCHANGED proc BY <2>2, SameProc
  <2> QED BY <1>3, <2>1, <2>2 DEF TermReap
<1>5. CASE NothingRuns
  <2>1. NothingRuns' BY <1>4, <1>5, StaysQuiet
  <2> QED BY <2>1, NothingTrack
<1>6. CASE ~NothingRuns
  <2>1. pc[h] = "term.reap" BY <1>1, <1>6 DEF Track, QuietAt, Quiet
  <2>2. pc[h] \in Holds BY <2>1 DEF Holds
  <2>3. ~CanReap(h, rs[h].pid) BY <1>6, <2>2, ReapTells DEF Track
  <2>4. pc'[h] = "term.poll" /\ UNCHANGED <<rs, site>>
        BY <2>1, <2>3 DEF TermReap, Goto, TypeOK
  <2>5. Untracked(h) => Untracked(h)' BY <1>1, <2>4 DEF Untracked, TermLabels
  <2>6. pc'[h] \in Holds BY <2>4 DEF Holds
  <2> QED BY <1>1, <1>4, <2>2, <2>4, <2>5, <2>6, HoldTrack
<1> QED BY <1>5, <1>6

\* SIGTERM leaves the core in the hands of h.
LEMMA TermSignalTrack ==
    ASSUME TypeOK, NEW h \in Hosts, LocalAt(h), Track(h), TermSignal(h)
    PROVE  Track(h)'
<1>1. /\ pc[h] = "term.signal" /\ pc[h] \in Holds /\ UNCHANGED <<rs, site, stateFile>>
      BY DEF TermSignal, Holds, fileVars
<1>2. pc'[h] = "term.reap" BY DEF TermSignal, Loop, Goto, TypeOK
<1>3. PICK q \in Pids : rs[h].pid = q BY <1>1, HeldRecord
<1>4. NoNewCore BY <1>3, SignalNoNew DEF TermSignal
<1>5. Untracked(h) => Untracked(h)' BY <1>1, <1>2 DEF Untracked, TermLabels
<1>6. pc'[h] \in Holds BY <1>2 DEF Holds
<1> QED BY <1>1, <1>4, <1>5, <1>6, HoldTrack

\* SIGKILL ends the only core.
LEMMA KillSignalTrack ==
    ASSUME TypeOK, NEW h \in Hosts, LocalAt(h), Track(h), KillSignal(h)
    PROVE  Track(h)'
<1>1. pc[h] = "kill.signal" /\ pc[h] \in Holds BY DEF KillSignal, Holds
<1>2. PICK q \in Pids : rs[h].pid = q BY <1>1, HeldRecord
<1>3. SigKill(q) BY <1>2 DEF KillSignal
<1>4. NothingRuns' BY <1>1, <1>2, <1>3, KillTells DEF Track
<1> QED BY <1>4, NothingTrack

\* A change of the setting concerns no core.
LEMMA SettingTrack ==
    ASSUME TypeOK, NEW h \in Hosts, Track(h), SetSetting(h)
    PROVE  Track(h)'
<1>1. pc[h] = "set.save" /\ pc'[h] = "idle" /\ UNCHANGED <<proc, stateFile>>
      BY DEF SetSetting, Finish, Fail, Leave, TypeOK
<1>2. NoNewCore BY <1>1, SameProc
<1>3. ~Untracked(h) BY <1>1 DEF Untracked, TermLabels
<1>4. \A p \in Pids : Running(p) => Names(stateFile, p)'
      BY <1>1, <1>2, <1>3 DEF Track, NoLostAt, Names, NoNewCore
<1> QED BY <1>1, <1>2, <1>4, RecordTrack

\* Every step of a command keeps what its program points know about the cores.
LEMMA TrackStep ==
    ASSUME TypeOK, Benign, NEW h \in Hosts, LocalAt(h), Track(h), HostStep(h)
    PROVE  Track(h)'
<1>1. CASE StartStep(h)
      BY <1>1, StartLoadTrack, QuietTrack, SpawnTrack, TicksTrack, StartReapTrack,
         ProvisionalTrack, WaitTrack, RunningTrack DEF StartStep
<1>2. CASE TermStep(h)
      BY <1>2, CheckTrack, TermSignalTrack, TermReapTrack, PollTrack, KillSignalTrack,
         QuietTrack DEF TermStep
<1>3. CASE StopLoad(h) BY <1>3, StopLoadTrack
<1>4. CASE StopClear(h) BY <1>4, QuietTrack
<1>5. CASE SetSetting(h) BY <1>5, SettingTrack
<1> QED BY <1>1, <1>2, <1>3, <1>4, <1>5 DEF HostStep

-----------------------------------------------------------------------------
(* IInv is inductive *)

\* FileLock: while h is inside a command nobody else is.
LEMMA OneInside ==
    ASSUME LockInv, NEW h \in Hosts, NEW g \in Hosts, pc[h] \in OpLabels, pc[g] \in OpLabels
    PROVE  g = h
BY DEF LockInv

\* The program points that know something of cores are inside commands.
LEMMA InsideLabels ==
    /\ Quiet \subseteq OpLabels /\ Holds \subseteq OpLabels
    /\ \A h \in Hosts : Untracked(h) => pc[h] \in OpLabels
    /\ "idle" \notin OpLabels /\ "down" \notin OpLabels
BY DEF Quiet, Holds, Untracked, OpLabels, StartLabels, StopLabels, TermLabels

\* A step of one command keeps what every host knows: the others are outside.
LEMMA HostTracks ==
    ASSUME IInv, Benign, NEW h \in Hosts, HostStep(h)
    PROVE  QuietInv' /\ HoldInv' /\ NoLostCore'
<1>1. TypeOK /\ LockInv /\ LocalInv BY DEF IInv, ControlInv
<1>2. FrameOf(h) BY <1>1, HostFrame, TypeGroups
<1>3. pc[h] \in OpLabels BY <1>2 DEF FrameOf
<1>4. LocalAt(h) BY <1>1 DEF LocalInv, LocalAt
<1>5. Track(h)
  <2>1. QuietAt(h) /\ HoldAt(h) BY DEF IInv, QuietInv, HoldInv, QuietAt, HoldAt
  <2>2. \A g \in Hosts : Untracked(g) => g = h BY <1>1, <1>3, OneInside, InsideLabels
  <2>3. NoLostAt(h) BY <2>2 DEF IInv, NoLostCore, NoLostAt
  <2> QED BY <2>1, <2>3 DEF Track
<1>6. Track(h)' BY <1>1, <1>4, <1>5, TrackStep
<1>7. \A g \in Hosts \ {h} : pc'[g] \notin OpLabels
      BY <1>1, <1>2, <1>3, OneInside DEF FrameOf
<1>8. \A g \in Hosts \ {h} : pc'[g] \notin Quiet /\ pc'[g] \notin Holds
      BY <1>7, InsideLabels
<1>9. QuietInv' BY <1>6, <1>8 DEF Track, QuietInv, QuietAt
<1>10. HoldInv' BY <1>6, <1>8 DEF Track, HoldInv, HoldAt
<1>11. NoLostCore' BY <1>6 DEF Track, NoLostAt, NoLostCore
<1> QED BY <1>9, <1>10, <1>11

\* The steps of the environment that touch no command and no record.
LEMMA OutsideTracks ==
    ASSUME IInv, UNCHANGED <<pc, rs, site, stateFile>>,
           \A p \in Pids : Running(p)' => Running(p) /\ proc'[p].gen = proc[p].gen
    PROVE  QuietInv' /\ HoldInv' /\ NoLostCore'
<1>1. \A p \in Pids : Running(p)' =>
          /\ Names(stateFile, p) => Names(stateFile, p)'
          /\ \A h \in Hosts : Names(rs[h], p) => Names(rs[h], p)'
      BY DEF Names
<1>2. \A h \in Hosts : Untracked(h) => Untracked(h)' BY DEF Untracked
<1>3. QuietInv' BY DEF IInv, QuietInv, NothingRuns
<1>4. HoldInv' BY <1>1 DEF IInv, HoldInv
<1>5. NoLostCore' BY <1>1, <1>2 DEF IInv, NoLostCore
<1> QED BY <1>3, <1>4, <1>5

\* The start of a command.
LEMMA CommandTracks ==
    ASSUME IInv, NEW h \in Hosts, Command(h)
    PROVE  QuietInv' /\ HoldInv' /\ NoLostCore'
<1>1. PICK c \in {"on", "off", "set"} : Begin(h, c) BY DEF Command
<1>2. /\ lock = NoHost
      /\ pc' = [pc EXCEPT ![h] = Entry[c]]
      /\ UNCHANGED <<rs, site, stateFile, proc>>
      BY <1>1 DEF Begin, Goto, fileVars
<1>3. TypeOK /\ LockInv BY DEF IInv, ControlInv
<1>4. \A g \in Hosts : pc[g] \notin OpLabels BY <1>2, <1>3, HostAssumption DEF LockInv
<1>5. Entry[c] \in {"start.load", "stop.load", "set.save"} BY DEF Entry
<1>6. pc'[h] = Entry[c] /\ \A g \in Hosts \ {h} : pc'[g] = pc[g] BY <1>2, <1>3 DEF TypeOK
<1>7. \A g \in Hosts : pc'[g] \notin Quiet /\ pc'[g] \notin Holds
  <2>1. Entry[c] \notin Quiet /\ Entry[c] \notin Holds BY <1>5 DEF Quiet, Holds
  <2> QED BY <1>4, <1>6, <2>1, InsideLabels
<1>8. NoNewCore BY <1>2, SameProc
<1>9. \A p \in Pids : Running(p) => Names(stateFile, p)
      BY <1>4, InsideLabels DEF IInv, NoLostCore
<1>10. NoLostCore' BY <1>2, <1>8, <1>9 DEF NoLostCore, NoNewCore, Names
<1> QED BY <1>7, <1>10 DEF QuietInv, HoldInv

\* The death of a host: its commands are gone, and so is a core only it knew.
LEMMA ExitTracks ==
    ASSUME IInv, Benign, NEW h \in Hosts, HostExit(h)
    PROVE  QuietInv' /\ HoldInv' /\ NoLostCore'
<1>1. TypeOK /\ ChildInv BY DEF IInv, ControlInv
<1>2. /\ stateFile' = stateFile
      /\ pc' = [pc EXCEPT ![h] = IF h \in Supervised THEN "down" ELSE "idle"]
      /\ rs' = [rs EXCEPT ![h] = NoState]
      /\ site' = [site EXCEPT ![h] = "none"]
      /\ proc' = [p \in Pids |->
          [proc[p] EXCEPT
             !.parent = IF @ = h THEN Orphan ELSE @,
             !.doomed = @ \/ (h \in Supervised /\ proc[p].cgroup = h /\ proc[p].alive)]]
      BY DEF HostExit, fileVars
<1>3. pc'[h] \notin OpLabels BY <1>1, <1>2, InsideLabels DEF TypeOK
<1>4. \A g \in Hosts \ {h} : pc'[g] = pc[g] /\ rs'[g] = rs[g] /\ site'[g] = site[g]
      BY <1>1, <1>2 DEF TypeOK
<1>5. \A p \in Pids :
          /\ proc'[p].kind = proc[p].kind /\ proc'[p].alive = proc[p].alive
          /\ proc'[p].gen = proc[p].gen
          /\ proc[p].doomed => proc'[p].doomed
          /\ h \in Supervised /\ proc[p].cgroup = h /\ proc[p].alive => proc'[p].doomed
  <2> SUFFICES ASSUME NEW p \in Pids
      PROVE  /\ proc'[p].kind = proc[p].kind /\ proc'[p].alive = proc[p].alive
             /\ proc'[p].gen = proc[p].gen
             /\ proc[p].doomed => proc'[p].doomed
             /\ h \in Supervised /\ proc[p].cgroup = h /\ proc[p].alive => proc'[p].doomed
      OBVIOUS
  <2>1. proc[p] \in Processes BY <1>1 DEF TypeOK
  <2>2. proc'[p] = [proc[p] EXCEPT
             !.parent = IF @ = h THEN Orphan ELSE @,
             !.doomed = @ \/ (h \in Supervised /\ proc[p].cgroup = h /\ proc[p].alive)]
        BY <1>2
  <2> QED BY <2>1, <2>2 DEF Processes
<1>6. NoNewCore BY <1>5 DEF NoNewCore, Running
<1>7. \A p \in Pids : Names(stateFile, p) => Names(stateFile, p)'
      BY <1>2, <1>6 DEF Names, NoNewCore
<1>8. \A g \in Hosts \ {h}, p \in Pids : Names(rs[g], p) => Names(rs[g], p)'
      BY <1>4, <1>6 DEF Names, NoNewCore
<1>9. QuietInv' BY <1>3, <1>4, <1>6, InsideLabels DEF IInv, QuietInv, NothingRuns, NoNewCore
<1>10. HoldInv' BY <1>3, <1>4, <1>6, <1>8, InsideLabels DEF IInv, HoldInv, NoNewCore
<1>11. \A p \in Pids : Untracked(h) /\ Names(rs[h], p) => ~Running(p)'
  <2> SUFFICES ASSUME NEW p \in Pids, Untracked(h), Names(rs[h], p)
               PROVE  ~Running(p)'
      OBVIOUS
  <2>1. h \in Supervised BY DEF HostExit, Benign
  <2>2. OwnsChild(h) BY DEF Untracked, OwnsChild, UsesState, TermLabels
  <2>3. proc[p].cgroup = h BY <1>1, <2>2 DEF ChildInv, Names
  <2> QED BY <1>5, <2>1, <2>3 DEF Running
<1>12. \A g \in Hosts \ {h} : Untracked(g) => Untracked(g)' BY <1>4 DEF Untracked
<1>13. NoLostCore'
       BY <1>6, <1>7, <1>8, <1>11, <1>12 DEF IInv, NoLostCore, NoNewCore
<1> QED BY <1>9, <1>10, <1>13

\* What cores, foreign processes, systemd and the kernel do.
LEMMA OsTracks ==
    ASSUME IInv, Benign, OsStep
    PROVE  QuietInv' /\ HoldInv' /\ NoLostCore'
<1>1. TypeOK BY DEF IInv, ControlInv
<1>2. ASSUME NEW h \in Hosts, Restart(h) PROVE QuietInv' /\ HoldInv' /\ NoLostCore'
  <2>1. pc[h] = "down" /\ pc' = [pc EXCEPT ![h] = "idle"] /\ UNCHANGED <<rs, site, stateFile, proc>>
        BY <1>2 DEF Restart, Goto, fileVars
  <2>2. NoNewCore BY <2>1, SameProc
  <2>3. pc'[h] = "idle" /\ \A g \in Hosts \ {h} : pc'[g] = pc[g] BY <1>1, <2>1 DEF TypeOK
  <2>4. pc'[h] \notin OpLabels /\ ~Untracked(h) BY <2>1, <2>3, InsideLabels
  <2>5. \A g \in Hosts : Untracked(g) => Untracked(g)' BY <2>1, <2>3, <2>4 DEF Untracked
  <2>6. \A p \in Pids : Names(stateFile, p) => Names(stateFile, p)'
        BY <2>1, <2>2 DEF Names, NoNewCore
  <2>7. \A g \in Hosts, p \in Pids : Names(rs[g], p) => Names(rs[g], p)'
        BY <2>1, <2>2 DEF Names, NoNewCore
  <2>8. QuietInv' BY <2>2, <2>3, <2>4, InsideLabels DEF IInv, QuietInv, NothingRuns, NoNewCore
  <2>9. HoldInv' BY <2>2, <2>3, <2>4, <2>7, InsideLabels DEF IInv, HoldInv, NoNewCore
  <2>10. NoLostCore' BY <2>2, <2>5, <2>6, <2>7 DEF IInv, NoLostCore, NoNewCore
  <2> QED BY <2>8, <2>9, <2>10
<1>3. ASSUME NEW p \in Pids, InitReaps(p) \/ CoreExit(p) \/ CoreLoads(p) \/ CoreTun(p)
                              \/ ForeignStarts(p) \/ ForeignExits(p)
      PROVE QuietInv' /\ HoldInv' /\ NoLostCore'
  <2>1. UNCHANGED <<pc, rs, site, stateFile>>
        BY <1>3 DEF InitReaps, CoreExit, CoreLoads, CoreTun, ForeignStarts, ForeignExits,
                    hostVars, fileVars
  <2>2. \A q \in Pids \ {p} : proc'[q] = proc[q]
        BY <1>1, <1>3 DEF InitReaps, CoreExit, CoreLoads, CoreTun, ForeignStarts, ForeignExits,
                          Reap, TypeOK
  <2>3. Running(p)' => Running(p) /\ proc'[p].gen = proc[p].gen
    <3>1. CASE InitReaps(p) \/ ForeignExits(p)
          BY <1>1, <3>1 DEF InitReaps, ForeignExits, Reap, FreeAt, Running, TypeOK
    <3>2. CASE CoreExit(p)
          BY <1>1, <3>2 DEF CoreExit, Running, TypeOK, Processes
    <3>3. CASE CoreLoads(p)
          BY <1>1, <3>3 DEF CoreLoads, Running, TypeOK, Processes
    <3>4. CASE CoreTun(p)
          BY <3>4 DEF CoreTun, Running
    <3>5. CASE ForeignStarts(p)
          BY <1>1, <3>5 DEF ForeignStarts, FreeAt, Running, TypeOK
    <3> QED BY <1>3, <3>1, <3>2, <3>3, <3>4, <3>5
  <2>4. \A q \in Pids : Running(q)' => Running(q) /\ proc'[q].gen = proc[q].gen
        BY <2>2, <2>3 DEF Running
  <2> QED BY <2>1, <2>4, OutsideTracks
<1>4. CASE TunVanishes \/ ExternalTunChanges
  <2>1. UNCHANGED <<pc, rs, site, stateFile, proc>>
        BY <1>4 DEF TunVanishes, ExternalTunChanges, hostVars, fileVars
  <2>2. NoNewCore BY <2>1, SameProc
  <2> QED BY <2>1, <2>2, OutsideTracks DEF NoNewCore
<1> QED BY <1>2, <1>3, <1>4, ExitTracks DEF OsStep

\* The full invariant is inductive.
LEMMA IInvInductive ==
    ASSUME IInv, Benign, [Next]_vars
    PROVE  IInv'
<1>1. ControlInv' BY ControlInductive DEF IInv
<1>2. QuietInv' /\ HoldInv' /\ NoLostCore'
  <2>1. CASE \E h \in Hosts : Command(h) BY <2>1, CommandTracks
  <2>2. CASE \E h \in Hosts : HostStep(h) BY <2>2, HostTracks
  <2>3. CASE OsStep BY <2>3, OsTracks
  <2>4. CASE UNCHANGED vars \/ \E r \in Readers : ReaderLoads(r) \/ ReaderReports(r)
    <3>1. UNCHANGED <<pc, rs, site, stateFile, proc>>
          BY <2>4 DEF ReaderLoads, ReaderReports, vars, hostVars, fileVars
    <3>2. NoNewCore BY <3>1, SameProc
    <3> QED BY <3>1, <3>2, OutsideTracks DEF NoNewCore
  <2> QED BY <2>1, <2>2, <2>3, <2>4 DEF Next
<1> QED BY <1>1, <1>2 DEF IInv

\* It holds initially.
LEMMA IInvInit == Init => IInv
<1> SUFFICES ASSUME Init PROVE IInv OBVIOUS
<1>1. ControlInv BY ControlInit
<1>2. \A p \in Pids : ~Running(p) BY DEF Init, FreeAt, Running
<1> QED BY <1>1, <1>2 DEF IInv, QuietInv, HoldInv, NoLostCore, NothingRuns

-----------------------------------------------------------------------------
(* What follows from it *)

\* Program points and process table agree for ever: after a clean-up no core runs,
\* and before it the command holds the only one that can.
THEOREM TrackCorrect == ASSUME Benign PROVE Spec => []IInv
<1>1. Init => IInv BY IInvInit
<1>2. IInv /\ [Next]_vars => IInv' BY IInvInductive
<1> QED BY <1>1, <1>2, PTL DEF Spec

\* A running core is on record or in the hands of the command that forked it, for
\* every set of hosts and pids (the reason for the provisional record of start).
THEOREM NoCoreIsLost == ASSUME Benign PROVE Spec => []NoLostCore
<1>1. IInv => NoLostCore BY DEF IInv
<1> QED BY <1>1, TrackCorrect, PTL

\* start never leaves two cores running, whatever the commands before it did and
\* wherever they died.
THEOREM OneCore == ASSUME Benign PROVE Spec => []OnlyOneCore
<1>1. ASSUME IInv PROVE OnlyOneCore
  <2> SUFFICES ASSUME NEW p \in Pids, NEW q \in Pids, Running(p), Running(q)
               PROVE  p = q
      BY DEF OnlyOneCore
  <2>1. CASE Names(stateFile, p) /\ Names(stateFile, q) BY <2>1 DEF Names
  <2>2. CASE \E h \in Hosts : Untracked(h)
    <3>1. PICK h \in Hosts : Untracked(h) BY <2>2
    <3>2. pc[h] \in Quiet \cup Holds BY <3>1 DEF Untracked, Quiet, Holds, TermLabels
    <3>3. pc[h] \in Holds BY <1>1, <3>2 DEF IInv, QuietInv, NothingRuns
    <3>4. Names(rs[h], p) /\ Names(rs[h], q) BY <1>1, <3>3 DEF IInv, HoldInv
    <3> QED BY <3>4 DEF Names
  <2> QED BY <1>1, <2>1, <2>2 DEF IInv, NoLostCore
<1> QED BY <1>1, TrackCorrect, PTL

\* The only step that answers `off`.
LEMMA OffStep ==
    ASSUME TypeOK, [Next]_vars, reply' = "off", reply # "off"
    PROVE  \E h \in Hosts : pc[h] = "stop.clear" /\ stateFile' = NoState /\ proc' = proc
<1>1. reply' # reply OBVIOUS
<1>2. PICK h \in Hosts : HostStep(h)
  <2>1. CASE \E h \in Hosts : Command(h) BY <2>1 DEF Command, Begin
  <2>2. CASE OsStep
        BY <1>1, <2>2 DEF OsStep, HostExit, Restart, InitReaps, CoreExit, CoreLoads, CoreTun,
             ForeignStarts, ForeignExits, TunVanishes, ExternalTunChanges, hostVars
  <2>3. CASE UNCHANGED vars \/ \E r \in Readers : ReaderLoads(r) \/ ReaderReports(r)
        BY <1>1, <2>3 DEF ReaderLoads, ReaderReports, vars, hostVars
  <2> QED BY <2>1, <2>2, <2>3 DEF Next
<1> USE DEF Finish, Fail, Leave, NextAttempt, Terminated
<1>3. ~StartStep(h)
      BY <1>1 DEF StartStep, StartLoad, StartClear, StartPrepare, StartProbe, StartConfigure,
           StartSpawn, StartTicks, StartReap, StartProvisional, WaitReap, WaitTun, StartRunning,
           StartUndo, StartRetry
<1>4. ~TermStep(h)
      BY <1>1 DEF TermStep, TermCheck, TermSignal, TermReap, TermPoll, KillCheck, KillSignal,
           AwaitTunRemoval
<1>5. ~StopLoad(h) /\ ~SetSetting(h) BY <1>1 DEF StopLoad, SetSetting
<1>6. StopClear(h) BY <1>2, <1>3, <1>4, <1>5 DEF HostStep
<1> QED BY <1>1, <1>6 DEF StopClear

\* `off` answers OFF only with the record gone and nothing running (stop).
THEOREM OffIsTrue == ASSUME Benign PROVE Spec => OffMeansStopped
<1>1. ASSUME IInv, [Next]_vars, reply' = "off", reply # "off"
      PROVE  stateFile' = NoState /\ \A p \in Pids : ~Running(p)'
  <2>1. TypeOK BY <1>1 DEF IInv, ControlInv
  <2>2. PICK h \in Hosts : pc[h] = "stop.clear" /\ stateFile' = NoState /\ proc' = proc
        BY <1>1, <2>1, OffStep
  <2>3. NothingRuns BY <1>1, <2>2 DEF IInv, QuietInv, Quiet
  <2> QED BY <2>2, <2>3 DEF NothingRuns, Running
<1>2. IInv /\ [Next]_vars =>
        [reply' = "off" /\ reply # "off" =>
          /\ stateFile' = NoState
          /\ \A p \in Pids : ~Running(p)']_vars
      BY <1>1
<1> QED BY <1>2, TrackCorrect, PTL DEF Spec, OffMeansStopped

\* A command fails only where nothing runs, and leaves it so.
LEMMA FailStep ==
    ASSUME TypeOK, NEW h \in Hosts, HostStep(h), reply' = "error", reply # "error",
           pc[h] # "set.save"
    PROVE  /\ pc[h] \in Quiet
           /\ \A p \in Pids : Running(p)' => Running(p)
<1>1. reply' # reply OBVIOUS
<1> USE DEF Finish, Fail, Leave, NextAttempt, Terminated, Quiet
<1>2. ~WaitReap(h) /\ ~WaitTun(h) /\ ~StartTicks(h) /\ ~TermReap(h) /\ ~TermCheck(h)
      /\ ~KillCheck(h) /\ ~TermSignal(h) /\ ~KillSignal(h) /\ ~StartUndo(h)
      BY <1>1 DEF WaitReap, WaitTun, StartTicks, TermReap, TermCheck, KillCheck, TermSignal,
           KillSignal, StartUndo
<1>3. ~StartLoad(h) /\ ~StartProvisional(h) /\ ~StartRunning(h) /\ ~StopLoad(h) /\ ~SetSetting(h)
      BY <1>1 DEF StartLoad, StartProvisional, StartRunning, StopLoad, SetSetting
<1>4. CASE StartClear(h) \/ StartPrepare(h) \/ StartProbe(h) \/ StartConfigure(h)
           \/ StartRetry(h) \/ StopClear(h) \/ AwaitTunRemoval(h)
  <2>1. pc[h] \in Quiet /\ UNCHANGED proc
        BY <1>4 DEF StartClear, StartPrepare, StartProbe, StartConfigure, StartRetry, StopClear,
                    AwaitTunRemoval
  <2> QED BY <2>1 DEF Running
<1>5. CASE StartSpawn(h)
  <2>1. pc[h] \in Quiet /\ UNCHANGED proc BY <1>1, <1>5 DEF StartSpawn
  <2> QED BY <2>1 DEF Running
<1>6. CASE TermPoll(h)
  <2>1. pc[h] \in Quiet /\ UNCHANGED proc BY <1>1, <1>6 DEF TermPoll
  <2> QED BY <2>1 DEF Running
<1>7. CASE StartReap(h)
  <2>1. pc[h] \in Quiet BY <1>7 DEF StartReap
  <2>2. \A p \in Pids : Running(p)' => Running(p)
        BY <1>7 DEF StartReap, Reap, FreeAt, Running, TypeOK
  <2> QED BY <2>1, <2>2
<1> QED BY <1>2, <1>3, <1>4, <1>5, <1>6, <1>7 DEF HostStep, StartStep, TermStep

\* Every error path of start and stop has taken down what was running.
THEOREM ErrorIsClean == ASSUME Benign PROVE Spec => ErrorLeavesNoCore
<1>1. ASSUME IInv, [Next]_vars, NEW h \in Hosts, pc[h] \in OpLabels \ {"set.save"},
             pc'[h] = "idle", reply' = "error", reply # "error"
      PROVE  \A p \in Pids : ~Running(p)'
  <2>1. TypeOK BY <1>1 DEF IInv, ControlInv
  <2>2. reply' # reply /\ reply' # "none" BY <1>1
  <2>3. PICK g \in Hosts : HostStep(g)
    <3>1. CASE \E g \in Hosts : Command(g) BY <2>2, <3>1 DEF Command, Begin
    <3>2. CASE OsStep
          BY <2>2, <3>2 DEF OsStep, HostExit, Restart, InitReaps, CoreExit, CoreLoads, CoreTun,
               ForeignStarts, ForeignExits, TunVanishes, ExternalTunChanges, hostVars
    <3>3. CASE UNCHANGED vars \/ \E r \in Readers : ReaderLoads(r) \/ ReaderReports(r)
          BY <2>2, <3>3 DEF ReaderLoads, ReaderReports, vars, hostVars
    <3> QED BY <1>1, <3>1, <3>2, <3>3 DEF Next
  <2>4. FrameOf(g) BY <2>1, <2>3, HostFrame, TypeGroups
  <2>5. g = h BY <1>1, <2>4, OneInside DEF FrameOf, IInv, ControlInv
  <2>6. pc[h] \in Quiet /\ \A p \in Pids : Running(p)' => Running(p)
        BY <1>1, <2>1, <2>3, <2>5, FailStep
  <2>7. NothingRuns BY <1>1, <2>6 DEF IInv, QuietInv
  <2> QED BY <2>6, <2>7 DEF NothingRuns
<1>2. IInv /\ [Next]_vars =>
        [\A h \in Hosts :
          (/\ pc[h] \in OpLabels \ {"set.save"} /\ pc'[h] = "idle"
           /\ reply' = "error" /\ reply # "error")
          => \A p \in Pids : ~Running(p)']_vars
      BY <1>1
<1> QED BY <1>2, TrackCorrect, PTL DEF Spec, ErrorLeavesNoCore
=============================================================================
