----------------------- MODULE ProxyManagerEnv_proofs -----------------------
(***************************************************************************)
(* What a command or a reader may conclude.  From the world outside: the   *)
(* interface waitForTun sees is the core's own, and a signal only ever     *)
(* reaches a core.  From the state file: it describes the configuration    *)
(* its core has read, and a status that was loaded earlier and finds its   *)
(* core alive is still about the record in the file.  And all of it        *)
(* implements the life cycle of ProxyService.  Proofs.                     *)
(***************************************************************************)
EXTENDS ProxyManager_proofs

IdOf(st) == [pid |-> st.pid, gen |-> st.gen]

\* From the look at the interface to the fork nobody makes it; after the fork only
\* the core does.
TunAt(h) ==
    /\ pc[h] \in {"start.configure", "start.spawn"} => tun = NoTun
    /\ pc[h] \in {"start.ticks", "start.provisional", "wait.reap", "wait.tun"} =>
          tun \in {NoTun, IdOf(rs[h])}

TunInv == \A h \in Hosts : TunAt(h)

-----------------------------------------------------------------------------
(* The interface *)

\* No statement of ours makes or removes the interface; start.probe looks at it.
LEMMA TunStep ==
    ASSUME TypeOK, NEW h \in Hosts, TunAt(h), HostStep(h)
    PROVE  TunAt(h)' /\ tun' = tun
<1>1. tun' = tun
      BY DEF HostStep, StartStep, TermStep, StartLoad, StartClear, StartPrepare, StartProbe,
             StartConfigure, StartSpawn, StartTicks, StartReap, StartProvisional, WaitReap,
             WaitTun, StartRunning, StartUndo, StartRetry, StopLoad, StopClear, TermCheck,
             TermSignal, TermReap, TermPoll, KillCheck, KillSignal, AwaitTunRemoval, SetSetting
<1> DEFINE Early == {"start.configure", "start.spawn"}
<1> USE DEF TypeOK, Goto, Loop, Finish, Fail, Leave, Await, Terminate, NextAttempt, Terminated
<1>2. CASE StartProbe(h) BY <1>1, <1>2 DEF StartProbe, TunAt
<1>3. CASE StartConfigure(h) BY <1>1, <1>3 DEF StartConfigure, TunAt
<1>4. CASE StartSpawn(h)
  <2>1. pc'[h] \notin Early BY <1>4 DEF StartSpawn
  <2> QED BY <1>1, <1>4, <2>1 DEF StartSpawn, TunAt
<1>5. CASE StartTicks(h) BY <1>1, <1>5 DEF StartTicks, TunAt, IdOf
<1>6. CASE StartProvisional(h) BY <1>1, <1>6 DEF StartProvisional, TunAt, IdOf
<1>7. CASE WaitReap(h) BY <1>1, <1>7 DEF WaitReap, TunAt, IdOf
<1>8. CASE WaitTun(h) BY <1>1, <1>8 DEF WaitTun, TunAt, IdOf
<1>9. CASE \/ StartLoad(h) \/ StartClear(h) \/ StartPrepare(h) \/ StartReap(h)
           \/ StartRunning(h) \/ StartUndo(h) \/ StartRetry(h)
  <2>1. CASE StartLoad(h) BY <2>1 DEF StartLoad, TunAt
  <2>2. CASE StartClear(h) BY <2>2 DEF StartClear, TunAt
  <2>3. CASE StartPrepare(h) BY <2>3 DEF StartPrepare, TunAt
  <2>4. CASE StartReap(h) BY <2>4 DEF StartReap, TunAt
  <2>5. CASE StartRunning(h) BY <2>5 DEF StartRunning, TunAt
  <2>6. CASE StartUndo(h) \/ StartRetry(h) BY <2>6 DEF StartUndo, StartRetry, TunAt
  <2> QED BY <1>9, <2>1, <2>2, <2>3, <2>4, <2>5, <2>6
<1>10. CASE \/ StopLoad(h) \/ StopClear(h) \/ TermStep(h) \/ SetSetting(h)
  <2>1. CASE StopLoad(h) BY <2>1 DEF StopLoad, TunAt
  <2>2. CASE StopClear(h) \/ SetSetting(h) BY <2>2 DEF StopClear, SetSetting, TunAt
  <2>3. CASE TermCheck(h) BY <2>3 DEF TermCheck, TunAt
  <2>4. CASE TermSignal(h) \/ KillSignal(h) BY <2>4 DEF TermSignal, KillSignal, TunAt
  <2>5. CASE TermReap(h) BY <2>5 DEF TermReap, TunAt
  <2>6. CASE TermPoll(h) BY <2>6 DEF TermPoll, TunAt
  <2>7. CASE KillCheck(h) BY <2>7 DEF KillCheck, TunAt
  <2>8. CASE AwaitTunRemoval(h) BY <2>8 DEF AwaitTunRemoval, TunAt
  <2> QED BY <1>10, <2>1, <2>2, <2>3, <2>4, <2>5, <2>6, <2>7, <2>8 DEF TermStep
<1> QED BY <1>1, <1>2, <1>3, <1>4, <1>5, <1>6, <1>7, <1>8, <1>9, <1>10 DEF HostStep, StartStep

\* Nobody but the core a command waits for makes the interface after the probe.
LEMMA TunInductive ==
    ASSUME IInv, ~ExternalTun, TunInv, [Next]_vars
    PROVE  TunInv'
<1>1. TypeOK /\ LockInv BY DEF IInv, ControlInv
<1> DEFINE Points == {"start.configure", "start.spawn", "start.ticks", "start.provisional",
                      "wait.reap", "wait.tun"}
<1>2. Points \subseteq OpLabels BY DEF OpLabels, StartLabels
<1>3. ASSUME NEW h \in Hosts, HostStep(h) PROVE TunInv'
  <2>1. FrameOf(h) BY <1>1, <1>3, HostFrame, TypeGroups
  <2>2. \A g \in Hosts \ {h} : pc'[g] \notin OpLabels BY <1>1, <2>1, OneInside DEF FrameOf
  <2>3. TunAt(h)' BY <1>1, <1>3, TunStep DEF TunInv
  <2> QED BY <1>2, <2>2, <2>3 DEF TunInv, TunAt
<1>4. ASSUME NEW h \in Hosts, Command(h) PROVE TunInv'
  <2>1. PICK c \in {"on", "off", "set"} : Begin(h, c) BY <1>4 DEF Command
  <2>2. Entry[c] \notin Points BY DEF Entry
  <2>3. pc'[h] = Entry[c] /\ \A g \in Hosts \ {h} : pc'[g] = pc[g]
        BY <1>1, <2>1 DEF Begin, Goto, TypeOK
  <2>4. UNCHANGED <<rs, tun>> BY <2>1 DEF Begin
  <2> QED BY <2>2, <2>3, <2>4 DEF TunInv, TunAt, IdOf
<1>5. ASSUME UNCHANGED <<pc, rs, tun>> PROVE TunInv'
  BY <1>5 DEF TunInv, TunAt, IdOf
<1>6. ASSUME NEW h \in Hosts, HostExit(h) \/ Restart(h) PROVE TunInv'
  <2>1. pc'[h] \in {"idle", "down"} /\ tun' = tun
        BY <1>1, <1>6 DEF HostExit, Restart, Goto, TypeOK
  <2>2. \A g \in Hosts \ {h} : pc'[g] = pc[g] /\ rs'[g] = rs[g]
        BY <1>1, <1>6 DEF HostExit, Restart, Goto, TypeOK
  <2> QED BY <2>1, <2>2 DEF TunInv, TunAt, IdOf
<1>7. ASSUME NEW p \in Pids, CoreTun(p) PROVE TunInv'
  <2>1. Running(p) BY <1>7 DEF CoreTun, Running
  <2>2. UNCHANGED <<pc, rs>> /\ tun' = [pid |-> p, gen |-> proc[p].gen]
        BY <1>7 DEF CoreTun, hostVars
  <2>3. \A h \in Hosts : pc[h] \notin {"start.configure", "start.spawn"}
        BY <2>1 DEF IInv, QuietInv, NothingRuns, Quiet
  <2>4. ASSUME NEW h \in Hosts, pc[h] \in {"start.ticks", "start.provisional", "wait.reap", "wait.tun"}
        PROVE  tun' = IdOf(rs[h])
    <3>1. pc[h] \in Holds BY <2>4 DEF Holds
    <3>2. Names(rs[h], p) BY <2>1, <3>1 DEF IInv, HoldInv
    <3> QED BY <2>2, <3>2 DEF Names, IdOf
  <2> QED BY <2>2, <2>3, <2>4 DEF TunInv, TunAt, IdOf
<1>8. CASE TunVanishes BY <1>8 DEF TunVanishes, hostVars, TunInv, TunAt, IdOf
<1>9. CASE OsStep
  <2>1. ASSUME NEW p \in Pids, InitReaps(p) \/ CoreExit(p) \/ CoreLoads(p) \/ ForeignStarts(p)
                               \/ ForeignExits(p)
        PROVE TunInv'
    <3>1. UNCHANGED <<pc, rs, tun>>
          BY <2>1 DEF InitReaps, CoreExit, CoreLoads, ForeignStarts, ForeignExits, hostVars
    <3> QED BY <3>1, <1>5
  <2>2. ~ExternalTunChanges BY DEF ExternalTunChanges
  <2> QED BY <1>6, <1>7, <1>8, <1>9, <2>1, <2>2 DEF OsStep
<1>10. CASE UNCHANGED vars \/ \E r \in Readers : ReaderLoads(r) \/ ReaderReports(r)
  <2>1. UNCHANGED <<pc, rs, tun>> BY <1>10 DEF ReaderLoads, ReaderReports, vars, hostVars
  <2> QED BY <2>1, <1>5
<1> QED BY <1>3, <1>4, <1>9, <1>10 DEF Next

\* When waitForTun finds the interface, the core it waits for has made it, provided
\* no other program makes one of that name.
THEOREM ReadyCorrect == ASSUME Benign, ~ExternalTun PROVE Spec => []ReadyIsOurTun
<1>1. Init => TunInv BY DEF Init, TunInv, TunAt
<1>2. IInv /\ TunInv /\ [Next]_vars => TunInv' BY TunInductive
<1>3. TunInv => ReadyIsOurTun BY DEF TunInv, TunAt, IdOf, ReadyIsOurTun
<1> QED BY <1>1, <1>2, <1>3, TrackCorrect, PTL DEF Spec

-----------------------------------------------------------------------------
(* The signals *)

SignalPoints == {"term.signal", "kill.signal"}

\* Between the check and the kill the pid is not a foreign process; foreign
\* processes are in no control group of ours.
SpareInv ==
    /\ SignalsSpareForeign
    /\ \A p \in Pids : proc[p].kind = "foreign" => proc[p].cgroup = NoHost
    /\ \A h \in Hosts : pc[h] \in SignalPoints => proc[rs[h].pid].kind # "foreign"

\* Every foreign process was one before and is as it was.
NoNewForeign ==
    \A p \in Pids : proc'[p].kind = "foreign" =>
        /\ proc[p].kind = "foreign" /\ proc'[p].doomed = proc[p].doomed
        /\ proc'[p].cgroup = proc[p].cgroup

\* A signal to a pid that is not foreign.
LEMMA SignalSpares ==
    ASSUME TypeOK, NEW q \in Pids, proc[q].kind # "foreign", SigTerm(q) \/ SigKill(q)
    PROVE  NoNewForeign
<1>1. \A p \in Pids \ {q} : proc'[p] = proc[p] BY DEF SigTerm, SigKill, TypeOK
<1>2. proc'[q].kind = proc[q].kind BY SignalKeeps
<1> QED BY <1>1, <1>2 DEF NoNewForeign

\* The statements of a command touch no foreign process.
LEMMA StepSpares ==
    ASSUME ControlInv, SpareInv, NEW h \in Hosts, HostStep(h)
    PROVE  NoNewForeign
<1>1. TypeOK BY DEF ControlInv
<1>2. CASE UNCHANGED proc BY <1>2 DEF NoNewForeign
<1>3. ASSUME NEW q \in Pids, Reap(q) PROVE NoNewForeign
      BY <1>1, <1>3 DEF NoNewForeign, Reap, FreeAt, TypeOK
<1>4. ASSUME pc[h] \in UsesState PROVE rs[h].pid \in Pids
      BY <1>1, <1>4 DEF ControlInv, LocalInv, TypeOK, RuntimeStates
<1>5. CASE StartSpawn(h)
      BY <1>1, <1>2, <1>5 DEF StartSpawn, NoNewForeign, TypeOK
<1>6. CASE StartTicks(h)
  <2>1. pc[h] \in UsesState /\ OwnsChild(h)
        BY <1>6 DEF StartTicks, UsesState, OwnsChild, TermLabels
  <2>2. proc[rs[h].pid].kind # "foreign" BY <2>1 DEF ControlInv, ChildInv, IsSame
  <2>3. CASE SigKill(rs[h].pid) BY <1>1, <1>4, <2>1, <2>2, <2>3, SignalSpares
  <2> QED BY <1>2, <1>6, <2>3 DEF StartTicks
<1>7. CASE TermSignal(h) \/ KillSignal(h)
  <2>1. pc[h] \in UsesState /\ pc[h] \in SignalPoints
        BY <1>7 DEF TermSignal, KillSignal, UsesState, TermLabels, SignalPoints
  <2>2. proc[rs[h].pid].kind # "foreign" BY <2>1 DEF SpareInv
  <2>3. SigTerm(rs[h].pid) \/ SigKill(rs[h].pid) BY <1>7 DEF TermSignal, KillSignal
  <2> QED BY <1>1, <1>4, <2>1, <2>2, <2>3, SignalSpares
<1>8. CASE StartReap(h) \/ WaitReap(h) \/ TermReap(h)
  <2>1. pc[h] \in UsesState
        BY <1>8 DEF StartReap, WaitReap, TermReap, UsesState, TermLabels
  <2>2. Reap(rs[h].pid) \/ UNCHANGED proc BY <1>8 DEF StartReap, WaitReap, TermReap
  <2> QED BY <1>2, <1>3, <1>4, <2>1, <2>2
<1>9. CASE \/ StartLoad(h) \/ StartClear(h) \/ StartPrepare(h) \/ StartProbe(h)
           \/ StartConfigure(h) \/ StartProvisional(h) \/ WaitTun(h) \/ StartRunning(h)
           \/ StartUndo(h) \/ StartRetry(h) \/ StopLoad(h) \/ StopClear(h) \/ TermCheck(h)
           \/ TermPoll(h) \/ KillCheck(h) \/ AwaitTunRemoval(h) \/ SetSetting(h)
  <2>1. UNCHANGED proc
        BY <1>9 DEF StartLoad, StartClear, StartPrepare, StartProbe, StartConfigure,
             StartProvisional, WaitTun, StartRunning, StartUndo, StartRetry, StopLoad, StopClear,
             TermCheck, TermPoll, KillCheck, AwaitTunRemoval, SetSetting
  <2> QED BY <1>2, <2>1
<1> QED BY <1>5, <1>6, <1>7, <1>8, <1>9 DEF HostStep, StartStep, TermStep

\* A command comes to a signal only from a check of that process.
LEMMA SignalChecked ==
    ASSUME TypeOK, NEW h \in Hosts, HostStep(h), pc'[h] \in SignalPoints
    PROVE  proc' = proc /\ rs' = rs /\ proc[rs[h].pid].kind = "core"
<1> USE DEF TypeOK, Goto, Loop, Finish, Fail, Leave, Await, Terminate, NextAttempt, Terminated,
        SignalPoints, Managed, IsLive, IsSame
<1>1. CASE TermCheck(h) BY <1>1 DEF TermCheck
<1>2. CASE KillCheck(h) BY <1>2 DEF KillCheck
<1>3. ~StartLoad(h) /\ ~StartClear(h) /\ ~StartPrepare(h) BY DEF StartLoad, StartClear, StartPrepare
<1>4. ~StartProbe(h) /\ ~StartConfigure(h) /\ ~StartSpawn(h) BY DEF StartProbe, StartConfigure, StartSpawn
<1>5. ~StartTicks(h) /\ ~StartReap(h) /\ ~StartProvisional(h) BY DEF StartTicks, StartReap, StartProvisional
<1>6. ~WaitReap(h) /\ ~WaitTun(h) /\ ~StartRunning(h) BY DEF WaitReap, WaitTun, StartRunning
<1>7. ~StartUndo(h) /\ ~StartRetry(h) /\ ~StopLoad(h) BY DEF StartUndo, StartRetry, StopLoad
<1>8. ~StopClear(h) /\ ~SetSetting(h) BY DEF StopClear, SetSetting
<1>9. ~TermSignal(h) /\ ~KillSignal(h) BY DEF TermSignal, KillSignal
<1>10. ~TermReap(h) BY DEF TermReap
<1>11. ~TermPoll(h) BY DEF TermPoll
<1>12. ~AwaitTunRemoval(h) BY DEF AwaitTunRemoval
<1> QED BY <1>1, <1>2, <1>3, <1>4, <1>5, <1>6, <1>7, <1>8, <1>9, <1>10, <1>11, <1>12
        DEF HostStep, StartStep, TermStep

\* What keeps SpareInv: no new foreign process, and whoever is about to signal was so
\* before or has checked just now.
LEMMA SpareKept ==
    ASSUME TypeOK, SpareInv, NoNewForeign, LocalInv,
           \A h \in Hosts : pc'[h] \in SignalPoints =>
               pc[h] \in SignalPoints /\ rs'[h] = rs[h]
    PROVE  SpareInv'
<1>1. SignalsSpareForeign' BY DEF NoNewForeign, SpareInv, SignalsSpareForeign
<1>2. \A p \in Pids : proc'[p].kind = "foreign" => proc'[p].cgroup = NoHost
      BY DEF NoNewForeign, SpareInv
<1>3. ASSUME NEW h \in Hosts, pc'[h] \in SignalPoints
      PROVE  proc'[rs'[h].pid].kind # "foreign"
  <2>1. pc[h] \in SignalPoints /\ rs'[h] = rs[h] BY <1>3
  <2>2. pc[h] \in UsesState BY <2>1 DEF SignalPoints, UsesState, TermLabels
  <2>3. rs[h].pid \in Pids BY <2>2 DEF LocalInv, TypeOK, RuntimeStates
  <2> QED BY <2>1, <2>3 DEF SpareInv, NoNewForeign
<1> QED BY <1>1, <1>2, <1>3 DEF SpareInv

\* Nothing a host, a reader or the kernel does dooms a foreign process.
LEMMA SpareInductive ==
    ASSUME ControlInv, SpareInv, ~FastPidReuse, [Next]_vars
    PROVE  SpareInv'
<1>1. TypeOK /\ LockInv /\ LocalInv BY DEF ControlInv
<1>2. SignalPoints \subseteq OpLabels BY DEF SignalPoints, OpLabels, TermLabels
<1>3. ASSUME NEW h \in Hosts, HostStep(h) PROVE SpareInv'
  <2>1. NoNewForeign BY <1>3, StepSpares
  <2>2. FrameOf(h) BY <1>1, <1>3, HostFrame, TypeGroups
  <2>3. \A g \in Hosts \ {h} : pc'[g] \notin OpLabels BY <1>1, <2>2, OneInside DEF FrameOf
  <2>4. CASE pc'[h] \notin SignalPoints BY <1>1, <1>2, <2>1, <2>3, <2>4, SpareKept
  <2>5. CASE pc'[h] \in SignalPoints
    <3>1. proc' = proc /\ rs' = rs /\ proc[rs[h].pid].kind = "core"
          BY <1>1, <1>3, <2>5, SignalChecked
    <3> QED BY <1>2, <2>3, <3>1 DEF SpareInv, SignalsSpareForeign
  <2> QED BY <2>4, <2>5
<1>4. ASSUME NEW h \in Hosts, Command(h) PROVE SpareInv'
  <2>1. PICK c \in {"on", "off", "set"} : Begin(h, c) BY <1>4 DEF Command
  <2>2. Entry[c] \notin SignalPoints BY DEF Entry, SignalPoints
  <2>3. pc'[h] = Entry[c] /\ \A g \in Hosts \ {h} : pc'[g] = pc[g]
        BY <1>1, <2>1 DEF Begin, Goto, TypeOK
  <2>4. UNCHANGED <<rs, proc>> BY <2>1 DEF Begin
  <2>5. NoNewForeign BY <2>4 DEF NoNewForeign
  <2> QED BY <1>1, <2>2, <2>3, <2>4, <2>5, SpareKept
<1>5. ASSUME NEW h \in Hosts, HostExit(h) PROVE SpareInv'
  <2>1. pc'[h] \notin SignalPoints BY <1>1, <1>5 DEF HostExit, TypeOK, SignalPoints
  <2>2. \A g \in Hosts \ {h} : pc'[g] = pc[g] /\ rs'[g] = rs[g]
        BY <1>1, <1>5 DEF HostExit, TypeOK
  <2>3. NoNewForeign
    <3> SUFFICES ASSUME NEW p \in Pids, proc'[p].kind = "foreign"
                 PROVE  /\ proc[p].kind = "foreign" /\ proc'[p].doomed = proc[p].doomed
                        /\ proc'[p].cgroup = proc[p].cgroup
        BY DEF NoNewForeign
    <3>1. proc[p] \in Processes BY <1>1 DEF TypeOK
    <3>2. /\ proc'[p].kind = proc[p].kind /\ proc'[p].cgroup = proc[p].cgroup
          /\ proc'[p].doomed = (proc[p].doomed \/ (h \in Supervised /\ proc[p].cgroup = h /\ proc[p].alive))
          BY <1>5, <3>1 DEF HostExit, Processes
    <3>3. proc[p].cgroup = NoHost BY <3>2 DEF SpareInv
    <3>4. h # NoHost BY HostAssumption
    <3>5. proc[p].doomed \in BOOLEAN BY <3>1 DEF Processes
    <3>6. proc'[p].doomed = proc[p].doomed BY <3>2, <3>3, <3>4, <3>5
    <3> QED BY <3>2, <3>6
  <2> QED BY <1>1, <2>1, <2>2, <2>3, SpareKept
<1>6. ASSUME NEW h \in Hosts, Restart(h) PROVE SpareInv'
  <2>1. pc'[h] = "idle" /\ UNCHANGED <<rs, proc>> BY <1>1, <1>6 DEF Restart, Goto, TypeOK
  <2>2. \A g \in Hosts \ {h} : pc'[g] = pc[g] BY <1>1, <1>6 DEF Restart, Goto, TypeOK
  <2>3. NoNewForeign BY <2>1 DEF NoNewForeign
  <2> QED BY <1>1, <2>1, <2>2, <2>3, SpareKept DEF SignalPoints
<1>7. ASSUME UNCHANGED <<pc, rs>>, NoNewForeign PROVE SpareInv'
  BY <1>1, <1>7, SpareKept
<1>8. ASSUME NEW p \in Pids, InitReaps(p) \/ CoreExit(p) \/ CoreLoads(p) \/ ForeignExits(p)
      PROVE  SpareInv'
  <2>1. UNCHANGED <<pc, rs>>
        BY <1>8 DEF InitReaps, CoreExit, CoreLoads, ForeignExits, hostVars
  <2>2. \A q \in Pids \ {p} : proc'[q] = proc[q]
        BY <1>1, <1>8 DEF InitReaps, CoreExit, CoreLoads, ForeignExits, Reap, TypeOK
  <2>3. proc'[p].kind # "foreign"
    <3>1. CASE InitReaps(p) \/ ForeignExits(p)
          BY <1>1, <3>1 DEF InitReaps, ForeignExits, Reap, FreeAt, TypeOK
    <3>2. CASE CoreExit(p) BY <1>1, <3>2 DEF CoreExit, TypeOK, Processes
    <3>3. CASE CoreLoads(p) BY <1>1, <3>3 DEF CoreLoads, TypeOK, Processes
    <3> QED BY <1>8, <3>1, <3>2, <3>3
  <2>4. NoNewForeign BY <2>2, <2>3 DEF NoNewForeign
  <2> QED BY <1>7, <2>1, <2>4
<1>9. ASSUME NEW p \in Pids, ForeignStarts(p) PROVE SpareInv'
  <2>1. UNCHANGED <<pc, rs>> BY <1>9 DEF ForeignStarts, hostVars
  <2>2. \A q \in Pids \ {p} : proc'[q] = proc[q] BY <1>1, <1>9 DEF ForeignStarts, TypeOK
  <2>3. proc'[p].doomed = FALSE /\ proc'[p].cgroup = NoHost
        BY <1>1, <1>9 DEF ForeignStarts, FreeAt, TypeOK
  <2>4. \A h \in Hosts : pc[h] \in SignalPoints => rs[h].pid # p
        BY <1>9 DEF ForeignStarts, AboutToSignal, SignalPoints
  <2>5. \A h \in Hosts : pc[h] \in SignalPoints => rs[h].pid \in Pids
        BY <1>1 DEF LocalInv, TypeOK, RuntimeStates, SignalPoints, UsesState, TermLabels
  <2>6. \A h \in Hosts : pc'[h] \in SignalPoints => proc'[rs'[h].pid].kind # "foreign"
        BY <2>1, <2>2, <2>4, <2>5 DEF SpareInv
  <2> QED BY <2>2, <2>3, <2>6 DEF SpareInv, SignalsSpareForeign
<1>10. ASSUME UNCHANGED <<pc, rs, proc>> PROVE SpareInv'
  BY <1>7, <1>10 DEF NoNewForeign
<1>11. CASE OsStep
  <2>1. CASE \/ \E p \in Pids : CoreTun(p)
             \/ TunVanishes \/ ExternalTunChanges
    <3>1. UNCHANGED <<pc, rs, proc>>
          BY <2>1 DEF CoreTun, TunVanishes, ExternalTunChanges, hostVars
    <3> QED BY <3>1, <1>10
  <2> QED BY <1>5, <1>6, <1>8, <1>9, <1>11, <2>1 DEF OsStep
<1>12. CASE UNCHANGED vars \/ \E r \in Readers : ReaderLoads(r) \/ ReaderReports(r)
  <2>1. UNCHANGED <<pc, rs, proc>> BY <1>12 DEF ReaderLoads, ReaderReports, vars, hostVars
  <2> QED BY <2>1, <1>10
<1> QED BY <1>3, <1>4, <1>11, <1>12 DEF Next

\* terminateCore never signals a process that is not a core, provided the pid it has
\* checked is not given to another process before the kill.
THEOREM SparesForeign == ASSUME ~FastPidReuse PROVE Spec => []SignalsSpareForeign
<1>1. Init => SpareInv
      BY DEF Init, SpareInv, SignalsSpareForeign, SignalPoints, FreeAt
<1>2. ControlInv /\ SpareInv /\ [Next]_vars => SpareInv' BY SpareInductive
<1>3. SpareInv => SignalsSpareForeign BY DEF SpareInv
<1> QED BY <1>1, <1>2, <1>3, ControlCorrect, PTL DEF Spec

-----------------------------------------------------------------------------
(* The record: what the state file says of a core, and for how long it holds *)

\* Whatever a record names has been born: the next process of that pid has a later start time.
Born(st) == st # NoState => st.gen <= proc[st.pid].gen

BornInv ==
    /\ Born(stateFile)
    /\ \A h \in Hosts : Born(rs[h])
    /\ \A r \in Readers : Born(seen[r])

\* The configuration that the named process has read, or is going to read, is the record's.
Truthful(st) ==
    st # NoState =>
        /\ IsLive(st) => proc[st.pid].cfg \in {NoPlan, st.cfg}
        /\ IsSame(st) /\ Running(st.pid) => coreConfig = st.cfg

RecordInv ==
    /\ Truthful(stateFile)
    /\ \A h \in Hosts : Truthful(rs[h])
    /\ \A h \in Hosts : pc[h] = "start.spawn" => coreConfig = plan[h]

\* A process only ages: nothing dead or gone comes back under the same start time.
Ages(p) ==
    /\ proc'[p].gen >= proc[p].gen
    /\ proc'[p].kind = "core" /\ proc'[p].gen = proc[p].gen =>
          /\ proc[p].kind = "core"
          /\ proc'[p].alive => proc[p].alive
          /\ Running(p)' => Running(p)

\* It reads no configuration in this step.
KeepsCfg(p) ==
    proc'[p].kind = "core" /\ proc'[p].gen = proc[p].gen => proc'[p].cfg \in {NoPlan, proc[p].cfg}

AllAge == \A p \in Pids : Ages(p) /\ KeepsCfg(p)

\* A step that leaves the process table alone.
LEMMA SameAges ==
    ASSUME TypeOK, proc' = proc
    PROVE  AllAge
<1>1. \A p \in Pids : proc[p].gen \in Nat BY DEF TypeOK, Processes
<1> QED BY <1>1 DEF AllAge, Ages, KeepsCfg, Running

\* Signals.
LEMMA SignalAges ==
    ASSUME TypeOK, NEW p \in Pids, SigTerm(p) \/ SigKill(p)
    PROVE  AllAge
<1>1. \A q \in Pids : /\ proc'[q].kind = proc[q].kind /\ proc'[q].gen = proc[q].gen
                      /\ proc'[q].alive = proc[q].alive
                      /\ proc[q].doomed => proc'[q].doomed
      BY SignalKeeps
<1>2. \A q \in Pids : proc'[q].cfg = proc[q].cfg
  <2>1. ProcType BY TypeGroups
  <2>2. \A q \in Pids : proc'[q] = [proc[q] EXCEPT !.doomed = proc'[q].doomed]
        BY <2>1, SignalType
  <2>3. ASSUME NEW q \in Pids PROVE proc'[q].cfg = proc[q].cfg
    <3>1. PICK d : proc'[q] = [proc[q] EXCEPT !.doomed = d] BY <2>2
    <3>2. proc[q] \in Processes BY <2>1 DEF ProcType
    <3> QED BY <3>1, <3>2 DEF Processes
  <2> QED BY <2>3
<1>3. \A q \in Pids : proc[q].gen \in Nat BY DEF TypeOK, Processes
<1> QED BY <1>1, <1>2, <1>3 DEF AllAge, Ages, KeepsCfg, Running

\* waitpid.
LEMMA ReapAges ==
    ASSUME TypeOK, NEW p \in Pids, Reap(p)
    PROVE  AllAge
<1>1. \A q \in Pids : proc[q].gen \in Nat BY DEF TypeOK, Processes
<1>2. proc'[p] = FreeAt(proc[p].gen) /\ \A q \in Pids \ {p} : proc'[q] = proc[q]
      BY DEF Reap, TypeOK
<1>3. Ages(p) /\ KeepsCfg(p) BY <1>1, <1>2 DEF Ages, KeepsCfg, FreeAt
<1>4. \A q \in Pids \ {p} : Ages(q) /\ KeepsCfg(q) BY <1>1, <1>2 DEF Ages, KeepsCfg, Running
<1> QED BY <1>3, <1>4 DEF AllAge

\* The pid is given to a new process.
LEMMA BirthAges ==
    ASSUME TypeOK, NEW p \in Pids, proc'[p].gen = proc[p].gen + 1,
           \A q \in Pids \ {p} : proc'[q] = proc[q]
    PROVE  AllAge
<1>1. \A q \in Pids : proc[q].gen \in Nat BY DEF TypeOK, Processes
<1>2. Ages(p) /\ KeepsCfg(p) BY <1>1 DEF Ages, KeepsCfg
<1>3. \A q \in Pids \ {p} : Ages(q) /\ KeepsCfg(q) BY <1>1 DEF Ages, KeepsCfg, Running
<1> QED BY <1>2, <1>3 DEF AllAge

\* What a fork makes of the process table and of the local record.
Forks(h) ==
    \E p \in Pids :
        /\ pc[h] = "start.spawn" /\ pc'[h] = "start.ticks"
        /\ proc' = [proc EXCEPT ![p] =
              [kind |-> "core", gen |-> proc[p].gen + 1, alive |-> TRUE, parent |-> h,
               cgroup |-> h, doomed |-> FALSE, cfg |-> NoPlan]]
        /\ rs'[h] = [pid |-> p, gen |-> proc[p].gen + 1, phase |-> "starting", cfg |-> plan[h]]

\* The statements of a command.
LEMMA StepAges ==
    ASSUME TypeOK, LocalInv, NEW h \in Hosts, HostStep(h)
    PROVE  AllAge
<1>1. CASE UNCHANGED proc BY <1>1, SameAges
<1>2. ASSUME pc[h] \in UsesState PROVE rs[h].pid \in Pids
      BY <1>2 DEF LocalInv, TypeOK, RuntimeStates
<1>3. CASE StartSpawn(h)
  <2>1. CASE ~UNCHANGED proc
    <3>1. PICK p \in Pids :
             proc' = [proc EXCEPT ![p] =
                  [kind |-> "core", gen |-> proc[p].gen + 1, alive |-> TRUE, parent |-> h,
                   cgroup |-> h, doomed |-> FALSE, cfg |-> NoPlan]]
          BY <1>3, <2>1 DEF StartSpawn
    <3>2. proc'[p].gen = proc[p].gen + 1 /\ \A q \in Pids \ {p} : proc'[q] = proc[q]
          BY <3>1 DEF TypeOK
    <3> QED BY <3>2, BirthAges
  <2> QED BY <1>1, <2>1
<1>4. CASE StartTicks(h) \/ TermSignal(h) \/ KillSignal(h)
  <2>1. pc[h] \in UsesState BY <1>4 DEF StartTicks, TermSignal, KillSignal, UsesState, TermLabels
  <2>2. SigTerm(rs[h].pid) \/ SigKill(rs[h].pid) \/ UNCHANGED proc
        BY <1>4 DEF StartTicks, TermSignal, KillSignal
  <2> QED BY <1>1, <1>2, <2>1, <2>2, SignalAges
<1>5. CASE StartReap(h) \/ WaitReap(h) \/ TermReap(h)
  <2>1. pc[h] \in UsesState BY <1>5 DEF StartReap, WaitReap, TermReap, UsesState, TermLabels
  <2>2. Reap(rs[h].pid) \/ UNCHANGED proc BY <1>5 DEF StartReap, WaitReap, TermReap
  <2> QED BY <1>1, <1>2, <2>1, <2>2, ReapAges
<1>6. CASE \/ StartLoad(h) \/ StartClear(h) \/ StartPrepare(h) \/ StartProbe(h)
           \/ StartConfigure(h) \/ StartProvisional(h) \/ WaitTun(h) \/ StartRunning(h)
           \/ StartUndo(h) \/ StartRetry(h) \/ StopLoad(h) \/ StopClear(h) \/ TermCheck(h)
           \/ TermPoll(h) \/ KillCheck(h) \/ AwaitTunRemoval(h) \/ SetSetting(h)
  <2>1. UNCHANGED proc
        BY <1>6 DEF StartLoad, StartClear, StartPrepare, StartProbe, StartConfigure,
             StartProvisional, WaitTun, StartRunning, StartUndo, StartRetry, StopLoad, StopClear,
             TermCheck, TermPoll, KillCheck, AwaitTunRemoval, SetSetting
  <2> QED BY <1>1, <2>1
<1> QED BY <1>3, <1>4, <1>5, <1>6 DEF HostStep, StartStep, TermStep

\* The end of a host.
LEMMA ExitAges ==
    ASSUME TypeOK, NEW h \in Hosts, HostExit(h)
    PROVE  AllAge
<1> SUFFICES ASSUME NEW p \in Pids PROVE Ages(p) /\ KeepsCfg(p) BY DEF AllAge
<1>1. proc[p] \in Processes /\ proc[p].gen \in Nat BY DEF TypeOK, Processes
<1>2. /\ proc'[p].kind = proc[p].kind /\ proc'[p].gen = proc[p].gen
      /\ proc'[p].alive = proc[p].alive /\ proc'[p].cfg = proc[p].cfg
      /\ proc[p].doomed => proc'[p].doomed
      BY <1>1 DEF HostExit, Processes
<1> QED BY <1>1, <1>2 DEF Ages, KeepsCfg, Running

\* The kernel and the processes: all age, and only CoreLoads reads a configuration.
LEMMA OsAges ==
    ASSUME TypeOK, OsStep
    PROVE  \/ AllAge
           \/ (\A p \in Pids : Ages(p)) /\ \E p \in Pids : CoreLoads(p)
<1>1. ASSUME NEW p \in Pids, InitReaps(p) \/ ForeignExits(p) PROVE AllAge
      BY <1>1, ReapAges DEF InitReaps, ForeignExits
<1>2. ASSUME NEW p \in Pids, CoreExit(p) PROVE AllAge
  <2>1. /\ proc'[p] = [proc[p] EXCEPT !.alive = FALSE, !.doomed = FALSE, !.cfg = NoPlan]
        /\ \A q \in Pids \ {p} : proc'[q] = proc[q]
        BY <1>2 DEF CoreExit, TypeOK
  <2>2. \A q \in Pids : proc[q] \in Processes /\ proc[q].gen \in Nat BY DEF TypeOK, Processes
  <2>3. /\ proc'[p].kind = proc[p].kind /\ proc'[p].gen = proc[p].gen
        /\ proc'[p].alive = FALSE /\ proc'[p].cfg = NoPlan
        BY <2>1, <2>2 DEF Processes
  <2>4. Ages(p) /\ KeepsCfg(p) BY <2>2, <2>3 DEF Ages, KeepsCfg, Running
  <2>5. \A q \in Pids \ {p} : Ages(q) /\ KeepsCfg(q) BY <2>1, <2>2 DEF Ages, KeepsCfg, Running
  <2> QED BY <2>4, <2>5 DEF AllAge
<1>3. ASSUME NEW p \in Pids, CoreLoads(p) PROVE \A q \in Pids : Ages(q)
  <2>1. /\ proc'[p] = [proc[p] EXCEPT !.cfg = coreConfig]
        /\ \A q \in Pids \ {p} : proc'[q] = proc[q]
        BY <1>3 DEF CoreLoads, TypeOK
  <2>2. \A q \in Pids : proc[q] \in Processes /\ proc[q].gen \in Nat BY DEF TypeOK, Processes
  <2>3. /\ proc'[p].kind = proc[p].kind /\ proc'[p].gen = proc[p].gen
        /\ proc'[p].alive = proc[p].alive /\ proc'[p].doomed = proc[p].doomed
        BY <2>1, <2>2 DEF Processes
  <2>4. Ages(p) BY <2>2, <2>3 DEF Ages, Running
  <2>5. \A q \in Pids \ {p} : Ages(q) BY <2>1, <2>2 DEF Ages, Running
  <2> QED BY <2>4, <2>5
<1>4. ASSUME NEW p \in Pids, ForeignStarts(p) PROVE AllAge
  <2>1. proc'[p].gen = proc[p].gen + 1 /\ \A q \in Pids \ {p} : proc'[q] = proc[q]
        BY <1>4 DEF ForeignStarts, FreeAt, TypeOK
  <2> QED BY <2>1, BirthAges
<1>5. CASE \/ \E h \in Hosts : Restart(h)
           \/ \E p \in Pids : CoreTun(p)
           \/ TunVanishes \/ ExternalTunChanges
      BY <1>5, SameAges DEF Restart, CoreTun, TunVanishes, ExternalTunChanges
<1> QED BY <1>1, <1>2, <1>3, <1>4, <1>5, ExitAges DEF OsStep

\* Every step of the system.
LEMMA NextAges ==
    ASSUME ControlInv, [Next]_vars
    PROVE  /\ \A p \in Pids : Ages(p)
           /\ AllAge \/ \E p \in Pids : CoreLoads(p)
<1>1. TypeOK /\ LocalInv BY DEF ControlInv
<1>2. CASE \E h \in Hosts : HostStep(h) BY <1>1, <1>2, StepAges DEF AllAge
<1>3. CASE \/ \E h \in Hosts : Command(h)
           \/ \E r \in Readers : ReaderLoads(r) \/ ReaderReports(r)
           \/ UNCHANGED vars
      BY <1>1, <1>3, SameAges DEF Command, Begin, ReaderLoads, ReaderReports, vars, AllAge
<1>4. CASE OsStep BY <1>1, <1>4, OsAges DEF AllAge
<1> QED BY <1>2, <1>3, <1>4 DEF Next

\* A record that was about a process is about it, or about nothing, after a step; and what it
\* names does not come to life again.
LEMMA OldRecord ==
    ASSUME TypeOK, TypeOK', NEW st \in RuntimeStates \cup {NoState}, Born(st), \A p \in Pids : Ages(p)
    PROVE  /\ st # NoState => st.gen <= proc'[st.pid].gen
           /\ st # NoState /\ IsSame(st)' => IsSame(st)
           /\ st # NoState /\ IsLive(st)' => IsLive(st)
<1> SUFFICES ASSUME st # NoState
             PROVE  /\ st.gen <= proc'[st.pid].gen
                    /\ IsSame(st)' => IsSame(st)
                    /\ IsLive(st)' => IsLive(st)
    OBVIOUS
<1> DEFINE p == st.pid
<1>1. p \in Pids /\ st.gen \in Nat BY DEF RuntimeStates
<1>2. proc[p].gen \in Nat BY <1>1 DEF TypeOK, Processes
<1>3. st.gen <= proc[p].gen BY DEF Born
<1>4. Ages(p) BY <1>1
<1>5. proc'[p].gen >= proc[p].gen BY <1>4 DEF Ages
<1>6. proc'[p].gen \in Nat BY <1>1 DEF TypeOK, Processes
<1>7. CASE proc'[p].kind = "core" /\ proc'[p].gen = st.gen
  <2>1. proc'[p].gen = proc[p].gen BY <1>1, <1>2, <1>3, <1>5, <1>7
  <2>2. proc[p].kind = "core" /\ (proc'[p].alive => proc[p].alive) BY <1>4, <1>7, <2>1 DEF Ages
  <2> QED BY <1>1, <1>2, <1>3, <1>7, <2>1, <2>2 DEF IsSame, IsLive
<1>8. CASE ~(proc'[p].kind = "core" /\ proc'[p].gen = st.gen)
  <2>1. ~IsSame(st)' /\ ~IsLive(st)' BY <1>8 DEF IsSame, IsLive
  <2> QED BY <1>1, <1>2, <1>3, <1>5, <1>6, <2>1
<1> QED BY <1>7, <1>8

\* Where a command's local record, the state file and the core's configuration come from.
LEMMA RecordMoves ==
    ASSUME TypeOK, NEW h \in Hosts, LocalAt(h), HostStep(h)
    PROVE  /\ \/ Forks(h)
              \/ rs'[h] \in {NoState, rs[h], stateFile}
           /\ \/ stateFile' \in {NoState, stateFile}
              \/ /\ rs[h] # NoState /\ proc' = proc
                 /\ \/ pc[h] = "start.provisional" /\ stateFile' = rs[h]
                    \/ pc[h] = "start.running" /\ stateFile' = [rs[h] EXCEPT !.phase = "running"]
           /\ \/ coreConfig' = coreConfig
              \/ pc[h] \in Quiet /\ proc' = proc
           /\ pc'[h] = "start.spawn" => coreConfig' = plan'[h]
           /\ seen' = seen
<1> USE DEF TypeOK, Goto, Loop, Finish, Fail, Leave, Await, Terminate, NextAttempt, Terminated
<1>1. CASE StartLoad(h) BY <1>1 DEF StartLoad, fileVars
<1>2. CASE StartClear(h) BY <1>2 DEF StartClear
<1>3. CASE StartPrepare(h) BY <1>3 DEF StartPrepare, fileVars
<1>4. CASE StartProbe(h) BY <1>4 DEF StartProbe, fileVars
<1>5. CASE StartConfigure(h) BY <1>5 DEF StartConfigure, Quiet
<1>6. CASE StartSpawn(h)
  <2>1. UNCHANGED <<fileVars, seen>> /\ pc'[h] # "start.spawn" BY <1>6 DEF StartSpawn
  <2>2. CASE NextAttempt(h) /\ UNCHANGED proc BY <2>1, <2>2 DEF fileVars
  <2>3. CASE ~(NextAttempt(h) /\ UNCHANGED proc)
    <3>1. Forks(h) BY <1>6, <2>3 DEF StartSpawn, Forks
    <3> QED BY <2>1, <3>1 DEF fileVars
  <2> QED BY <2>2, <2>3
<1>7. CASE StartTicks(h) BY <1>7 DEF StartTicks, fileVars
<1>8. CASE StartReap(h) BY <1>8 DEF StartReap, fileVars
<1>9. CASE StartProvisional(h) BY <1>9 DEF StartProvisional, LocalAt, UsesState
<1>10. CASE WaitReap(h) BY <1>10 DEF WaitReap, fileVars
<1>11. CASE WaitTun(h) BY <1>11 DEF WaitTun, fileVars
<1>12. CASE StartRunning(h) BY <1>12 DEF StartRunning, LocalAt, UsesState
<1>13. CASE StartUndo(h) BY <1>13 DEF StartUndo
<1>14. CASE StartRetry(h) BY <1>14 DEF StartRetry
<1>15. CASE StopLoad(h) BY <1>15 DEF StopLoad, fileVars
<1>16. CASE StopClear(h) BY <1>16 DEF StopClear, Quiet
<1>17. CASE TermCheck(h) BY <1>17 DEF TermCheck, fileVars
<1>18. CASE TermSignal(h) \/ KillSignal(h) BY <1>18 DEF TermSignal, KillSignal, fileVars
<1>19. CASE TermReap(h) BY <1>19 DEF TermReap, fileVars
<1>20. CASE TermPoll(h) BY <1>20 DEF TermPoll, fileVars
<1>21. CASE KillCheck(h) BY <1>21 DEF KillCheck, fileVars
<1>22. CASE AwaitTunRemoval(h) BY <1>22 DEF AwaitTunRemoval, fileVars
<1>23. CASE SetSetting(h) BY <1>23 DEF SetSetting
<1> QED BY <1>1, <1>2, <1>3, <1>4, <1>5, <1>6, <1>7, <1>8, <1>9, <1>10, <1>11, <1>12, <1>13,
           <1>14, <1>15, <1>16, <1>17, <1>18, <1>19, <1>20, <1>21, <1>22, <1>23
        DEF HostStep, StartStep, TermStep

\* The steps that are not of a command leave the files alone and the local records, but
\* for those a dying host loses.
LEMMA RecordStays ==
    ASSUME TypeOK, [Next]_vars, \A h \in Hosts : ~HostStep(h)
    PROVE  /\ UNCHANGED <<stateFile, coreConfig>>
           /\ \A h \in Hosts : rs'[h] \in {NoState, rs[h]}
           /\ \A h \in Hosts : pc'[h] \in {pc[h], "idle", "down", "start.load", "stop.load", "set.save"}
           /\ \A r \in Readers : seen'[r] \in {NoState, seen[r], stateFile}
           /\ \A h \in Hosts : pc'[h] = pc[h] /\ pc[h] \notin {"idle", "down"} =>
                 rs'[h] = rs[h] /\ plan'[h] = plan[h] /\ site'[h] = site[h]
<1> USE DEF TypeOK
<1>1. ASSUME NEW h \in Hosts, Command(h)
      PROVE  /\ UNCHANGED <<stateFile, coreConfig, rs, seen, plan, site>>
             /\ \A g \in Hosts : pc'[g] \in {pc[g], "start.load", "stop.load", "set.save"}
      BY <1>1 DEF Command, Begin, Goto, Entry, fileVars
<1>2. ASSUME NEW h \in Hosts, Restart(h)
      PROVE  /\ UNCHANGED <<stateFile, coreConfig, rs, seen, plan, site>>
             /\ \A g \in Hosts : pc'[g] \in {pc[g], "idle"}
      BY <1>2 DEF Restart, Goto, fileVars
<1>3. ASSUME NEW h \in Hosts, HostExit(h)
      PROVE  /\ UNCHANGED <<stateFile, coreConfig, seen>>
             /\ rs'[h] = NoState /\ pc'[h] \in {"idle", "down"}
             /\ \A g \in Hosts \ {h} : /\ pc'[g] = pc[g] /\ rs'[g] = rs[g]
                                       /\ plan'[g] = plan[g] /\ site'[g] = site[g]
      BY <1>3 DEF HostExit, fileVars
<1>4. ASSUME NEW r \in Readers, ReaderLoads(r) \/ ReaderReports(r)
      PROVE  /\ UNCHANGED <<stateFile, coreConfig, rs, pc, plan, site>>
             /\ \A q \in Readers : seen'[q] \in {NoState, seen[q], stateFile}
      BY <1>4 DEF ReaderLoads, ReaderReports, hostVars, fileVars
<1>5. CASE \/ \E p \in Pids : \/ InitReaps(p) \/ CoreExit(p) \/ CoreLoads(p) \/ CoreTun(p)
                              \/ ForeignStarts(p) \/ ForeignExits(p)
           \/ TunVanishes \/ ExternalTunChanges \/ UNCHANGED vars
  <2>1. UNCHANGED <<pc, rs, plan, site, stateFile, coreConfig, seen>>
        BY <1>5 DEF InitReaps, CoreExit, CoreLoads, CoreTun, ForeignStarts, ForeignExits,
                    TunVanishes, ExternalTunChanges, vars, hostVars, fileVars
  <2> QED BY <2>1
<1>6. CASE \E h \in Hosts : Command(h) \/ Restart(h) BY <1>1, <1>2, <1>6
<1>7. CASE \E h \in Hosts : HostExit(h) BY <1>3, <1>7
<1>8. CASE \E r \in Readers : ReaderLoads(r) \/ ReaderReports(r) BY <1>4, <1>8
<1> QED BY <1>5, <1>6, <1>7, <1>8 DEF Next, OsStep

\* A record that is kept stays born.
LEMMA BornStays ==
    ASSUME ControlInv, TypeOK', NEW st \in RuntimeStates \cup {NoState}, Born(st), [Next]_vars
    PROVE  st # NoState => st.gen <= proc'[st.pid].gen
<1>1. TypeOK /\ \A p \in Pids : Ages(p) BY NextAges DEF ControlInv
<1> QED BY <1>1, OldRecord

\* Born survives every step.
LEMMA BornInductive ==
    ASSUME ControlInv, TypeOK', BornInv, [Next]_vars
    PROVE  BornInv'
<1> DEFINE Kept(st) == st # NoState => st.gen <= proc'[st.pid].gen
<1>1. TypeOK /\ LocalInv BY DEF ControlInv
<1>2. /\ Kept(stateFile) /\ Kept(NoState)
      /\ \A h \in Hosts : Kept(rs[h])
      /\ \A r \in Readers : Kept(seen[r])
  <2>1. /\ stateFile \in RuntimeStates \cup {NoState} /\ Born(stateFile)
        /\ \A h \in Hosts : rs[h] \in RuntimeStates \cup {NoState} /\ Born(rs[h])
        /\ \A r \in Readers : seen[r] \in RuntimeStates \cup {NoState} /\ Born(seen[r])
        BY <1>1 DEF BornInv, TypeOK
  <2>2. \A st \in RuntimeStates \cup {NoState} : Born(st) => Kept(st) BY BornStays
  <2>3. \A h \in Hosts : Kept(rs[h]) BY <2>1, <2>2
  <2>4. \A r \in Readers : Kept(seen[r]) BY <2>1, <2>2
  <2> QED BY <2>1, <2>2, <2>3, <2>4
<1>3. ASSUME NEW h \in Hosts, HostStep(h) PROVE BornInv'
  <2>1. LocalAt(h) BY <1>1 DEF LocalInv, LocalAt
  <2>2. /\ Forks(h) \/ rs'[h] \in {NoState, rs[h], stateFile}
        /\ \/ stateFile' \in {NoState, stateFile}
           \/ /\ rs[h] # NoState
              /\ stateFile' = rs[h] \/ stateFile' = [rs[h] EXCEPT !.phase = "running"]
        /\ seen' = seen
        BY <1>1, <1>3, <2>1, RecordMoves
  <2>3. \A g \in Hosts \ {h} : rs'[g] = rs[g]
        BY <1>1, <1>3, HostFrame, TypeGroups DEF FrameOf
  <2>4. Kept(rs'[h])
    <3>1. CASE Forks(h)
      <4>1. PICK p \in Pids : /\ proc'[p].gen = proc[p].gen + 1
                              /\ rs'[h].pid = p /\ rs'[h].gen = proc[p].gen + 1
            BY <1>1, <3>1 DEF Forks, TypeOK
      <4>2. proc[p].gen \in Nat BY <1>1 DEF TypeOK, Processes
      <4> QED BY <4>1, <4>2
    <3>2. CASE rs'[h] \in {NoState, rs[h], stateFile} BY <1>2, <3>2
    <3> QED BY <2>2, <3>1, <3>2
  <2>5. Kept(stateFile')
    <3>1. CASE stateFile' \in {NoState, stateFile} BY <1>2, <3>1
    <3>2. CASE rs[h] # NoState /\ stateFile' = rs[h] BY <1>2, <3>2
    <3>3. CASE rs[h] # NoState /\ stateFile' = [rs[h] EXCEPT !.phase = "running"]
      <4>1. rs[h] \in RuntimeStates BY <1>1, <3>3 DEF TypeOK
      <4>2. stateFile'.pid = rs[h].pid /\ stateFile'.gen = rs[h].gen BY <3>3, <4>1 DEF RuntimeStates
      <4> QED BY <1>2, <3>3, <4>2
    <3> QED BY <2>2, <3>1, <3>2, <3>3
  <2>6. \A g \in Hosts : Kept(rs'[g]) BY <1>2, <2>3, <2>4
  <2>7. \A r \in Readers : Kept(seen'[r]) BY <1>2, <2>2
  <2> QED BY <2>5, <2>6, <2>7 DEF BornInv, Born
<1>4. CASE \A h \in Hosts : ~HostStep(h)
  <2>1. /\ stateFile' = stateFile
        /\ \A h \in Hosts : rs'[h] \in {NoState, rs[h]}
        /\ \A r \in Readers : seen'[r] \in {NoState, seen[r], stateFile}
        BY <1>1, <1>4, RecordStays
  <2>2. \A h \in Hosts : Kept(rs'[h]) BY <1>2, <2>1
  <2>3. \A r \in Readers : Kept(seen'[r]) BY <1>2, <2>1
  <2> QED BY <1>2, <2>1, <2>2, <2>3 DEF BornInv, Born
<1> QED BY <1>3, <1>4

\* At the start there is no record.
LEMMA BornInit == Init => BornInv
BY DEF Init, BornInv, Born

\* A record that is kept stays true: its process reads nothing but the configuration that the
\* record was made for, and no configuration is written while a core runs.
LEMMA TruthStays ==
    ASSUME ControlInv, TypeOK', NEW st \in RuntimeStates \cup {NoState}, Born(st), Truthful(st),
           [Next]_vars, coreConfig' = coreConfig \/ (NothingRuns /\ proc' = proc)
    PROVE  Truthful(st)'
<1> SUFFICES ASSUME st # NoState
             PROVE  /\ IsLive(st)' => proc'[st.pid].cfg \in {NoPlan, st.cfg}
                    /\ IsSame(st)' /\ Running(st.pid)' => coreConfig' = st.cfg
    BY DEF Truthful
<1>1. TypeOK BY DEF ControlInv
<1>2. (\A p \in Pids : Ages(p)) /\ (AllAge \/ \E p \in Pids : CoreLoads(p)) BY NextAges
<1>3. st.pid \in Pids /\ st.gen \in Nat BY DEF RuntimeStates
<1>4. (IsSame(st)' => IsSame(st)) /\ (IsLive(st)' => IsLive(st)) BY <1>1, <1>2, OldRecord
<1>5. IsSame(st)' => proc'[st.pid].kind = "core" /\ proc'[st.pid].gen = proc[st.pid].gen
      BY <1>4 DEF IsSame
<1>6. IsSame(st)' /\ Running(st.pid)' => IsSame(st) /\ Running(st.pid)
      BY <1>2, <1>3, <1>4, <1>5 DEF Ages
<1>7. ASSUME IsSame(st)', Running(st.pid)' PROVE coreConfig' = st.cfg
  <2>1. ~NothingRuns BY <1>3, <1>6, <1>7 DEF NothingRuns
  <2> QED BY <1>6, <1>7, <2>1 DEF Truthful
<1>8. ASSUME IsLive(st)' PROVE proc'[st.pid].cfg \in {NoPlan, st.cfg}
  <2>1. proc[st.pid].cfg \in {NoPlan, st.cfg} BY <1>4, <1>8 DEF Truthful
  <2>2. IsSame(st)' BY <1>8 DEF IsLive
  <2>3. CASE AllAge
    <3>1. proc'[st.pid].cfg \in {NoPlan, proc[st.pid].cfg}
          BY <1>3, <1>5, <2>2, <2>3 DEF AllAge, KeepsCfg
    <3> QED BY <2>1, <3>1
  <2>4. ASSUME NEW p \in Pids, CoreLoads(p) PROVE proc'[st.pid].cfg \in {NoPlan, st.cfg}
    <3>1. /\ proc'[p] = [proc[p] EXCEPT !.cfg = coreConfig] /\ Running(p)
          /\ \A q \in Pids \ {p} : proc'[q] = proc[q]
          BY <1>1, <2>4 DEF CoreLoads, Running, TypeOK
    <3>2. CASE st.pid # p BY <1>3, <2>1, <3>1, <3>2
    <3>3. CASE st.pid = p
      <4>1. coreConfig = st.cfg BY <1>4, <2>2, <3>1, <3>3 DEF Truthful
      <4>2. proc'[p].cfg = coreConfig
        <5>1. proc[p] \in Processes BY <1>1 DEF TypeOK
        <5> QED BY <3>1, <5>1 DEF Processes
      <4> QED BY <3>3, <4>1, <4>2
    <3> QED BY <3>2, <3>3
  <2> QED BY <1>2, <2>3, <2>4
<1> QED BY <1>7, <1>8

\* RecordInv survives every step.
LEMMA RecordInductive ==
    ASSUME IInv, TypeOK', BornInv, RecordInv, [Next]_vars
    PROVE  RecordInv'
<1>1. ControlInv /\ TypeOK /\ LockInv /\ LocalInv BY DEF IInv, ControlInv
<1>2. /\ stateFile \in RuntimeStates \cup {NoState} /\ Born(stateFile) /\ Truthful(stateFile)
      /\ \A h \in Hosts : rs[h] \in RuntimeStates \cup {NoState} /\ Born(rs[h]) /\ Truthful(rs[h])
      BY <1>1 DEF TypeOK, BornInv, RecordInv
<1> DEFINE TrueNext(st) ==
        st # NoState =>
            /\ (proc'[st.pid].kind = "core" /\ proc'[st.pid].gen = st.gen) /\ proc'[st.pid].alive
                  => proc'[st.pid].cfg \in {NoPlan, st.cfg}
            /\ (proc'[st.pid].kind = "core" /\ proc'[st.pid].gen = st.gen)
               /\ (proc'[st.pid].kind = "core" /\ proc'[st.pid].alive /\ ~proc'[st.pid].doomed)
                  => coreConfig' = st.cfg
<1>3. ASSUME coreConfig' = coreConfig \/ (NothingRuns /\ proc' = proc)
      PROVE  TrueNext(stateFile) /\ \A h \in Hosts : TrueNext(rs[h])
  <2>1. \A st \in RuntimeStates \cup {NoState} : Born(st) /\ Truthful(st) => TrueNext(st)
    <3> SUFFICES ASSUME NEW st \in RuntimeStates \cup {NoState}, Born(st), Truthful(st)
                 PROVE  TrueNext(st)
        OBVIOUS
    <3>1. Truthful(st)' BY <1>1, <1>3, TruthStays
    <3> QED BY <3>1 DEF Truthful, IsLive, IsSame, Running
  <2>2. TrueNext(stateFile) BY <1>2, <2>1
  <2>3. \A h \in Hosts : TrueNext(rs[h]) BY <1>2, <2>1
  <2> QED BY <2>2, <2>3
<1>4. ASSUME NEW h \in Hosts, HostStep(h) PROVE RecordInv'
  <2>1. LocalAt(h) BY <1>1 DEF LocalInv, LocalAt
  <2>2. /\ Forks(h) \/ rs'[h] \in {NoState, rs[h], stateFile}
        /\ \/ stateFile' \in {NoState, stateFile}
           \/ /\ rs[h] # NoState
              /\ stateFile' = rs[h] \/ stateFile' = [rs[h] EXCEPT !.phase = "running"]
        /\ coreConfig' = coreConfig \/ (pc[h] \in Quiet /\ proc' = proc)
        /\ pc'[h] = "start.spawn" => coreConfig' = plan'[h]
        BY <1>1, <1>4, <2>1, RecordMoves
  <2>3. FrameOf(h) BY <1>1, <1>4, HostFrame, TypeGroups
  <2>4. pc[h] \in Quiet => NothingRuns BY DEF IInv, QuietInv
  <2>5. TrueNext(stateFile) /\ \A g \in Hosts : TrueNext(rs[g]) BY <1>3, <2>2, <2>4
  <2>6. TrueNext(NoState) OBVIOUS
  <2>7. TrueNext(rs'[h])
    <3>1. CASE Forks(h)
      <4>1. PICK p \in Pids :
               /\ pc[h] = "start.spawn"
               /\ proc' = [proc EXCEPT ![p] =
                     [kind |-> "core", gen |-> proc[p].gen + 1, alive |-> TRUE, parent |-> h,
                      cgroup |-> h, doomed |-> FALSE, cfg |-> NoPlan]]
               /\ rs'[h] = [pid |-> p, gen |-> proc[p].gen + 1, phase |-> "starting", cfg |-> plan[h]]
            BY <3>1 DEF Forks
      <4>2. proc'[p].cfg = NoPlan /\ rs'[h].pid = p /\ rs'[h].cfg = plan[h]
            BY <1>1, <4>1 DEF TypeOK
      <4>3. coreConfig = plan[h] BY <4>1 DEF RecordInv
      <4>4. coreConfig' = coreConfig
        <5>1. proc' # proc
          <6>1. proc'[p].gen = proc[p].gen + 1 BY <1>1, <4>1 DEF TypeOK
          <6>2. proc[p].gen \in Nat BY <1>1 DEF TypeOK, Processes
          <6> QED BY <6>1, <6>2
        <5> QED BY <2>2, <5>1
      <4> QED BY <4>2, <4>3, <4>4
    <3>2. CASE rs'[h] \in {NoState, rs[h], stateFile} BY <2>5, <2>6, <3>2
    <3> QED BY <2>2, <3>1, <3>2
  <2>8. TrueNext(stateFile')
    <3>1. CASE stateFile' \in {NoState, stateFile} BY <2>5, <2>6, <3>1
    <3>2. CASE stateFile' = rs[h] BY <2>5, <3>2
    <3>3. CASE rs[h] # NoState /\ stateFile' = [rs[h] EXCEPT !.phase = "running"]
      <4>1. rs[h] \in RuntimeStates BY <1>2, <3>3
      <4>2. stateFile'.pid = rs[h].pid /\ stateFile'.gen = rs[h].gen /\ stateFile'.cfg = rs[h].cfg
            BY <3>3, <4>1 DEF RuntimeStates
      <4> QED BY <2>5, <3>3, <4>2
    <3> QED BY <2>2, <3>1, <3>2, <3>3
  <2>9. \A g \in Hosts : TrueNext(rs'[g]) BY <2>3, <2>5, <2>7 DEF FrameOf
  <2>10. \A g \in Hosts : pc'[g] = "start.spawn" => coreConfig' = plan'[g]
    <3>1. \A g \in Hosts \ {h} : pc'[g] \notin OpLabels BY <1>1, <2>3, OneInside DEF FrameOf
    <3>2. "start.spawn" \in OpLabels BY DEF OpLabels, StartLabels
    <3> QED BY <2>2, <3>1, <3>2
  <2> QED BY <2>8, <2>9, <2>10 DEF RecordInv, Truthful, IsLive, IsSame, Running
<1>5. CASE \A h \in Hosts : ~HostStep(h)
  <2>1. /\ UNCHANGED <<stateFile, coreConfig>>
        /\ \A h \in Hosts : rs'[h] \in {NoState, rs[h]}
        /\ \A h \in Hosts : pc'[h] \in {pc[h], "idle", "down", "start.load", "stop.load", "set.save"}
        /\ \A h \in Hosts : pc'[h] = pc[h] /\ pc[h] \notin {"idle", "down"} => plan'[h] = plan[h]
        BY <1>1, <1>5, RecordStays
  <2>2. TrueNext(stateFile) /\ \A g \in Hosts : TrueNext(rs[g]) BY <1>3, <2>1
  <2>3. \A g \in Hosts : TrueNext(rs'[g])
    <3>1. TrueNext(NoState) OBVIOUS
    <3> QED BY <2>1, <2>2, <3>1
  <2>4. \A g \in Hosts : pc'[g] = "start.spawn" => coreConfig' = plan'[g] BY <2>1 DEF RecordInv
  <2>5. TrueNext(stateFile') BY <2>1, <2>2
  <2> QED BY <2>3, <2>4, <2>5 DEF RecordInv, Truthful, IsLive, IsSame, Running
<1> QED BY <1>4, <1>5

\* The record belongs to the process it names: routing mode and upstream in the state file are
\* those the core has read, or will read.
THEOREM RecordIsTrue == ASSUME Benign PROVE Spec => []StateMatchesCore
<1>1. Init => RecordInv
      BY DEF Init, RecordInv, Truthful
<1>2. IInv /\ IInv' /\ BornInv /\ RecordInv /\ [Next]_vars => BornInv' /\ RecordInv'
      BY BornInductive, RecordInductive DEF IInv, ControlInv
<1>3. RecordInv => StateMatchesCore BY DEF RecordInv, Truthful, StateMatchesCore
<1> QED BY <1>1, <1>2, <1>3, BornInit, TrackCorrect, PTL DEF Spec

-----------------------------------------------------------------------------
(* The readers without the lock *)

\* The state file names a live core and calls it running.
Serves == stateFile # NoState /\ IsLive(stateFile) /\ stateFile.phase = "running"

\* The program points of start that hold the record of their child.
Saves == {"start.ticks", "start.provisional", "wait.reap", "wait.tun", "start.running"}

\* The program points that change the state file, and those on the way to them.
Rewrites == UsesPlan \cup {"start.clear", "start.prepare", "start.undo", "stop.clear", "await"}

\* A command changes the state file only when it does not name a running core any more.
FreshAt(h) ==
    /\ pc[h] \in Rewrites => ~Serves
    /\ pc[h] \in TermLabels /\ site[h] # "stop" => ~Serves
    /\ pc[h] \in TermLabels /\ site[h] = "stop" => stateFile = rs[h]
    /\ pc[h] \in Saves => rs[h].phase = "starting"

FreshInv ==
    /\ \A h \in Hosts : FreshAt(h)
    /\ \A r \in Readers :
          seen[r] # NoState /\ IsLive(seen[r]) /\ seen[r].phase = "running" => stateFile = seen[r]

\* A state file that does not serve does not begin to, unless it is written.
LEMMA ServesNoMore ==
    ASSUME ControlInv, TypeOK', BornInv, [Next]_vars, ~Serves, stateFile' \in {NoState, stateFile}
    PROVE  ~Serves'
<1>1. PICK st \in RuntimeStates \cup {NoState} : st = stateFile BY DEF ControlInv, TypeOK
<1>2. TypeOK /\ \A p \in Pids : Ages(p) BY NextAges DEF ControlInv
<1>3. Born(st) BY <1>1 DEF BornInv
<1>4. st # NoState /\ IsLive(st)' => IsLive(st) BY <1>2, <1>3, OldRecord
<1>5. CASE stateFile' = NoState BY <1>5 DEF Serves
<1>6. CASE stateFile' = st
  <2>1. Serves' => st # NoState /\ IsLive(st)' /\ st.phase = "running"
        BY <1>6 DEF Serves, IsLive, IsSame
  <2> QED BY <1>1, <1>4, <2>1 DEF Serves
<1> QED BY <1>1, <1>5, <1>6

\* The same for a record that a reader or a command has loaded.
LEMMA GoneForGood ==
    ASSUME ControlInv, TypeOK', NEW st \in RuntimeStates, Born(st), [Next]_vars, IsLive(st)'
    PROVE  IsLive(st)
<1>1. TypeOK /\ \A p \in Pids : Ages(p) BY NextAges DEF ControlInv
<1>2. st # NoState BY NullAssumption
<1> QED BY <1>1, <1>2, OldRecord

\* terminateCore returns when the process it was called for is not there any more.
LEMMA TerminatedStep ==
    ASSUME TypeOK, NEW h \in Hosts, pc[h] \in TermLabels, FreshAt(h), Terminated(h),
           stateFile' = stateFile, ~Serves => ~Serves', site[h] = "stop" => ~Serves'
    PROVE  FreshAt(h)'
<1>1. ~Serves' BY DEF FreshAt
<1>2. pc'[h] \notin TermLabels /\ pc'[h] \notin Saves
      BY DEF Terminated, Goto, Await, Loop, TypeOK, TermLabels, Saves
<1> QED BY <1>1, <1>2 DEF FreshAt

\* The returns of a command.
LEMMA LeaveStep ==
    ASSUME TypeOK, NEW h \in Hosts, pc'[h] = "idle"
    PROVE  FreshAt(h)'
BY DEF FreshAt, Rewrites, UsesPlan, TermLabels, Saves

\* A step of a command keeps what its program points know of the state file, and changes the
\* file only when it does not serve.
LEMMA FreshStep ==
    ASSUME ControlInv, TypeOK', BornInv, [Next]_vars, NEW h \in Hosts, h \notin Confined,
           FreshAt(h), HostStep(h)
    PROVE  FreshAt(h)' /\ (Serves => stateFile' = stateFile)
<1>a. TypeOK /\ LocalInv BY DEF ControlInv
<1>b. stateFile' \in {NoState, stateFile} => (~Serves => ~Serves') BY ServesNoMore
<1>c. Managed(h, rs[h]) <=> IsLive(rs[h]) BY DEF Managed
<1>d. RecordRuns(h) <=> stateFile # NoState /\ IsLive(stateFile) BY DEF RecordRuns, Managed
<1> DEFINE Elsewhere == pc'[h] \notin Rewrites /\ pc'[h] \notin TermLabels /\ pc'[h] \notin Saves
<1>e. Elsewhere => FreshAt(h)' BY DEF FreshAt
<1>f. ~Serves' /\ pc'[h] \notin TermLabels /\ pc'[h] \notin Saves => FreshAt(h)' BY DEF FreshAt
<1>g. pc'[h] = "idle" => FreshAt(h)' BY <1>a, LeaveStep
<1>t. ~Serves' /\ pc'[h] \in TermLabels /\ site'[h] # "stop" => FreshAt(h)'
      BY DEF FreshAt, TermLabels, Rewrites, UsesPlan, Saves
<1> USE DEF Goto, Loop, Finish, Fail, Leave, Await, Terminate
<1>1. CASE StartLoad(h)
  <2>1. stateFile' = stateFile /\ proc' = proc BY <1>1 DEF StartLoad, fileVars
  <2>2. CASE pc'[h] = "idle" BY <1>g, <2>1, <2>2
  <2>3. CASE /\ RecordRuns(h) /\ stateFile.phase = "starting"
             /\ pc'[h] = "term.check" /\ site'[h] = "previous"
    <3>1. ~Serves BY <2>3 DEF Serves
    <3> QED BY <1>b, <1>t, <2>1, <2>3, <3>1 DEF TermLabels
  <2>4. CASE ~RecordRuns(h) /\ pc'[h] = "start.clear"
    <3>1. ~Serves BY <1>d, <2>4 DEF Serves
    <3> QED BY <1>b, <1>f, <2>1, <2>4, <3>1 DEF TermLabels, Saves
  <2> QED BY <1>1, <1>a, <2>2, <2>3, <2>4 DEF StartLoad, TypeOK
<1>2. CASE StartClear(h)
  <2>1. ~Serves /\ stateFile' \in {NoState, stateFile} BY <1>2 DEF StartClear, FreshAt, Rewrites
  <2>2. pc'[h] \in {"await", "start.prepare", "idle"} BY <1>a, <1>2 DEF StartClear, TypeOK
  <2> QED BY <1>b, <1>f, <2>1, <2>2 DEF TermLabels, Saves
<1>3. CASE StartPrepare(h) \/ StartProbe(h) \/ StartConfigure(h)
  <2>1. ~Serves /\ stateFile' = stateFile
        BY <1>3 DEF StartPrepare, StartProbe, StartConfigure, fileVars, FreshAt, Rewrites, UsesPlan
  <2>2. pc'[h] \in {"start.probe", "start.configure", "start.spawn", "idle"}
        BY <1>a, <1>3 DEF StartPrepare, StartProbe, StartConfigure, TypeOK
  <2> QED BY <1>b, <1>f, <2>1, <2>2 DEF TermLabels, Saves
<1>4. CASE StartSpawn(h)
  <2>1. ~Serves /\ stateFile' = stateFile
        BY <1>4 DEF StartSpawn, fileVars, FreshAt, Rewrites, UsesPlan
  <2>2. CASE NextAttempt(h)
    <3>1. pc'[h] \in {"start.probe", "idle"} BY <1>a, <2>2 DEF NextAttempt, TypeOK
    <3> QED BY <1>b, <1>f, <2>1, <3>1 DEF TermLabels, Saves
  <2>3. CASE ~NextAttempt(h)
    <3>1. pc'[h] = "start.ticks" /\ rs'[h].phase = "starting"
          BY <1>a, <1>4, <2>3 DEF StartSpawn, TypeOK
    <3> QED BY <1>b, <2>1, <3>1 DEF FreshAt, TermLabels
  <2> QED BY <2>2, <2>3
<1>5. CASE StartTicks(h)
  <2>1. /\ ~Serves /\ stateFile' = stateFile /\ rs' = rs /\ rs[h].phase = "starting"
        BY <1>5 DEF StartTicks, fileVars, FreshAt, Rewrites, UsesPlan, Saves
  <2>2. pc'[h] \in {"start.provisional", "start.reap"} BY <1>a, <1>5 DEF StartTicks, TypeOK
  <2> QED BY <1>b, <2>1, <2>2 DEF FreshAt, TermLabels
<1>6. CASE StartReap(h)
  <2>1. stateFile' = stateFile /\ pc'[h] = "idle" BY <1>a, <1>6 DEF StartReap, fileVars, TypeOK
  <2> QED BY <1>g, <2>1
<1>7. CASE StartProvisional(h)
  <2>1. ~Serves /\ rs' = rs /\ rs[h].phase = "starting"
        BY <1>7 DEF StartProvisional, FreshAt, Rewrites, UsesPlan, Saves
  <2>2. CASE stateFile' = rs[h] /\ pc'[h] = "wait.reap"
    <3>1. ~Serves' BY <2>1, <2>2 DEF Serves
    <3> QED BY <2>1, <2>2, <3>1 DEF FreshAt, TermLabels
  <2>3. CASE stateFile' = stateFile /\ pc'[h] = "term.check" /\ site'[h] = "provisional"
        BY <1>b, <1>t, <2>1, <2>3 DEF TermLabels
  <2> QED BY <1>a, <1>7, <2>2, <2>3 DEF StartProvisional, TypeOK
<1>8. CASE WaitReap(h) \/ WaitTun(h)
  <2>1. ~Serves /\ stateFile' = stateFile /\ rs' = rs /\ rs[h].phase = "starting"
        BY <1>8 DEF WaitReap, WaitTun, fileVars, FreshAt, Rewrites, UsesPlan, Saves
  <2>2. \/ pc'[h] \in {"start.retry", "wait.tun", "start.running", "wait.reap"}
        \/ pc'[h] = "term.check" /\ site'[h] = "retry"
        BY <1>a, <1>8 DEF WaitReap, WaitTun, TypeOK
  <2>3. CASE pc'[h] \in {"start.retry", "wait.tun", "start.running", "wait.reap"}
        BY <1>b, <2>1, <2>3 DEF FreshAt, TermLabels
  <2>4. CASE pc'[h] = "term.check" /\ site'[h] = "retry" BY <1>b, <1>t, <2>1, <2>4 DEF TermLabels
  <2> QED BY <2>1, <2>2, <2>3, <2>4
<1>9. CASE StartRunning(h)
  <2>1. ~Serves BY <1>9 DEF StartRunning, FreshAt, Rewrites, UsesPlan
  <2>2. \/ pc'[h] = "idle"
        \/ stateFile' = stateFile /\ pc'[h] = "term.check" /\ site'[h] = "saved"
        BY <1>a, <1>9 DEF StartRunning, TypeOK
  <2>3. CASE pc'[h] = "idle" BY <1>g, <2>1, <2>3
  <2>4. CASE stateFile' = stateFile /\ pc'[h] = "term.check" /\ site'[h] = "saved"
        BY <1>b, <1>t, <2>1, <2>4 DEF TermLabels
  <2> QED BY <2>2, <2>3, <2>4
<1>10. CASE StartUndo(h) \/ StartRetry(h)
  <2>1. ~Serves /\ stateFile' \in {NoState, stateFile}
        BY <1>10 DEF StartUndo, StartRetry, FreshAt, Rewrites, UsesPlan
  <2>2. pc'[h] \in {"await", "idle"} BY <1>a, <1>10 DEF StartUndo, StartRetry, TypeOK
  <2> QED BY <1>b, <1>f, <2>1, <2>2 DEF TermLabels, Saves
<1>11. CASE StopLoad(h)
  <2>1. stateFile' = stateFile BY <1>11 DEF StopLoad, fileVars
  <2>2. CASE pc'[h] = "term.check" /\ site'[h] = "stop" /\ rs'[h] = stateFile
        BY <2>1, <2>2 DEF FreshAt, TermLabels, Rewrites, UsesPlan, Saves
  <2>3. CASE pc'[h] = "stop.clear" /\ ~RecordRuns(h)
    <3>1. ~Serves BY <1>d, <2>3 DEF Serves
    <3> QED BY <1>b, <1>f, <2>1, <2>3, <3>1 DEF TermLabels, Saves
  <2> QED BY <1>a, <1>11, <2>2, <2>3 DEF StopLoad, TypeOK, RecordRuns
<1>12. CASE StopClear(h)
  <2>1. ~Serves BY <1>12 DEF StopClear, FreshAt, Rewrites
  <2>2. pc'[h] = "idle" BY <1>a, <1>12 DEF StopClear, TypeOK
  <2> QED BY <1>g, <2>1, <2>2
<1>13. CASE SetSetting(h)
  <2>1. stateFile' = stateFile /\ pc'[h] = "idle" BY <1>a, <1>13 DEF SetSetting, TypeOK
  <2> QED BY <1>g, <2>1
<1>14. CASE TermStep(h) /\ pc[h] \in TermLabels
  <2>a. rs[h] \in RuntimeStates /\ rs[h] # NoState /\ Born(rs[h])
        BY <1>14, <1>a DEF TypeOK, LocalInv, UsesState, BornInv
  <2>b. stateFile' = stateFile
        BY <1>14 DEF TermStep, TermCheck, TermSignal, TermReap, TermPoll, KillCheck, KillSignal,
                     AwaitTunRemoval, fileVars
  <2>c. ASSUME ~IsLive(rs[h]), site[h] = "stop" PROVE ~Serves
        BY <1>14, <2>c DEF FreshAt, Serves
  <2>d. ASSUME pc'[h] \in TermLabels, rs'[h] = rs[h], site'[h] = site[h] PROVE FreshAt(h)'
    <3>1. CASE site[h] = "stop" BY <1>14, <2>b, <2>d, <3>1 DEF FreshAt, TermLabels, Rewrites, UsesPlan, Saves
    <3>2. CASE site[h] # "stop"
      <4>1. ~Serves BY <1>14, <3>2 DEF FreshAt
      <4> QED BY <1>b, <1>t, <2>b, <2>d, <3>2, <4>1
    <3> QED BY <3>1, <3>2
  <2>1. ASSUME Terminated(h), ~IsLive(rs[h]) \/ CanReap(h, rs[h].pid) PROVE FreshAt(h)'
    <3>1. ~IsLive(rs[h]) BY <2>1 DEF CanReap, IsLive
    <3>2. site[h] = "stop" => ~Serves' BY <1>b, <2>b, <2>c, <3>1
    <3> QED BY <1>14, <1>a, <1>b, <2>1, <2>b, <3>2, TerminatedStep
  <2>2. CASE TermCheck(h) \/ KillCheck(h)
    <3>1. \/ pc'[h] \in TermLabels /\ rs' = rs /\ site' = site
          \/ ~IsLive(rs[h]) /\ Terminated(h)
          BY <1>a, <1>c, <2>2 DEF TermCheck, KillCheck, TypeOK, TermLabels
    <3> QED BY <2>1, <2>b, <2>d, <3>1
  <2>3. CASE TermSignal(h) \/ KillSignal(h)
    <3>1. pc'[h] \in TermLabels /\ rs' = rs /\ site' = site
          BY <1>a, <2>3 DEF TermSignal, KillSignal, TypeOK, TermLabels
    <3> QED BY <2>b, <2>d, <3>1
  <2>4. CASE TermReap(h)
    <3>1. \/ pc'[h] \in TermLabels /\ rs' = rs /\ site' = site
          \/ CanReap(h, rs[h].pid) /\ Terminated(h)
          BY <1>a, <2>4 DEF TermReap, TypeOK, TermLabels
    <3> QED BY <2>1, <2>b, <2>d, <3>1
  <2>5. CASE TermPoll(h)
    <3>1. \/ pc'[h] \in TermLabels /\ rs' = rs /\ site' = site
          \/ ~IsLive(rs[h]) /\ Terminated(h)
          \/ pc'[h] = "idle"
          BY <1>a, <1>c, <2>5 DEF TermPoll, TypeOK, TermLabels
    <3> QED BY <1>g, <2>1, <2>b, <2>d, <3>1
  <2>6. ~AwaitTunRemoval(h) BY <1>14 DEF AwaitTunRemoval, TermLabels
  <2> QED BY <1>14, <2>2, <2>3, <2>4, <2>5, <2>6 DEF TermStep
<1>15. CASE AwaitTunRemoval(h)
  <2>1. ~Serves /\ stateFile' = stateFile BY <1>15 DEF AwaitTunRemoval, fileVars, FreshAt, Rewrites
  <2>2. pc'[h] \in {"await", "idle", "stop.clear", "start.prepare", "start.probe"}
        BY <1>a, <1>15 DEF AwaitTunRemoval, NextAttempt, TypeOK
  <2> QED BY <1>b, <1>f, <2>1, <2>2 DEF TermLabels, Saves
<1>16. TermStep(h) => pc[h] \in TermLabels \/ AwaitTunRemoval(h)
       BY DEF TermStep, TermCheck, TermSignal, TermReap, TermPoll, KillCheck, KillSignal, TermLabels
<1> QED BY <1>1, <1>2, <1>3, <1>4, <1>5, <1>6, <1>7, <1>8, <1>9, <1>10, <1>11, <1>12, <1>13,
           <1>14, <1>15, <1>16 DEF HostStep, StartStep

\* What a command knows survives what others do, and so does what a reader knows.
LEMMA FreshInductive ==
    ASSUME ControlInv, TypeOK', BornInv, FreshInv, [Next]_vars, Hosts \cap Confined = {}
    PROVE  FreshInv'
<1>1. TypeOK /\ LockInv /\ LocalInv BY DEF ControlInv
<1> DEFINE Inside == Rewrites \cup TermLabels \cup Saves
<1>2. /\ Inside \subseteq OpLabels
      /\ Inside \cap {"idle", "down", "start.load", "stop.load", "set.save"} = {}
      BY DEF Rewrites, UsesPlan, Saves, TermLabels, OpLabels, StartLabels, StopLabels
<1>3. \A h \in Hosts : pc'[h] \notin Inside => FreshAt(h)' BY DEF FreshAt
<1>4. ASSUME Serves => stateFile' = stateFile, NEW r \in Readers,
             seen'[r] \in {NoState, seen[r]} \/ seen'[r] = stateFile'
      PROVE  seen'[r] # NoState /\ IsLive(seen[r])' /\ seen'[r].phase = "running"
                => stateFile' = seen'[r]
  <2> SUFFICES ASSUME seen'[r] = seen[r], seen[r] # NoState, IsLive(seen[r])', seen[r].phase = "running"
               PROVE  stateFile' = seen[r]
      BY <1>4
  <2>1. PICK st \in RuntimeStates : st = seen[r] BY <1>1 DEF TypeOK
  <2>2. Born(st) /\ IsLive(st)' BY <2>1 DEF BornInv, IsLive, IsSame
  <2>3. IsLive(st) BY <2>2, GoneForGood
  <2>4. stateFile = st BY <2>1, <2>3 DEF FreshInv
  <2>5. Serves BY <2>1, <2>3, <2>4 DEF Serves
  <2> QED BY <1>4, <2>1, <2>4, <2>5
<1>5. ASSUME NEW h \in Hosts, HostStep(h) PROVE FreshInv'
  <2>1. FreshAt(h) /\ h \notin Confined BY DEF FreshInv
  <2>2. FreshAt(h)' /\ (Serves => stateFile' = stateFile) BY <1>5, <2>1, FreshStep
  <2>3. FrameOf(h) BY <1>1, <1>5, HostFrame, TypeGroups
  <2>4. \A g \in Hosts \ {h} : pc'[g] \notin OpLabels BY <1>1, <2>3, OneInside DEF FrameOf
  <2>5. \A g \in Hosts : FreshAt(g)' BY <1>2, <1>3, <2>2, <2>4
  <2>6. seen' = seen
    <3>1. LocalAt(h) BY <1>1 DEF LocalInv, LocalAt
    <3> QED BY <1>1, <1>5, <3>1, RecordMoves
  <2> QED BY <1>4, <2>2, <2>5, <2>6 DEF FreshInv
<1>6. CASE \A h \in Hosts : ~HostStep(h)
  <2>1. /\ stateFile' = stateFile
        /\ \A h \in Hosts : pc'[h] \in {pc[h], "idle", "down", "start.load", "stop.load", "set.save"}
        /\ \A r \in Readers : seen'[r] \in {NoState, seen[r], stateFile}
        /\ \A h \in Hosts : pc'[h] = pc[h] /\ pc[h] \notin {"idle", "down"} =>
              rs'[h] = rs[h] /\ site'[h] = site[h]
        BY <1>1, <1>6, RecordStays
  <2>2. ~Serves => ~Serves' BY <2>1, ServesNoMore
  <2>3. ASSUME NEW h \in Hosts, pc'[h] \in Inside PROVE FreshAt(h)'
    <3>1. pc'[h] = pc[h] /\ pc[h] \notin {"idle", "down"} BY <1>2, <2>1, <2>3
    <3>2. rs'[h] = rs[h] /\ site'[h] = site[h] BY <2>1, <3>1
    <3> QED BY <2>1, <2>2, <3>1, <3>2 DEF FreshInv, FreshAt
  <2>4. \A h \in Hosts : FreshAt(h)' BY <1>3, <2>3
  <2> QED BY <1>4, <2>1, <2>4 DEF FreshInv
<1> QED BY <1>5, <1>6

\* An unlocked status answers ON about the record that is in the state file now, however long
\* ago it has loaded it; crashes, reused pids and foreign interfaces included.
THEOREM StatusIsFresh == ASSUME Hosts \cap Confined = {} PROVE Spec => []StatusFresh
<1>1. Init => FreshInv
      BY DEF Init, FreshInv, FreshAt, Rewrites, UsesPlan, TermLabels, Saves
<1>2. ControlInv /\ ControlInv' /\ BornInv /\ FreshInv /\ [Next]_vars => BornInv' /\ FreshInv'
      BY BornInductive, FreshInductive DEF ControlInv
<1>3. FreshInv => StatusFresh BY DEF FreshInv, StatusFresh, ReportsOn, Managed
<1> QED BY <1>1, <1>2, <1>3, BornInit, ControlCorrect, PTL DEF Spec

-----------------------------------------------------------------------------
(* The life cycle: every step is one of ProxyService, or none *)

\* The process a record names has made the interface, unless it is no more.
HasTun(st) == IsLive(st) => tun = IdOf(st)

\* From clear to the provisional save there is no record.
Cleared(h) ==
    \/ pc[h] \in {"start.prepare", "start.probe", "start.configure", "start.spawn",
                  "start.ticks", "start.provisional"}
    \/ pc[h] = "await" /\ site[h] \in {"previous", "retry"}

\* From the provisional save to the final one the record is the command's.
Saved == {"wait.reap", "wait.tun", "start.running"}

\* What a command that launches a core owes to the next record: the setting it pinned is
\* still in force, since set waits for the lock, and the interface has been seen.
PinnedAt(h) ==
    /\ plan[h] # NoPlan => pc[h] \in OpLabels \ {"set.save"} /\ plan[h].upstream = setting
    /\ Cleared(h) => stateFile = NoState
    /\ pc[h] \in Saved \cup {"start.ticks", "start.provisional"} =>
          rs[h].phase = "starting" /\ rs[h].cfg = plan[h]
    /\ pc[h] \in Saved => stateFile = rs[h]
    /\ pc[h] = "start.running" => HasTun(rs[h])

ServiceInv ==
    /\ \A h \in Hosts : PinnedAt(h)
    /\ stateFile # NoState /\ stateFile.phase = "running" => HasTun(stateFile)

\* The steps of the command itself.
LEMMA PinnedStep ==
    ASSUME TypeOK, NEW h \in Hosts, LocalAt(h), TunAt(h), PinnedAt(h), HostStep(h)
    PROVE  PinnedAt(h)'
<1> USE DEF TypeOK, PinnedAt, Cleared, Saved, LocalAt, Goto, Loop, Finish, Fail, Leave, Await,
            Terminate, OpLabels, StartLabels, StopLabels, TermLabels
<1>1. CASE StartLoad(h) BY <1>1 DEF StartLoad, fileVars
<1>2. CASE StartClear(h) BY <1>2 DEF StartClear, fileVars
<1>3. CASE StartPrepare(h) BY <1>3 DEF StartPrepare, Plans, fileVars
<1>4. CASE StartProbe(h) BY <1>4 DEF StartProbe, fileVars
<1>5. CASE StartConfigure(h) BY <1>5 DEF StartConfigure, fileVars
<1>6. CASE StartSpawn(h) BY <1>6 DEF StartSpawn, NextAttempt, UsesPlan, Plans, RuntimeStates, fileVars
<1>7. CASE StartTicks(h) BY <1>7 DEF StartTicks, fileVars
<1>8. CASE StartReap(h) BY <1>8 DEF StartReap, fileVars
<1>9. CASE StartProvisional(h) BY <1>9 DEF StartProvisional, fileVars
<1>10. CASE WaitReap(h) BY <1>10 DEF WaitReap, fileVars
<1>11. CASE WaitTun(h) BY <1>11 DEF WaitTun, HasTun, TunAt, IdOf, fileVars
<1>12. CASE StartRunning(h) BY <1>12 DEF StartRunning, fileVars
<1>13. CASE StartUndo(h) BY <1>13 DEF StartUndo, fileVars
<1>14. CASE StartRetry(h) BY <1>14 DEF StartRetry, fileVars
<1>15. CASE StopLoad(h) BY <1>15 DEF StopLoad, fileVars
<1>16. CASE StopClear(h) BY <1>16 DEF StopClear, fileVars
<1>17. CASE TermCheck(h) BY <1>17 DEF TermCheck, Terminated, fileVars
<1>18. CASE TermSignal(h) BY <1>18 DEF TermSignal, fileVars
<1>19. CASE TermReap(h) BY <1>19 DEF TermReap, Terminated, fileVars
<1>20. CASE TermPoll(h) BY <1>20 DEF TermPoll, Terminated, fileVars
<1>21. CASE KillCheck(h) BY <1>21 DEF KillCheck, Terminated, fileVars
<1>22. CASE KillSignal(h) BY <1>22 DEF KillSignal, fileVars
<1>23. CASE AwaitTunRemoval(h) BY <1>23 DEF AwaitTunRemoval, NextAttempt, Plans, fileVars
<1>24. CASE SetSetting(h) BY <1>24 DEF SetSetting, fileVars
<1> QED BY <1>1, <1>2, <1>3, <1>4, <1>5, <1>6, <1>7, <1>8, <1>9, <1>10, <1>11, <1>12, <1>13, <1>14, <1>15, <1>16, <1>17, <1>18, <1>19, <1>20, <1>21, <1>22, <1>23, <1>24
        DEF HostStep, StartStep, TermStep

\* The interface changes hands only through the core that makes it, when there is none, or
\* when the core that made it is no more.
LEMMA TunMoves ==
    ASSUME TypeOK, [Next]_vars
    PROVE  \/ tun' = tun
           \/ tun = NoTun /\ \E p \in Pids : CoreTun(p)
           \/ tun \notin {NoTun, External} /\ ~IsLive(tun) /\ tun' = NoTun
           \/ ExternalTun /\ tun \in {NoTun, External} /\ tun' \in {NoTun, External}
<1>1. ASSUME NEW h \in Hosts, HostStep(h) PROVE tun' = tun
      BY <1>1 DEF HostStep, StartStep, TermStep, StartLoad, StartClear, StartPrepare, StartProbe,
             StartConfigure, StartSpawn, StartTicks, StartReap, StartProvisional, WaitReap,
             WaitTun, StartRunning, StartUndo, StartRetry, StopLoad, StopClear, TermCheck,
             TermSignal, TermReap, TermPoll, KillCheck, KillSignal, AwaitTunRemoval, SetSetting
<1>2. CASE \/ \E h \in Hosts : Command(h) \/ HostExit(h) \/ Restart(h)
           \/ \E r \in Readers : ReaderLoads(r) \/ ReaderReports(r)
           \/ \E p \in Pids : \/ InitReaps(p) \/ CoreExit(p) \/ CoreLoads(p)
                              \/ ForeignStarts(p) \/ ForeignExits(p)
           \/ UNCHANGED vars
      BY <1>2 DEF Command, Begin, HostExit, Restart, ReaderLoads, ReaderReports, InitReaps,
                  CoreExit, CoreLoads, ForeignStarts, ForeignExits, vars
<1>3. CASE \E p \in Pids : CoreTun(p) BY <1>3 DEF CoreTun
<1>4. CASE TunVanishes \/ ExternalTunChanges BY <1>4 DEF TunVanishes, ExternalTunChanges
<1> QED BY <1>1, <1>2, <1>3, <1>4 DEF Next, OsStep

\* A process that has made the interface has it as long as it lives.
LEMMA TunStays ==
    ASSUME ControlInv, TypeOK', NEW st \in RuntimeStates, Born(st), HasTun(st), [Next]_vars
    PROVE  HasTun(st)'
<1> SUFFICES ASSUME IsLive(st)' PROVE tun' = IdOf(st) BY DEF HasTun, IdOf
<1>1. TypeOK BY DEF ControlInv
<1>2. st # NoState BY NullAssumption
<1>3. IsLive(st)
  <2>1. \A p \in Pids : Ages(p) BY NextAges
  <2> QED BY <1>1, <1>2, <2>1, OldRecord
<1>4. tun = IdOf(st) BY <1>3 DEF HasTun
<1>5. IdOf(st) \in Tuns BY DEF IdOf, RuntimeStates, Tuns
<1>6. tun \notin {NoTun, External} BY <1>4, <1>5, NullAssumption
<1>7. IsLive(tun) BY <1>3, <1>4 DEF IsLive, IsSame, IdOf
<1> QED BY <1>1, <1>4, <1>6, <1>7, TunMoves

\* Outside commands a host has pinned nothing and knows no record.
LEMMA OutsidePinned ==
    ASSUME NEW h \in Hosts, pc'[h] \notin OpLabels, plan'[h] = NoPlan
    PROVE  PinnedAt(h)'
BY DEF PinnedAt, Cleared, Saved, OpLabels, StartLabels

\* A host that takes no step keeps what it has pinned, as nobody else writes files then.
LEMMA PinnedStays ==
    ASSUME ControlInv, TypeOK', BornInv, [Next]_vars, NEW h \in Hosts, PinnedAt(h),
           pc'[h] = pc[h], rs'[h] = rs[h], plan'[h] = plan[h], site'[h] = site[h],
           UNCHANGED <<stateFile, setting>>
    PROVE  PinnedAt(h)'
<1>1. pc[h] = "start.running" => HasTun(rs[h])'
  <2> SUFFICES ASSUME pc[h] = "start.running" PROVE HasTun(rs[h])' OBVIOUS
  <2>1. HasTun(rs[h]) BY DEF PinnedAt
  <2>2. rs[h] \in RuntimeStates
        BY DEF ControlInv, LocalInv, UsesState, TypeOK
  <2>3. Born(rs[h]) BY DEF BornInv
  <2>4. HasTun(rs[h])' <=> (IsLive(rs[h])' => tun' = IdOf(rs[h])) BY DEF HasTun, IdOf
  <2>5. \A st \in RuntimeStates : Born(st) /\ HasTun(st) => (IsLive(st)' => tun' = IdOf(st))
        BY TunStays DEF HasTun, IdOf
  <2> QED BY <2>1, <2>2, <2>3, <2>5 DEF HasTun, IdOf, IsLive, IsSame
<1>2. (Cleared(h))' = Cleared(h) BY DEF Cleared
<1> QED BY <1>1, <1>2 DEF PinnedAt

\* ServiceInv survives every step.
LEMMA ServiceInductive ==
    ASSUME IInv, TypeOK', BornInv, TunInv, ServiceInv, [Next]_vars
    PROVE  ServiceInv'
<1>1. ControlInv /\ TypeOK /\ LockInv /\ LocalInv BY DEF IInv, ControlInv
<1>2. \A h \in Hosts : PinnedAt(h) BY DEF ServiceInv
<1>3. ASSUME stateFile' = stateFile
      PROVE  (stateFile # NoState /\ stateFile.phase = "running" => HasTun(stateFile))'
  <2> SUFFICES ASSUME stateFile # NoState, stateFile.phase = "running"
               PROVE  IsLive(stateFile)' => tun' = IdOf(stateFile)
      BY <1>3 DEF HasTun, IdOf
  <2>1. stateFile \in RuntimeStates /\ Born(stateFile) /\ HasTun(stateFile)
        BY <1>1 DEF TypeOK, BornInv, ServiceInv
  <2>2. \A st \in RuntimeStates : Born(st) /\ HasTun(st) =>
            (proc'[st.pid].kind = "core" /\ proc'[st.pid].gen = st.gen /\ proc'[st.pid].alive
               => tun' = IdOf(st))
        BY <1>1, TunStays DEF HasTun, IdOf, IsLive, IsSame
  <2> QED BY <1>3, <2>1, <2>2 DEF IsLive, IsSame
<1>4. ASSUME NEW h \in Hosts, HostStep(h) PROVE ServiceInv'
  <2>1. LocalAt(h) /\ TunAt(h) /\ PinnedAt(h) BY <1>1 DEF LocalInv, LocalAt, TunInv, ServiceInv
  <2>2. PinnedAt(h)' /\ tun' = tun BY <1>1, <1>4, <2>1, PinnedStep, TunStep
  <2>3. FrameOf(h) BY <1>1, <1>4, HostFrame, TypeGroups
  <2>4. ASSUME NEW g \in Hosts \ {h} PROVE PinnedAt(g)'
    <3>1. pc[g] \notin OpLabels BY <1>1, <2>3, OneInside DEF FrameOf
    <3>2. plan[g] = NoPlan BY <1>2, <3>1 DEF PinnedAt
    <3> QED BY <2>3, <3>1, <3>2, OutsidePinned DEF FrameOf
  <2>5. (stateFile # NoState /\ stateFile.phase = "running" => HasTun(stateFile))'
    <3>1. \/ stateFile' \in {NoState, stateFile}
          \/ /\ rs[h] # NoState /\ proc' = proc
             /\ \/ pc[h] = "start.provisional" /\ stateFile' = rs[h]
                \/ pc[h] = "start.running" /\ stateFile' = [rs[h] EXCEPT !.phase = "running"]
          BY <1>1, <1>4, <2>1, RecordMoves
    <3>2. CASE stateFile' \in {NoState, stateFile} BY <1>3, <3>2
    <3>3. CASE pc[h] = "start.provisional" /\ stateFile' = rs[h]
      <4>1. stateFile'.phase = "starting" BY <2>1, <3>3 DEF PinnedAt
      <4> QED BY <4>1
    <3>4. CASE /\ rs[h] # NoState /\ proc' = proc
               /\ pc[h] = "start.running" /\ stateFile' = [rs[h] EXCEPT !.phase = "running"]
      <4>1. HasTun(rs[h]) BY <2>1, <3>4 DEF PinnedAt
      <4>2. rs[h] \in RuntimeStates BY <1>1, <3>4 DEF TypeOK
      <4>3. stateFile'.pid = rs[h].pid /\ stateFile'.gen = rs[h].gen
            BY <3>4, <4>2 DEF RuntimeStates
      <4> QED BY <2>2, <3>4, <4>1, <4>3 DEF HasTun, IsLive, IsSame, IdOf
    <3> QED BY <3>1, <3>2, <3>3, <3>4
  <2> QED BY <2>2, <2>4, <2>5 DEF ServiceInv
<1>5. ASSUME UNCHANGED <<pc, rs, plan, site, stateFile, setting>> PROVE ServiceInv'
      BY <1>1, <1>2, <1>3, <1>5, PinnedStays DEF ServiceInv
<1>6. ASSUME NEW h \in Hosts, Command(h) \/ HostExit(h) \/ Restart(h) PROVE ServiceInv'
  <2>1. UNCHANGED <<stateFile, setting>> BY <1>6 DEF Command, Begin, HostExit, Restart, fileVars
  <2>2. \A g \in Hosts \ {h} : /\ pc'[g] = pc[g] /\ rs'[g] = rs[g]
                               /\ plan'[g] = plan[g] /\ site'[g] = site[g]
        BY <1>1, <1>6 DEF Command, Begin, HostExit, Restart, Goto, TypeOK
  <2>3. \A g \in Hosts \ {h} : PinnedAt(g)' BY <1>1, <1>2, <2>1, <2>2, PinnedStays
  <2>4. PinnedAt(h)'
    <3>1. CASE HostExit(h)
      <4>1. pc'[h] \notin OpLabels /\ plan'[h] = NoPlan
            BY <1>1, <3>1, LabelsAre DEF HostExit, TypeOK
      <4> QED BY <4>1, OutsidePinned
    <3>2. CASE Command(h) \/ Restart(h)
      <4>1. /\ pc[h] \in {"idle", "down"} /\ plan' = plan
            /\ pc'[h] \in {"idle", "start.load", "stop.load", "set.save"}
            BY <1>1, <3>2 DEF Command, Begin, Restart, Goto, Entry, TypeOK
      <4>2. plan'[h] = NoPlan BY <1>2, <4>1, LabelsAre DEF PinnedAt
      <4> QED BY <4>1, <4>2 DEF PinnedAt, Cleared, Saved
    <3> QED BY <1>6, <3>1, <3>2
  <2> QED BY <1>3, <2>1, <2>3, <2>4 DEF ServiceInv
<1>7. CASE \/ \E p \in Pids : \/ InitReaps(p) \/ CoreExit(p) \/ CoreLoads(p) \/ CoreTun(p)
                              \/ ForeignStarts(p) \/ ForeignExits(p)
           \/ TunVanishes \/ ExternalTunChanges
           \/ \E r \in Readers : ReaderLoads(r) \/ ReaderReports(r)
           \/ UNCHANGED vars
  <2>1. UNCHANGED <<pc, rs, plan, site, stateFile, setting>>
        BY <1>7 DEF InitReaps, CoreExit, CoreLoads, CoreTun, ForeignStarts, ForeignExits,
                    TunVanishes, ExternalTunChanges, ReaderLoads, ReaderReports, vars,
                    hostVars, fileVars
  <2> QED BY <1>5, <2>1
<1> QED BY <1>4, <1>6, <1>7 DEF Next, OsStep

\* What a step looks like to ProxyService.  The core ends, or there is no record any more: End,
\* unless there was none alive.
LEMMA EndStep ==
    ASSUME ~Alive', setting' = setting
    PROVE  [Service!Next]_(Service!vars)
<1>1. CASE ~Alive BY <1>1 DEF Service!vars, Service!service
<1>2. CASE Alive
  <2>1. Service!End BY <1>2 DEF Service!End
  <2> QED BY <2>1 DEF Service!Next
<1> QED BY <1>1, <1>2

\* The same record, and a core that lives on: it may make its interface.
LEMMA LiveStep ==
    ASSUME TypeOK, ServiceInv, [Next]_vars, stateFile' = stateFile, setting' = setting,
           Alive, Alive'
    PROVE  [Service!Next]_(Service!vars)
<1>1. stateFile \in RuntimeStates /\ stateFile # NoState BY DEF Alive, TypeOK
<1>2. CoreId \in Tuns BY <1>1 DEF CoreId, RuntimeStates, Tuns
<1>3. CoreId \notin {NoTun, External} BY <1>2, NullAssumption
<1>4. IsLive(CoreId) BY DEF Alive, CoreId, IsLive, IsSame
<1>5. CoreId' = CoreId BY DEF CoreId
<1>6. CASE (tun' = CoreId') = (tun = CoreId)
  <2>1. UNCHANGED Service!vars BY <1>5, <1>6 DEF Service!vars, Service!service
  <2> QED BY <2>1
<1>7. CASE (tun' = CoreId') # (tun = CoreId)
  <2>1. tun = NoTun /\ tun' = CoreId BY <1>3, <1>4, <1>5, <1>7, TunMoves
  <2>2. stateFile.phase # "running"
        BY <1>1, <1>3, <2>1 DEF ServiceInv, HasTun, Alive, IdOf, CoreId
  <2>3. Service!TunnelUp BY <1>3, <1>5, <2>1, <2>2 DEF Service!TunnelUp
  <2> QED BY <2>3 DEF Service!Next
<1> QED BY <1>6, <1>7

\* The provisional save: Launch, unless the child has died already.
LEMMA LaunchStep ==
    ASSUME TypeOK, ServiceInv, NEW h \in Hosts, LocalAt(h), pc[h] = "start.provisional",
           stateFile' = rs[h], UNCHANGED <<setting, proc, tun>>, Alive'
    PROVE  [Service!Next]_(Service!vars)
<1>1. rs[h] \in RuntimeStates /\ plan[h] \in Plans
      BY DEF LocalAt, UsesState, UsesPlan, TypeOK
<1>2. PinnedAt(h) BY DEF ServiceInv
<1>3. ~Alive BY <1>2 DEF PinnedAt, Cleared, Alive
<1>4. rs[h].phase = "starting" /\ rs[h].cfg = plan[h] /\ plan[h].upstream = setting
      BY <1>1, <1>2, NullAssumption DEF PinnedAt
<1>5. rs[h].cfg \in [auto : BOOLEAN, upstream : {setting}] BY <1>1, <1>4 DEF Plans
<1>6. CoreId' \in Tuns BY <1>1 DEF CoreId, RuntimeStates, Tuns
<1>7. Service!Launch BY <1>3, <1>4, <1>5, <1>6 DEF Service!Launch
<1> QED BY <1>7 DEF Service!Next

\* The final save: Establish, as the interface that was seen is the core's.
LEMMA EstablishStep ==
    ASSUME TypeOK, ServiceInv, NEW h \in Hosts, LocalAt(h), pc[h] = "start.running",
           stateFile' = [rs[h] EXCEPT !.phase = "running"], UNCHANGED <<setting, proc, tun>>,
           Alive'
    PROVE  [Service!Next]_(Service!vars)
<1>1. rs[h] \in RuntimeStates BY DEF LocalAt, UsesState, TypeOK
<1>2. PinnedAt(h) BY DEF ServiceInv
<1>3. stateFile = rs[h] /\ stateFile.phase = "starting" /\ HasTun(stateFile)
      BY <1>2 DEF PinnedAt, Saved
<1>4. /\ stateFile'.pid = stateFile.pid /\ stateFile'.gen = stateFile.gen
      /\ stateFile'.cfg = stateFile.cfg /\ stateFile'.phase = "running"
      BY <1>1, <1>3 DEF RuntimeStates
<1>5. stateFile # NoState BY <1>1, <1>3, NullAssumption
<1>6. Alive /\ CoreId' = CoreId BY <1>4, <1>5 DEF Alive, IsLive, IsSame, CoreId
<1>7. tun = CoreId BY <1>3, <1>6 DEF HasTun, Alive, CoreId, IdOf
<1>8. Service!Establish BY <1>3, <1>4, <1>6, <1>7 DEF Service!Establish
<1> QED BY <1>8 DEF Service!Next

\* A record that is kept does not become alive, and a step of the setting alone is ChangeSetting.
LEMMA KeptStep ==
    ASSUME ControlInv, TypeOK', BornInv, ServiceInv, [Next]_vars,
           stateFile' = stateFile, setting' = setting
    PROVE  [Service!Next]_(Service!vars)
<1>1. TypeOK /\ \A p \in Pids : Ages(p) BY NextAges DEF ControlInv
<1>2. stateFile \in RuntimeStates \cup {NoState} /\ Born(stateFile)
      BY <1>1 DEF TypeOK, BornInv
<1>3. Alive' => Alive
  <2> SUFFICES ASSUME Alive' PROVE Alive OBVIOUS
  <2>1. stateFile # NoState /\ IsLive(stateFile)' BY DEF Alive
  <2>2. \A st \in RuntimeStates \cup {NoState} :
           Born(st) /\ st # NoState /\ IsLive(st)' => IsLive(st)
        BY <1>1, OldRecord
  <2> QED BY <1>2, <2>1, <2>2 DEF Alive, IsLive, IsSame
<1> QED BY <1>1, <1>3, EndStep, LiveStep

\* Every step of the system is a step of the life cycle, or none.
LEMMA ServiceStep ==
    ASSUME IInv, TypeOK', BornInv, TunInv, ServiceInv, [Next]_vars
    PROVE  [Service!Next]_(Service!vars)
<1>1. ControlInv /\ TypeOK /\ LockInv /\ LocalInv BY DEF IInv, ControlInv
<1>2. ASSUME NEW h \in Hosts, HostStep(h), ~SetSetting(h) PROVE [Service!Next]_(Service!vars)
  <2>1. LocalAt(h) /\ TunAt(h) BY <1>1 DEF LocalInv, LocalAt, TunInv
  <2>2. tun' = tun BY <1>1, <1>2, <2>1, TunStep
  <2>3. setting' = setting
        BY <1>2 DEF HostStep, StartStep, TermStep, StartLoad, StartClear, StartPrepare, StartProbe,
             StartConfigure, StartSpawn, StartTicks, StartReap, StartProvisional, WaitReap,
             WaitTun, StartRunning, StartUndo, StartRetry, StopLoad, StopClear, TermCheck,
             TermSignal, TermReap, TermPoll, KillCheck, KillSignal, AwaitTunRemoval, fileVars
  <2>4. \/ stateFile' \in {NoState, stateFile}
        \/ /\ rs[h] # NoState /\ proc' = proc
           /\ \/ pc[h] = "start.provisional" /\ stateFile' = rs[h]
              \/ pc[h] = "start.running" /\ stateFile' = [rs[h] EXCEPT !.phase = "running"]
        BY <1>1, <1>2, <2>1, RecordMoves
  <2>5. CASE ~Alive' BY <2>3, <2>5, EndStep
  <2>6. CASE Alive' /\ stateFile' = stateFile BY <1>1, <2>3, <2>6, KeptStep
  <2>7. CASE Alive' /\ proc' = proc /\ pc[h] = "start.provisional" /\ stateFile' = rs[h]
        BY <1>1, <2>1, <2>2, <2>3, <2>7, LaunchStep
  <2>8. CASE /\ Alive' /\ proc' = proc
             /\ pc[h] = "start.running" /\ stateFile' = [rs[h] EXCEPT !.phase = "running"]
        BY <1>1, <2>1, <2>2, <2>3, <2>8, EstablishStep
  <2>9. stateFile' = NoState => ~Alive' BY DEF Alive
  <2> QED BY <2>4, <2>5, <2>6, <2>7, <2>8, <2>9
<1>3. ASSUME NEW h \in Hosts, SetSetting(h) PROVE [Service!Next]_(Service!vars)
  <2>1. UNCHANGED <<stateFile, proc, tun>> BY <1>3 DEF SetSetting
  <2>2. UNCHANGED Service!service
        BY <2>1 DEF Service!service, Alive, CoreId, IsLive, IsSame
  <2>3. setting' \in Settings BY <1>1 DEF TypeOK
  <2>4. Service!ChangeSetting BY <2>2, <2>3 DEF Service!ChangeSetting
  <2> QED BY <2>4 DEF Service!Next
<1>4. CASE \A h \in Hosts : ~HostStep(h)
  <2>1. stateFile' = stateFile BY <1>1, <1>4, RecordStays
  <2>2. setting' = setting
        BY <1>4 DEF Next, OsStep, Command, Begin, HostExit, Restart, InitReaps, CoreExit,
             CoreLoads, CoreTun, ForeignStarts, ForeignExits, TunVanishes, ExternalTunChanges,
             ReaderLoads, ReaderReports, vars, fileVars
  <2> QED BY <1>1, <2>1, <2>2, KeptStep
<1> QED BY <1>2, <1>3, <1>4

\* The start, the stop, the crashes and the retries of cores, their records and interfaces
\* implement the life cycle a client may count on: off, starting, on, off; one process at a
\* time, on only over an interface it made, with the setting in force when it was launched.
THEOREM ServiceImplemented == ASSUME Benign, ~ExternalTun PROVE Spec => ImplementsService
<1>1. Init => Service!Init /\ ServiceInv
  <2> SUFFICES ASSUME Init PROVE Service!Init /\ ServiceInv OBVIOUS
  <2>1. stateFile = NoState /\ ~Alive BY DEF Init, Alive
  <2>2. Service!Init BY <2>1 DEF Init, Service!Init
  <2>3. ServiceInv BY <2>1 DEF Init, ServiceInv, PinnedAt, Cleared, Saved
  <2> QED BY <2>2, <2>3
<1>2. Init => TunInv BY DEF Init, TunInv, TunAt
<1>3. /\ IInv /\ IInv' /\ BornInv /\ TunInv /\ ServiceInv /\ [Next]_vars
            => BornInv' /\ TunInv' /\ ServiceInv'
  BY BornInductive, TunInductive, ServiceInductive DEF IInv, ControlInv
<1>4. /\ IInv /\ IInv' /\ BornInv /\ TunInv /\ ServiceInv /\ [Next]_vars
            => [Service!Next]_(Service!vars)
  BY ServiceStep DEF IInv, ControlInv
<1> QED BY <1>1, <1>2, <1>3, <1>4, BornInit, TrackCorrect, PTL
        DEF Spec, ImplementsService, Service!Spec
=============================================================================
