-------------------------- MODULE ProxyManagerInv --------------------------
(***************************************************************************)
(* The inductive invariant behind the safety properties of ProxyManager:   *)
(* what each program point of start, stop and terminateCore knows about    *)
(* the core.  Checked by TLC; the proofs are in ProxyManager_proofs.       *)
(***************************************************************************)
EXTENDS ProxyManager

\* The program points that use a local RuntimeState.
UsesState == TermLabels \cup
    {"start.ticks", "start.reap", "start.provisional", "wait.reap", "wait.tun", "start.running"}

\* The program points of one attempt of start, clean-up aside.
UsesPlan == {"start.probe", "start.configure", "start.spawn", "start.ticks", "start.reap",
             "start.provisional", "wait.reap", "wait.tun", "start.running", "start.retry"}

\* The program points that refer by pid to a child of this very command.
OwnsChild(h) ==
    \/ pc[h] \in UsesState \ TermLabels
    \/ pc[h] \in TermLabels /\ site[h] \in {"provisional", "saved", "retry"}

\* The program points after a clean-up, or before the fork: no core runs at all.
Quiet == {"start.clear", "start.prepare", "start.probe", "start.configure", "start.spawn",
          "start.reap", "start.undo", "start.retry", "stop.clear", "await",
          "kill.reap", "kill.poll"}

\* The program points that hold the only record a running core can have.
Holds == {"start.ticks", "start.provisional", "wait.reap", "wait.tun", "start.running",
          "term.check", "term.signal", "term.reap", "term.poll", "kill.check", "kill.signal"}

NothingRuns == \A p \in Pids : ~Running(p)

\* FileLock: whoever is inside a command holds the lock.
LockInv == \A h \in Hosts : pc[h] \in OpLabels <=> lock = h

\* The locals a program point reads have been assigned.
LocalInv ==
    \A h \in Hosts :
        /\ pc[h] \in UsesState => rs[h] # NoState
        /\ pc[h] \in UsesPlan => plan[h] # NoPlan
        /\ pc[h] \in TermLabels \cup {"await"} => site[h] # "none"
        /\ pc[h] \in TermLabels \cup {"await"} /\ site[h] = "retry" => plan[h] # NoPlan

ChildInv ==
    \A h \in Hosts : OwnsChild(h) =>
        /\ IsSame(rs[h])
        /\ proc[rs[h].pid].parent = h
        /\ proc[rs[h].pid].cgroup = h

QuietInv == \A h \in Hosts : pc[h] \in Quiet => NothingRuns

HoldInv == \A h \in Hosts : pc[h] \in Holds => \A p \in Pids : Running(p) => Names(rs[h], p)

\* What holds in every environment.
ControlInv == TypeOK /\ LockInv /\ LocalInv /\ ChildInv

\* What the absence of untracked crashes and of unreadable exe links adds: the
\* program points agree with the process table.
IInv == ControlInv /\ QuietInv /\ HoldInv /\ NoLostCore
=============================================================================
