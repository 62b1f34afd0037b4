------------------------------ MODULE Package ------------------------------
(***************************************************************************)
(* The scripts of the Debian package (src/debian) against the operations   *)
(* they run beside.  dpkg, outside the repository, calls prerm, replaces   *)
(* or removes the files and calls postinst; a prerm that fails is followed *)
(* by `postinst abort-remove`, or in an upgrade by the new version's       *)
(* `prerm failed-upgrade`, whose success lets the upgrade go on.  on and   *)
(* off of ProxyManager are reduced to what they do to the lock file, the   *)
(* state file and the cores.                                               *)
(***************************************************************************)
EXTENDS Naturals, FiniteSets

CONSTANT
    Scenarios    \* combinations of jobs: what dpkg is asked for, overlap: who may be in an
                 \* operation while the scripts run, and fails: a core may refuse to stop

\* A direct command, the daemon's worker, and the command prerm runs.
Actors == {"direct", "service", "script"}
Inodes == 1..(Cardinality(Actors) + 1)

ASSUME PackageAssumption ==
    \A s \in Scenarios :
        /\ s.jobs \subseteq {"upgrade", "remove"} /\ s.overlap \subseteq {"direct", "service"}
        /\ s.fails \in BOOLEAN

VARIABLES
    scenario,
    pkg,         \* the script's next step
    job, failed, \* what dpkg does; prerm has failed in it
    at, inode,   \* of an actor: where its operation is, and the lock file it has open
    ended,       \* how the operation prerm waits for ended
    lockfile,    \* inode of /run/tunproxy/lock, 0 when there is none
    state,       \* whose core /run/tunproxy/state names
    core,        \* the actors whose core runs
    socket,      \* tunproxy.socket is active
    service,     \* tunproxy.service is active
    inUse        \* history: what postinst removed last was in use, a lock open or a core running

shared  == <<lockfile, state, core>>
units   == <<socket, service>>
scripts == <<scenario, pkg, job, failed, inUse>>
vars    == <<scripts, at, inode, ended, shared, units>>

Init ==
    /\ scenario \in Scenarios
    /\ pkg = "idle" /\ job = "none" /\ failed = FALSE
    /\ at = [a \in Actors |-> "idle"] /\ inode = [a \in Actors |-> 0] /\ ended = "none"
    /\ lockfile = 0 /\ state = "none" /\ core = {} /\ socket \in BOOLEAN /\ service = FALSE
    /\ inUse = FALSE

Installed == pkg # "removed"
InWork(a) == at[a] \notin {"idle", "lock on", "lock off"}

-----------------------------------------------------------------------------
(* Operations *)

\* FileLock::acquire opens the file, or creates it with an inode of its own, ...
Open(a, kind) ==
    /\ at[a] = "idle"
    /\ at' = [at EXCEPT ![a] = kind]
    /\ \E i \in Inodes :
          /\ IF lockfile # 0 THEN i = lockfile ELSE \A b \in Actors : inode[b] # i
          /\ lockfile' = i /\ inode' = [inode EXCEPT ![a] = i]
    /\ UNCHANGED <<state, core>>

Request(a, kind) ==
    /\ Installed /\ a # "script"
    /\ pkg = "idle" \/ a \in scenario.overlap
    /\ IF a = "service" THEN socket /\ service' = TRUE ELSE UNCHANGED service
    /\ Open(a, kind)
    /\ UNCHANGED <<scripts, ended, socket>>

\* ... and waits for the lock of that inode.
Lock(a) ==
    /\ at[a] \in {"lock on", "lock off"}
    /\ \A b \in Actors \ {a} : ~(InWork(b) /\ inode[b] = inode[a])
    /\ at' = [at EXCEPT ![a] = IF at[a] = "lock on" THEN "on" ELSE "off"]
    /\ UNCHANGED <<scripts, inode, ended, shared, units>>

PrermActor == IF socket THEN "service" ELSE "script"
\* The end of an operation, which closes the lock file; prerm may be waiting for it.
Finish(a, how) ==
    /\ at' = [at EXCEPT ![a] = "idle"] /\ inode' = [inode EXCEPT ![a] = 0]
    /\ ended' = IF pkg = "await off" /\ ended = "none" /\ a = PrermActor THEN how ELSE ended
    /\ UNCHANGED <<scripts, units, lockfile>>
Step(a, l) ==
    /\ at' = [at EXCEPT ![a] = l]
    /\ UNCHANGED <<scripts, inode, ended, units, lockfile>>

\* start: with a running core known there is nothing to do; otherwise the state is cleared, ...
OnCheck(a) ==
    /\ at[a] = "on"
    /\ IF state \in core THEN Finish(a, "ok") /\ UNCHANGED <<state, core>>
       ELSE Step(a, "spawn") /\ state' = "none" /\ UNCHANGED core
\* ... a TUN device of an unknown core is an error, ...
OnSpawn(a) ==
    /\ at[a] = "spawn"
    /\ IF core # {} THEN Finish(a, "error") /\ UNCHANGED core
       ELSE Step(a, "save") /\ core' = {a}
    /\ UNCHANGED state
\* ... and the core is saved (phase starting) before the wait for its device.
OnSave(a) == at[a] = "save" /\ Step(a, "wait") /\ state' = a /\ UNCHANGED core
OnReady(a) ==
    /\ at[a] = "wait"
    /\ \/ Finish(a, "ok") /\ UNCHANGED <<state, core>>
       \/ Finish(a, "error") /\ state' = "none" /\ core' = core \ {a}

\* stop: a core that does not stop keeps its state file.
Off(a) ==
    /\ at[a] = "off"
    /\ \/ Finish(a, "ok") /\ core' = core \ {state} /\ state' = "none"
       \/ scenario.fails /\ state \in core /\ Finish(a, "error") /\ UNCHANGED <<state, core>>

-----------------------------------------------------------------------------
(* prerm *)

Running(l)   == pkg = l /\ UNCHANGED <<scenario, job, inUse>>
Still        == UNCHANGED <<at, inode, ended, shared, units>>
\* `set -e`: dpkg goes on to what follows a failed prerm.
PrermFails == pkg' = "prerm failed" /\ failed' = TRUE

Dpkg(j) ==
    /\ j \in scenario.jobs
    /\ pkg = "idle" /\ \A a \in Actors : at[a] = "idle" \/ a \in scenario.overlap
    /\ pkg' = "check state" /\ job' = j /\ failed' = FALSE
    /\ UNCHANGED <<scenario, inUse>> /\ Still

\* Mutant of CheckState: the file is looked for where it is not.
CheckStateElsewhere == Running("check state") /\ pkg' = "stop units" /\ UNCHANGED failed /\ Still
CheckState ==
    /\ Running("check state")
    /\ pkg' = IF state = "none" THEN "stop units" ELSE "off"
    /\ UNCHANGED failed /\ Still

\* `tunproxy off`, which a busy daemon refuses, or `tunproxy --direct off`.
PrermOff ==
    /\ Running("off")
    /\ IF socket /\ at["service"] # "idle"
       THEN PrermFails /\ Still
       ELSE /\ pkg' = "await off" /\ ended' = "none"
            /\ Open(PrermActor, "lock off")
            /\ service' = (service \/ socket)
            /\ UNCHANGED <<failed, socket>>
OffEnded ==
    /\ Running("await off") /\ ended # "none"
    /\ IF ended = "ok" THEN pkg' = "stop units" /\ UNCHANGED failed ELSE PrermFails
    /\ Still

\* Mutant of StopUnits: the service has a RuntimeDirectory, which systemd removes with it.
StopUnitsAndDirectory ==
    /\ Running("stop units") /\ pkg' = "replace"
    /\ socket' = FALSE /\ service' = FALSE
    /\ core' = core \ {"service"} /\ lockfile' = 0 /\ state' = "none"
    /\ at' = [at EXCEPT !["service"] = "idle"] /\ inode' = [inode EXCEPT !["service"] = 0]
    /\ UNCHANGED <<failed, ended>>
\* The socket, then the service: systemd ends every process of its control group.
StopUnits ==
    /\ Running("stop units") /\ pkg' = "replace"
    /\ socket' = FALSE /\ service' = FALSE
    /\ core' = core \ {"service"}
    /\ at' = [at EXCEPT !["service"] = "idle"] /\ inode' = [inode EXCEPT !["service"] = 0]
    /\ UNCHANGED <<failed, ended, lockfile, state>>

-----------------------------------------------------------------------------
(* dpkg after prerm, and postinst *)

\* dpkg: `prerm failed-upgrade` is none of the cases of prerm, which succeeds, and the upgrade
\* goes on; a removal is given up.
AfterFailure ==
    /\ Running("prerm failed")
    /\ pkg' = IF job = "upgrade" THEN "replace" ELSE "start socket"
    /\ UNCHANGED failed /\ Still

Replace ==
    /\ Running("replace")
    /\ pkg' = IF job = "upgrade" THEN "configure" ELSE "removed"
    /\ UNCHANGED failed /\ Still

\* A package that was removed is installed again.
Install == pkg = "removed" /\ pkg' = "configure" /\ job' = "install"
           /\ UNCHANGED <<scenario, failed, inUse>> /\ Still

\* postinst configure removes what it takes for transient, whoever uses it.
Configure ==
    /\ pkg = "configure" /\ pkg' = "start socket"
    /\ lockfile' = 0 /\ state' = "none"
    /\ inUse' = (core # {} \/ \E a \in Actors : inode[a] # 0)
    /\ UNCHANGED <<scenario, job, failed, at, inode, ended, core, units>>

StartSocket ==
    /\ Running("start socket") /\ pkg' = "idle" /\ socket' = TRUE
    /\ UNCHANGED <<failed, at, inode, ended, shared, service>>

Next ==
    \/ \E a \in Actors :
          \/ \E kind \in {"lock on", "lock off"} : Request(a, kind)
          \/ Lock(a) \/ OnCheck(a) \/ OnSpawn(a) \/ OnSave(a) \/ OnReady(a) \/ Off(a)
    \/ \E j \in {"upgrade", "remove"} : Dpkg(j)
    \/ CheckState \/ PrermOff \/ OffEnded \/ StopUnits
    \/ AfterFailure \/ Replace \/ Install \/ Configure \/ StartSocket

Spec == Init /\ [][Next]_vars

-----------------------------------------------------------------------------
(* Properties *)

\* postinst:21-25, runtime_state.cpp:215: the scripts run beside direct commands and a daemon that
\* may be at work, stop what they find, refuse, fail, and remove the lock file and the state file.
\* Still no two operations are at work at the same time, under locks of two inodes, and a core
\* that runs while nobody is working on it is the one the state file names, so that the next off
\* finds it.  Only one thing takes this away: that postinst removed the files while a lock was
\* open or a core ran, against its comment that prerm has stopped the proxy; a later postinst that
\* finds nothing in use brings it back.
NoLostCore ==
    ~inUse =>
        /\ \A a, b \in Actors : InWork(a) /\ InWork(b) => a = b
        /\ (\A a \in Actors : ~InWork(a)) => core \subseteq {state}

\* prerm:6-20, postinst:23, README:74: when the files of a package are removed the proxy is off
\* and nobody is at work, although a daemon may have been in the middle of an on whose state file
\* prerm did not see; and so it is when postinst, after an update whose prerm did not fail,
\* removes what it takes for transient.  A direct command beside the scripts may turn the proxy on
\* behind prerm's back, and a core that an earlier postinst made forgotten is not seen.
JobMeansOff ==
    "direct" \notin scenario.overlap /\ ~inUse /\ ~failed =>
        (pkg \in {"removed", "configure"} => core = {} /\ \A a \in Actors : at[a] = "idle")

\* README:127: when the core cannot be stopped the package operation fails and does not go on
\* to remove the state file.
FailedStopAborts == failed => pkg \notin {"replace", "removed", "configure"}
=============================================================================
