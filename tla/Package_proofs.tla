--------------------------- MODULE Package_proofs ---------------------------
(***************************************************************************)
(* Proofs about Package: what the package's scripts keep, for any jobs, in *)
(* any number, beside any commands and with cores that refuse to stop.     *)
(***************************************************************************)
EXTENDS Package, TLAPS

Places == {"idle", "lock on", "lock off", "on", "off", "spawn", "save", "wait"}
\* prerm before it succeeds or fails, and what follows it.
Prerm     == {"check state", "off", "await off", "stop units"}
Replacing == {"replace", "removed", "configure", "start socket"}

\* Every variable holds what the scripts, the commands and systemd can make of it, and the lock
\* file is open for as long as an operation lasts.
TypeOK ==
    /\ scenario \in Scenarios
    /\ pkg \in {"idle", "prerm failed"} \cup Prerm \cup Replacing
    /\ job \in {"none", "install", "upgrade", "remove"} /\ failed \in BOOLEAN /\ inUse \in BOOLEAN
    /\ at \in [Actors -> Places] /\ inode \in [Actors -> Inodes \cup {0}]
    /\ \A a \in Actors : at[a] = "idle" <=> inode[a] = 0
    /\ ended \in {"none", "ok", "error"}
    /\ lockfile \in Inodes \cup {0} /\ state \in Actors \cup {"none"} /\ core \in SUBSET Actors
    /\ socket \in BOOLEAN /\ service \in BOOLEAN

\* Who may be in an operation when.
ActorInv ==
    /\ pkg # "idle" /\ "direct" \notin scenario.overlap => at["direct"] = "idle"
    /\ at["script"] # "idle" => pkg = "await off" /\ ended = "none" /\ ~socket
    /\ ~socket => at["service"] = "idle"
    /\ pkg = "await off" /\ ended = "none" => at[PrermActor] \in {"lock off", "off"}
    /\ pkg = "prerm failed" => failed
    /\ pkg \in Replacing /\ ~failed => ~socket

\* While the last postinst took nothing away, the lock file that operations have open is the one
\* that is there, so that one is at work.
LockInv ==
    ~inUse =>
        /\ \A a \in Actors : inode[a] \in {0, lockfile}
        /\ \A a, b \in Actors : InWork(a) /\ InWork(b) => a = b

\* And at most one core runs, which only its own start may have failed to write down yet.
CoreInv ==
    ~inUse =>
        /\ \A a \in Actors :
              /\ at[a] = "spawn" => core = {}
              /\ at[a] = "save" => core = {a}
              /\ at[a] = "wait" => state = a
        /\ (\A a \in Actors : at[a] # "save") => core \subseteq {state}

\* No direct command runs beside the scripts, and prerm has not failed.
Orderly == ~inUse /\ ~failed /\ "direct" \notin scenario.overlap

\* Then a core that prerm leaves to StopUnits is one of the service, and nothing runs while the
\* files are replaced.
JobInv ==
    Orderly =>
        /\ pkg = "stop units" \/ (pkg = "await off" /\ ended = "ok") => core \subseteq {"service"}
        /\ pkg \in Replacing => core = {}

PackageInv == TypeOK /\ ActorInv /\ LockInv /\ CoreInv /\ JobInv

-----------------------------------------------------------------------------

\* Inodes are numbers other than 0, which is no file.
LEMMA InodeIsNotZero == \A i \in Inodes : i # 0
BY DEF Inodes

\* The types of what an operation and its place are made of.
ActorType ==
    /\ at \in [Actors -> Places] /\ inode \in [Actors -> Inodes \cup {0}]
    /\ \A a \in Actors : at[a] = "idle" <=> inode[a] = 0

-----------------------------------------------------------------------------
(* Operations *)

\* While an actor is at work the others are idle or wait for the lock.
LEMMA OthersWait ==
    ASSUME PackageInv, ~inUse, NEW a \in Actors, InWork(a)
    PROVE  \A b \in Actors \ {a} : at[b] \in {"idle", "lock on", "lock off"}
BY DEF PackageInv, LockInv, InWork

\* To open the lock file is to have the inode that is there afterwards, as everybody has.
LEMMA OpenKeeps ==
    ASSUME PackageInv, NEW a \in Actors, NEW kind \in {"lock on", "lock off"}, Open(a, kind),
           UNCHANGED inUse
    PROVE  /\ ActorType' /\ lockfile' \in Inodes /\ LockInv' /\ CoreInv'
           /\ at[a] = "idle" /\ at' = [at EXCEPT ![a] = kind]
           /\ UNCHANGED <<state, core>>
<1> PICK i \in Inodes :
        /\ IF lockfile # 0 THEN i = lockfile ELSE \A b \in Actors : inode[b] # i
        /\ lockfile' = i /\ inode' = [inode EXCEPT ![a] = i]
    BY DEF Open
<1>0. i # 0 BY InodeIsNotZero
<1>1. /\ at[a] = "idle" /\ at' = [at EXCEPT ![a] = kind] /\ UNCHANGED <<state, core>>
      /\ at \in [Actors -> Places] /\ inode \in [Actors -> Inodes \cup {0}]
      /\ \A b \in Actors : at[b] = "idle" <=> inode[b] = 0
      BY DEF Open, PackageInv, TypeOK
<1>2. ActorType' BY <1>0, <1>1 DEF ActorType, Places
<1>3. LockInv'
  <2> SUFFICES ASSUME ~inUse
               PROVE  /\ \A b \in Actors : inode'[b] \in {0, lockfile'}
                      /\ \A b, c \in Actors : InWork(b)' /\ InWork(c)' => b = c
      BY DEF LockInv
  <2>1. \A b \in Actors : inode'[b] \in {0, i} BY <1>0, <1>1 DEF PackageInv, LockInv
  <2>2. \A b \in Actors : InWork(b)' => InWork(b) BY <1>1 DEF InWork
  <2> QED BY <2>1, <2>2 DEF PackageInv, LockInv
<1>4. CoreInv' BY <1>1 DEF PackageInv, CoreInv
<1> QED BY <1>1, <1>2, <1>3, <1>4

\* An operation that goes on and is not the off that prerm waits for.
LEMMA StepKeeps ==
    ASSUME PackageInv, NEW a \in Actors, at[a] \in {"on", "spawn", "save"},
           NEW l \in {"spawn", "save", "wait"}, Step(a, l)
    PROVE  /\ ActorType' /\ LockInv' /\ ActorInv'
           /\ \A b \in Actors : at'[b] = IF b = a THEN l ELSE at[b]
<1>1. ActorType' BY DEF PackageInv, TypeOK, ActorType, Step, Places
<1>2. \A b \in Actors : at'[b] = IF b = a THEN l ELSE at[b]
      BY DEF PackageInv, TypeOK, Step
<1>3. LockInv' BY <1>2 DEF PackageInv, LockInv, InWork, Step, scripts
<1>4. ActorInv'
      BY <1>2 DEF PackageInv, ActorInv, Step, scripts, units, Actors, PrermActor
<1> QED BY <1>1, <1>2, <1>3, <1>4

\* What a step of the only actor at work has to see to of the cores.
LEMMA StepKeepsCores ==
    ASSUME PackageInv, NEW a \in Actors, at[a] \in {"on", "spawn", "save"},
           NEW l \in {"spawn", "save", "wait"}, Step(a, l),
           ~inUse => /\ l = "spawn" => core' = {} /\ state' = "none"
                     /\ l = "save" => core' = {a}
                     /\ l = "wait" => core' = {a} /\ state' = a
    PROVE  CoreInv'
<1> SUFFICES ASSUME ~inUse
             PROVE  /\ \A b \in Actors :
                          /\ at'[b] = "spawn" => core' = {}
                          /\ at'[b] = "save" => core' = {b}
                          /\ at'[b] = "wait" => state' = b
                    /\ (\A b \in Actors : at'[b] # "save") => core' \subseteq {state'}
    BY DEF CoreInv, Step, scripts
<1>1. at'[a] = l /\ \A b \in Actors \ {a} : at'[b] = at[b]
      BY DEF PackageInv, TypeOK, Step
<1>2. \A b \in Actors \ {a} : at[b] \in {"idle", "lock on", "lock off"}
      BY OthersWait DEF InWork
<1>3. \A b \in Actors \ {a} : at'[b] \notin {"spawn", "save", "wait"} BY <1>1, <1>2
<1>4. (\A b \in Actors : at'[b] # "save") => core' \subseteq {state'}
      BY <1>1
<1> QED BY <1>1, <1>3, <1>4

\* The end of an operation, which may be the off that prerm waits for.
LEMMA FinishKeeps ==
    ASSUME PackageInv, NEW a \in Actors, InWork(a), NEW how \in {"ok", "error"}, Finish(a, how)
    PROVE  /\ ActorType' /\ ended' \in {"none", "ok", "error"} /\ LockInv' /\ ActorInv'
           /\ ~inUse => \A b \in Actors : at'[b] \in {"idle", "lock on", "lock off"}
<1>1. ActorType' BY DEF PackageInv, TypeOK, ActorType, Finish, Places
<1>2. \A b \in Actors : /\ at'[b] = IF b = a THEN "idle" ELSE at[b]
                        /\ inode'[b] = IF b = a THEN 0 ELSE inode[b]
      BY DEF PackageInv, TypeOK, Finish
<1>3. ended' \in {"none", "ok", "error"} BY DEF PackageInv, TypeOK, Finish
<1>4. LockInv' BY <1>2 DEF PackageInv, LockInv, InWork, Finish, scripts
<1>5. ActorInv'
      BY <1>2 DEF PackageInv, ActorInv, Finish, scripts, units, Actors, PrermActor
<1>6. ~inUse => \A b \in Actors : at'[b] \in {"idle", "lock on", "lock off"}
      BY <1>2, OthersWait
<1> QED BY <1>1, <1>3, <1>4, <1>5, <1>6

\* A command that opens the lock file runs beside no script, or in the overlap.
LEMMA RequestKeeps ==
    ASSUME PackageInv, NEW a \in Actors, NEW kind \in {"lock on", "lock off"}, Request(a, kind)
    PROVE  PackageInv'
<1>1. /\ UNCHANGED <<scenario, pkg, job, failed, inUse>> /\ UNCHANGED <<ended, socket>>
      /\ service' \in BOOLEAN
      /\ a # "script" /\ (pkg = "idle" \/ a \in scenario.overlap)
      /\ a = "service" => socket
      BY DEF Request, PackageInv, TypeOK, scripts
<1>2. /\ ActorType' /\ lockfile' \in Inodes /\ LockInv' /\ CoreInv'
      /\ at[a] = "idle" /\ at' = [at EXCEPT ![a] = kind]
      /\ UNCHANGED <<state, core>>
      BY <1>1, OpenKeeps DEF Request
<1>3. TypeOK' BY <1>1, <1>2 DEF PackageInv, TypeOK, ActorType
<1>4. ActorInv'
  <2>1. \A b \in Actors : at'[b] = IF b = a THEN kind ELSE at[b]
        BY <1>2 DEF PackageInv, TypeOK
  <2> QED BY <1>1, <1>2, <2>1 DEF PackageInv, ActorInv, Actors, PrermActor
<1>5. JobInv' BY <1>1, <1>2 DEF PackageInv, JobInv, Orderly
<1> QED BY <1>2, <1>3, <1>4, <1>5 DEF PackageInv

\* The lock is given to one holder of the inode that everybody has.
LEMMA LockKeeps ==
    ASSUME PackageInv, NEW a \in Actors, Lock(a)
    PROVE  PackageInv'
<1>1. /\ at[a] \in {"lock on", "lock off"}
      /\ \A b \in Actors \ {a} : ~(InWork(b) /\ inode[b] = inode[a])
      /\ at' = [at EXCEPT ![a] = IF at[a] = "lock on" THEN "on" ELSE "off"]
      /\ UNCHANGED <<scenario, pkg, job, failed, inUse>>
      /\ UNCHANGED <<inode, ended, socket, service>>
      /\ UNCHANGED <<lockfile, state, core>>
      BY DEF Lock, scripts, shared, units
<1>2. \A b \in Actors :
         at'[b] = IF b # a THEN at[b] ELSE IF at[a] = "lock on" THEN "on" ELSE "off"
      BY <1>1 DEF PackageInv, TypeOK
<1>3. \A b \in Actors :
         at'[b] = at[b] \/ (at[b] \in {"lock on", "lock off"} /\ at'[b] \in {"on", "off"})
      BY <1>1, <1>2
<1>4. TypeOK'
  <2>1. at' \in [Actors -> Places] BY <1>1 DEF PackageInv, TypeOK, Places
  <2>2. \A b \in Actors : at'[b] = "idle" <=> at[b] = "idle" BY <1>3
  <2> QED BY <1>1, <2>1, <2>2 DEF PackageInv, TypeOK
<1>5. LockInv'
  <2> SUFFICES ASSUME ~inUse
               PROVE  /\ \A b \in Actors : inode[b] \in {0, lockfile}
                      /\ \A b, c \in Actors : InWork(b)' /\ InWork(c)' => b = c
      BY <1>1 DEF LockInv
  <2>1. \A b \in Actors : inode[b] \in {0, lockfile} BY DEF PackageInv, LockInv
  <2>2. inode[a] # 0 /\ \A b \in Actors \ {a} : InWork(b) => inode[b] # 0
        BY <1>1 DEF PackageInv, TypeOK, InWork
  <2>3. \A b \in Actors \ {a} : ~InWork(b) BY <1>1, <2>1, <2>2
  <2>4. \A b \in Actors \ {a} : ~InWork(b)' BY <1>2, <2>3 DEF InWork
  <2> QED BY <2>1, <2>4
<1>6. CoreInv' BY <1>1, <1>3 DEF PackageInv, CoreInv
<1>7. ActorInv' BY <1>1, <1>2 DEF PackageInv, ActorInv, Actors, PrermActor
<1>8. JobInv' BY <1>1 DEF PackageInv, JobInv, Orderly
<1> QED BY <1>4, <1>5, <1>6, <1>7, <1>8 DEF PackageInv

\* In an orderly job only the service works beside the scripts, and nobody while files are
\* replaced.
LEMMA BesideScripts ==
    ASSUME PackageInv, Orderly, NEW a \in Actors, InWork(a),
           a # PrermActor \/ pkg # "await off" \/ ended # "none"
    PROVE  /\ pkg # "idle" => a = "service" /\ socket
           /\ pkg \notin Replacing
<1>1. at[a] # "idle" BY DEF InWork
<1>2. a = "script" => a = PrermActor /\ pkg = "await off" /\ ended = "none"
      BY <1>1 DEF PackageInv, ActorInv, PrermActor
<1>3. pkg # "idle" => a # "direct" BY <1>1 DEF PackageInv, ActorInv, Orderly
<1>4. a = "service" => socket BY <1>1 DEF PackageInv, ActorInv
<1>5. pkg \in Replacing => ~socket /\ pkg # "idle"
      BY DEF PackageInv, ActorInv, Replacing, Orderly
<1> QED BY <1>2, <1>3, <1>4, <1>5 DEF Actors

\* A core that is not the one of the state file does not run.
LEMMA OnCheckKeeps ==
    ASSUME PackageInv, NEW a \in Actors, OnCheck(a)
    PROVE  PackageInv'
<1>1. at[a] = "on" /\ InWork(a) BY DEF OnCheck, InWork
<1>2. ~inUse => core \subseteq {state} BY <1>1, OthersWait DEF PackageInv, CoreInv
<1>3. a = PrermActor /\ pkg = "await off" => ended # "none"
      BY <1>1 DEF PackageInv, ActorInv
<1>4. CASE state \in core
  <2>1. Finish(a, "ok") /\ UNCHANGED <<state, core>> BY <1>4 DEF OnCheck
  <2>2. /\ ActorType' /\ ended' \in {"none", "ok", "error"} /\ LockInv' /\ ActorInv'
        /\ ~inUse => \A b \in Actors : at'[b] \in {"idle", "lock on", "lock off"}
        BY <1>1, <2>1, FinishKeeps
  <2>3. TypeOK'
        BY <2>1, <2>2 DEF PackageInv, TypeOK, ActorType, Finish, scripts, units
  <2>4. CoreInv' BY <1>2, <2>1, <2>2 DEF CoreInv, Finish, scripts
  <2>5. JobInv' BY <1>3, <2>1 DEF PackageInv, JobInv, Orderly, Finish, scripts
  <2> QED BY <2>2, <2>3, <2>4, <2>5 DEF PackageInv
<1>5. CASE state \notin core
  <2>1. Step(a, "spawn") /\ state' = "none" /\ UNCHANGED core BY <1>5 DEF OnCheck
  <2>2. /\ ActorType' /\ LockInv' /\ ActorInv'
        /\ \A b \in Actors : at'[b] = IF b = a THEN "spawn" ELSE at[b]
        BY <1>1, <2>1, StepKeeps
  <2>3. TypeOK' BY <2>1, <2>2 DEF PackageInv, TypeOK, ActorType, Step, scripts, units
  <2>4. CoreInv'
    <3>1. ~inUse => core' = {} BY <1>2, <1>5, <2>1
    <3> QED BY <1>1, <2>1, <3>1, StepKeepsCores
  <2>5. JobInv' BY <2>1 DEF PackageInv, JobInv, Orderly, Step, scripts
  <2> QED BY <2>2, <2>3, <2>4, <2>5 DEF PackageInv
<1> QED BY <1>4, <1>5

\* No core is started beside one that runs.
LEMMA OnSpawnKeeps ==
    ASSUME PackageInv, NEW a \in Actors, OnSpawn(a)
    PROVE  PackageInv'
<1>1. at[a] = "spawn" /\ InWork(a) BY DEF OnSpawn, InWork
<1>2. ~inUse => core = {} BY <1>1 DEF PackageInv, CoreInv
<1>3. a = PrermActor /\ pkg = "await off" => ended # "none"
      BY <1>1 DEF PackageInv, ActorInv
<1>4. CASE core # {}
  <2>1. Finish(a, "error") /\ UNCHANGED <<state, core>> BY <1>4 DEF OnSpawn
  <2>2. /\ ActorType' /\ ended' \in {"none", "ok", "error"} /\ LockInv' /\ ActorInv'
        BY <1>1, <2>1, FinishKeeps
  <2>3. TypeOK'
        BY <2>1, <2>2 DEF PackageInv, TypeOK, ActorType, Finish, scripts, units
  <2>4. CoreInv' /\ JobInv'
        BY <1>2, <1>4, <2>1 DEF CoreInv, JobInv, Orderly, Finish, scripts
  <2> QED BY <2>2, <2>3, <2>4 DEF PackageInv
<1>5. CASE core = {}
  <2>1. Step(a, "save") /\ core' = {a} /\ UNCHANGED state BY <1>5 DEF OnSpawn
  <2>2. /\ ActorType' /\ LockInv' /\ ActorInv'
        /\ \A b \in Actors : at'[b] = IF b = a THEN "save" ELSE at[b]
        BY <1>1, <2>1, StepKeeps
  <2>3. TypeOK' BY <2>1, <2>2 DEF PackageInv, TypeOK, ActorType, Step, scripts, units
  <2>4. CoreInv' BY <1>1, <2>1, StepKeepsCores
  <2>5. JobInv'
    <3>1. Orderly => (pkg # "idle" => a = "service" /\ socket) /\ pkg \notin Replacing
          BY <1>1, <1>3, BesideScripts
    <3> QED BY <2>1, <3>1 DEF JobInv, Orderly, Step, scripts
  <2> QED BY <2>2, <2>3, <2>4, <2>5 DEF PackageInv
<1> QED BY <1>4, <1>5

\* The state file gets the name of the core that runs.
LEMMA OnSaveKeeps ==
    ASSUME PackageInv, NEW a \in Actors, OnSave(a)
    PROVE  PackageInv'
<1>1. at[a] = "save" /\ InWork(a) /\ Step(a, "wait") /\ state' = a /\ UNCHANGED core
      BY DEF OnSave, InWork
<1>2. ~inUse => core = {a} BY <1>1 DEF PackageInv, CoreInv
<1>3. /\ ActorType' /\ LockInv' /\ ActorInv'
      /\ \A b \in Actors : at'[b] = IF b = a THEN "wait" ELSE at[b]
      BY <1>1, StepKeeps
<1>4. TypeOK' BY <1>1, <1>3 DEF PackageInv, TypeOK, ActorType, Step, scripts, units
<1>5. CoreInv' BY <1>1, <1>2, StepKeepsCores
<1>6. JobInv' BY <1>1 DEF PackageInv, JobInv, Orderly, Step, scripts
<1> QED BY <1>3, <1>4, <1>5, <1>6 DEF PackageInv

\* A core that is given up is gone with its state file.
LEMMA OnReadyKeeps ==
    ASSUME PackageInv, NEW a \in Actors, OnReady(a)
    PROVE  PackageInv'
<1>1. at[a] = "wait" /\ InWork(a) BY DEF OnReady, InWork
<1>2. ~inUse => state = a /\ core \subseteq {a}
      BY <1>1, OthersWait DEF PackageInv, CoreInv
<1>3. a = PrermActor /\ pkg = "await off" => ended # "none"
      BY <1>1 DEF PackageInv, ActorInv
<1>4. PICK how \in {"ok", "error"} : Finish(a, how) BY DEF OnReady
<1>5. /\ ActorType' /\ ended' \in {"none", "ok", "error"} /\ LockInv' /\ ActorInv'
      /\ ~inUse => \A b \in Actors : at'[b] \in {"idle", "lock on", "lock off"}
      BY <1>1, <1>4, FinishKeeps
<1>6. UNCHANGED <<state, core>> \/ (state' = "none" /\ core' = core \ {a}) BY DEF OnReady
<1>7. TypeOK' BY <1>4, <1>5, <1>6 DEF PackageInv, TypeOK, ActorType, Finish, scripts, units
<1>8. CoreInv' BY <1>2, <1>4, <1>5, <1>6 DEF CoreInv, Finish, scripts
<1>9. JobInv' BY <1>3, <1>4, <1>6 DEF PackageInv, JobInv, Orderly, Finish, scripts
<1> QED BY <1>5, <1>7, <1>8, <1>9 DEF PackageInv

\* An off that succeeds leaves no core, since the one that runs is the one of the state file.
LEMMA OffKeeps ==
    ASSUME PackageInv, NEW a \in Actors, Off(a)
    PROVE  PackageInv'
<1>1. at[a] = "off" /\ InWork(a) BY DEF Off, InWork
<1>2. ~inUse => core \subseteq {state} BY <1>1, OthersWait DEF PackageInv, CoreInv
<1>3. PICK how \in {"ok", "error"} :
         /\ Finish(a, how)
         /\ IF how = "ok" THEN state' = "none" /\ core' = core \ {state}
            ELSE UNCHANGED <<state, core>>
      BY DEF Off
<1>4. /\ ActorType' /\ ended' \in {"none", "ok", "error"} /\ LockInv' /\ ActorInv'
      /\ ~inUse => \A b \in Actors : at'[b] \in {"idle", "lock on", "lock off"}
      BY <1>1, <1>3, FinishKeeps
<1>5. TypeOK' BY <1>3, <1>4 DEF PackageInv, TypeOK, ActorType, Finish, scripts, units
<1>6. CoreInv' BY <1>2, <1>3, <1>4 DEF CoreInv, Finish, scripts
<1>7. JobInv'
  <2> SUFFICES ASSUME Orderly, UNCHANGED pkg
               PROVE  /\ pkg = "stop units" \/ (pkg = "await off" /\ ended' = "ok") =>
                            core' \subseteq {"service"}
                      /\ pkg \in Replacing => core' = {}
      BY <1>3 DEF JobInv, Orderly, Finish, scripts
  <2>1. how = "ok" => core' = {} BY <1>2, <1>3 DEF Orderly
  <2>2. how # "ok" => core' = core /\ (ended' = "ok" => ended = "ok")
        BY <1>3 DEF Finish
  <2> QED BY <2>1, <2>2 DEF PackageInv, JobInv
<1> QED BY <1>4, <1>5, <1>6, <1>7 DEF PackageInv

-----------------------------------------------------------------------------
(* The scripts *)

\* A job begins with every command done but those of its overlap.
LEMMA DpkgKeeps ==
    ASSUME PackageInv, NEW j \in {"upgrade", "remove"}, Dpkg(j)
    PROVE  PackageInv'
<1>1. /\ pkg = "idle" /\ pkg' = "check state" /\ job' = j
      /\ failed' = FALSE /\ \A a \in Actors : at[a] = "idle" \/ a \in scenario.overlap
      /\ UNCHANGED <<scenario, inUse>> /\ UNCHANGED <<at, inode, ended>>
      /\ UNCHANGED <<lockfile, state, core>> /\ UNCHANGED <<socket, service>>
      BY DEF Dpkg, Still, shared, units
<1>2. TypeOK' BY <1>1 DEF PackageInv, TypeOK, Prerm
<1>3. LockInv' /\ CoreInv' BY <1>1 DEF PackageInv, LockInv, CoreInv, InWork
<1>4. ActorInv' BY <1>1 DEF PackageInv, ActorInv, Actors, Replacing
<1>5. JobInv' BY <1>1 DEF JobInv, Replacing
<1> QED BY <1>2, <1>3, <1>4, <1>5 DEF PackageInv

\* A step of the scripts that no operation sees.
LEMMA StillKeeps ==
    ASSUME Still, PackageInv, UNCHANGED inUse
    PROVE  /\ LockInv' /\ CoreInv'
           /\ UNCHANGED <<at, inode, ended>> /\ UNCHANGED <<lockfile, state, core>>
           /\ UNCHANGED <<socket, service>>
<1>1. /\ UNCHANGED <<at, inode, ended>> /\ UNCHANGED <<lockfile, state, core>>
      /\ UNCHANGED <<socket, service>>
      BY DEF Still, shared, units
<1> QED BY <1>1 DEF PackageInv, LockInv, CoreInv, InWork

\* Without a state file the core that runs, if any, is one that the service has just started.
LEMMA CheckStateKeeps ==
    ASSUME PackageInv, CheckState
    PROVE  PackageInv'
<1>1. /\ pkg = "check state" /\ pkg' = IF state = "none" THEN "stop units" ELSE "off"
      /\ UNCHANGED <<scenario, job, failed, inUse>> /\ Still
      BY DEF CheckState, Running
<1>2. /\ LockInv' /\ CoreInv'
      /\ UNCHANGED <<at, inode, ended>> /\ UNCHANGED <<lockfile, state, core>>
      /\ UNCHANGED <<socket, service>>
      BY <1>1, StillKeeps
<1>3. TypeOK' BY <1>1, <1>2 DEF PackageInv, TypeOK, Prerm
<1>4. ActorInv' BY <1>1, <1>2 DEF PackageInv, ActorInv, Replacing
<1>5. Orderly /\ state = "none" => core \subseteq {"service"}
  <2> SUFFICES ASSUME Orderly, state = "none", core # {} PROVE core \subseteq {"service"} OBVIOUS
  <2>1. "none" \notin core BY DEF PackageInv, TypeOK, Actors
  <2>2. PICK a \in Actors : at[a] = "save" BY <2>1 DEF PackageInv, CoreInv, Orderly
  <2>3. core = {a} BY <2>2 DEF PackageInv, CoreInv, Orderly
  <2>4. a = "service" BY <1>1, <2>2 DEF PackageInv, ActorInv, Actors, Orderly
  <2> QED BY <2>3, <2>4
<1>6. JobInv' BY <1>1, <1>2, <1>5 DEF JobInv, Orderly, Replacing
<1> QED BY <1>2, <1>3, <1>4, <1>6 DEF PackageInv

\* After a prerm that fails nothing is promised of the job.
LEMMA PrermFailsKeeps ==
    ASSUME PackageInv, PrermFails, Still, at["script"] = "idle", pkg # "idle",
           UNCHANGED <<scenario, job, inUse>>
    PROVE  PackageInv'
<1>1. /\ LockInv' /\ CoreInv'
      /\ UNCHANGED <<at, inode, ended>> /\ UNCHANGED <<lockfile, state, core>>
      /\ UNCHANGED <<socket, service>>
      BY StillKeeps
<1>2. pkg' = "prerm failed" /\ failed' = TRUE BY DEF PrermFails
<1>3. TypeOK' BY <1>1, <1>2 DEF PackageInv, TypeOK
<1>4. ActorInv' BY <1>1, <1>2 DEF PackageInv, ActorInv, Replacing
<1>5. JobInv' BY <1>2 DEF JobInv, Orderly
<1> QED BY <1>1, <1>3, <1>4, <1>5 DEF PackageInv

\* The off of prerm, of which only a busy daemon can say no.
LEMMA PrermOffKeeps ==
    ASSUME PackageInv, PrermOff
    PROVE  PackageInv'
<1>1. pkg = "off" /\ UNCHANGED <<scenario, job, inUse>> /\ at["script"] = "idle"
      BY DEF PrermOff, Running, PackageInv, ActorInv
<1>2. CASE socket /\ at["service"] # "idle"
  <2>1. PrermFails /\ Still BY <1>2 DEF PrermOff
  <2> QED BY <1>1, <2>1, PrermFailsKeeps
<1>3. CASE ~(socket /\ at["service"] # "idle")
  <2>1. /\ pkg' = "await off" /\ ended' = "none" /\ Open(PrermActor, "lock off")
        /\ service' = (service \/ socket) /\ UNCHANGED <<failed, socket>>
        BY <1>3 DEF PrermOff
  <2>2. PrermActor \in Actors /\ PrermActor' = PrermActor BY <2>1 DEF PrermActor, Actors
  <2>3. /\ ActorType' /\ lockfile' \in Inodes /\ LockInv' /\ CoreInv'
        /\ at' = [at EXCEPT ![PrermActor] = "lock off"]
        /\ UNCHANGED <<state, core>>
        BY <1>1, <2>1, <2>2, OpenKeeps
  <2>4. service' \in BOOLEAN BY <2>1 DEF PackageInv, TypeOK
  <2>5. TypeOK' BY <1>1, <2>1, <2>3, <2>4 DEF PackageInv, TypeOK, ActorType, Prerm
  <2>6. \A b \in Actors : at'[b] = IF b = PrermActor THEN "lock off" ELSE at[b]
        BY <2>3 DEF PackageInv, TypeOK
  <2>7. ActorInv'
    <3>1. at["service"] = "idle" BY <1>3 DEF PackageInv, ActorInv
    <3>2. at'["direct"] = at["direct"] BY <2>6 DEF PrermActor, Actors
    <3>3. socket => at'["script"] = "idle" BY <1>1, <2>6 DEF PrermActor, Actors
    <3>4. ~socket => at'["service"] = "idle" BY <2>6, <3>1 DEF PrermActor, Actors
    <3>5. at'[PrermActor] = "lock off" BY <2>2, <2>6
    <3> QED BY <1>1, <2>1, <2>2, <3>2, <3>3, <3>4, <3>5
            DEF PackageInv, ActorInv, Replacing
  <2>8. JobInv' BY <1>1, <2>1 DEF JobInv, Orderly, Replacing
  <2> QED BY <2>3, <2>5, <2>7, <2>8 DEF PackageInv
<1> QED BY <1>2, <1>3

\* prerm goes on over an off that succeeded, and fails with one that did not.
LEMMA OffEndedKeeps ==
    ASSUME PackageInv, OffEnded
    PROVE  PackageInv'
<1>1. /\ pkg = "await off" /\ UNCHANGED <<scenario, job, inUse>> /\ ended # "none" /\ Still
      /\ at["script"] = "idle"
      BY DEF OffEnded, Running, PackageInv, ActorInv
<1>2. CASE ended = "ok"
  <2>1. pkg' = "stop units" /\ UNCHANGED failed BY <1>2 DEF OffEnded
  <2>2. /\ LockInv' /\ CoreInv'
        /\ UNCHANGED <<at, inode, ended>> /\ UNCHANGED <<lockfile, state, core>>
        /\ UNCHANGED <<socket, service>>
        BY <1>1, StillKeeps
  <2>3. TypeOK' BY <1>1, <2>1, <2>2 DEF PackageInv, TypeOK, Prerm
  <2>4. ActorInv' BY <1>1, <2>1, <2>2 DEF PackageInv, ActorInv, Replacing
  <2>5. JobInv' BY <1>1, <1>2, <2>1, <2>2 DEF PackageInv, JobInv, Orderly, Replacing
  <2> QED BY <2>2, <2>3, <2>4, <2>5 DEF PackageInv
<1>3. CASE ended # "ok"
  <2>1. PrermFails BY <1>3 DEF OffEnded
  <2> QED BY <1>1, <2>1, PrermFailsKeeps
<1> QED BY <1>2, <1>3

\* Whatever the service was doing ends, with the core it has started; a direct command goes on.
LEMMA StopUnitsKeeps ==
    ASSUME PackageInv, StopUnits
    PROVE  PackageInv'
<1>1. /\ pkg = "stop units" /\ pkg' = "replace" /\ socket' = FALSE /\ service' = FALSE
      /\ core' = core \ {"service"}
      /\ at' = [at EXCEPT !["service"] = "idle"] /\ inode' = [inode EXCEPT !["service"] = 0]
      /\ UNCHANGED <<scenario, job, failed, inUse>> /\ UNCHANGED <<ended, lockfile, state>>
      BY DEF StopUnits, Running
<1>2. at["script"] = "idle" BY <1>1 DEF PackageInv, ActorInv
<1>3. \A b \in Actors : /\ at'[b] = IF b = "service" THEN "idle" ELSE at[b]
                        /\ inode'[b] = IF b = "service" THEN 0 ELSE inode[b]
      BY <1>1 DEF PackageInv, TypeOK, Actors
<1>4. TypeOK'
  <2>1. ActorType' BY <1>1, <1>3 DEF PackageInv, TypeOK, ActorType, Places
  <2> QED BY <1>1, <2>1 DEF PackageInv, TypeOK, ActorType, Replacing
<1>5. LockInv' BY <1>1, <1>3 DEF PackageInv, LockInv, InWork
<1>6. CoreInv'
  <2> SUFFICES ASSUME ~inUse
               PROVE  /\ \A b \in Actors : /\ at'[b] = "spawn" => core' = {}
                                           /\ at'[b] = "save" => core' = {b}
                                           /\ at'[b] = "wait" => state' = b
                      /\ (\A b \in Actors : at'[b] # "save") => core' \subseteq {state'}
      BY <1>1 DEF CoreInv
  <2>1. ASSUME NEW b \in Actors
        PROVE  /\ at'[b] = "spawn" => core' = {}
               /\ at'[b] = "save" => core' = {b}
               /\ at'[b] = "wait" => state' = b
    <3>1. at'[b] # "idle" => b # "service" /\ at[b] = at'[b] BY <1>3
    <3>2. /\ at[b] = "spawn" => core = {}
          /\ at[b] = "save" => core = {b}
          /\ at[b] = "wait" => state = b
          BY DEF PackageInv, CoreInv
    <3> QED BY <1>1, <3>1, <3>2
  <2>2. ASSUME \A b \in Actors : at'[b] # "save" PROVE core' \subseteq {state'}
    <3>1. CASE at["service"] = "save" BY <1>1, <3>1 DEF PackageInv, CoreInv, Actors
    <3>2. CASE at["service"] # "save"
      <4>1. \A b \in Actors : at[b] # "save" BY <1>3, <2>2, <3>2
      <4> QED BY <1>1, <4>1 DEF PackageInv, CoreInv
    <3> QED BY <3>1, <3>2
  <2> QED BY <2>1, <2>2
<1>7. ActorInv'
  <2>1. at'["script"] = "idle" /\ at'["service"] = "idle" /\ at'["direct"] = at["direct"]
        BY <1>2, <1>3 DEF Actors
  <2> QED BY <1>1, <2>1 DEF PackageInv, ActorInv
<1>8. JobInv' BY <1>1 DEF PackageInv, JobInv, Orderly
<1> QED BY <1>4, <1>5, <1>6, <1>7, <1>8 DEF PackageInv

\* What dpkg does after a prerm that failed, and when it replaces files.
LEMMA DpkgStepKeeps ==
    ASSUME PackageInv, AfterFailure \/ Replace \/ Install
    PROVE  PackageInv'
<1>1. Still /\ UNCHANGED <<scenario, failed, inUse>>
      BY DEF AfterFailure, Replace, Install, Running
<1>2. /\ LockInv' /\ CoreInv'
      /\ UNCHANGED <<at, inode, ended>> /\ UNCHANGED <<lockfile, state, core>>
      /\ UNCHANGED <<socket, service>>
      BY <1>1, StillKeeps
<1>3. /\ pkg \in {"prerm failed", "replace", "removed"} /\ pkg' \in Replacing
      /\ job' \in {job, "install"}
      BY DEF AfterFailure, Replace, Install, Running, Replacing
<1>4. pkg = "prerm failed" => failed BY DEF PackageInv, ActorInv
<1>5. TypeOK' BY <1>1, <1>2, <1>3 DEF PackageInv, TypeOK
<1>6. ActorInv' BY <1>1, <1>2, <1>3, <1>4 DEF PackageInv, ActorInv, Replacing
<1>7. JobInv' BY <1>1, <1>2, <1>3, <1>4 DEF PackageInv, JobInv, Orderly, Replacing
<1> QED BY <1>2, <1>5, <1>6, <1>7 DEF PackageInv

\* postinst removes the lock and state files: where somebody has them or a core runs, that is
\* written down in inUse; where nobody does, what was promised before is promised again.
LEMMA ConfigureKeeps ==
    ASSUME PackageInv, Configure
    PROVE  PackageInv'
<1>1. /\ pkg = "configure" /\ pkg' = "start socket" /\ lockfile' = 0 /\ state' = "none"
      /\ inUse' = (core # {} \/ \E a \in Actors : inode[a] # 0)
      /\ UNCHANGED <<scenario, job, failed>> /\ UNCHANGED <<at, inode, ended, core>>
      /\ UNCHANGED <<socket, service>>
      BY DEF Configure, units
<1>2. TypeOK'
  <2>1. inUse' \in BOOLEAN BY <1>1
  <2> QED BY <1>1, <2>1 DEF PackageInv, TypeOK, Replacing
<1>3. ActorInv' BY <1>1 DEF PackageInv, ActorInv, Replacing
<1>4. ~inUse' => core = {} /\ \A a \in Actors : at[a] = "idle" /\ inode[a] = 0
      BY <1>1 DEF PackageInv, TypeOK
<1>5. LockInv' BY <1>1, <1>4 DEF LockInv, InWork
<1>6. CoreInv' BY <1>1, <1>4 DEF CoreInv
<1>7. JobInv' BY <1>1, <1>4 DEF JobInv, Orderly
<1> QED BY <1>2, <1>3, <1>5, <1>6, <1>7 DEF PackageInv

LEMMA StartSocketKeeps ==
    ASSUME PackageInv, StartSocket
    PROVE  PackageInv'
<1>1. /\ pkg = "start socket" /\ pkg' = "idle" /\ socket' = TRUE
      /\ UNCHANGED <<scenario, job, failed, inUse>> /\ UNCHANGED <<at, inode, ended, service>>
      /\ UNCHANGED <<lockfile, state, core>>
      BY DEF StartSocket, Running, shared
<1>2. TypeOK' BY <1>1 DEF PackageInv, TypeOK
<1>3. LockInv' /\ CoreInv' BY <1>1 DEF PackageInv, LockInv, CoreInv, InWork
<1>4. ActorInv' BY <1>1 DEF PackageInv, ActorInv, Replacing
<1>5. JobInv' BY <1>1 DEF JobInv, Orderly, Replacing
<1> QED BY <1>2, <1>3, <1>4, <1>5 DEF PackageInv

-----------------------------------------------------------------------------
(* Every behaviour *)

LEMMA InitHolds == Init => PackageInv
<1> SUFFICES ASSUME Init PROVE PackageInv OBVIOUS
<1>1. TypeOK BY DEF Init, TypeOK, Places
<1>2. LockInv BY DEF Init, LockInv, InWork
<1>3. CoreInv /\ ActorInv BY DEF Init, CoreInv, ActorInv, Actors, Replacing
<1>4. JobInv BY DEF Init, JobInv, Replacing
<1> QED BY <1>1, <1>2, <1>3, <1>4 DEF PackageInv

LEMMA NextKeeps ==
    ASSUME PackageInv, [Next]_vars
    PROVE  PackageInv'
<1>1. ASSUME NEW a \in Actors, NEW kind \in {"lock on", "lock off"}, Request(a, kind)
      PROVE  PackageInv'
      BY <1>1, RequestKeeps
<1>2. ASSUME NEW a \in Actors,
             Lock(a) \/ OnCheck(a) \/ OnSpawn(a) \/ OnSave(a) \/ OnReady(a) \/ Off(a)
      PROVE  PackageInv'
      BY <1>2, LockKeeps, OnCheckKeeps, OnSpawnKeeps, OnSaveKeeps, OnReadyKeeps, OffKeeps
<1>3. ASSUME NEW j \in {"upgrade", "remove"}, Dpkg(j) PROVE PackageInv'
      BY <1>3, DpkgKeeps
<1>4. ASSUME CheckState \/ PrermOff \/ OffEnded \/ StopUnits PROVE PackageInv'
      BY <1>4, CheckStateKeeps, PrermOffKeeps, OffEndedKeeps, StopUnitsKeeps
<1>5. ASSUME AfterFailure \/ Replace \/ Install \/ Configure \/ StartSocket PROVE PackageInv'
      BY <1>5, DpkgStepKeeps, ConfigureKeeps, StartSocketKeeps
<1>6. ASSUME UNCHANGED vars PROVE PackageInv'
  <2>1. /\ UNCHANGED <<scenario, pkg, job, failed, inUse>> /\ UNCHANGED <<at, inode, ended>>
        /\ UNCHANGED <<lockfile, state, core>> /\ UNCHANGED <<socket, service>>
        BY <1>6 DEF vars, scripts, shared, units
  <2>2. TypeOK' BY <2>1 DEF PackageInv, TypeOK
  <2>3. LockInv' /\ CoreInv' BY <2>1 DEF PackageInv, LockInv, CoreInv, InWork
  <2>4. ActorInv' BY <2>1 DEF PackageInv, ActorInv, PrermActor
  <2>5. JobInv' BY <2>1 DEF PackageInv, JobInv, Orderly
  <2> QED BY <2>2, <2>3, <2>4, <2>5 DEF PackageInv
<1> QED BY <1>1, <1>2, <1>3, <1>4, <1>5, <1>6 DEF Next

\* For any jobs and any commands beside them: what the scripts and the commands keep of each
\* other's files and cores.
THEOREM PackageCorrect == Spec => []PackageInv
<1>1. Init => PackageInv BY InitHolds
<1>2. PackageInv /\ [Next]_vars => PackageInv' BY NextKeeps
<1> QED BY <1>1, <1>2, PTL DEF Spec

\* Nothing but postinst's removal of files in use (postinst:24) puts two operations to work at
\* once, or leaves a core to run without the state file that off would find it by.
THEOREM CoreIsNotLost == Spec => []NoLostCore
<1>1. PackageInv => NoLostCore
  <2> SUFFICES ASSUME PackageInv, ~inUse PROVE NoLostCore BY DEF NoLostCore
  <2>1. (\A a \in Actors : ~InWork(a)) => core \subseteq {state}
        BY DEF PackageInv, CoreInv, InWork
  <2> QED BY <2>1 DEF PackageInv, LockInv, NoLostCore
<1> QED BY <1>1, PackageCorrect, PTL

\* Without a direct command beside the scripts and with a prerm that did not fail, the proxy is
\* off and nobody at work when the files of the package are gone (prerm:6-20), and when postinst
\* removes the lock and the state file (postinst:24).
THEOREM JobEndsOff == Spec => []JobMeansOff
<1>1. PackageInv => JobMeansOff
  <2> SUFFICES ASSUME PackageInv, Orderly, pkg \in {"removed", "configure"}
               PROVE  core = {} /\ \A a \in Actors : at[a] = "idle"
      BY DEF JobMeansOff, Orderly
  <2>1. core = {} BY DEF PackageInv, JobInv, Replacing
  <2>2. at["direct"] = "idle" /\ at["script"] = "idle" /\ at["service"] = "idle"
        BY DEF PackageInv, ActorInv, Replacing, Orderly
  <2> QED BY <2>1, <2>2 DEF Actors
<1> QED BY <1>1, PackageCorrect, PTL
=============================================================================
