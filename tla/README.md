# TunProxy: a verification project

TLA+ models of TunProxy, the program under `src/`: a daemon (`tunproxyd`) and a
command line client (`tunproxy`) that start, watch and stop a managed `sing-box`
core which carries the machine's traffic through a TUN interface. The modules are
model-checked with TLC. Every safety property that a passing run checks, the inductive
invariants these properties follow from and two refinements are proved with TLAPS, for
all values of the constants that satisfy stated assumptions; liveness is model-checked.
`PROJECT.json` lists the runs, the mutants that show each property can fail,
the map from definitions to source lines, the hazards and the theorems.

## Inventory

Paths are relative to the repository (`src/` of this project).

| Part | Code | State | Operations | Hard behaviour |
|---|---|---|---|---|
| ProxyManager | `src/proxy_manager.cpp` | the core process, `/run/tunproxy/state`, `sing-box.json`, the TUN | `start`, `stop`, `status`, `terminateCore`, `waitForTun`, `awaitTunRemoval`, `spawnCore` | crashes of host and core between any two steps, pid reuse, zombies, a TUN that outlives its core, every error path with a live child, a status without a lock |
| RuntimeStateStore | `src/runtime_state.cpp` | the state file | `load`, `save`, `clear`, `isManagedProcessRunning` | the file outlives processes; inspection failures read as "not running" |
| FileLock | `src/runtime_state.cpp` | flock on `/run/tunproxy/lock` | acquire (try, report, wait), release on exit | the lock file may be unlinked by the package scripts |
| CommandController | `src/controller.cpp` | none | `execute`: queries without, changes with the lock | queries race changes |
| Daemon | `src/daemon_main.cpp` | `operation` mutex, `active_name`, `active_clients`, `stop_requested` | accept loop, one detached thread per client, drain, clean-up | refusal while busy, lost wake-ups at shutdown, clients that stall or vanish, direct commands beside the daemon |
| IPC | `src/ipc.cpp` | the bytes under way on a connection | send and receive a frame | a frame cut short by a timeout or a dead peer, length limits, logs longer than a frame |
| Client | `src/main.cpp` | what a dialogue has shown | remote or `--direct` execution, the setting dialogue | a dialogue writes back what it read long ago |
| CoreManager | `src/core_manager.cpp` | installed core, archive, staging directory | `ensureCore`, `repairCore` | crash between two renames, retries of downloads, stale artifacts, helpers that outlive a crash, pid reuse |
| Filesystem | `src/filesystem.cpp` | files and directories | `readTextFile`, `writeFileAtomic`, `sha256File`, `ensureDirectory` | crash or loss of power between the steps of an atomic write, readers without a lock, creators of the same path |
| Process | `src/process.cpp` | a child and two pipes | `runCapture` | exit, output, full pipes and deadline race; each error path has a child to reap |
| ConfigManager | `src/config.cpp` | `/etc/tunproxy/config` | load, save, URI parsing | three notions of a legal host |
| Bypass policy | `src/bypass_policy.cpp` | none | collect, canonicalize, deduplicate CIDRs | prefix arithmetic, the order of getifaddrs, the limit of 1024 |
| Upstream | `src/upstream.cpp` | a socket | resolve and probe | replies in pieces or never, seven ways out of a probe |
| Core configuration | `src/singbox_config.cpp` | none | builds JSON | formatting only |
| Authorization | `src/authorization.cpp` | none | group membership of a peer | I/O only |
| Package | `debian/` | systemd units, maintainer scripts | install, upgrade, remove, restart | kills the control group, removes runtime files under running operations, scripts that fail |

How they meet: the client sends one request frame; a worker thread of the daemon
takes the operation mutex for a change (or refuses at once), publishes what it does
in `active_name`, and calls `CommandController::execute`, which takes the flock and
calls ProxyManager. Root's `--direct` commands call the same controller in their own
process, so the flock is what excludes them. ProxyManager forks the core and leaves
a record of it in the state file; the next command, in whatever process, knows the
core only from that record. Logs go back through a callback on the worker's thread.

What makes each part correct:

* ProxyManager: a running core is always on record or in the hands of the command
  that forked it; never two cores; `off` and `error` are true when they are
  answered; signals only go to the core; a TUN counts as ready only if it is the
  core's own; the record describes the core it names; every command ends.
* Daemon: changes exclude one another across processes; `active_name` is that of the
  mutex holder; a client gets log frames and one terminal frame; shutdown waits for
  all workers, misses no wake-up and leaves no core of the daemon.
* CoreManager: nothing is executed that was not verified; success means a complete
  installation; a repair never makes one worse, cleans up, and is not blocked by the
  leftovers of a crash.
* Filesystem: an atomic write is all or nothing, and its answer says which; a reader
  gets one content; directories are created inside the tree, by many at once.
* Process: the output of a child that exits is complete; the call returns; nothing of
  the child stays behind; the exit code is true.
* Bypass policy: every local address once, nothing twice, nothing in the TUN space.
* Upstream: the pinned address accepts connections; the probe ends and leaves nothing.
* ConfigManager: what a setting answers is what is loaded later, and can be shown.
* IPC: a client prints and returns what was logged and answered, or knows that it lost
  the connection.
* Package: no core is forgotten as long as postinst removes nothing that is in use; and
  the scripts, beside a daemon that may be busy but no direct command, neither remove a
  package nor clear its state under a running core, unless an update goes on after a
  prerm that failed.

## Modules

| Module | What it is |
|---|---|
| `ProxyManager` | the core's life cycle, step by step, with the operating system |
| `ProxyService` | the abstract life cycle it implements |
| `ProxyManagerInv` | the inductive invariant |
| `ProxyManager_proofs` | type correctness, lock, locals, ownership of the child, then the full invariant, no lost core, one core, true `off` and `error`: proofs |
| `ProxyManagerEnv_proofs` | the interface is the core's, signals reach only the core, the record is true, a status is fresh, `ProxyService` is implemented: proofs |
| `MCProxyManager` | TLC instances, four configurations |
| `Daemon` | accept loop, workers, mutex, name, frames, shutdown, direct commands |
| `Daemon_proofs` | one operation at a time, the advertised name, answers, a clean exit: proofs |
| `MCDaemon` | TLC instances, two configurations |
| `IpcChannel` | the frames of one connection, in cells over a bounded buffer |
| `CoreManager` | verification and repair of the installed core |
| `CoreManager_proofs` | only what was verified runs, repairs do no harm, leftovers neither: proofs |
| `DurableFile` | a file as a register that survives a loss of power |
| `AtomicFile` | `writeFileAtomic` and `readTextFile` by system calls, which implement it |
| `AtomicFile_proofs` | answers, reads, and the refinement of `DurableFile`: proofs |
| `EnsureDirectory` | the walk of `ensureDirectory` by several processes |
| `RunCapture` | `runCapture`: parent, child, two pipes and the deadline |
| `Helpers_proofs` | `RunCapture` returns all the output and leaves nothing, `EnsureDirectory` stays in the tree, a setting is loaded as it was given, frames carry the log whole: proofs |
| `BypassPolicy` | CIDR arithmetic, collection and assembly of the bypass list |
| `UpstreamProbe` | resolution and probing of the upstream |
| `Preparation` | what start does before it launches: `UpstreamProbe`, whose answer goes into `BypassPolicy` |
| `Preparation_proofs` | CIDR arithmetic, an exact bypass list, a bounded probe, the pinned upstream: proofs |
| `Config` | the setting from a command line or a dialogue to the file and back |
| `Package` | `prerm` and `postinst` beside operations in progress |
| `Package_proofs` | no core is forgotten, a job ends with the proxy off or stops: proofs |
| `MCCoreManager`, `MCAtomicFile`, `MCPreparation`, `MCPackage` | TLC instances |
| `Helpers`, `MCHelpers` | `RunCapture`, `IpcChannel`, `EnsureDirectory` and `Config`, which share nothing, side by side, and a TLC instance |

### ProxyManager

`pc[h]` is the statement host `h` (the daemon, or a direct command) executes next,
`rs[h]` and `plan[h]` are its locals `runtime_state` and `runtime_config`, `site[h]`
the place `terminateCore` or `awaitTunRemoval` was called from, `tries[h]` the rest
of its poll loop. `stateFile`, `coreConfig` and `setting` are the three files. `proc`
is the process table: a row is free, a core or a foreign process; a pid's `gen`
stands for the start time, so `(pid, gen)` is what `RuntimeState` calls
`(pid, start_ticks)`. A core that is not `alive` is a zombie of its `parent`.

One action is one observable step: a system call on a process, a write of a file, a
look at the interface, or a sequence of reads whose interleaving nothing can tell
apart. Merged on purpose: the three `/proc` reads of `isManagedProcessRunning`; load
and check of the record at the top of `start` and `stop` (only the lock holder writes
it); the fork and the exec handshake of `spawnCore` (a child that fails it is reaped
in there); the two looks of `awaitTunRemoval`; `clear` and the removal of
`sing-box.json` in `stop`; a write of a file, which is atomic by rename. Branches the
code cannot take are left out: `isManagedProcessRunning` and `waitForTun` never
return failure, and root may signal every core.

The environment: a core loads its file, makes the TUN, exits on its own (a crash, or
SIGTERM obeyed) or not at all; SIGKILL dooms it but it may linger; the TUN of a dead
core stays for a while; hosts die at any point and the kernel drops their flock;
systemd kills what is left in the control group of the daemon and restarts it when
the group is empty; init reaps orphans; free pids are reused. A core systemd has
condemned is taken to do no more start-up work. Constants switch on what the code
does not survive: `CrashUntracked` (a direct command dies between `fork` and the
provisional save), `FastPidReuse` (a pid is reused between a check and the `kill`
after it), `ExternalTun` (another program makes an interface of our name), `Confined`
(an observer that may not read `/proc/<pid>/exe` of a stronger process).

### Daemon

`main` is the main thread (loop head, `poll`, drain, asleep in `wait`, clean-up),
`pc[c]` the worker of client `c`. The mutex, the name, the flock, the counter and the
state file's existence (`record`, with who launched the core) are variables; `wire[c]`
is what was written on the open connection. A frame that is not sent whole leaves a
`partial` one, which may be empty; the send and receive timeouts of 30 s make such a
step always possible. What an operation does to the proxy is `Effect`, the outcomes
ProxyManager allows. A refused client leaves no trace.

### IpcChannel

One worker and one client of Daemon, at the level below it: there a frame is whole or
cut short, here it is a length, a type and units of payload, written and read in
pieces through a buffer that holds less than a frame. `said` is what the operation
logs and how it ends, `connected` the variable of that name in `serveClient`. A write
can fail when the buffer is full (the send timeout) or the client is gone, with any
part of a frame already out; the head of a frame that does not look like one makes
the client stop with `invalid`. The level and the error code of a frame are left out.
Results are no longer than a payload: the longest, a bypass list, has fewer than 1100
lines of at most 46 characters.

### CoreManager, AtomicFile, EnsureDirectory

These follow the functions system call by system call; any call may fail. `site` in
CoreManager is what `verifyCandidate` was called on. A file is `none`, `good` (what
the manifest says) or `bad`, which is all that sizes and hashes can tell. Operations
hold the operation lock, so one runs at a time, but it may die anywhere and leave a
curl or tar that writes on, in files named after a pid that is used again. `fault`,
`touched` and `shadow` record what an operation met, for the properties. Files renamed
into place are not synced, so a loss of power may spoil them until the kernel has
written them back; the next verification finds out.

AtomicFile has the kernel's side in two variables: how much of an inode's data is on
the disk, and which directories a loss of power may bring back. Writers hold the
lock, except the removal of a file, which `Clear` covers; readers do not. It implements
`DurableFile` under the mapping that takes the content behind the name as the value.
ProxyManager relies on this when it takes a write for one step.

In EnsureDirectory others may create files, links and directories where nothing is;
they do not replace what is there, which only root could do in these trees.

### RunCapture, UpstreamProbe

The parent's calls against a child, or a peer, that may do anything at any time. A
chunk is what one read returns. A poll only delays, so it is not a step; that the
deadline passes is. `waitpid` fails for no child of ours, so the `break` behind it is
not taken. In RunCapture `Volume` bounds the chunks that are numbered and nothing else: a child may
write on for ever behind them (`rest` counts what of that is in the pipe), and a read of it
may find the pipe full again each time. In UpstreamProbe `waits` counts the full timeouts
spent. EINTR is left out in both: the only handlers are those of SIGTERM and SIGINT in the
daemon (`daemon_main.cpp` 264-271), and each such signal makes the probe's poll
(`upstream.cpp:29`) begin its timeout once more.

### BypassPolicy, Preparation, Config

Data here is what matters, so it is there: addresses are bytes, and the fixed ranges
and the TUN space in the run are the real ones. Text is left out where it is a
bijection (`inet_ntop`, `inet_pton`) and kept, as tokens, where the parsers
disagree about it: blanks and feeds, colons, slashes, dots and brackets of a host.

Preparation is the composition: `start` probes, then collects the policy with the
address that the probe returned; `bypass` of a proxy that is off collects it without
one. When the probe has returned its locals are gone, and the answer is what is left.

### Package

`at[a]` is where the operation of an actor is: a direct command, a worker of the
daemon, or the command that prerm runs. `inode[a]` is the lock file it has open, which
need not be `lockfile` any more. `on` and `off` are cut down to what they do to the
record and the core; a core is named by who launched it. dpkg is outside the
repository: a prerm that fails leads to `postinst abort-remove` in a removal, and to
the new version's `prerm failed-upgrade` in an upgrade. A scenario
(`Scenarios`, chosen in `Init`) says what dpkg is asked for, who may be at work while
the scripts run, and whether a core may refuse to stop; the run has all of them. `inUse`
is history: whether the lock file was open or a core running when postinst last removed
lock and state file. A TUN of an unknown core makes `on` fail (`OnSpawn`).

## Runs

| Run | Shows |
|---|---|
| `crash` | `IInv`, `NoLostCore`, `OnlyOneCore`, `StateMatchesCore`, `ReadyIsOurTun`, `SignalsSpareForeign`, `OffMeansStopped`, `ErrorLeavesNoCore` for a daemon and a direct command that crash at any point where a crash is survivable; `ImplementsService`: ProxyManager implements `ProxyService` under the mapping at the end of its module |
| `hostile` | what survives `CrashUntracked`, `FastPidReuse` and `ExternalTun`: `ControlInv`, `OwnChildPinned`, and `StatusFresh` for an unlocked reader |
| `liveness` | `OperationTerminates` |
| `confined` | counterexample: see Divergences |
| `daemon` | `OneOperation`, `NameIsOfHolder`, `Answered` (framing and answers), `CleanExit` (the count of workers and what is left behind), `WorkerFinishes`, `StopExits` |
| `refusal` | counterexample: see Divergences |
| `file` | `AnswerTrue`, `ReadsOneContent`, and the refinement of `DurableFile` |
| `core` | `OnlyVerifiedRuns` and success means a complete installation; `NeverWorse`; `LeftoversHarmless`; `OperationEnds` |
| `preparation` | `ProbeIsBounded`, `UpstreamPinned` from the probe into the policy, `InterfacesExact`, `AllCidrsExact` (covering, irredundant, away from the TUN), `ArithmeticAgrees` with the definition on bits |
| `helpers` | `OutputComplete` and `ReturnsClean` of runCapture; `FramesIntact` of a connection; `WalkIsSafe` of concurrent walks; `SettingTakesEffect`; `UtilityReturns` whatever the child does short of writing for ever; `ConnectionEnds` whatever the client does |
| `package` | `NoLostCore` and `JobMeansOff` for updates and removals, again and again, beside direct commands and a busy daemon, with cores that may refuse to stop and lock files that are removed while they are open |
| `package_refused` | counterexample: see Divergences |

Bounds. Two hosts, one supervised and one not, are all the kinds there are; two pids
let a second core exist beside the first and a foreign process take either; `MaxGen` 2
births per pid allow four processes, more than an `on` with its retry followed by
another command needs. `Polls` is how often a poll loop looks: with 2 each loop goes
round once and gives up once; the real counts (50 to 200) add only repetitions. Two
settings tell an old plan from a new one. In Daemon two clients and one direct command
meet in every combination of mutex and flock, and one log message
before the answer is enough for a frame cut short before it; what several messages do
to one another is the matter of IpcChannel.

In the other modules: `core` has two pids (one to be reused while an orphan of the
other still writes), two download attempts (the first and the last; a third adds a
repetition), one accident and one damage. `file` has two contents in two chunks, three
inodes (old, new, and one kept open by a reader), two temporary names, two accidents
(one in the write that meets what the other left). `preparation` has up to three
upstream addresses (first, middle, last) and lists of three interface entries with a
cap of two, the smallest that can pass the cap by one, be redundant and be in any
order; its preview skips the probe. In `helpers` pipes hold two chunks and a child
writes three numbered ones to each, so a pipe can be full with more to come, and then as
many others as it likes; payloads have two
units, a buffer three cells, and two messages of none, less than, exactly and more
than one payload come before the outcome, so that a frame can fill the buffer and be
cut at every cell; three processes walk a path of three components, one below, one
above and one at the same place; hosts are all texts of up to two tokens out of letters, blanks, feeds, dots, colons,
slashes and brackets and some of three, and `MaxHost` is as small, so that the limit is met. In that run `part` says
which helper moves: the state space is the sum of the four and not their product,
which would say nothing more, as they share no state. `package` needs no bounds
but one operation at a time for each kind of actor.

Deadlock checking is off in the runs of ProxyManager and Daemon: pids and clients are used up in these bounded instances,
and a machine where nobody types a command rests.

Fairness. ProxyManager: a command that can take a step takes it (the scheduler), and
SIGKILL takes effect. Nothing is assumed of a core that has not been killed, of the
TUN, of init or of users. Daemon: threads run, `poll` returns within 500 ms, receive
and send within 30 s, and an operation ends, which is `OperationTerminates`.
IpcChannel: the worker is scheduled, and a write that finds no room for 30 s fails
(`daemon_main.cpp` 316-320). Nothing is assumed of the client, which may stop reading and
keep its end open; that its own command ends is promised only while it is scheduled
(`ClientReturns`). CoreManager: the operation's process is scheduled, and the tools it
runs end, which is `CallReturns` of RunCapture; there the parent is scheduled and time
passes, and nothing is assumed of the child.

## Divergences

* `confined`. `isManagedProcessRunning` takes an exe link it cannot read for a foreign
  process. The daemon's unit has neither `CAP_SYS_PTRACE` nor the capabilities of a
  core that root's `tunproxy --direct on` started, so the kernel refuses it that link;
  `tunproxy off` then clears the record and answers OFF while the core runs.
* `refusal`. The README promises that a refused change is told which operation is in
  progress. Before `active_name` is set, and from the moment it is cleared until the
  reply is sent and the mutex released, a refusal names nothing; in the second window
  no operation is running any more.
* `package_refused`. When prerm fails in an upgrade dpkg asks the new version's prerm,
  which knows no `failed-upgrade` and succeeds. A `tunproxy off` that is refused or
  fails therefore does not stop the upgrade, contrary to the README, and postinst
  removes the lock and the state file of a running core. In a removal prerm's
  failure does abort, by dpkg's own rules.

Met while modelling, in the models as the code has it, and excepted or left out in the
properties and inputs:

* Read errors. `readTextFile` looks for a failed read in the state of a stream that
  `<< input.rdbuf()` does not touch: a file that cannot be read to its end is taken
  for its beginning (`Read` of AtomicFile, excepted in `ReadsOneContent`).
* Files removed while in use. prerm looks at the state file and not at the lock, so a
  direct `on` that has not saved its record yet goes on while files are replaced; and an
  update goes on after a prerm that failed. postinst then removes a lock file that
  somebody has open, or the record of a running core: two operations at once under the
  locks of two inodes, and a core that `off` does not find. `package` has these steps
  and goes on after them; `NoLostCore` promises nothing until a later postinst finds
  nothing in use (`inUse`), and `JobMeansOff` nothing of a direct command beside the scripts.
  The comment at `postinst:23` says that prerm has stopped the proxy.
* A child that never stops writing. `readAvailable` (`process.cpp:45-55`) reads until the
  pipe is empty and does not look at the clock, so a child that is as fast as its
  reader keeps runCapture beyond the deadline, though the README promises a limit
  (`README.md:344`). `CallReturns` excepts just that; a curl or tar does not do so.
* Feeds. A host may end with a vertical tab or a form feed when it is set, and loses
  it when it is loaded, or the setting is refused then because nothing legal is left:
  `trim` strips more than `isValidHost` refuses (excepted in `SettingTakesEffect`).
* Brackets. A host with a bracket passes the configuration file and, in part, the URI
  parser, but the URI made of it does not parse, so the dialogue of `tunproxy setting`
  ends with an error until the setting is replaced (excepted in `SettingTakesEffect`).
* When fsync fails `writeFileAtomic` does not close its descriptor (`leaked`).

## Proofs

`ProxyManager_proofs` proves, for every value of the constants that satisfies the
assumptions of `ProxyManager` (any hosts, pids, settings, poll counts, every
environment switch on or off):

* `TypeCorrect`: `TypeOK` is invariant;
* `ControlCorrect`: so is `ControlInv`, that is `TypeOK`, `LockInv` (a host is inside a
  command exactly when it holds the lock), `LocalInv` (the locals a program point reads
  were assigned) and `ChildInv` (while start or its clean-up refers to the child by
  pid, the row of that pid is the child, alive or zombie, with this host as parent);
* `ChildPinned`: `OwnChildPinned` follows, the comment at `proxy_manager.cpp:385`.

The argument: `ControlInv` is inductive. A step of host `h` leaves the locals of the
others alone (`HostFrame`), and no other host is inside a command while `h` is
(`LockInv`), so each action is examined for the locals of `h` alone (`LocalStep`) and
then for the row of its child (`ChildStep`): only `h` reaps its children, signals
change nothing but `doomed` (`SignalKeeps`), and init only reaps orphans. The death of
a host resets its program counter together with its parenthood (`OsControl`). TLC
checks the same formula in runs `crash` and `hostile`.

Its second half proves `IInv` and what follows from it, assuming `Benign`:
`Confined = {}` and `~CrashUntracked`. Both are needed: `confined` is the
counterexample without the first, and without the second a core forked by a direct
command that dies before the provisional save is known to nobody. Pid reuse, other
programs' interfaces and all other crashes are covered.

* `TrackCorrect`: `IInv` is invariant; `NoCoreIsLost`, `OneCore`: so are `NoLostCore`
  and `OnlyOneCore`; `OffIsTrue`, `ErrorIsClean`: every behaviour satisfies
  `OffMeansStopped` and `ErrorLeavesNoCore`.

`NoLostCore` is not inductive: that `off` may clear the record, or `start` fork again,
depends on what the program point has learnt. `IInv` adds it: at the points in
`Quiet` no core runs (`QuietInv`), at the points in `Holds` the command's local record
names the only core that can (`HoldInv`). Four lemmas turn what the code sees into
that knowledge: a record that names no managed process (`RecordTells`), a failed check
(`CheckTells`), a reaped child (`ReapTells`), a SIGKILL sent (`KillTells`). Each
statement is then examined for the one host that is inside a command (`TrackStep`);
the others know only what the record says. A host's death (`ExitTracks`) is where
`CrashUntracked` enters: a supervised host takes its untracked core with it, as
systemd kills the control group. The action properties hold because the only step
that answers `off`, and every step that fails, starts in a point where nothing runs.
TLC checks `IInv` in run `crash`.

`ProxyManagerEnv_proofs` has what the commands, the readers and the world outside add
to that, each with an invariant of its own:

* `ReadyCorrect` (`Benign` and `~ExternalTun`): `ReadyIsOurTun`. From the probe to the
  fork nothing runs, so nobody makes the interface; afterwards the one core that runs
  is the one the command holds (`TunInv`).
* `SparesForeign` (`~FastPidReuse` only): `SignalsSpareForeign`. Between a check and
  the `kill` after it the pid is not a foreign process; systemd kills only what is in
  the control group of the daemon (`SpareInv`, over `ControlInv`).
* `RecordIsTrue` (`Benign`): `StateMatchesCore`. Processes only age: what is dead or
  gone does not come back under the same start time, and what a record names has been
  born (`NextAges`, `BornInv`). So a record that is true stays true unless the core
  reads another configuration, and none is written while a core runs (`QuietInv`);
  `RecordInv` says so of the record in the file and of the locals of each command.
* `StatusIsFresh` (no host is `Confined`; everything else arbitrary, readers included):
  `StatusFresh`. A command changes the state file only after it has seen that the
  record there names no live core, or while the core is not yet called running
  (`FreshInv`, over `ControlInv`). Commands that may not read exe links are excluded:
  one that takes a live core for dead writes over its record.
* `ServiceImplemented` (`Benign` and `~ExternalTun`): `ImplementsService`. There is one
  lemma for each kind of step that ProxyService can see: the end of a core or of its
  record (`EndStep`), an interface that comes up (`LiveStep`), the provisional save
  (`LaunchStep`) and the final one (`EstablishStep`). What they need is `ServiceInv`: from
  `clear` to the provisional save there is no record, from there to the final save the
  record is the command's, with the setting still in force (`set` waits for the lock),
  and when `start` is about to call the core running, the interface is the core's.
  Another program's interface is excluded because `waitForTun` only asks for the name:
  it takes any for ready, and the record would then say running too early.

`Daemon_proofs`, for any clients, direct commands and number of log messages (`DaemonCorrect`: `DaemonInv` is invariant):

* `OperationsExclude`: `OneOperation`, since whoever executes holds the flock
  (`FlockInv`); the mutex would not do, as direct commands and the clean-up do not take it.
* `NameCorrect`: `NameIsOfHolder`. The statement alone is not inductive, because the
  logger sets the name again and again; `MutexInv` says that only a worker at a program
  point between `try_lock` and the clearing of the name can be advertised.
* `AnswersCorrect`: `Answered`. `WireInv` says for each program point of a worker what is
  on its connection; once a write has failed a cut frame is the last thing there.
* `ExitCorrect`: `CleanExit`. `CountInv` ties `active_clients` to the cardinality of the
  set of workers that are there, so that `main` finds zero only when there is none.

`AtomicFile_proofs`, for any contents, names, inodes, pieces and number of crashes
(`FileCorrect`: `FileInv`):

* `AnswersTrue`, `ReadsCorrect`: `AnswerTrue` and `ReadsOneContent`;
* `FileIsDurable`: every step, losses of power included, is a step or a stutter of
  `DurableFile`.

The heart of it is `DiskInv`: in every directory that a loss of power may bring back,
the target is an inode whose data is whole and on the disk, as `rename` comes after
`fsync`. `WriterInv` adds that no such directory has the inode of the temporary file
under the target's name, so writing to it changes no content; `ReaderInv` that what a
reader has open is not being written, whatever has happened to its name; `TempInv`
counts temporary files.

`CoreManager_proofs`, for any pids, attempts, crashes and damages (`CoreCorrect`:
`CoreInv`): `VerifiedOnly`, `RepairsKeep` and `LeftoversGo` prove `OnlyVerifiedRuns`,
the action property `NeverWorse`, and `LeftoversHarmless`. What a check has seen of the
installed files stays so unless somebody else changes them (`InstalledInv`); of the
unpacked files it stays so in any case (`StagedInv`), since `mkdir` refuses a directory
that an orphaned tar still writes to (`OrphanInv`); and an operation that meets no
orphan has, behind the sweep, only its own files (`QuietInv`), so that what fails has
failed for a reason it has met itself (`ReasonInv`).

`Preparation_proofs`, for any interfaces in any order, any fixed ranges, TUN space and
cap, any upstream addresses and any peer (`PreparationCorrect`: `PreparationInv`). The
assumptions are that addresses have the bytes of their family, and that the fixed ranges
are canonical, outside the TUN space and not contained in one another, as those in
`bypass_policy.cpp` are:

* `ArithmeticIsRight`: `ArithmeticAgrees`, that is, what `parseCidr` keeps and
  `containsCidr` compares byte by byte is what a comparison of bits gives. A byte is
  determined by its eight bits (`ByteFromBits`), and cutting it clears the lower ones
  (`CutByte`). Containment is reflexive and transitive (`ContainsThrough`), and
  overlap with the TUN space is containment one way or the other (`OverlapIs`).
* `InterfacesAreExact`: `InterfacesExact`. `CollectInv` says what has been seen and added
  in terms of the entries listed so far, in whatever order; the cap counts a set.
* `AssemblyIsExact`: `AllCidrsExact`. `AssembleInv` says that what was passed over is
  contained in something kept, and that nothing kept is contained in what was kept before.
* `ProbeBounded`: `ProbeIsBounded`, at most three full timeouts for each address tried
  and one socket at a time (`ProbeInv`). `PinnedFirst`: `UpstreamPinned`, as `TaskInv`
  carries the answer of the probe over into the collection.

`Package_proofs` (`PackageCorrect`: `PackageInv`), for any scenarios, with no hypothesis:
`CoreIsNotLost` and `JobEndsOff` prove `NoLostCore` and `JobMeansOff`. What needs care is
that the lock file is removed and made again. After a removal of files nobody used,
whoever has a lock open has the one that is there (`LockInv`), so one operation works at a
time, and only its own core may lack a record (`CoreInv`); after the removal of a file
in use neither holds, and neither is claimed until the next one. That the scripts alone
remove nothing in use is `JobInv`: from the stop of the units to the start of the socket
no core runs, since what prerm's `off` leaves is a core of the service, which goes with
its control group (`ActorInv` says who may be at work when).

`Helpers_proofs` has four systems, with assumptions on their constants in `Helpers`
(`HelpersAssumption`).

RunCapture, with pipes of any capacity, any output, exit codes and signals
(`CaptureCorrect`: `CaptureInv`): `CaptureComplete` and `CaptureClean` prove `OutputComplete` and `ReturnsClean`. `StreamInv` says that what is
kept, what was just read and what is in the pipe are, one behind the other, what the
child has written; `DrainInv` that the reads behind a successful `waitpid` have emptied
both pipes, with nobody left to fill them.

EnsureDirectory, with any processes and any depth of at least one component (an empty path
has nothing to walk): `WalkSafe` proves `WalkIsSafe`, from the fact that what exists is not replaced and that nothing lies behind
what is not a directory (`WalkInv`).

Config, with any texts of any length: `SettingIsKept`
proves `SettingTakesEffect`. A setting that succeeds saves a host and a port that are
sound (`Sound`); `trim` changes such a host only if a feed is at one of its ends, and what
it leaves is sound or is refused (`LoadIs`); so the setting is loaded as it was saved,
stripped of those feeds, or not at all, and the URI formatted from it parses to it again unless the host has a bracket.

IpcChannel, with any messages, payload limit and buffer (`ChannelCorrect`: `ChannelInv`):
`FramesAreIntact` proves `FramesIntact`. The invariant (`Flows`) says that there is a
stream of whole frames, made from the log from where printing has come to, of which what
the client has read, what is in the buffer and what is still to be written are
consecutive parts. A frame that is sent makes the stream longer (`StreamGrows`), a read
and a write move a border in it, and a write that fails cuts it (`StreamIsCut`); after that
it may end anywhere, but the client then meets the end before it can take a cut frame for
a whole one. The outcome counts as one unit of the log, so the stream of a connection that
was not broken cannot end before it.

In `Helpers` the four run side by side; `HelpersImplement` proves that each behaviour is one
of every part, and `HelpersSafe` that the five properties hold together.

About induction: the library's induction theorems take an operator, so they cannot be
used. Where a fact about all lengths is needed (what `FlattenSeq` joins, where the
parsers find their separator) it is proved of a set of numbers: a set with a number
has a least one (`LeastNatural`, from the well-foundedness of inclusion of finite sets),
and so a set with 0 and all successors has all numbers (`SetInduction`).

TLC has checked each of these invariants on the instance of the run that checks the
property: `TunInv`, `SpareInv`, `RecordInv` and `ServiceInv` with the constants of `crash`,
`FreshInv` with those of `hostile`, and the others with those of `daemon`, `file`,
`core`, `preparation`, `package` and `helpers` (there with the stream of `Flows` computed
from the state).

Model-checked only:

* the liveness properties (`OperationTerminates`, `WorkerFinishes`, `StopExits`,
  `OperationEnds`, `UtilityReturns`, `ConnectionEnds`): liveness under fairness is out of the prover's reach;
* what lies outside the hypotheses above is shown by the three runs that expect a
  violation, or stated under Divergences.

## Not modelled, and the plan

Done: 1. `ProxyManager`, `ProxyService`, `ProxyManagerInv` and their runs; 2. `Daemon`;
3. the proofs of `ProxyManager`'s invariant and the safety properties above; 4. the
modules below and beside them: `AtomicFile`, `EnsureDirectory`, `CoreManager`,
`RunCapture`, `BypassPolicy`, `UpstreamProbe`, `Preparation`, `Config`, `IpcChannel`,
`Package`;
5. the proofs of Daemon, AtomicFile, CoreManager, RunCapture and EnsureDirectory, the
remaining safety properties of `ProxyManager` and its refinement of `ProxyService`;
6. the proofs of Preparation, Package, Config and IpcChannel, with which every safety
property of the passing runs is proved.

Next:

1. Composition: Daemon over ProxyManager, with `Effect` shown to be what it allows.

Not modelled:

* State files that do not parse. They are written atomically by the same program; an
  unreadable record counts as none.
* Zombies that nobody reaps: terminateCore is content with a zombie, and a core that
  crashes under an idle daemon stays one until the daemon exits. They are in the model
  of ProxyManager, but no document promises a bound on them.
* Creation of the control socket and socket activation (`daemon_main.cpp` 42-136), and
  a second daemon started by hand: start-up code that either succeeds or exits.
* The lifetime of the condition variable of `main` after the last `notify_all`, and
  systemd's stop timeout against the daemon's own: both need a model of more than order.
* The group lookup of `authorization.cpp`, the JSON of `singbox_config.cpp`, the wording
  of answers, the argument table of `main`, postrm's removal of directories, the
  build: input and output or formatting, with one outcome that matters here, success
  or failure, which the actions that use them choose freely.
