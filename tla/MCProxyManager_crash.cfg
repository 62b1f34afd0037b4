SPECIFICATION Spec
CONSTANTS
    Hosts = {daemon, cli}
    Readers = {}
    Supervised = {daemon}
    Pids = {p1, p2}
    Settings = {s1, s2}
    Confined = {}
    ExternalTun = FALSE
    FastPidReuse = FALSE
    CrashUntracked = FALSE
    Polls = 2
    MaxGen = 2
    NoHost = NoHost
    NoPlan = NoPlan
    NoState = NoState
    NoTun = NoTun
    External = External
    Orphan = Orphan
INVARIANTS
    IInv NoLostCore OnlyOneCore StateMatchesCore ReadyIsOurTun SignalsSpareForeign
PROPERTIES
    OffMeansStopped ErrorLeavesNoCore ImplementsService
SYMMETRY Symmetry
CHECK_DEADLOCK FALSE
