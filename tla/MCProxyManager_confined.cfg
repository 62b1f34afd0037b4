SPECIFICATION Spec
CONSTANTS
    Hosts = {daemon, cli}
    Readers = {}
    Supervised = {daemon}
    Pids = {p1, p2}
    Settings = {s1}
    Confined = {daemon}
    ExternalTun = FALSE
    FastPidReuse = FALSE
    CrashUntracked = FALSE
    Polls = 1
    MaxGen = 2
    NoHost = NoHost
    NoPlan = NoPlan
    NoState = NoState
    NoTun = NoTun
    External = External
    Orphan = Orphan
PROPERTIES
    OffMeansStopped
SYMMETRY Symmetry
CHECK_DEADLOCK FALSE
