SPECIFICATION Spec
CONSTANTS
    Hosts = {cli}
    Readers = {status}
    Supervised = {}
    Pids = {p1, p2}
    Settings = {s1}
    Confined = {}
    ExternalTun = TRUE
    FastPidReuse = TRUE
    CrashUntracked = TRUE
    Polls = 1
    MaxGen = 2
    NoHost = NoHost
    NoPlan = NoPlan
    NoState = NoState
    NoTun = NoTun
    External = External
    Orphan = Orphan
INVARIANTS
    ControlInv OwnChildPinned StatusFresh
SYMMETRY Symmetry
CHECK_DEADLOCK FALSE
