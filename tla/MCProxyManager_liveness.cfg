SPECIFICATION FairSpec
CONSTANTS
    Hosts = {daemon, cli}
    Readers = {}
    Supervised = {daemon}
    Pids = {p1}
    Settings = {s1}
    Confined = {}
    ExternalTun = TRUE
    FastPidReuse = FALSE
    CrashUntracked = FALSE
    Polls = 3
    MaxGen = 2
    NoHost = NoHost
    NoPlan = NoPlan
    NoState = NoState
    NoTun = NoTun
    External = External
    Orphan = Orphan
PROPERTIES
    OperationTerminates
CHECK_DEADLOCK FALSE
