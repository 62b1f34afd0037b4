SPECIFICATION FairSpec
CONSTANTS
    Clients = {c1, c2}
    Directs = {d1}
    MaxLogs = 1
    NoClient = NoClient
    Main = Main
INVARIANTS
    OneOperation NameIsOfHolder Answered CleanExit
PROPERTIES
    WorkerFinishes StopExits
CHECK_DEADLOCK FALSE
