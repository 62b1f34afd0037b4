SPECIFICATION Spec
CONSTANTS
    Clients = {c1, c2}
    Directs = {}
    MaxLogs = 1
    NoClient = NoClient
    Main = Main
INVARIANTS
    RefusalNamesOperation
CHECK_DEADLOCK FALSE
