SPECIFICATION HelpersSpec
CONSTANTS
    Capacity = 2
    Volume = 3
    ExitCodes = {0, 1}
    Signals = {9, 15}
    MaxPayload = 2
    Buffer = 3
    LogSizes = {0, 2, 3, 5}
    MaxLogs = 2
    ResultSizes = {0, 2}
    ErrorSizes = {1, 3}
    Procs = {p1, p2, p3}
    Depth = 3
    Texts <- MCTexts
    Numbers = {"80"}
    MaxHost = 3
    Clients = {c1}
INVARIANTS
    OutputComplete ReturnsClean FramesIntact WalkIsSafe SettingTakesEffect
PROPERTIES
    UtilityReturns ConnectionEnds
