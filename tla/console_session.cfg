SPECIFICATION FairSpec
CONSTANTS
    Ops <- MCOps
    Clients = {"browser"}
    Browser = "browser"
    Visited = {"overview", "system"}
    Names = {"admin"}
    Tokens = {1}
    NoToken = 0
    NoRow = NoRow
    NoData = NoData
    IdleTTL = 1
    AbsoluteTTL = 1
    BootstrapTTL = 0
    MaxClock = 1
    MaxLogins = 1
    MaxInFlight = 8
    MaxFaults = 2
CHECK_DEADLOCK FALSE
INVARIANTS
    ConsoleTypeOK
    ShellNeedsSession
PROPERTIES
    BootSettles
    SubmitSettles
    LoadingEnds
