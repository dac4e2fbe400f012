SPECIFICATION AuthSpec
CONSTANTS
    Ops <- MCOps
    Clients = {c1, c2}
    Names = {"admin"}
    Tokens = {t1, t2, t3}
    NoToken = NoToken
    NoRow = NoRow
    IdleTTL = 2
    AbsoluteTTL = 2
    BootstrapTTL = 0
    MaxClock = 2
    MaxLogins = 2
    MaxInFlight = 2
    MaxFaults = 1
SYMMETRY Symmetry
INVARIANTS
    AuthTypeOK
    OneTokenPerLogin
    OneBootstrapWins
PROPERTIES
    RevokedStaysRevoked
    AbsoluteLimitHolds
CHECK_DEADLOCK FALSE
