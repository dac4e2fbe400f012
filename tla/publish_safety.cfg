SPECIFICATION Spec
CONSTANTS
    IRs = {"ir0", "irA"}
    NoIR = "none"
    MaxRuns = 2
    MaxSeq = 2
    Types = {"cds"}
    ConfirmBuffer = 2
    Mode = "xds"
    Contents = {"empty", "a"}
    Empty = "empty"
    NoContent = "nothing"
    Mixed = {}
    Loadable = {"empty", "a"}
    CompileOf <- MCCompileOf
    Rejected = {}
    MaxFaults = 1
    Crashes = TRUE
    Cancels = TRUE
    Outages = FALSE
    Edits = {"write", "replace"}
    Rechecks = TRUE
INVARIANTS
    TypeOK
    LedgersAgree
    OneEffective
    OneActiveRun
    VersionsHaveSource
    VerdictsAreCurrent
    NoVerdictDropped
    RollbackReproduces
PROPERTIES
    TerminalIsFinal
    ImplementsLedger
    VersionsImmutable
