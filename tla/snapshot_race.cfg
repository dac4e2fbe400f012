SPECIFICATION Spec
CONSTANTS
    IRs = {"ir0", "irA"}
    NoIR = "none"
    MaxRuns = 2
    MaxSeq = 2
    Types = {"cds"}
    ConfirmBuffer = 2
    Mode = "xds"
    Contents = {"empty", "a"}
    Empty = "empty"
    NoContent = "nothing"
    Mixed = {}
    Loadable = {"empty", "a"}
    CompileOf <- MCCompileOf
    Rejected = {}
    MaxFaults = 0
    Crashes = FALSE
    Cancels = FALSE
    Outages = FALSE
    Edits = {"write"}
    Rechecks = FALSE
INVARIANT
    SnapshotMatchesIR
