SPECIFICATION FairSpec
CONSTANTS
    IRs = {"ir0"}
    NoIR = "none"
    MaxRuns = 2
    MaxSeq = 2
    Types = {"lds"}
    ConfirmBuffer = 2
    Mode = "xds"
    Contents = {"empty", "bad", "both"}
    Empty = "empty"
    NoContent = "nothing"
    Mixed = {"both"}
    Loadable = {"empty", "bad", "both"}
    CompileOf <- MCCompileOf
    Rejected = {}
    MaxFaults = 0
    Crashes = FALSE
    Cancels = FALSE
    Outages = TRUE
    Edits = {"external"}
    Rechecks = FALSE
PROPERTIES
    ConfirmationResolves
