SPECIFICATION Spec
CONSTANTS
    MaxProcs = 3
    Versions = {"v1", "v2"}
    GiveUp = 2
    Policies = {"keep", "restart"}
    MaxFaults = 1
    MaxCrashes = 2
    MaxBoots = 2
INVARIANTS
    TypeOK
    DataPlaneSurvives
    ExitsAreWatched
    FileIsLastGood
    RecordIsTrue
CHECK_DEADLOCK FALSE
