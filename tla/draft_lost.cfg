SPECIFICATION Spec
CONSTANTS
    Paths = {1, 2}
    Texts = {"a", "c", "x"}
    Loads <- MCLoads
    Compiles <- MCCompiles
    Typed = {"a", "c"}
    FirstDraft <- MCFirstDraft
    DiskDrafts <- MCDiskDrafts
    NoDraft = NoDraft
    NoData = NoData
    MaxEvents = 4
PROPERTY
    DraftSurvivesSave
CHECK_DEADLOCK FALSE
