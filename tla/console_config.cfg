SPECIFICATION FairSpec
CONSTANTS
    Paths = {1, 2}
    Texts = {"a", "c", "x"}
    Loads <- MCLoads
    Compiles <- MCCompiles
    Typed = {"a", "c"}
    FirstDraft <- MCFirstDraft
    DiskDrafts <- MCDiskDrafts
    NoDraft = NoDraft
    NoData = NoData
    MaxEvents = 4
INVARIANTS
    ConfigTypeOK
    TextStaysInItsFile
    DialogShowsSaved
PROPERTIES
    NoLostUpdate
    PublishMatchesBase
    PageLoads
    SaveSettles
CHECK_DEADLOCK FALSE
