SPECIFICATION FairSpec
CONSTANTS
    MaxProcs = 2
    Versions = {"v1", "v2"}
    GiveUp = 2
    Policies = {"keep", "restart"}
    MaxFaults = 0
    MaxCrashes = 1
    MaxBoots = 2
PROPERTY LossIsNoticed
CHECK_DEADLOCK FALSE
