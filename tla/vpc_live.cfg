SPECIFICATION FairSpec
CONSTANTS
    OwnIds = {o1, o2, o3, o4}
    ExtIds = {e1}
    NoId = NoId
    Cfgs = {"c1", "c2"}
    ExtCfgs = {"c1"}
    Specs <- AllSpecs
    Errors = {"refused"}
    Texts <- AllTexts
    StableMode = TRUE
    ReadOwnWrites = TRUE
    MaxEdits = 2
    MaxToggles = 0
    MaxFaults = 1
    MaxCrashes = 1
    MaxDrifts = 1
    MaxMishaps = 2
INVARIANTS RestsInSync
PROPERTIES Settles DeletionCompletes
CHECK_DEADLOCK FALSE
