SPECIFICATION Spec
CONSTANTS
    OwnIds = {o1, o2, o3}
    ExtIds = {e1}
    NoId = NoId
    Cfgs = {"c1", "c2"}
    ExtCfgs = {"c1"}
    Specs <- ProvisionedSpecs
    Errors = {"refused", "timeout"}
    Texts <- AllTexts
    StableMode = TRUE
    ReadOwnWrites = TRUE
    MaxEdits = 2
    MaxToggles = 0
    MaxFaults = 0
    MaxCrashes = 1
    MaxDrifts = 0
    MaxMishaps = 1
INVARIANTS DeletingRemoves
CHECK_DEADLOCK FALSE
