SPECIFICATION Spec
CONSTANTS
    OwnIds = {o1, o2, o3}
    ExtIds = {e1}
    NoId = NoId
    Cfgs = {"c1", "c2"}
    ExtCfgs = {"c1"}
    Specs <- ProvisionedSpecs
    Errors = {"refused", "timeout"}
    Texts <- AllTexts
    StableMode = TRUE
    ReadOwnWrites = FALSE
    MaxEdits = 3
    MaxToggles = 0
    MaxFaults = 1
    MaxCrashes = 0
    MaxDrifts = 0
    MaxMishaps = 1
INVARIANTS OnePerCR
CHECK_DEADLOCK FALSE
