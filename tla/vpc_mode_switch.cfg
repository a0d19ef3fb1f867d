SPECIFICATION Spec
CONSTANTS
    OwnIds = {o1, o2, o3}
    ExtIds = {e1}
    NoId = NoId
    Cfgs = {"c1", "c2"}
    ExtCfgs = {"c1"}
    Specs <- AllSpecs
    Errors = {"refused", "timeout"}
    Texts <- AllTexts
    StableMode = FALSE
    ReadOwnWrites = TRUE
    MaxEdits = 2
    MaxToggles = 0
    MaxFaults = 0
    MaxCrashes = 0
    MaxDrifts = 0
    MaxMishaps = 0
PROPERTIES ExternalUntouched
CHECK_DEADLOCK FALSE
