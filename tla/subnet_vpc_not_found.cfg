SPECIFICATION Spec
CONSTANTS
    OwnIds = {o1, o2, o3}
    ExtIds = {}
    NoId = NoId
    Cfgs <- AllCfgs
    ExtCfgs <- OneCfg
    Specs <- ProvisionedSpecs
    Errors = {"refused"}
    Texts <- AllTexts
    StableMode = TRUE
    ReadOwnWrites = TRUE
    MaxEdits = 0
    MaxToggles = 0
    MaxFaults = 0
    MaxCrashes = 0
    MaxDrifts = 0
    MaxMishaps = 0
    Names = {vpc}
    OwnRefIds = {v1, v2}
    ExtRefIds = {w}
    Missing = Missing
    RefStart = {Missing}
    RefsStay = FALSE
    Cidrs = {"10.0.1.0/24"}
    Metas = {"m1", "m2"}
INVARIANTS RequeuesUntilVpcReady
CHECK_DEADLOCK FALSE
