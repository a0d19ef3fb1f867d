SPECIFICATION FairSpec
CONSTANTS
    OwnIds = {o1, o2, o3}
    ExtIds = {e1}
    NoId = NoId
    Cfgs <- AllCfgs
    ExtCfgs <- OneCfg
    Specs <- AllSpecs
    Errors = {"refused"}
    Texts <- AllTexts
    StableMode = TRUE
    ReadOwnWrites = TRUE
    MaxEdits = 2
    MaxToggles = 0
    MaxFaults = 1
    MaxCrashes = 1
    MaxDrifts = 1
    MaxMishaps = 1
    Names = {vpc}
    OwnRefIds = {v1, v2}
    ExtRefIds = {w}
    Missing = Missing
    RefStart = {NoId}
    RefsStay = FALSE
    Cidrs = {"10.0.1.0/24"}
    Metas = {"m1", "m2"}
INVARIANTS TypeOK OnePerCR LeakInv RestsInSync
PROPERTIES ImplementsLifecycle ImplementsReference WaitEnds Settles
CHECK_DEADLOCK FALSE
