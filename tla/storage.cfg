SPECIFICATION FairSpec
CONSTANTS
    OwnIds = {o1, o2, o3}
    ExtIds = {}
    NoId = NoId
    Cfgs <- AllCfgs
    ExtCfgs <- OneCfg
    Specs <- AllSpecs
    Errors = {"refused"}
    Texts <- AllTexts
    StableMode = TRUE
    ReadOwnWrites = TRUE
    MaxEdits = 1
    MaxToggles = 0
    MaxFaults = 2
    MaxCrashes = 1
    MaxDrifts = 1
    MaxMishaps = 2
    Names = {n1}
    OwnRefIds = {v1}
    ExtRefIds = {w}
    Missing = Missing
    RefStart = {Missing, NoId}
    RefsStay = FALSE
    n1 = n1
    n2 = n1
    w = w
    Kinds = {"BlockVolume", "Snapshot", "SnapshotPolicy", "TfsInstance"}
    Metas = {"m1", "m2"}
    Protected = {"m2"}
    Recreated = {}
    MaxRefs = 2
INVARIANTS TypeOK LeakInv RestsInSync ErrorClearedOnSuccess LeftTerminatingIsReported
PROPERTIES Settles ImplementsLifecycle ImplementsReference
CHECK_DEADLOCK FALSE
