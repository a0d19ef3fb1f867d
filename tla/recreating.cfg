SPECIFICATION FairSpec
CONSTANTS
    OwnIds = {o1, o2, o3}
    ExtIds = {}
    NoId = NoId
    Cfgs <- AllCfgs
    ExtCfgs <- OneCfg
    Specs <- AllSpecs
    Errors = {"refused"}
    Texts <- AllTexts
    StableMode = TRUE
    ReadOwnWrites = TRUE
    MaxEdits = 1
    MaxToggles = 0
    MaxFaults = 1
    MaxCrashes = 1
    MaxDrifts = 1
    MaxMishaps = 1
    Names = {n1, n2}
    OwnRefIds = {v1, v2, v3}
    ExtRefIds = {w}
    Missing = Missing
    RefStart = {Missing, NoId}
    RefsStay = FALSE
    n1 = n1
    n2 = n2
    w = w
    Kinds = {"TargetGroup", "RouteTableRoute", "VpcPeeringConnection"}
    Metas = {"m1", "m2"}
    Protected = {}
    Recreated = {n2}
    MaxRefs = 2
INVARIANTS TypeOK RecreatingInv RestsInSync
PROPERTIES DeletionCompletes Settles ForgottenIsRecreated ImplementsLifecycle ImplementsRecreatedReference
CHECK_DEADLOCK FALSE
