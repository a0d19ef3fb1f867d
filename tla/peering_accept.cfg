SPECIFICATION Spec
CONSTANTS
    OwnIds = {o1, o2}
    ExtIds = {}
    NoId = NoId
    Cfgs <- AllCfgs
    ExtCfgs <- OneCfg
    Specs <- AcceptingSpecs
    Errors = {"refused"}
    Texts <- AllTexts
    StableMode = TRUE
    ReadOwnWrites = TRUE
    MaxEdits = 0
    MaxToggles = 0
    MaxFaults = 0
    MaxCrashes = 0
    MaxDrifts = 0
    MaxMishaps = 0
    Names = {n1}
    OwnRefIds = {v1}
    ExtRefIds = {w}
    Missing = Missing
    RefStart = {NoId}
    RefsStay = FALSE
    n1 = n1
    n2 = n1
    w = w
    Kinds = {"VpcPeeringConnection"}
    Metas = {"m1", "m2"}
    Protected = {}
    Recreated = {}
    MaxRefs = 2
INVARIANT PendingIsAccepted
CHECK_DEADLOCK FALSE
