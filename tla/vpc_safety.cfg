SPECIFICATION Spec
CONSTANTS
    OwnIds = {o1, o2, o3}
    ExtIds = {e1}
    NoId = NoId
    Cfgs = {"c1", "c2"}
    ExtCfgs = {"c1"}
    Specs <- AllSpecs
    Errors = {"refused"}
    Texts <- AllTexts
    StableMode = TRUE
    ReadOwnWrites = TRUE
    MaxEdits = 2
    MaxToggles = 1
    MaxFaults = 1
    MaxCrashes = 1
    MaxDrifts = 1
    MaxMishaps = 2
INVARIANTS NoLeak OnePerCR LifecycleInv
PROPERTIES ExternalUntouched DeletesOnlyForDeletedCR ImplementsLifecycle ImplementsReference
CHECK_DEADLOCK FALSE
