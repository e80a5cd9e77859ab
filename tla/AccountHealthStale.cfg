\* Two requests and two models: does a success leave the locks of the other model alone?
CONSTANTS
    Requests = {r1, r2}
    Models = {m1, m2}
    AllModels = AllModels
    NoModel = NoModel
    BaseCooldown = 1
    MaxBackoff = 1
    MaxLevel = 1
    MaxCooldown = 1
SPECIFICATION Spec
SYMMETRY Symmetry
PROPERTIES SuccessKeepsOtherLocks
