\* One request at a time, whose callback may outlive it, and the dashboard; two models,
\* two levels of backoff.
CONSTANTS
    Requests = {r1}
    Models = {m1, m2}
    AllModels = AllModels
    NoModel = NoModel
    BaseCooldown = 1
    MaxBackoff = 2
    MaxLevel = 2
    MaxCooldown = 2
SPECIFICATION FairSpec
INVARIANTS TypeOK ActiveMeansUnlocked
PROPERTIES HealthRecovers
