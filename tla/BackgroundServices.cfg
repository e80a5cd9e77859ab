CONSTANTS
    Holders = {h1, h2, h3}
    MaxGeneration = 2
    QuotaModels = {m1, m2}
    QuotaRequests = {q1, q2}
    StrikeThreshold = 2
    StrikeWindow = 1
    StrikeBlock = 2
    RefreshInterval = 1
    MaxReset = 1
    BatchSize = 2
    MaxRecords = 2
    LogLimit = 5
    Procs = {p1}
    NoProc = NoProc
    Children = {k1, k2, k3}
    Sessions = {s1, s2}
    NoChild = NoChild
SPECIFICATION BackgroundServicesSpec
INVARIANTS
    BackgroundServicesTypeOK
    
    NoGhostBlock
    RecordsAreAccounted
    MarkerFollowsImport
    OnlyLateExitsOrphan
PROPERTIES
    RefreshIsSingleFlight
    BlocksAreEarned QuotaIsSingleFlight RefusalsAreJudged
    LogIsLedger BufferIsFlushed
    ImportSparesUsedData
CHECK_DEADLOCK FALSE
