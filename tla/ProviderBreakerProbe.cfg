\* As ProviderBreaker.cfg: is every probe decided?
CONSTANTS
    FailureThreshold = 2
    DegradationThreshold = 1
    FailureWindow = 1
    ResetTimeout = 1
    HalfOpenRequests = 1
    MaxBackoffMultiplier = 2
    BackoffEscalationCount = 1
    DedupWindow = 1
    c1 = c1
    c2 = c2
    direct = direct
    proxy = proxy
    NoConnection = NoConnection
    Requests = {r1, r2}
    Connections = {c1}
    ProxyBuckets = {proxy}
    BucketOf <- OneBucket
SPECIFICATION FairSpec
PROPERTIES ProbeIsDecided
