SPECIFICATION Spec
CONSTANTS
    s1 = s1
    s2 = s2
    s3 = s3
    c1 = c1
    c2 = c2
    Sessions <- MCSessions3
    Requests <- MCRequests2
    MaxActive = 1
    QueueFactor = 1
    MinPoolSize = 1
    BatchSize = 2
    RetryLimit = 1
    Service = "query"
INVARIANT WaiterHasProvider
