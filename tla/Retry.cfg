SPECIFICATION FairSpec
CONSTANTS
    n1 = n1
    n2 = n2
    t1 = t1
    t2 = t2
    t3 = t3
    s1 = s1
    s2 = s2
    s3 = s3
    Node = {n1, n2}
    Task = {t1}
    Slot = {s1, s2}
    NULL = NULL
    LeaseTTL = 3
    RunCap = 3
    MinHeartbeat = 1
    Slack = 6
    MaxConcurrent = 1
    BatchSize = 1
    MaxRetries = 1
    RetryBase = 1
    RetryMax = 2
    Period = 2
    OneShot = {}
    Keyed = {t1}
    PayloadKeyed = {}
    Mortal = {n1}
    Faults = {"abort", "extend"}
INVARIANT FailedOnlyAfterBudget
INVARIANT ActiveIsScheduled
PROPERTY CompletedKeyNeverReruns
PROPERTY LeaseEndsWithItsRun
PROPERTY DueTaskServed
PROPERTY DeadLeaseFreed
