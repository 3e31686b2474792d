SPECIFICATION Spec
CONSTANTS
    n1 = n1
    n2 = n2
    t1 = t1
    t2 = t2
    t3 = t3
    s1 = s1
    s2 = s2
    s3 = s3
    Node = {n1, n2}
    Task = {t1, t2}
    Slot = {s1, s2}
    NULL = NULL
    LeaseTTL = 4
    RunCap = 1
    MinHeartbeat = 1
    Slack = 1
    MaxConcurrent = 2
    BatchSize = 2
    MaxRetries = 0
    RetryBase = 1
    RetryMax = 2
    Period = 1
    OneShot = {t2}
    Keyed = {}
    PayloadKeyed = {}
    Mortal = {n1, n2}
    Faults = {"abort", "restart"}
SYMMETRY Alike
INVARIANT DispatcherInv
INVARIANT ExclusiveRuns
PROPERTY OneHandAtATime
