SPECIFICATION NodeSpec
CONSTANTS
    n1 = n1
    n2 = n2
    t1 = t1
    t2 = t2
    s1 = s1
    s2 = s2
    s3 = s3
    Node = {n1, n2}
    Task = {t1}
    Slot = {s1}
    NULL = NULL
    LeaseTTL = 1
    RunCap = 1
    MinHeartbeat = 1
    Slack = 0
    MaxConcurrent = 1
    BatchSize = 1
    MaxRetries = 0
    RetryBase = 1
    RetryMax = 2
    Period = 1
    OneShot = {}
    Keyed = {t1}
    PayloadKeyed = {}
    Mortal = {n1, n2}
    Faults = {"abort", "persist", "raise", "restart"}
    Jobs <- AllJobs
SYMMETRY Alike
PROPERTY ForgottenLeaseRunsOut
