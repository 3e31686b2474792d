SPECIFICATION RouteSpec
CONSTANTS
    n1 = n1
    n2 = n2
    t1 = t1
    t2 = t2
    s1 = s1
    s2 = s2
    s3 = s3
    c1 = c1
    c2 = c2
    Node = {n1}
    Task = {t1}
    Slot = {s1}
    NULL = NULL
    LeaseTTL = 1
    RunCap = 1
    MinHeartbeat = 1
    Slack = 0
    MaxConcurrent = 1
    BatchSize = 1
    MaxRetries = 0
    RetryBase = 1
    RetryMax = 2
    Period = 1
    OneShot = {}
    Keyed = {}
    PayloadKeyed = {}
    Mortal = {n1}
    Faults = {"abort", "persist", "restart"}
    Jobs <- AllJobs
    Client = {c1, c2}
    Op = {"pause", "cancel", "resume", "replay", "trigger", "delete"}
SYMMETRY Alike
INVARIANT NoForgottenLease
INVARIANT NeverStranded
PROPERTY CancelIsFinal
PROPERTY FailedIsFinal
INVARIANT RouteInv
