SPECIFICATION Spec
CONSTANTS
    w1 = w1
    w2 = w2
    w3 = w3
    m1 = m1
    m2 = m2
    v1 = v1
    v2 = v2
    e1 = e1
    e2 = e2
    e3 = e3
    NULL = NULL
    Worker = {w1, w2, w3}
    Msg = {m1}
    Workspace = {v1, v2}
    Letter = {e1, e2, e3}
    MaxAttempts = 2
    MaxDeliveries = 2
    MaxToggles = 2
SYMMETRY Alike
CHECK_DEADLOCK FALSE
INVARIANT BotInv
