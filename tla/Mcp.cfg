SPECIFICATION Spec
CONSTANTS
    c1 = c1
    c2 = c2
    p1 = p1
    p2 = p2
    p3 = p3
    l1 = l1
    l2 = l2
    NULL = NULL
    Caller = {c1, c2}
    Proc = {p1, p2, p3}
    Lock = {l1, l2}
    MaxVersion = 2
    MaxRequests = 2
SYMMETRY Alike
INVARIANT AnswersMatch
CHECK_DEADLOCK FALSE
INVARIANT McpInv
