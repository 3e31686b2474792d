SPECIFICATION Spec
CONSTANTS
    q1 = q1
    q2 = q2
    q3 = q3
    a1 = a1
    a2 = a2
    v1 = v1
    v2 = v2
    NULL = NULL
    Req = {q1, q2}
    Coroutine = {a1}
    Conv = {v1}
    Replies <- Answers
    MaxIter = 1
    MaxGrants = 1
    RemembersAsk = TRUE
PROPERTY RemainingOnly
CHECK_DEADLOCK FALSE
