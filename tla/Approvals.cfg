SPECIFICATION Spec
CONSTANTS
    q1 = q1
    q2 = q2
    q3 = q3
    a1 = a1
    a2 = a2
    v1 = v1
    v2 = v2
    NULL = NULL
    Req = {q1, q2}
    Coroutine = {a1, a2}
    Conv = {v1, v2}
    Replies <- Answers
    MaxIter = 1
    MaxGrants = 1
    RemembersAsk = TRUE
INVARIANT NoUnapprovedCall
INVARIANT UsesCovered
INVARIANT SnapshotIsOwn
CHECK_DEADLOCK FALSE
SYMMETRY Alike
INVARIANT ApprovalInv
