SPECIFICATION Spec
CONSTANTS
    a1 = a1
    a2 = a2
    r1 = r1
    r2 = r2
    f1 = f1
    f2 = f2
    f3 = f3
    v1 = v1
    v2 = v2
    NULL = NULL
    Actor = {a1, a2}
    Rec = {r1, r2}
    Fact = {f1, f2, f3}
    Value = {v1, v2}
    MaxUpserts = 3
    MaxAccess = 1
SYMMETRY Alike
PROPERTY SummaryKept
CHECK_DEADLOCK FALSE
INVARIANT MemoryInv
