SPECIFICATION FairSpec
CONSTANTS
    NULL = NULL
    q1 = q1
    q2 = q2
    Req = {q1, q2}
    a1 = a1
    a2 = a2
    Actor = {a1, a2}
    Steps <- ThreeSteps
    Planned <- Kinds
    Graphs <- Shapes
    MaxConfirms = 1
    MaxFaults = 1
INVARIANT DependentsFollow
INVARIANT AppliesCovered
PROPERTY ApplyVerdict
PROPERTY StepsInTurn
PROPERTY ExecutingEnds
CHECK_DEADLOCK FALSE
INVARIANT PlanInv
