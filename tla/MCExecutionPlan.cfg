CONSTANT Node = {a, b, c}
SPECIFICATION PlanSpec
INVARIANT PlanTypeOK
INVARIANT VerdictRight
INVARIANT DependenciesFirst
INVARIANT ExactlyReachable
INVARIANT CycleVerdict
INVARIANT AcceptedIsOrdered
PROPERTY DetectionEnds
PROPERTY SearchEnds
CHECK_DEADLOCK FALSE
