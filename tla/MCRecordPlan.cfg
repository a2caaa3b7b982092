CONSTANTS
    a = a
    b = b
    x = x
    com = com
    u1 = u1
    Label <- MCLabel
    San <- MCSan
    Ours = u1
SPECIFICATION Spec
INVARIANTS
    PlanCoversEveryName
    PlanIsMinimal
    CoversAddUp
\* Once every name has been read, nothing is left to do.
CHECK_DEADLOCK FALSE
