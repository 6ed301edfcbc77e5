SPECIFICATION Spec
CONSTANTS
    Labels = {l1, l2}
    Requests = {r1, r2, r3}
    MaxBuilds = 3
INVARIANTS
    TypeOK
    OneContextPerLabel
    NoUseAfterClose
    ClosedOnceStopped
PROPERTIES
    RequestsAreAnswered
    ShutdownEnds
    ImplementsSharedInstances
CHECK_DEADLOCK FALSE
