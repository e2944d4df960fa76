SPECIFICATION Spec
CONSTANTS
    Peer = {p1, p2}
    Clerk = {c1}
    Nil = Nil
    MaxInstances = 2
    MaxCalls = 1
    p1 = p1
    c1 = c1
    p2 = p2
INVARIANTS
    AckedPersisted
    KilledSilent
PROPERTIES
    CallReturns
    HandlersEnd
CHECK_DEADLOCK FALSE
