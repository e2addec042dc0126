SPECIFICATION Spec
CONSTANTS
    Requests = {r1, r2}
    Barrier = Barrier
    Nothing = Nothing
    QueueSize = 2
INVARIANT TailIsStored
CHECK_DEADLOCK FALSE
