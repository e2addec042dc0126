SPECIFICATION FairSpec
CONSTANTS
    Requests = {r1, r2, r3}
    Barrier = Barrier
    Nothing = Nothing
    QueueSize = 2
INVARIANTS NoSilentLoss CleanShutdown RequiredIsStored
PROPERTIES TrailSpec ShutdownEnds RequestsEnd
CHECK_DEADLOCK FALSE
