SPECIFICATION MCSpec
CONSTANTS
    Threads = {t1, t2}
    Services = {query, domain}
    NoService = NoService
    MaxConcurrent = 1
    MaxCalls = 3
    For = 2
    Threshold = 50
    MaxNow = 4
    Requests = {r1, r2}
    Inner = {"database"}
    SampleRatio = "some"
    NoSpan = NoSpan
    BufferSize = 1
    QueueSize = 2
SYMMETRY Symmetry
INVARIANTS PermitsExact RequestsAccounted FiresAfterWindow OvershootBounded
PROPERTIES DeliverySpec
CHECK_DEADLOCK FALSE
