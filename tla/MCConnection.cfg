SPECIFICATION ConnectionSpec
\* The loop returns, and all producers and the writer may be done.
CHECK_DEADLOCK FALSE
CONSTANTS
    None = None
    Items <- MCItems
    max_frame_size = 3
    unauth_timeout = 1
    heartbeat_timeout = 2
    per_second = 1
    burst = 2
    TicksPerSec = 2
    MaxItems = 3
    Chunks = {3}
    Events = {"Chat"}
    AppErrors = {"Internal"}
    Producers = {handler, translator}
    Capacity = 2
    MaxOffers = 4
INVARIANTS FramesPrefix RateExact BindOnceFirst RepliesPaired StreamPrefix
PROPERTIES ServedInTime  WriterEnds
