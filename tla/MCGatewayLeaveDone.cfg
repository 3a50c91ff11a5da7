SPECIFICATION GatewaySpec
\* Every connection may be gone and every room over.
CHECK_DEADLOCK FALSE
CONSTANTS
    p1 = p1  p2 = p2  c1 = c1  c2 = c2  c3 = c3
    None = None
    Registry = Registry
    Teardown = Teardown
    Players = {p1}
    Conns = {c1}
    PlayerOf <- MCPlayerOf
    Tasks <- MCTasks
    Rooms = {r1, r2}
    max_players = 2
    CommandCapacity = 1
    EventCapacity = 1
    MaxCancels = 3
    MaxFrames = 5
    MaxSignals = 1
INVARIANT LeaveIsDone
