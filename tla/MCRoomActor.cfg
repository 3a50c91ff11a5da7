SPECIFICATION Spec
\* Every room may be over and every receiver gone.
CHECK_DEADLOCK FALSE
CONSTANTS
    p1 = p1  p2 = p2  c1 = c1  c3 = c3  t1 = t1  t2 = t2
    None = None
    Registry = Registry
    Players <- MCPlayers
    Conns <- OnePerPlayer
    PlayerOf <- MCPlayerOf
    Tasks <- MCTasks
    Rooms = {r1}
    max_players = 2
    CommandCapacity = 2
    EventCapacity = 2
SYMMETRY TaskSymmetry
VIEW MCView
INVARIANTS MembersAgree OpenWhileRunning FlagBeforeDrop NoLostReply 
