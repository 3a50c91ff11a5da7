SPECIFICATION FairServiceSpec
CONSTANTS
    p1 = p1  p2 = p2  c1 = c1  c3 = c3  t1 = t1  t2 = t2
    None = None
    Registry = Registry
    Players = {p1}
    Conns = {c1}
    PlayerOf <- MCPlayerOf
    Tasks = {t1, t2}
    Rooms = {r1}
    max_players = 2
    CommandCapacity = 1
    EventCapacity = 1
    MaxCancels = 1
PROPERTIES UnheldRoomEnds CallsReturn
