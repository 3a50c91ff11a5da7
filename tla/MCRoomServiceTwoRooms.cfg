SPECIFICATION ServiceSpec
CONSTANTS
    p1 = p1  p2 = p2  c1 = c1  c3 = c3  t1 = t1  t2 = t2
    None = None
    Registry = Registry
    Players = {p1}
    Conns = {c1}
    PlayerOf <- MCPlayerOf
    Tasks = {t1, t2}
    Rooms = {r1, r2}
    max_players = 2
    CommandCapacity = 1
    EventCapacity = 2
    MaxCancels = 1
SYMMETRY TaskSymmetry
VIEW SinklessView
INVARIANTS LeaveNeverFails NoLostRoom ClosedRoomUnlisted EmptyRoomHasCreator
PROPERTY Spec
