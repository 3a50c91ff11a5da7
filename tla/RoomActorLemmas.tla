--------------------------- MODULE RoomActorLemmas --------------------------
(***************************************************************************)
(* Lemmas for the proofs about RoomActor: what the aggregate and the sinks *)
(* return, the initial states and the steps of the environment, and the    *)
(* invariant taken room by room.                                           *)
(***************************************************************************)
EXTENDS RoomActor, FiniteSetTheorems, TLAPS

-----------------------------------------------------------------------------
(***************************************************************************)
(* The aggregate.                                                          *)
(***************************************************************************)

\* At least one player fits in a room.
LEMMA CapacityType == capacity \in Nat /\ capacity >= 1
  BY MaxPlayersAssumption DEF capacity

\* member_count counts: it is zero only for an empty room.
LEMMA CountType ==
    ASSUME NEW rm, IsFiniteSet(rm.members)
    PROVE  /\ member_count(rm) \in Nat
           /\ member_count(rm) = 0 <=> rm.members = {}
  BY FS_CardinalityType, FS_EmptySet DEF member_count

\* A join that succeeds keeps the room within its capacity.
LEMMA JoinedRoom ==
    ASSUME NEW rm \in RoomType, NEW p \in Players,
           IsFiniteSet(rm.members), member_count(rm) <= capacity
    PROVE  LET j == try_join(rm, p)
           IN  /\ j.room \in RoomType
               /\ IsFiniteSet(j.room.members)
               /\ member_count(j.room) <= capacity
               /\ j.room.state = rm.state
               /\ j.outcome = "new" => /\ p \notin rm.members
                                       /\ j.room.members = rm.members \cup {p}
               /\ j.outcome # "new" => j.room = rm
               /\ j.outcome \in {"new", "already", "RoomFull", "RoomClosed"}
               /\ j.outcome = "RoomClosed" <=> is_closed(rm)
               /\ j.outcome = "already" => p \in rm.members
               /\ ~is_closed(rm) => j.room.members # {}
  <1> DEFINE new == [members |-> rm.members \cup {p}, state |-> rm.state]
  <1>1. IsFiniteSet(rm.members \cup {p})
    BY FS_AddElement
  <1>2. p \notin rm.members => Cardinality(rm.members \cup {p}) = Cardinality(rm.members) + 1
    BY FS_AddElement, Zenon
  <1>3. Cardinality(rm.members) \in Nat
    BY FS_CardinalityType
  <1>4. Cardinality(rm.members) >= capacity => rm.members # {}
    BY FS_EmptySet, CapacityType
  <1>5. new \in RoomType
    BY DEF RoomType
  <1> QED
    BY <1>1, <1>2, <1>3, <1>4, <1>5, CapacityType
       DEF try_join, is_full, is_closed, member_count, RoomType, RoomState

\* A leave takes out the leaver and nobody else.
LEMMA LeftRoom ==
    ASSUME NEW rm \in RoomType, NEW p \in Players,
           IsFiniteSet(rm.members), member_count(rm) <= capacity
    PROVE  LET l == try_leave(rm, p)
           IN  /\ l.room \in RoomType
               /\ IsFiniteSet(l.room.members)
               /\ member_count(l.room) <= capacity
               /\ l.room.state = rm.state
               /\ l.outcome \in {"left", "absent", "RoomClosed"}
               /\ l.outcome = "RoomClosed" <=> is_closed(rm)
               /\ l.outcome = "left" => p \in rm.members
               /\ l.outcome = "absent" => p \notin rm.members
               /\ ~is_closed(rm) => l.room.members = rm.members \ {p}
  <1>1. IsFiniteSet(rm.members \ {p})
    BY FS_RemoveElement
  <1>2. Cardinality(rm.members \ {p}) =
           IF p \in rm.members THEN Cardinality(rm.members) - 1 ELSE Cardinality(rm.members)
    BY FS_RemoveElement, Zenon
  <1>3. Cardinality(rm.members) \in Nat
    BY FS_CardinalityType
  <1>4. Cardinality(rm.members \ {p}) <= capacity
    BY <1>2, <1>3, CapacityType DEF member_count
  <1> QED
    BY <1>1, <1>4, CapacityType
       DEF try_leave, is_closed, member_count, RoomType, RoomState

-----------------------------------------------------------------------------
(***************************************************************************)
(* Sinks.                                                                  *)
(***************************************************************************)

\* What a client knows stays a view.
LEMMA ObserveType ==
    ASSUME NEW v \in View, NEW self \in Players, NEW e, NEW p, NEW now \in SUBSET Players,
           p \in Players \/ e = "Closed"
    PROVE  observe(v, self, e, p, now) \in View
  BY DEF observe, view, View

\* try_send keeps the queue within its capacity.
LEMMA TrySendType ==
    ASSUME NEW s \in Sink, NEW r \in Rooms, NEW self \in Players, NEW e, NEW p,
           NEW now \in SUBSET Players, p \in Players \/ e = "Closed"
    PROVE  try_send(s, r, self, e, p, now) \in Sink
  <1>1. observe(s.view[r], self, e, p, now) \in View
    BY ObserveType DEF Sink
  <1>2. NoView \in [Rooms -> View]
    BY DEF NoView, view, View
  <1> QED
    BY <1>1, <1>2, RoomActorAssumptions DEF try_send, Sink

\* So does a broadcast, for every connection.
LEMMA BroadcastType ==
    ASSUME NEW sk \in [Conns -> Sink], NEW r \in Rooms, NEW ms, NEW e, NEW p,
           NEW now \in SUBSET Players, p \in Players \/ e = "Closed"
    PROVE  broadcast(sk, r, ms, e, p, now) \in [Conns -> Sink]
  BY TrySendType, RoomActorAssumptions DEF broadcast

\* finish too, whether or not it is the call that closes the room.
LEMMA FinishType ==
    ASSUME NEW sk \in [Conns -> Sink], NEW r \in Rooms, NEW ms, NEW rm
    PROVE  finish(sk, r, ms, rm) \in [Conns -> Sink]
  BY BroadcastType DEF finish

\* A broadcast reaches exactly the registered connections.  One that has not
\* failed afterwards had not failed before, and knows what it knew of every
\* other room, and of this room what the event tells it.
LEMMA BroadcastView ==
    ASSUME NEW sk \in [Conns -> Sink], NEW r \in Rooms, NEW ms, NEW e, NEW p,
           NEW now, NEW c \in Conns
    PROVE  LET b == broadcast(sk, r, ms, e, p, now)[c]
           IN  /\ ms[PlayerOf[c]] # c => b = sk[c]
               /\ ~b.failed => ~sk[c].failed
               /\ ~b.failed /\ ms[PlayerOf[c]] = c =>
                     b.view[r] = observe(sk[c].view[r], PlayerOf[c], e, p, now)
               /\ ~b.failed => \A q \in Rooms \ {r} : b.view[q] = sk[c].view[q]
  <1>1. CASE ms[PlayerOf[c]] # c
    <2>1. broadcast(sk, r, ms, e, p, now)[c] = sk[c]
      BY <1>1 DEF broadcast
    <2> QED
      BY <1>1, <2>1
  <1>2. CASE ms[PlayerOf[c]] = c
    <2> DEFINE b == try_send(sk[c], r, PlayerOf[c], e, p, now)
    <2>1. broadcast(sk, r, ms, e, p, now)[c] = b
      BY <1>2 DEF broadcast
    <2>2. sk[c] \in Sink
      OBVIOUS
    <2>3. ~b.failed => /\ ~sk[c].failed
                       /\ b.view = [sk[c].view EXCEPT ![r] =
                                      observe(@, PlayerOf[c], e, p, now)]
      BY <2>2, Zenon DEF try_send, Sink
    <2>4. sk[c].view \in [Rooms -> View]
      BY <2>2 DEF Sink
    <2> HIDE DEF b
    <2> QED
      BY <1>2, <2>1, <2>3, <2>4
  <1> QED
    BY <1>1, <1>2

-----------------------------------------------------------------------------
(***************************************************************************)
(* The initial states, and the steps of the environment.                   *)
(***************************************************************************)

\* RoomActor::spawn starts from blank rooms.
LEMMA InitInv == Init => IInv
  <1> SUFFICES ASSUME Init PROVE IInv
    OBVIOUS
  <1>1. open \in RoomType /\ open.members = {} /\ ~is_closed(open)
    BY DEF open, RoomType, RoomState, is_closed
  <1>2. NoView \in [Rooms -> View] /\ \A r \in Rooms : NoView[r].phase = "none"
    BY DEF NoView, view, View
  <1>3. NoMembers \in [Players -> Conns \cup {None}]
    BY DEF NoMembers
  <1>4. IsFiniteSet({}) /\ Cardinality({}) = 0
    BY FS_EmptySet
  <1>5. \A c \in Conns : PlayerOf[c] \in Players /\ c # None
    BY RoomActorAssumptions
  <1>6. TypeOK
    BY <1>1, <1>2, <1>3, RoomActorAssumptions
       DEF Init, TypeOK, ActorState, Reply, Sink, Holder
  <1>7. MembersAgree
    <2> SUFFICES ASSUME NEW r \in Rooms
                 PROVE  /\ \A p \in Players : p \notin room[r].members /\ members[r][p] = None
                        /\ member_count(room[r]) <= capacity
      BY DEF MembersAgree
    <2>1. room[r] = open /\ members[r] = NoMembers
      BY DEF Init
    <2>2. member_count(open) = 0
      BY <1>1, <1>4 DEF member_count
    <2> QED
      BY <1>1, <2>1, <2>2, CapacityType DEF NoMembers
  <1>8. OpenWhileRunning /\ FlagBeforeDrop /\ NoLostReply
    BY DEF Init, OpenWhileRunning, FlagBeforeDrop, NoLostReply
  <1>9. RosterExact
    BY <1>2, <1>5 DEF Init, RosterExact, NoMembers
  <1>10. Lifecycle
    BY <1>1, <1>2, <1>4, Zenon DEF Init, Lifecycle
  <1> QED
    BY <1>6, <1>7, <1>8, <1>9, <1>10 DEF IInv

\* A new room starts open, unflagged and empty.
LEMMA SpawnInv ==
    ASSUME IInv, NEW r \in Rooms, NEW t \in Tasks, Spawn(r, t)
    PROVE  IInv'
  <1>1. TypeOK'
    BY DEF IInv, TypeOK, Spawn, ActorState, Holder
  <1>2. room[r] = open /\ ~is_closed(open) /\ open.members = {}
    BY DEF IInv, Lifecycle, Spawn, open, is_closed
  <1>3. MembersAgree'
    BY DEF IInv, TypeOK, MembersAgree, Spawn
  <1>4. OpenWhileRunning'
    BY <1>2 DEF IInv, TypeOK, OpenWhileRunning, Lifecycle, Spawn
  <1>5. FlagBeforeDrop'
    BY DEF IInv, TypeOK, FlagBeforeDrop, Spawn
  <1>6. NoLostReply' /\ RosterExact'
    BY DEF IInv, NoLostReply, RosterExact, Spawn
  <1>7. Lifecycle'
    BY DEF IInv, TypeOK, Lifecycle, Spawn
  <1> QED
    BY <1>1, <1>3, <1>4, <1>5, <1>6, <1>7 DEF IInv

\* A command is queued only for a task that will take it or drop it.
LEMMA SendInv ==
    ASSUME IInv, NEW r \in Rooms, NEW t \in Tasks, NEW cmd \in RoomCommand,
           NEW keep \in BOOLEAN, Send(r, t, cmd, keep)
    PROVE  IInv'
  <1>0. commands[r] \in Seq(RoomCommand) /\ commands \in [Rooms -> Seq(RoomCommand)]
    BY DEF IInv, TypeOK
  <1>1. TypeOK'
    BY <1>0 DEF IInv, TypeOK, Send, Reply
  <1>2. MembersAgree' /\ OpenWhileRunning' /\ RosterExact'
    BY DEF IInv, MembersAgree, OpenWhileRunning, RosterExact, Send
  <1>3. FlagBeforeDrop'
    BY DEF IInv, TypeOK, FlagBeforeDrop, Send
  <1>4. NoLostReply'
    <2> SUFFICES ASSUME NEW u \in Tasks, reply'[u] = "waiting"
                 PROVE  \E q \in Rooms : \E i \in DOMAIN commands'[q] :
                           commands'[q][i].reply = u
      BY DEF NoLostReply
    <2>1. CASE u = t /\ cmd.reply = t
      <3>1. /\ Len(commands[r]) + 1 \in DOMAIN commands'[r]
            /\ commands'[r][Len(commands[r]) + 1] = cmd
        BY <1>0 DEF Send
      <3> QED
        BY <2>1, <3>1
    <2>2. CASE ~(u = t /\ cmd.reply = t)
      <3>1. reply[u] = "waiting"
        BY <2>2 DEF Send, IInv, TypeOK
      <3>2. PICK q \in Rooms : \E i \in DOMAIN commands[q] : commands[q][i].reply = u
        BY <3>1 DEF IInv, NoLostReply
      <3>3. PICK i \in DOMAIN commands[q] : commands[q][i].reply = u
        BY <3>2
      <3>4. i \in DOMAIN commands'[q] /\ commands'[q][i] = commands[q][i]
        BY <1>0 DEF Send
      <3> QED
        BY <3>3, <3>4
    <2> QED
      BY <2>1, <2>2
  <1>5. Lifecycle'
    BY <1>0 DEF IInv, TypeOK, Lifecycle, Send, CanSend
  <1> QED
    BY <1>1, <1>2, <1>3, <1>4, <1>5 DEF IInv

\* Handles and answers that were read change nothing the invariant speaks of.
LEMMA TouchInv ==
    ASSUME IInv, NEW t \in Tasks, Touch(t)
    PROVE  IInv'
  <1>1. TypeOK'
    BY Zenon DEF IInv, TypeOK, Touch, Reply
  <1>2. MembersAgree' /\ OpenWhileRunning' /\ RosterExact' /\ Lifecycle'
    BY DEF IInv, MembersAgree, OpenWhileRunning, RosterExact, Lifecycle, Touch
  <1>3. FlagBeforeDrop' /\ NoLostReply'
    BY DEF IInv, TypeOK, FlagBeforeDrop, NoLostReply, Touch
  <1> QED
    BY <1>1, <1>2, <1>3 DEF IInv

\* The reader of a sink never changes its flag or what was accepted.
LEMMA ReaderInv ==
    ASSUME IInv, NEW c \in Conns, Receive(c) \/ DropReceiver(c)
    PROVE  IInv'
  <1> DEFINE s == sink[c]
  <1>0. PICK n \in 0..EventCapacity, rx \in BOOLEAN :
           sink' = [sink EXCEPT ![c] = Queued(s, n, rx)]
    <2>1. s.queued \in 0..EventCapacity /\ s.rx \in BOOLEAN
      BY DEF IInv, TypeOK, Sink
    <2>2. CASE Receive(c)
      <3>1. s.queued - 1 \in 0..EventCapacity
        BY <2>1, <2>2, RoomActorAssumptions DEF Receive
      <3> QED
        BY <2>1, <2>2, <3>1, Zenon DEF Receive
    <2>3. CASE DropReceiver(c)
      <3>1. 0 \in 0..EventCapacity /\ FALSE \in BOOLEAN
        BY RoomActorAssumptions
      <3>2. sink' = [sink EXCEPT ![c] = Queued(s, 0, FALSE)]
        BY <2>3 DEF DropReceiver
      <3> QED
        BY <3>1, <3>2, Zenon
    <2> QED
      BY <2>2, <2>3
  <1>1. \A d \in Conns : /\ sink'[d] \in Sink
                         /\ sink'[d].failed = sink[d].failed
                         /\ sink'[d].view = sink[d].view
    BY <1>0 DEF IInv, TypeOK, Queued, Sink
  <1>2. sink' \in [Conns -> Sink]
    BY <1>1, Zenon DEF IInv, TypeOK, Receive, DropReceiver
  <1>3. UNCHANGED <<room, members, had_members, actor, closed, commands, holders, reply>>
    BY Zenon DEF Receive, DropReceiver
  <1>4. TypeOK'
    BY <1>2, <1>3 DEF IInv, TypeOK
  <1>5. MembersAgree' /\ OpenWhileRunning' /\ FlagBeforeDrop' /\ NoLostReply'
    BY <1>3 DEF IInv, MembersAgree, OpenWhileRunning, FlagBeforeDrop, NoLostReply
  <1>6. RosterExact' /\ Lifecycle'
    BY <1>1, <1>3 DEF IInv, RosterExact, Lifecycle
  <1> QED
    BY <1>4, <1>5, <1>6 DEF IInv

-----------------------------------------------------------------------------
(***************************************************************************)
(* The steps of a room's task.                                             *)
(***************************************************************************)

\* What the invariant says of what connection c knows of room r, ...
ViewInv(r, c) ==
    LET v == sink[c].view[r]
    IN  /\ v.phase # "bad"
        /\ v.phase = "over" => closed[r]
        /\ v.phase = "in" <=> members[r][PlayerOf[c]] = c /\ ~closed[r]
        /\ v.phase = "in" => v.roster = room[r].members

\* ... and of a single room.
RoomInv(r) ==
    /\ actor[r] # "stopped" =>
          \A p \in Players : p \in room[r].members <=> members[r][p] # None
    /\ \A p \in Players : members[r][p] # None => PlayerOf[members[r][p]] = p
    /\ member_count(room[r]) <= capacity
    /\ IsFiniteSet(room[r].members)
    /\ actor[r] = "running" => /\ ~is_closed(room[r])
                               /\ ~closed[r]
                               /\ had_members[r] <=> room[r].members # {}
    /\ actor[r] \in {"breaking", "stopped"} => closed[r]
    /\ closed[r] <=> is_closed(room[r])
    /\ actor[r] \in {"unborn", "stopped"} => commands[r] = <<>> /\ members[r] = NoMembers
    /\ actor[r] = "unborn" => room[r] = open /\ ~had_members[r]
    /\ \A c \in Conns : ~sink[c].failed => ViewInv(r, c)

\* No room is answered RoomClosed.
NeverRoomClosed == \A t \in Tasks : reply[t] # "RoomClosed"

\* A step that touches room r and no other; a connection that has not failed
\* afterwards had not failed before, and knows what it knew of other rooms.
OnlyRoom(r) ==
    /\ \A q \in Rooms \ {r} : /\ room'[q] = room[q]
                              /\ members'[q] = members[q]
                              /\ had_members'[q] = had_members[q]
                              /\ actor'[q] = actor[q]
                              /\ closed'[q] = closed[q]
                              /\ commands'[q] = commands[q]
    /\ \A c \in Conns : ~sink'[c].failed =>
          /\ ~sink[c].failed
          /\ \A q \in Rooms \ {r} : sink'[c].view[q] = sink[c].view[q]

\* The invariant is what it says of each room, and of the oneshots.
LEMMA ByRoom ==
    IInv <=> /\ TypeOK
             /\ NoLostReply
             /\ NeverRoomClosed
             /\ \A r \in Rooms : RoomInv(r)
  <1>1. ASSUME IInv
        PROVE  NeverRoomClosed /\ \A r \in Rooms : RoomInv(r)
    BY <1>1 DEF IInv, MembersAgree, OpenWhileRunning, FlagBeforeDrop, RosterExact, Lifecycle,
                NeverRoomClosed, RoomInv, ViewInv
  <1>2. ASSUME TypeOK, NoLostReply, NeverRoomClosed, \A r \in Rooms : RoomInv(r)
        PROVE  IInv
    <2>1. MembersAgree /\ OpenWhileRunning /\ FlagBeforeDrop
      BY <1>2 DEF MembersAgree, OpenWhileRunning, FlagBeforeDrop, NeverRoomClosed, RoomInv
    <2>2. RosterExact
      BY <1>2 DEF RosterExact, RoomInv, ViewInv
    <2>3. Lifecycle
      BY <1>2 DEF Lifecycle, RoomInv, ViewInv
    <2> QED
      BY <1>2, <2>1, <2>2, <2>3, Zenon DEF IInv
  <1> QED
    BY <1>1, <1>2, Zenon DEF IInv

\* A step of one room leaves the invariant of the others alone.
LEMMA OtherRooms ==
    ASSUME IInv, NEW r \in Rooms, OnlyRoom(r), RoomInv(r)',
           TypeOK', NoLostReply', NeverRoomClosed'
    PROVE  IInv'
  <1>1. ASSUME NEW q \in Rooms, q # r
        PROVE  RoomInv(q)'
    <2>1. RoomInv(q)
      BY ByRoom
    <2>2. /\ room'[q] = room[q]
          /\ members'[q] = members[q]
          /\ had_members'[q] = had_members[q]
          /\ actor'[q] = actor[q]
          /\ closed'[q] = closed[q]
          /\ commands'[q] = commands[q]
      BY <1>1, Zenon DEF OnlyRoom
    <2>3. ASSUME NEW c \in Conns, ~sink'[c].failed
          PROVE  ViewInv(q, c)'
      <3>1. ~sink[c].failed /\ sink'[c].view[q] = sink[c].view[q]
        BY <1>1, <2>3, Zenon DEF OnlyRoom
      <3>2. ViewInv(q, c)
        BY <2>1, <3>1, Zenon DEF RoomInv
      <3> QED
        BY <2>2, <3>1, <3>2 DEF ViewInv
    <2> QED
      BY <2>1, <2>2, <2>3, Zenon DEF RoomInv
  <1>2. \A q \in Rooms : RoomInv(q)'
    BY <1>1, Zenon
  <1>3. MembersAgree' /\ OpenWhileRunning' /\ FlagBeforeDrop'
    BY <1>2 DEF MembersAgree, OpenWhileRunning, FlagBeforeDrop, NeverRoomClosed, RoomInv
  <1>4. RosterExact'
    BY <1>2 DEF RosterExact, RoomInv, ViewInv
  <1>5. Lifecycle'
    BY <1>2 DEF Lifecycle, RoomInv, ViewInv
  <1> QED
    BY <1>3, <1>4, <1>5, Zenon DEF IInv

\* What a command carries depends on its type.
LEMMA CommandShape ==
    ASSUME NEW cmd \in RoomCommand
    PROVE  /\ cmd.type = "Join" => /\ cmd.sink \in Conns
                                   /\ cmd.player = PlayerOf[cmd.sink]
                                   /\ cmd.player \in Players
                                   /\ cmd.reply \in Tasks
           /\ cmd.type = "Leave" => cmd.player \in Players /\ cmd.reply \in Tasks
           /\ cmd.type \in {"Chat", "Unfit"} => cmd.player \in Players /\ cmd.reply = None
           /\ cmd.type = "Close" => cmd.reply = None
  BY RoomActorAssumptions DEF RoomCommand, Join, Leave, Chat, UnfitChat, Close

\* Taking a command strands nobody, if whoever waits for it gets an answer.
LEMMA TakenReply ==
    ASSUME IInv, NEW r \in Rooms, commands[r] # <<>>,
           commands' = [commands EXCEPT ![r] = Tail(@)],
           \A u \in Tasks : reply'[u] = "waiting" =>
               reply[u] = "waiting" /\ Head(commands[r]).reply # u
    PROVE  NoLostReply'
  <1> SUFFICES ASSUME NEW u \in Tasks, reply'[u] = "waiting"
               PROVE  \E q \in Rooms : \E i \in DOMAIN commands'[q] :
                         commands'[q][i].reply = u
    BY DEF NoLostReply
  <1>0. commands \in [Rooms -> Seq(RoomCommand)]
    BY DEF IInv, TypeOK
  <1>a. PICK q \in Rooms : \E i \in DOMAIN commands[q] : commands[q][i].reply = u
    BY DEF IInv, NoLostReply
  <1>1. PICK i \in DOMAIN commands[q] : commands[q][i].reply = u
    BY <1>a
  <1>2. CASE q # r
    BY <1>0, <1>1, <1>2
  <1>3. CASE q = r
    <2>1. i # 1
      BY <1>0, <1>1, <1>3
    <2>2. i - 1 \in DOMAIN Tail(commands[r]) /\ Tail(commands[r])[i - 1] = commands[r][i]
      BY <1>0, <1>1, <1>3, <2>1
    <2>3. commands'[r] = Tail(commands[r])
      BY <1>0
    <2> QED
      BY <1>1, <1>3, <2>2, <2>3
  <1> QED
    BY <1>2, <1>3

\* Closed turns the view of every registered connection to "over", and
\* finish sends it only while the room is open.
LEMMA FinishView ==
    ASSUME NEW sk \in [Conns -> Sink], NEW r \in Rooms, NEW ms, NEW rm, ~is_closed(rm),
           NEW c \in Conns
    PROVE  LET b == finish(sk, r, ms, rm)[c]
           IN  /\ ms[PlayerOf[c]] # c => b = sk[c]
               /\ ~b.failed => ~sk[c].failed
               /\ ~b.failed /\ ms[PlayerOf[c]] = c /\ sk[c].view[r].phase \in {"in", "out"}
                     => b.view[r] = view("over", {})
               /\ ~b.failed => \A q \in Rooms \ {r} : b.view[q] = sk[c].view[q]
  <1> DEFINE b == broadcast(sk, r, ms, "Closed", None, {})[c]
  <1>1. finish(sk, r, ms, rm)[c] = b
    BY DEF finish
  <1>2. /\ ms[PlayerOf[c]] # c => b = sk[c]
        /\ ~b.failed => ~sk[c].failed
        /\ ~b.failed /\ ms[PlayerOf[c]] = c =>
              b.view[r] = observe(sk[c].view[r], PlayerOf[c], "Closed", None, {})
        /\ ~b.failed => \A q \in Rooms \ {r} : b.view[q] = sk[c].view[q]
    BY BroadcastView
  <1>3. sk[c].view[r].phase \in {"in", "out"} =>
           observe(sk[c].view[r], PlayerOf[c], "Closed", None, {}) = view("over", {})
    BY DEF observe
  <1> HIDE DEF b
  <1> QED
    BY <1>1, <1>2, <1>3
=============================================================================
