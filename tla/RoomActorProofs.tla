--------------------------- MODULE RoomActorProofs --------------------------
(***************************************************************************)
(* RoomActor's invariants hold for any number of rooms, players,           *)
(* connections and tasks, and any capacities: the handler of Leave, the    *)
(* end of the task, and the theorems.                                      *)
(***************************************************************************)
EXTENDS RoomActorHandlers

\* handle_leave: the leaver is told it left, the others lose it from their
\* roster; the last one out is told Closed as well.
LEMMA HandleLeaveInv ==
    ASSUME IInv, NEW r \in Rooms, actor[r] = "running", commands[r] # <<>>,
           commands' = [commands EXCEPT ![r] = Tail(@)], UNCHANGED holders,
           handle_leave(r, Head(commands[r]))
    PROVE  IInv'
  <1> DEFINE cmd == Head(commands[r])
             p == cmd.player
             l == try_leave(room[r], p)
             isLeft == l.outcome = "left"
             last == isLeft /\ Emptied(had_members[r], l.room)
             rm == IF last THEN close(l.room) ELSE l.room
             told == broadcast(sink, r, members[r], "MemberLeft", p, l.room.members)
             ms == IF isLeft THEN [members[r] EXCEPT ![p] = None] ELSE members[r]
  <1>1. TypeOK /\ RoomInv(r) /\ NeverRoomClosed
    BY ByRoom
  <1>2. cmd \in RoomCommand /\ Tail(commands[r]) \in Seq(RoomCommand)
    BY <1>1 DEF TypeOK
  <1>3. p \in Players /\ cmd.reply \in Tasks
    BY <1>2, CommandShape, Zenon DEF handle_leave
  <1>4. /\ room[r] \in RoomType /\ IsFiniteSet(room[r].members)
        /\ member_count(room[r]) <= capacity /\ ~is_closed(room[r]) /\ ~closed[r]
        /\ had_members[r] <=> room[r].members # {}
        /\ members[r] \in [Players -> Conns \cup {None}]
        /\ \A q \in Players : q \in room[r].members <=> members[r][q] # None
        /\ \A q \in Players : members[r][q] # None => PlayerOf[members[r][q]] = q
    BY <1>1 DEF TypeOK, RoomInv
  <1>5. /\ l.room \in RoomType /\ IsFiniteSet(l.room.members)
        /\ member_count(l.room) <= capacity
        /\ ~is_closed(l.room)
        /\ l.outcome \in {"left", "absent"}
        /\ isLeft <=> p \in room[r].members
        /\ l.room.members = room[r].members \ {p}
    BY <1>3, <1>4, LeftRoom DEF is_closed
  <1>6. Emptied(had_members[r], l.room) <=> had_members[r] /\ l.room.members = {}
    BY <1>5, CountType, Zenon DEF Emptied
  <1>7. /\ close(l.room) \in RoomType /\ is_closed(close(l.room))
        /\ close(l.room).members = l.room.members
        /\ member_count(close(l.room)) = member_count(l.room)
    BY <1>5, Zenon DEF RoomType, RoomState, close, is_closed, member_count
  <1>8. last <=> Emptied(had_members[r], rm)
    <2>1. Emptied(had_members[r], close(l.room)) <=> Emptied(had_members[r], l.room)
      BY <1>7 DEF Emptied
    <2>2. Emptied(had_members[r], l.room) => isLeft
      BY <1>4, <1>5, <1>6, Zenon
    <2> HIDE DEF l, isLeft
    <2> QED
      BY <2>1, <2>2
  <1>9. /\ room' = [room EXCEPT ![r] = rm]
        /\ sink' = IF last THEN finish(told, r, members[r], l.room)
                   ELSE IF isLeft THEN told ELSE sink
        /\ closed' = [closed EXCEPT ![r] = closed[r] \/ last]
        /\ members' = [members EXCEPT ![r] = ms]
        /\ reply' = Answer(reply, cmd.reply, l.outcome)
        /\ actor' = [actor EXCEPT ![r] = IF Emptied(had_members[r], rm)
                                         THEN "breaking" ELSE "running"]
        /\ had_members' = had_members
    BY Zenon DEF handle_leave, Continue
  <1>10. /\ isLeft => ms = [members[r] EXCEPT ![p] = None]
         /\ ~isLeft => ms = members[r]
         /\ last => rm = close(l.room)
         /\ ~last => rm = l.room
         /\ last <=> isLeft /\ l.room.members = {}
    BY <1>4, <1>5, <1>6, Zenon
  <1>11. /\ rm \in RoomType /\ IsFiniteSet(rm.members) /\ member_count(rm) <= capacity
         /\ rm.members = room[r].members \ {p}
         /\ is_closed(rm) <=> last
    BY <1>5, <1>7, <1>10, Zenon
  <1>12. \A u \in Tasks : /\ reply'[u] \in Reply \ {"RoomClosed"}
                          /\ reply'[u] = "waiting" => reply[u] = "waiting" /\ cmd.reply # u
    BY <1>1, <1>3, <1>5, <1>9, Zenon DEF NeverRoomClosed, TypeOK, Answer, Reply
  <1>13. sink \in [Conns -> Sink] /\ told \in [Conns -> Sink] /\ sink' \in [Conns -> Sink]
    <2>1. l.room.members \in SUBSET Players
      BY <1>5, Zenon DEF RoomType
    <2>2. sink \in [Conns -> Sink]
      BY <1>1 DEF TypeOK
    <2>3. told \in [Conns -> Sink]
      BY <1>3, <2>1, <2>2, BroadcastType
    <2> HIDE DEF told
    <2>4. finish(told, r, members[r], l.room) \in [Conns -> Sink]
      BY <2>3, FinishType
    <2> QED
      BY <1>9, <2>2, <2>3, <2>4, Zenon
  <1>14. \A c \in Conns : PlayerOf[c] \in Players /\ c # None
    BY RoomActorAssumptions
  <1> HIDE DEF cmd, p, l, isLeft, last, rm, ms
  <1>15. ms \in [Players -> Conns \cup {None}]
    BY <1>3, <1>4, <1>10
  <1>16. \A q \in Players : q \in rm.members <=> ms[q] # None
    BY <1>3, <1>4, <1>5, <1>10, <1>11
  <1>17. \A q \in Players : ms[q] # None => PlayerOf[ms[q]] = q
    BY <1>3, <1>4, <1>10
  <1>18. \A c \in Conns : ms[PlayerOf[c]] = c <=> /\ members[r][PlayerOf[c]] = c
                                                  /\ ~(isLeft /\ PlayerOf[c] = p)
    BY <1>3, <1>4, <1>10, <1>14
  <1>19. \A c \in Conns : ~told[c].failed =>
            /\ ~sink[c].failed
            /\ \A q \in Rooms \ {r} : told[c].view[q] = sink[c].view[q]
            /\ members[r][PlayerOf[c]] # c => told[c] = sink[c]
            /\ members[r][PlayerOf[c]] = c /\ PlayerOf[c] = p =>
                  told[c].view[r] = view("out", {})
            /\ members[r][PlayerOf[c]] = c /\ PlayerOf[c] # p =>
                  told[c].view[r] = view("in", room[r].members \ {p})
    <2> SUFFICES ASSUME NEW c \in Conns, ~told[c].failed
                 PROVE  /\ ~sink[c].failed
                        /\ \A q \in Rooms \ {r} : told[c].view[q] = sink[c].view[q]
                        /\ members[r][PlayerOf[c]] # c => told[c] = sink[c]
                        /\ members[r][PlayerOf[c]] = c /\ PlayerOf[c] = p =>
                              told[c].view[r] = view("out", {})
                        /\ members[r][PlayerOf[c]] = c /\ PlayerOf[c] # p =>
                              told[c].view[r] = view("in", room[r].members \ {p})
      BY Zenon
    <2> DEFINE w == sink[c].view[r]
    <2>1. /\ members[r][PlayerOf[c]] # c => told[c] = sink[c]
          /\ ~sink[c].failed
          /\ members[r][PlayerOf[c]] = c =>
                told[c].view[r] = observe(w, PlayerOf[c], "MemberLeft", p, l.room.members)
          /\ \A q \in Rooms \ {r} : told[c].view[q] = sink[c].view[q]
      BY <1>13, BroadcastView
    <2>2. members[r][PlayerOf[c]] = c => w.phase = "in" /\ w.roster = room[r].members
      BY <1>1, <1>4, <2>1, Zenon DEF RoomInv, ViewInv
    <2> HIDE DEF w, told
    <2>3. members[r][PlayerOf[c]] = c /\ PlayerOf[c] = p => told[c].view[r] = view("out", {})
      BY <2>1, <2>2 DEF observe
    <2>4. members[r][PlayerOf[c]] = c /\ PlayerOf[c] # p =>
             told[c].view[r] = view("in", room[r].members \ {p})
      BY <2>1, <2>2, Zenon DEF observe
    <2> QED
      BY <2>1, <2>3, <2>4
  <1> HIDE DEF told
  <1>20. \A c \in Conns : ~sink'[c].failed =>
            /\ ~sink[c].failed
            /\ \A q \in Rooms \ {r} : sink'[c].view[q] = sink[c].view[q]
            /\ sink'[c].view[r].phase # "bad"
            /\ sink'[c].view[r].phase = "over" => last
            /\ sink'[c].view[r].phase = "in" <=> ms[PlayerOf[c]] = c /\ ~last
            /\ sink'[c].view[r].phase = "in" => sink'[c].view[r].roster = rm.members
    <2> SUFFICES ASSUME NEW c \in Conns, ~sink'[c].failed
                 PROVE  /\ ~sink[c].failed
                        /\ \A q \in Rooms \ {r} : sink'[c].view[q] = sink[c].view[q]
                        /\ sink'[c].view[r].phase # "bad"
                        /\ sink'[c].view[r].phase = "over" => last
                        /\ sink'[c].view[r].phase = "in" <=> ms[PlayerOf[c]] = c /\ ~last
                        /\ sink'[c].view[r].phase = "in" =>
                              sink'[c].view[r].roster = rm.members
      OBVIOUS
    <2>1. ~sink[c].failed =>
             /\ sink[c].view[r].phase \notin {"bad", "over"}
             /\ sink[c].view[r].phase = "in" <=> members[r][PlayerOf[c]] = c
             /\ sink[c].view[r].phase = "in" => sink[c].view[r].roster = room[r].members
      BY <1>1, <1>4 DEF RoomInv, ViewInv
    <2>2. CASE ~isLeft
      <3>1. sink' = sink /\ ms = members[r] /\ ~last /\ room[r].members = rm.members
        BY <1>5, <1>9, <1>10, <1>11, <2>2
      <3> QED
        BY <2>1, <3>1
    <2>3. CASE isLeft /\ ~last
      <3>1. sink' = told
        BY <1>9, <2>3
      <3> QED
        BY <1>11, <1>18, <1>19, <2>1, <2>3, <3>1 DEF view
    <2>4. CASE last
      <3>1. sink' = finish(told, r, members[r], l.room)
        BY <1>9, <2>4
      <3>2. /\ members[r][PlayerOf[c]] # c => sink'[c] = told[c]
            /\ ~told[c].failed
            /\ members[r][PlayerOf[c]] = c /\ told[c].view[r].phase \in {"in", "out"}
                  => sink'[c].view[r] = view("over", {})
            /\ \A q \in Rooms \ {r} : sink'[c].view[q] = told[c].view[q]
        BY <1>5, <1>13, <3>1, FinishView
      <3>3. members[r][PlayerOf[c]] = c => told[c].view[r].phase = "out"
        BY <1>4, <1>5, <1>10, <1>14, <1>19, <2>4, <3>2 DEF view
      <3> QED
        BY <1>19, <2>1, <2>4, <3>2, <3>3 DEF view
    <2> QED
      BY <2>2, <2>3, <2>4
  <1>21. /\ room'[r] = rm /\ members'[r] = ms /\ had_members' = had_members
         /\ closed'[r] <=> last
         /\ actor'[r] = IF last THEN "breaking" ELSE "running"
    BY <1>1, <1>4, <1>8, <1>9, Zenon DEF TypeOK
  <1>22. RoomInv(r)'
    <2>1. \A c \in Conns : ~sink'[c].failed => ViewInv(r, c)'
      BY <1>20, <1>21 DEF ViewInv
    <2>2. ~last => (had_members[r] <=> rm.members # {})
      BY <1>4, <1>5, <1>10, <1>11
    <2> QED
      BY <1>11, <1>16, <1>17, <1>21, <2>1, <2>2, Zenon DEF RoomInv
  <1>23. OnlyRoom(r)
    BY <1>1, <1>9, <1>20, Zenon DEF TypeOK, OnlyRoom
  <1>24. TypeOK'
    <2>1. reply' \in [Tasks -> Reply]
      BY <1>1, <1>9, <1>12, Zenon DEF TypeOK, Answer
    <2>2. closed' \in [Rooms -> BOOLEAN]
      BY <1>1, <1>9 DEF TypeOK
    <2>3. actor' \in [Rooms -> ActorState]
      BY <1>1, <1>9 DEF TypeOK, ActorState
    <2> QED
      BY <1>1, <1>2, <1>9, <1>11, <1>13, <1>15, <2>1, <2>2, <2>3 DEF TypeOK
  <1>25. NoLostReply'
    BY <1>12, TakenReply, Zenon DEF cmd
  <1>26. NeverRoomClosed'
    BY <1>12 DEF NeverRoomClosed
  <1> QED
    BY <1>22, <1>23, <1>24, <1>25, <1>26, OtherRooms

\* The end of run: nobody is told Closed twice, whoever is still waiting for
\* the room finds its oneshot dropped, and finds the flag up.
LEMMA StopInv ==
    ASSUME IInv, NEW r \in Rooms, actor[r] \in {"running", "breaking"}, Stop(r)
    PROVE  IInv'
  <1> DEFINE orphaned == {commands[r][i].reply : i \in DOMAIN commands[r]}
  <1>1. TypeOK /\ RoomInv(r) /\ NeverRoomClosed
    BY ByRoom
  <1>2. /\ room' = [room EXCEPT ![r] = close(room[r])]
        /\ sink' = finish(sink, r, members[r], room[r])
        /\ closed' = [closed EXCEPT ![r] = TRUE]
        /\ actor' = [actor EXCEPT ![r] = "stopped"]
        /\ members' = [members EXCEPT ![r] = NoMembers]
        /\ commands' = [commands EXCEPT ![r] = <<>>]
        /\ reply' = [t \in Tasks |-> IF t \in orphaned /\ reply[t] = "waiting"
                                     THEN "dropped" ELSE reply[t]]
        /\ UNCHANGED <<had_members, holders>>
    BY DEF Stop
  <1>3. /\ close(room[r]) \in RoomType /\ is_closed(close(room[r]))
        /\ close(room[r]).members = room[r].members
        /\ member_count(close(room[r])) = member_count(room[r])
    BY <1>1 DEF TypeOK, RoomType, RoomState, close, is_closed, member_count
  <1>4. sink \in [Conns -> Sink] /\ sink' \in [Conns -> Sink]
    BY <1>1, <1>2, FinishType, Zenon DEF TypeOK
  <1>5. NoMembers \in [Players -> Conns \cup {None}]
        /\ \A c \in Conns : NoMembers[PlayerOf[c]] # c
        /\ \A p \in Players : NoMembers[p] = None
    BY RoomActorAssumptions DEF NoMembers
  <1>6. \A c \in Conns : ~sink'[c].failed =>
            /\ ~sink[c].failed
            /\ \A q \in Rooms \ {r} : sink'[c].view[q] = sink[c].view[q]
            /\ sink'[c].view[r].phase \notin {"bad", "in"}
    <2> SUFFICES ASSUME NEW c \in Conns, ~sink'[c].failed
                 PROVE  /\ ~sink[c].failed
                        /\ \A q \in Rooms \ {r} : sink'[c].view[q] = sink[c].view[q]
                        /\ sink'[c].view[r].phase \notin {"bad", "in"}
      OBVIOUS
    <2>1. ~sink[c].failed =>
             /\ sink[c].view[r].phase # "bad"
             /\ sink[c].view[r].phase = "in" <=> members[r][PlayerOf[c]] = c /\ ~closed[r]
      BY <1>1 DEF RoomInv, ViewInv
    <2>2. closed[r] <=> is_closed(room[r])
      BY <1>1 DEF RoomInv
    <2>3. CASE is_closed(room[r])
      <3>1. sink' = sink
        BY <1>2, <2>3 DEF finish
      <3> QED
        BY <2>1, <2>2, <2>3, <3>1
    <2>4. CASE ~is_closed(room[r])
      <3>1. /\ members[r][PlayerOf[c]] # c => sink'[c] = sink[c]
            /\ ~sink[c].failed
            /\ members[r][PlayerOf[c]] = c /\ sink[c].view[r].phase \in {"in", "out"}
                  => sink'[c].view[r] = view("over", {})
            /\ \A q \in Rooms \ {r} : sink'[c].view[q] = sink[c].view[q]
        BY <1>2, <1>4, <2>4, FinishView
      <3>2. view("over", {}).phase = "over"
        BY DEF view
      <3> QED
        BY <2>1, <2>2, <2>4, <3>1, <3>2
    <2> QED
      BY <2>3, <2>4
  <1>7. /\ room'[r] = close(room[r]) /\ closed'[r] = TRUE /\ actor'[r] = "stopped"
        /\ members'[r] = NoMembers /\ commands'[r] = <<>>
    BY <1>1, <1>2 DEF TypeOK
  <1>8. RoomInv(r)'
    <2>1. \A c \in Conns : ~sink'[c].failed => ViewInv(r, c)'
      BY <1>5, <1>6, <1>7 DEF ViewInv
    <2> QED
      BY <1>1, <1>3, <1>5, <1>7, <2>1 DEF RoomInv
  <1>9. OnlyRoom(r)
    BY <1>1, <1>2, <1>6 DEF TypeOK, OnlyRoom
  <1>10. TypeOK'
    <2>1. reply' \in [Tasks -> Reply]
      BY <1>1, <1>2 DEF TypeOK, Reply
    <2>2. <<>> \in Seq(RoomCommand)
      OBVIOUS
    <2> QED
      BY <1>1, <1>2, <1>3, <1>4, <1>5, <2>1, <2>2 DEF TypeOK, ActorState
  <1>11. NoLostReply'
    <2> SUFFICES ASSUME NEW u \in Tasks, reply'[u] = "waiting"
                 PROVE  \E q \in Rooms : \E i \in DOMAIN commands'[q] :
                           commands'[q][i].reply = u
      BY DEF NoLostReply
    <2>1. reply[u] = "waiting" /\ u \notin orphaned
      BY <1>2
    <2>2. PICK q \in Rooms : \E i \in DOMAIN commands[q] : commands[q][i].reply = u
      BY <2>1 DEF IInv, NoLostReply
    <2>3. q # r
      BY <2>1, <2>2
    <2>4. commands'[q] = commands[q]
      BY <1>1, <1>2, <2>3 DEF TypeOK
    <2> QED
      BY <2>2, <2>4
  <1>12. NeverRoomClosed'
    BY <1>1, <1>2 DEF NeverRoomClosed
  <1> QED
    BY <1>8, <1>9, <1>10, <1>11, <1>12, OtherRooms

-----------------------------------------------------------------------------
(***************************************************************************)
(* The invariant.                                                          *)
(***************************************************************************)

\* Every step, of a room or of its environment, keeps the invariant.
LEMMA NextInv == IInv /\ [Next]_actorVars => IInv'
  <1> SUFFICES ASSUME IInv, [Next]_actorVars
               PROVE  IInv'
    OBVIOUS
  <1>1. ASSUME NEW r \in Rooms, Handle(r)
        PROVE  IInv'
    BY <1>1, HandleJoinInv, HandleChatInv, HandleLeaveInv, HandleCloseInv, Zenon DEF Handle
  <1>2. ASSUME NEW r \in Rooms, Break(r) \/ Disconnect(r)
        PROVE  IInv'
    BY <1>2, StopInv DEF Break, Disconnect
  <1>3. ASSUME NEW r \in Rooms, NEW t \in Tasks, Spawn(r, t)
        PROVE  IInv'
    BY <1>3, SpawnInv
  <1>4. ASSUME NEW r \in Rooms, NEW t \in Tasks, NEW cmd \in RoomCommand,
               NEW keep \in BOOLEAN, Send(r, t, cmd, keep)
        PROVE  IInv'
    BY <1>4, SendInv
  <1>5. ASSUME NEW t \in Tasks, Touch(t)
        PROVE  IInv'
    BY <1>5, TouchInv
  <1>6. ASSUME NEW c \in Conns, Receive(c) \/ DropReceiver(c)
        PROVE  IInv'
    BY <1>6, ReaderInv
  <1>7. CASE UNCHANGED actorVars
    <2>1. UNCHANGED <<room, members, had_members, actor, closed, commands>>
          /\ UNCHANGED <<holders, reply, sink>>
      BY <1>7 DEF actorVars
    <2>2. TypeOK'
      BY <2>1 DEF IInv, TypeOK
    <2>3. MembersAgree' /\ OpenWhileRunning' /\ FlagBeforeDrop' /\ NoLostReply'
      BY <2>1 DEF IInv, MembersAgree, OpenWhileRunning, FlagBeforeDrop, NoLostReply
    <2>4. RosterExact' /\ Lifecycle'
      BY <2>1 DEF IInv, RosterExact, Lifecycle
    <2> QED
      BY <2>2, <2>3, <2>4, Zenon DEF IInv
  <1>8. CASE \E r \in Rooms : ActorStep(r)
    BY <1>1, <1>2, <1>8, Zenon DEF ActorStep
  <1>9. CASE \E r \in Rooms, t \in Tasks : Spawn(r, t)
    BY <1>3, <1>9, Zenon
  <1>10. CASE \E r \in Rooms, t \in Tasks, cmd \in RoomCommand, keep \in BOOLEAN :
                 Send(r, t, cmd, keep)
    BY <1>4, <1>10, Zenon
  <1>11. CASE \E t \in Tasks : Touch(t)
    BY <1>5, <1>11, Zenon
  <1>12. CASE \E c \in Conns : Receive(c) \/ DropReceiver(c)
    BY <1>6, <1>12, Zenon
  <1> QED
    BY <1>7, <1>8, <1>9, <1>10, <1>11, <1>12, Zenon DEF Next

\* The inductive invariant holds in every reachable state.
THEOREM Invariance == Spec => []IInv
  <1>1. Init => IInv
    BY InitInv
  <1>2. IInv /\ [Next]_actorVars => IInv'
    BY NextInv
  <1> QED
    BY <1>1, <1>2, PTL DEF Spec

\* The room's state is well typed: queues stay within their capacities.
THEOREM TypeCorrect == Spec => []TypeOK
  <1>1. IInv => TypeOK
    BY DEF IInv
  <1> QED
    BY <1>1, Invariance, PTL

\* The aggregate's members and the registered sinks agree, within capacity.
THEOREM MembersCorrect == Spec => []MembersAgree
  <1>1. IInv => MembersAgree
    BY DEF IInv
  <1> QED
    BY <1>1, Invariance, PTL

\* No command is ever handled by a closed room.
THEOREM OpenCorrect == Spec => []OpenWhileRunning
  <1>1. IInv => OpenWhileRunning
    BY DEF IInv
  <1> QED
    BY <1>1, Invariance, PTL

\* The closed flag is up before the channel or a oneshot is dropped, so leave
\* never takes a finished room for a failed one.
THEOREM FlagCorrect == Spec => []FlagBeforeDrop
  <1>1. IInv => FlagBeforeDrop
    BY DEF IInv
  <1> QED
    BY <1>1, Invariance, PTL

\* No awaited oneshot is stranded.
THEOREM ReplyCorrect == Spec => []NoLostReply
  <1>1. IInv => NoLostReply
    BY DEF IInv
  <1> QED
    BY <1>1, Invariance, PTL

\* The events a client has been sent tell it exactly who is in the room.
THEOREM RosterCorrect == Spec => []RosterExact
  <1>1. IInv => RosterExact
    BY DEF IInv
  <1> QED
    BY <1>1, Invariance, PTL
=============================================================================
