-------------------------- MODULE RoomActorHandlers -------------------------
(***************************************************************************)
(* The room task's handlers of Join, Chat and Close preserve the invariant *)
(* of RoomActor.                                                           *)
(***************************************************************************)
EXTENDS RoomActorLemmas

\* handle_join: the joiner learns the roster, the others learn the joiner.
LEMMA HandleJoinInv ==
    ASSUME IInv, NEW r \in Rooms, actor[r] = "running", commands[r] # <<>>,
           commands' = [commands EXCEPT ![r] = Tail(@)], UNCHANGED holders,
           handle_join(r, Head(commands[r]))
    PROVE  IInv'
  <1> DEFINE cmd == Head(commands[r])
             p == cmd.player
             j == try_join(room[r], p)
             isNew == j.outcome = "new"
             ms == IF isNew THEN [members[r] EXCEPT ![p] = cmd.sink] ELSE members[r]
             had == had_members[r] \/ isNew
  <1>1. TypeOK
    BY DEF IInv
  <1>2. cmd \in RoomCommand /\ Tail(commands[r]) \in Seq(RoomCommand)
    BY <1>1 DEF TypeOK
  <1>3. /\ cmd.sink \in Conns /\ p = PlayerOf[cmd.sink] /\ p \in Players
        /\ cmd.reply \in Tasks
    BY <1>2, CommandShape, Zenon DEF handle_join
  <1>4. /\ room[r] \in RoomType /\ IsFiniteSet(room[r].members)
        /\ member_count(room[r]) <= capacity /\ ~is_closed(room[r]) /\ ~closed[r]
        /\ had_members[r] <=> room[r].members # {}
    BY <1>1, ByRoom DEF TypeOK, RoomInv
  <1>5. /\ j.room \in RoomType
        /\ IsFiniteSet(j.room.members)
        /\ member_count(j.room) <= capacity
        /\ j.room.state = room[r].state
        /\ isNew => p \notin room[r].members /\ j.room.members = room[r].members \cup {p}
        /\ ~isNew => j.room = room[r]
        /\ j.outcome \in {"new", "already", "RoomFull"}
        /\ j.room.members # {}
    BY <1>3, <1>4, JoinedRoom, Zenon
  <1>6. ~Emptied(had, j.room)
    BY <1>5, CountType, Zenon DEF Emptied
  <1>7. /\ room' = [room EXCEPT ![r] = j.room]
        /\ members' = [members EXCEPT ![r] = ms]
        /\ had_members' = [had_members EXCEPT ![r] = had]
        /\ reply' = Answer(reply, cmd.reply, IF j.outcome \in {"new", "already"}
                                             THEN "joined" ELSE j.outcome)
        /\ sink' = IF isNew THEN broadcast(sink, r, ms, "MemberJoined", p, j.room.members)
                            ELSE sink
        /\ actor' = actor
        /\ closed' = closed
    BY <1>1, <1>6, Zenon DEF handle_join, Continue, TypeOK
  <1>d. closed' = closed /\ actor' = actor
    BY <1>7
  <1>8. j.room.members \in SUBSET Players
    BY <1>5, Zenon DEF RoomType
  <1>a. /\ isNew => ms = [members[r] EXCEPT ![p] = cmd.sink]
        /\ ~isNew => ms = members[r]
    OBVIOUS
  <1>b. /\ members[r] \in [Players -> Conns \cup {None}]
        /\ \A q \in Players : q \in room[r].members <=> members[r][q] # None
        /\ \A q \in Players : members[r][q] # None => PlayerOf[members[r][q]] = q
    BY <1>1, Zenon DEF IInv, TypeOK, MembersAgree
  <1>c. cmd.sink # None /\ \A c \in Conns : PlayerOf[c] \in Players /\ c # None
    BY <1>3, RoomActorAssumptions
  <1> HIDE DEF ms, j, had, isNew, p, cmd
  <1>9. ms \in [Players -> Conns \cup {None}]
    BY <1>3, <1>a, <1>b
  <1>10. \A q \in Players : (q \in j.room.members <=> ms[q] # None)
    BY <1>3, <1>5, <1>a, <1>b, <1>c
  <1>11. \A q \in Players : ms[q] # None => PlayerOf[ms[q]] = q
    BY <1>3, <1>a, <1>b
  <1>12. had <=> j.room.members # {}
    BY <1>4, <1>5 DEF had
  <1>13. ~is_closed(j.room)
    BY <1>4, <1>5 DEF is_closed
  <1>14. \A u \in Tasks : /\ reply'[u] \in Reply \ {"RoomClosed"}
                          /\ reply'[u] = "waiting" => reply[u] = "waiting" /\ cmd.reply # u
    BY <1>1, <1>3, <1>5, <1>7 DEF IInv, FlagBeforeDrop, TypeOK, Answer, Reply
  <1>15. sink' \in [Conns -> Sink]
    BY <1>1, <1>3, <1>7, <1>8, BroadcastType, Zenon DEF TypeOK
  <1>16. \A c \in Conns : ms[PlayerOf[c]] = c /\ members[r][PlayerOf[c]] # c
                            => isNew /\ PlayerOf[c] = p
    BY <1>3, <1>a, <1>b, <1>c
  <1>17. \A c \in Conns : members[r][PlayerOf[c]] = c => ms[PlayerOf[c]] = c
    BY <1>3, <1>5, <1>a, <1>b, <1>c
  <1>18. \A c \in Conns : ~sink'[c].failed =>
            /\ ~sink[c].failed
            /\ \A q \in Rooms \ {r} : sink'[c].view[q] = sink[c].view[q]
            /\ LET v == sink'[c].view[r]
               IN  /\ v.phase \notin {"bad", "over"}
                   /\ v.phase = "in" <=> ms[PlayerOf[c]] = c
                   /\ v.phase = "in" => v.roster = j.room.members
    <2> SUFFICES ASSUME NEW c \in Conns, ~sink'[c].failed
                 PROVE  /\ ~sink[c].failed
                        /\ \A q \in Rooms \ {r} : sink'[c].view[q] = sink[c].view[q]
                        /\ LET v == sink'[c].view[r]
                           IN  /\ v.phase \notin {"bad", "over"}
                               /\ v.phase = "in" <=> ms[PlayerOf[c]] = c
                               /\ v.phase = "in" => v.roster = j.room.members
      OBVIOUS
    <2> DEFINE w == sink[c].view[r]
    <2>1. ~sink[c].failed => /\ w \in View
                             /\ w.phase \notin {"bad", "over"}
                             /\ w.phase = "in" <=> members[r][PlayerOf[c]] = c
                             /\ w.phase = "in" => w.roster = room[r].members
      BY <1>1, <1>4 DEF IInv, TypeOK, Sink, RosterExact, Lifecycle
    <2>2. CASE ~isNew
      <3>1. sink' = sink /\ ms = members[r] /\ j.room = room[r]
        BY <1>5, <1>7, <1>a, <2>2
      <3> QED
        BY <2>1, <3>1
    <2>3. CASE isNew
      <3>1. sink' = broadcast(sink, r, ms, "MemberJoined", p, j.room.members)
        BY <1>7, <2>3
      <3>2. sink \in [Conns -> Sink]
        BY <1>1 DEF TypeOK
      <3> HIDE DEF w
      <3>3. /\ ms[PlayerOf[c]] # c => sink'[c] = sink[c]
            /\ ~sink[c].failed
            /\ ms[PlayerOf[c]] = c =>
                  sink'[c].view[r] = observe(w, PlayerOf[c], "MemberJoined", p, j.room.members)
            /\ \A q \in Rooms \ {r} : sink'[c].view[q] = sink[c].view[q]
        BY <3>1, <3>2, BroadcastView DEF w
      <3>4. CASE ms[PlayerOf[c]] # c
        <4>1. members[r][PlayerOf[c]] # c
          BY <1>17, <3>4
        <4> QED
          BY <2>1, <3>3, <3>4, <4>1 DEF w
      <3>5. CASE ms[PlayerOf[c]] = c /\ PlayerOf[c] = p
        <4>1. members[r][p] = None
          BY <1>3, <1>5, <1>b, <2>3
        <4>2. w.phase \in {"none", "out"}
          BY <2>1, <3>3, <3>5, <4>1, RoomActorAssumptions DEF View
        <4>3. sink'[c].view[r] = view("in", j.room.members)
          BY <3>3, <3>5, <4>2 DEF observe
        <4> QED
          BY <3>3, <3>5, <4>3 DEF view
      <3>6. CASE ms[PlayerOf[c]] = c /\ PlayerOf[c] # p
        <4>1. w.phase = "in" /\ w.roster = room[r].members
          BY <1>16, <2>1, <3>3, <3>6
        <4>2. sink'[c].view[r] = view("in", w.roster \cup {p})
          BY <3>3, <3>6, <4>1 DEF observe
        <4> QED
          BY <1>5, <2>3, <3>3, <3>6, <4>1, <4>2 DEF view
      <3> QED
        BY <3>4, <3>5, <3>6
    <2> QED
      BY <2>2, <2>3
  <1>19. RoomInv(r)'
    <2>1. room'[r] = j.room /\ members'[r] = ms /\ (had_members'[r] <=> had)
      BY <1>1, <1>7 DEF TypeOK
    <2> QED
      BY <1>4, <1>5, <1>10, <1>11, <1>12, <1>13, <1>18, <1>d, <2>1 DEF RoomInv, ViewInv
  <1>20. OnlyRoom(r)
    BY <1>1, <1>7, <1>18, <1>d, Zenon DEF TypeOK, OnlyRoom
  <1>21. TypeOK'
    <2>1. reply' \in [Tasks -> Reply]
      BY <1>1, <1>7, <1>14, Zenon DEF TypeOK, Answer
    <2>2. had \in BOOLEAN
      BY <1>12, <1>1 DEF had, isNew, TypeOK
    <2> QED
      BY <1>1, <1>2, <1>5, <1>7, <1>9, <1>15, <2>1, <2>2 DEF TypeOK
  <1>22. NoLostReply'
    BY <1>14, TakenReply, Zenon DEF cmd
  <1>23. NeverRoomClosed'
    BY <1>14 DEF NeverRoomClosed
  <1> QED
    BY <1>19, <1>20, <1>21, <1>22, <1>23, OtherRooms

\* handle_chat: the speaker is in every roster the chat is delivered to.
LEMMA HandleChatInv ==
    ASSUME IInv, NEW r \in Rooms, actor[r] = "running", commands[r] # <<>>,
           commands' = [commands EXCEPT ![r] = Tail(@)], UNCHANGED holders,
           handle_chat(r, Head(commands[r]))
    PROVE  IInv'
  <1> DEFINE cmd == Head(commands[r])
             p == cmd.player
             heard == members[r][p] # None /\ cmd.type = "Chat"
  <1>1. TypeOK /\ RoomInv(r) /\ NeverRoomClosed
    BY ByRoom
  <1>2. cmd \in RoomCommand /\ Tail(commands[r]) \in Seq(RoomCommand)
    BY <1>1 DEF TypeOK
  <1>3. p \in Players /\ cmd.reply = None
    BY <1>2, CommandShape DEF handle_chat
  <1>4. ~Emptied(had_members[r], room[r])
    BY <1>1, CountType DEF Emptied, RoomInv
  <1>5. /\ UNCHANGED <<room, members, had_members, closed, reply, actor>>
        /\ sink' = IF heard THEN broadcast(sink, r, members[r], "Chat", p, room[r].members)
                            ELSE sink
    BY <1>1, <1>4 DEF handle_chat, Continue, TypeOK
  <1>6. room[r].members \in SUBSET Players
    BY <1>1 DEF TypeOK, RoomType
  <1>7. sink' \in [Conns -> Sink]
    BY <1>1, <1>3, <1>5, <1>6, BroadcastType, Zenon DEF TypeOK
  <1>8. \A c \in Conns : ~sink'[c].failed => ~sink[c].failed /\ sink'[c].view = sink[c].view
    <2> SUFFICES ASSUME NEW c \in Conns, ~sink'[c].failed, heard
                 PROVE  ~sink[c].failed /\ sink'[c].view = sink[c].view
      BY <1>5, Zenon
    <2> HIDE DEF cmd, p, heard
    <2> DEFINE w == sink[c].view[r]
    <2>1. sink \in [Conns -> Sink] /\ sink[c].view \in [Rooms -> View]
          /\ sink'[c].view \in [Rooms -> View]
      BY <1>1, <1>7 DEF TypeOK, Sink
    <2>2. sink' = broadcast(sink, r, members[r], "Chat", p, room[r].members)
      BY <1>5
    <2>3. /\ members[r][PlayerOf[c]] # c => sink'[c] = sink[c]
          /\ ~sink[c].failed
          /\ members[r][PlayerOf[c]] = c =>
                sink'[c].view[r] = observe(w, PlayerOf[c], "Chat", p, room[r].members)
          /\ \A q \in Rooms \ {r} : sink'[c].view[q] = sink[c].view[q]
      <3> DEFINE b == broadcast(sink, r, members[r], "Chat", p, room[r].members)[c]
      <3>1. /\ members[r][PlayerOf[c]] # c => b = sink[c]
            /\ ~b.failed => ~sink[c].failed
            /\ ~b.failed /\ members[r][PlayerOf[c]] = c =>
                  b.view[r] = observe(w, PlayerOf[c], "Chat", p, room[r].members)
            /\ ~b.failed => \A q \in Rooms \ {r} : b.view[q] = sink[c].view[q]
        BY <2>1, BroadcastView
      <3>2. sink'[c] = b
        BY <2>2, Zenon
      <3> QED
        BY <3>1, <3>2, Zenon
    <2>4. CASE members[r][PlayerOf[c]] = c
      <3>1. w.phase = "in" /\ p \in w.roster
        BY <1>1, <1>3, <2>3, <2>4 DEF heard, RoomInv, ViewInv
      <3>2. sink'[c].view[r] = w
        BY <2>3, <2>4, <3>1 DEF observe
      <3> QED
        BY <2>1, <2>3, <3>2
    <2> QED
      BY <2>3, <2>4
  <1>9. RoomInv(r)'
    <2>1. UNCHANGED <<room, members, had_members, closed, actor>>
      BY <1>5
    <2>2. \A c \in Conns : ~sink'[c].failed => ViewInv(r, c)'
      BY <1>1, <1>8, <2>1 DEF RoomInv, ViewInv
    <2> QED
      BY <1>1, <2>1, <2>2 DEF RoomInv
  <1>10. OnlyRoom(r)
    BY <1>1, <1>5, <1>8, Zenon DEF TypeOK, OnlyRoom
  <1>11. TypeOK'
    BY <1>1, <1>2, <1>5, <1>7 DEF TypeOK
  <1>12. NoLostReply'
    BY <1>3, <1>5, TakenReply, RoomActorAssumptions, Zenon
  <1>13. NeverRoomClosed'
    BY <1>1, <1>5 DEF NeverRoomClosed
  <1> QED
    BY <1>9, <1>10, <1>11, <1>12, <1>13, OtherRooms

\* Close tells everyone who is registered, once.
LEMMA HandleCloseInv ==
    ASSUME IInv, NEW r \in Rooms, actor[r] = "running", commands[r] # <<>>,
           commands' = [commands EXCEPT ![r] = Tail(@)], UNCHANGED holders,
           handle_close(r, Head(commands[r]))
    PROVE  IInv'
  <1> DEFINE cmd == Head(commands[r])
  <1>1. TypeOK /\ RoomInv(r) /\ NeverRoomClosed
    BY ByRoom
  <1>2. cmd \in RoomCommand /\ Tail(commands[r]) \in Seq(RoomCommand) /\ cmd.reply = None
    BY <1>1, CommandShape DEF TypeOK, handle_close
  <1>3. /\ room'[r] = close(room[r]) /\ room' = [room EXCEPT ![r] = close(room[r])]
        /\ closed'[r] = TRUE /\ closed' = [closed EXCEPT ![r] = TRUE]
        /\ actor'[r] = "breaking" /\ actor' = [actor EXCEPT ![r] = "breaking"]
        /\ sink' = finish(sink, r, members[r], room[r])
        /\ UNCHANGED <<members, had_members, reply>>
    BY <1>1 DEF handle_close, Continue, TypeOK
  <1>4. /\ close(room[r]) \in RoomType /\ is_closed(close(room[r]))
        /\ close(room[r]).members = room[r].members
        /\ member_count(close(room[r])) = member_count(room[r])
    BY <1>1 DEF TypeOK, RoomType, RoomState, close, is_closed, member_count
  <1>5. sink \in [Conns -> Sink] /\ sink' \in [Conns -> Sink]
    BY <1>1, <1>3, FinishType, Zenon DEF TypeOK
  <1>6. \A c \in Conns : ~sink'[c].failed =>
            /\ ~sink[c].failed
            /\ \A q \in Rooms \ {r} : sink'[c].view[q] = sink[c].view[q]
            /\ sink'[c].view[r].phase \notin {"bad", "in"}
    <2> SUFFICES ASSUME NEW c \in Conns, ~sink'[c].failed
                 PROVE  /\ ~sink[c].failed
                        /\ \A q \in Rooms \ {r} : sink'[c].view[q] = sink[c].view[q]
                        /\ sink'[c].view[r].phase \notin {"bad", "in"}
      OBVIOUS
    <2>1. ~is_closed(room[r]) /\ ~closed[r]
      BY <1>1 DEF RoomInv
    <2>2. /\ members[r][PlayerOf[c]] # c => sink'[c] = sink[c]
          /\ ~sink[c].failed
          /\ members[r][PlayerOf[c]] = c /\ sink[c].view[r].phase \in {"in", "out"}
                => sink'[c].view[r] = view("over", {})
          /\ \A q \in Rooms \ {r} : sink'[c].view[q] = sink[c].view[q]
      BY <1>3, <1>5, <2>1, FinishView
    <2>3. /\ sink[c].view[r].phase # "bad"
          /\ sink[c].view[r].phase = "in" <=> members[r][PlayerOf[c]] = c
      BY <1>1, <2>1, <2>2 DEF RoomInv, ViewInv
    <2>4. view("over", {}).phase = "over"
      BY DEF view
    <2> QED
      BY <2>2, <2>3, <2>4
  <1>7. RoomInv(r)'
    <2>1. \A c \in Conns : ~sink'[c].failed => ViewInv(r, c)'
      BY <1>3, <1>6, Zenon DEF ViewInv
    <2> QED
      BY <1>1, <1>3, <1>4, <2>1 DEF RoomInv
  <1>8. OnlyRoom(r)
    BY <1>1, <1>3, <1>6 DEF TypeOK, OnlyRoom
  <1>9. TypeOK'
    BY <1>1, <1>2, <1>3, <1>4, <1>5 DEF TypeOK, ActorState
  <1>10. NoLostReply'
    BY <1>2, <1>3, TakenReply, RoomActorAssumptions, Zenon
  <1>11. NeverRoomClosed'
    BY <1>1, <1>3 DEF NeverRoomClosed
  <1> QED
    BY <1>7, <1>8, <1>9, <1>10, <1>11, OtherRooms
=============================================================================
