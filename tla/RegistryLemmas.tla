--------------------------- MODULE RegistryLemmas ---------------------------
(***************************************************************************)
(* Every step of RoomService keeps RegistryInv: a lemma for each kind of   *)
(* step.                                                                   *)
(***************************************************************************)
EXTENDS RoomServiceLemmas

-----------------------------------------------------------------------------
(***************************************************************************)
(* Calls that leave rooms alone.                                           *)
(***************************************************************************)

\* The ways a Close can be on.
LEMMA CloseWays ==
    ASSUME NEW r \in Rooms
    PROVE  CloseOnItsWay(r) <=> CloseQueued(r) \/ \E t \in Tasks : Closing(t, r)
  BY Zenon DEF CloseOnItsWay, CloseQueued, Closing

LEMMA CloseWaysNext ==
    ASSUME NEW r \in Rooms
    PROVE  CloseOnItsWay(r)' <=> CloseQueued(r)' \/ \E t \in Tasks : Closing(t, r)'
  BY Zenon DEF CloseOnItsWay, CloseQueued, Closing

\* A room that is doomed stays so, as long as task t's Close does.
LEMMA DoomStays ==
    ASSUME NEW t \in Tasks, NEW r \in Rooms, UNCHANGED <<closed, commands>>,
           \A u \in Tasks \ {t} : task'[u] = task[u],
           task[t].pc # "cancelled",
           Closing(t, r) => Closing(t, r)' \/ closed[r] \/ CloseCancelled',
           Doomed(r)
    PROVE  Doomed(r)'
<1>1. CloseCancelled => CloseCancelled'
  BY DEF CloseCancelled
<1>2. CloseQueued(r) => CloseQueued(r)'
  BY DEF CloseQueued
<1>3. \A u \in Tasks : Closing(u, r) => Closing(u, r)' \/ closed[r] \/ CloseCancelled'
  BY DEF Closing
<1> QED
  BY <1>1, <1>2, <1>3, CloseWays, CloseWaysNext DEF Doomed

\* A step of task t's call is good for room r.  Handles appear in the registry by
\* insert only and go from it when the room is over or a Close will follow;
\* whoever closes, joins or creates after the step did so before.
CallFits(t, r) ==
    /\ registered(r)' => registered(r) \/ (Creator(t, r) /\ task[t].pc = "insert")
    /\ registered(r) /\ ~registered(r)' => Doomed(r)'
    /\ Doomed(r) => Doomed(r)'
    /\ Closing(t, r)' \/ CloseQueued(r)' => CloseOnItsWay(r) \/ (registered(r) /\ ~registered(r)')
    /\ JoinQueued(r)' \/ Enters(t, r)' =>
          JoinQueued(r) \/ Enters(t, r) \/ had_members[r] \/ registered(r)'
    /\ FirstOf(r)'
    /\ closed[r] /\ registered(r)' /\ Visits(t, r) => Visits(t, r)'
    /\ Creator(t, r)' => Creator(t, r) /\ task'[t].pc # "insert" /\ StageOf(t, r)'
    /\ Creator(t, r) /\ ~Creator(t, r)' => had_members[r] \/ closed[r] \/ ~registered(r)'

\* What such a step keeps.
LEMMA CallFrame ==
    ASSUME IInv, RegistryInv, NEW t \in Tasks, UNCHANGED <<had_members, actor, closed>>,
           \A u \in Tasks \ {t} : task'[u] = task[u] /\ reply'[u] = reply[u],
           \A r \in Rooms : CallFits(t, r), GuestOf(t)'
    PROVE  RegistryInv'
<1>1. ASSUME NEW r \in Rooms, NEW u \in Tasks \ {t}
      PROVE  /\ Creator(u, r)' <=> Creator(u, r)
             /\ Visits(u, r)' <=> Visits(u, r)
             /\ Closing(u, r)' <=> Closing(u, r)
             /\ Enters(u, r)' <=> Enters(u, r)
  BY DEF Creator, Visits, Closing, Enters
<1>2. ASSUME NEW r \in Rooms
      PROVE  CloseOnItsWay(r)' => CloseOnItsWay(r) \/ (registered(r) /\ ~registered(r)')
  BY <1>1, CloseWays, CloseWaysNext DEF CallFits
<1>3. ASSUME NEW r \in Rooms PROVE ListedOf(r)'
  <2>1. ListedOf(r) /\ CallFits(t, r)
    BY DEF RegistryInv, RoomOf
  <2>2. registered(r) \/ Doomed(r) => registered(r)' \/ Doomed(r)'
    BY <2>1 DEF CallFits
  <2>3. (\E u \in Tasks : Enters(u, r)') => Enters(t, r)' \/ \E u \in Tasks : Enters(u, r)
    BY <1>1
  <2> QED
    BY <2>1, <2>2, <2>3 DEF ListedOf, CallFits
<1>4. ASSUME NEW r \in Rooms PROVE DrainedOf(r)'
  <2>1. DrainedOf(r) /\ CallFits(t, r) /\ \A u \in Tasks : CreatorOf(u)
    BY DEF RegistryInv, RoomOf
  <2>2. \A u \in Tasks : Creator(u, r)' => Creator(u, r) /\ (u = t => task'[t].pc # "insert")
    BY <1>1, <2>1 DEF CallFits
  <2>3. CASE CloseOnItsWay(r)
    BY <2>1, <2>2, <2>3 DEF DrainedOf, CallFits
  <2>4. CASE registered(r) /\ ~registered(r)'
    BY <2>1, <2>2, <2>4 DEF DrainedOf, CreatorOf, StageOf
  <2> QED
    BY <1>2, <2>3, <2>4 DEF DrainedOf
<1>5. ASSUME NEW r \in Rooms PROVE ClosedOf(r)'
  <2>1. ClosedOf(r) /\ CallFits(t, r) /\ CreatorOf(t)
    BY DEF RegistryInv, RoomOf
  <2>2. closed[r] /\ registered(r)' => registered(r)
    BY <2>1 DEF CallFits, CreatorOf, StageOf
  <2> QED
    BY <1>1, <2>1, <2>2 DEF ClosedOf, CallFits
<1>6. ASSUME NEW r \in Rooms PROVE EmptyOf(r)'
  <2>1. EmptyOf(r) /\ CallFits(t, r)
    BY DEF RegistryInv, RoomOf
  <2>2. actor[r] = "running" => ~closed[r]
    BY DEF IInv, OpenWhileRunning
  <2> QED
    BY <1>1, <2>1, <2>2 DEF EmptyOf, CallFits
<1>7. ASSUME NEW u \in Tasks \ {t} PROVE CreatorOf(u)' /\ GuestOf(u)'
  <2>1. CreatorOf(u) /\ GuestOf(u) /\ CreatorOf(t)
    BY DEF RegistryInv
  <2>2. GuestOf(u)'
    BY <2>1 DEF GuestOf
  <2>3. ASSUME NEW r \in Rooms, Creator(u, r)'
        PROVE  /\ actor'[r] # "unborn"
               /\ \A v \in Tasks : Creator(v, r)' => v = u
               /\ StageOf(u, r)'
    <3>1. Creator(u, r) /\ CallFits(t, r)
      BY <1>1, <2>3
    <3>2. \A v \in Tasks : Creator(v, r)' => Creator(v, r)
      BY <1>1, <3>1 DEF CallFits
    <3>3. StageOf(u, r) /\ actor[r] # "unborn" /\ \A v \in Tasks : Creator(v, r) => v = u
      BY <2>1, <3>1 DEF CreatorOf
    <3>4. registered(r)' => registered(r)
      BY <3>1, <3>3 DEF CallFits
    <3>5. Doomed(r) => Doomed(r)'
      BY <3>1 DEF CallFits
    <3>6. StageOf(u, r)'
      BY <3>3, <3>4, <3>5 DEF StageOf
    <3> QED
      BY <3>2, <3>3, <3>6
  <2> QED
    BY <2>2, <2>3 DEF CreatorOf
<1>8. CreatorOf(t)'
  <2>1. ASSUME NEW r \in Rooms, Creator(t, r)'
        PROVE  /\ actor'[r] # "unborn"
               /\ \A v \in Tasks : Creator(v, r)' => v = t
               /\ StageOf(t, r)'
    BY <1>1, <2>1 DEF CallFits, RegistryInv, CreatorOf
  <2> QED
    BY <2>1 DEF CreatorOf
<1>9. \A r \in Rooms : FirstOf(r)'
  BY DEF CallFits
<1> QED
  BY <1>3, <1>4, <1>5, <1>6, <1>7, <1>8, <1>9 DEF RegistryInv, RoomOf

\* The same for a step that sends nothing.
QuietFits(t, r) ==
    /\ registered(r)' => registered(r) \/ (Creator(t, r) /\ task[t].pc = "insert")
    /\ registered(r) /\ ~registered(r)' => closed[r] \/ Doomed(r) \/ Closing(t, r)'
    /\ Closing(t, r) => Closing(t, r)' \/ closed[r] \/ CloseCancelled'
    /\ Closing(t, r)' => Closing(t, r) \/ (registered(r) /\ ~registered(r)')
    /\ Enters(t, r)' => Enters(t, r) \/ registered(r)'
    /\ closed[r] /\ registered(r)' /\ Visits(t, r) => Visits(t, r)'
    /\ Creator(t, r)' => /\ Creator(t, r) /\ task'[t].pc # "insert"
                         /\ (Doomed(r) => Doomed(r)') => StageOf(t, r)'
    /\ Creator(t, r) /\ ~Creator(t, r)' =>
          /\ reply[t] \notin {"waiting", "abandoned"}
          /\ had_members[r] \/ closed[r] \/ ~registered(r)'

\* A Join is answered to a task.
LEMMA JoinReply ==
    ASSUME TypeOK, NEW r \in Rooms, NEW i \in DOMAIN commands[r], commands[r][i].type = "Join"
    PROVE  commands[r][i].reply \in Tasks
<1>1. commands[r][i] \in RoomCommand
  BY DEF TypeOK
<1> QED
  BY <1>1 DEF RoomCommand, Join, Leave, Chat, UnfitChat, Close

LEMMA QuietCall ==
    ASSUME IInv, LeaveInv, RegistryInv, NEW t \in Tasks,
           UNCHANGED <<had_members, actor, closed, commands>>, task[t].pc # "cancelled",
           \A u \in Tasks \ {t} : task'[u] = task[u] /\ reply'[u] = reply[u],
           \A r \in Rooms : QuietFits(t, r), GuestOf(t)'
    PROVE  RegistryInv'
<1>1. ASSUME NEW r \in Rooms PROVE CallFits(t, r)
  <2>0. QuietFits(t, r) /\ RoomOf(r)
    BY DEF RegistryInv
  <2>1. Doomed(r) => Doomed(r)'
    BY <2>0, DoomStays DEF QuietFits
  <2>2. registered(r) /\ ~registered(r)' => Doomed(r)'
    BY <2>0, <2>1, CloseWaysNext DEF QuietFits, Doomed
  <2>3. CloseQueued(r)' <=> CloseQueued(r)
    BY DEF CloseQueued
  <2>4. JoinQueued(r)' <=> JoinQueued(r)
    BY DEF JoinQueued
  <2>5. FirstOf(r)'
    <3> SUFFICES ASSUME ~had_members[r], NEW i \in DOMAIN commands[r],
                        commands[r][i].type = "Join"
                 PROVE  Creator(commands[r][i].reply, r)'
      BY DEF FirstOf
    <3>1. PICK u \in Tasks : u = commands[r][i].reply /\ Creator(u, r)
      BY <2>0, JoinReply DEF RoomOf, FirstOf, IInv
    <3>2. reply[u] \in {"waiting", "abandoned"}
      BY <3>1 DEF LeaveInv, LeaveOf, QueuedOf
    <3>3. Creator(u, r)'
      BY <2>0, <3>1, <3>2, Zenon DEF QuietFits, Creator
    <3> QED
      BY <3>1, <3>3 DEF Creator
  <2>6. Closing(t, r)' \/ CloseQueued(r)' => CloseOnItsWay(r) \/ (registered(r) /\ ~registered(r)')
    BY <2>0, <2>3, CloseWays DEF QuietFits
  <2> QED
    BY <2>0, <2>1, <2>2, <2>4, <2>5, <2>6, Zenon DEF QuietFits, CallFits
<1> QED
  BY <1>1, CallFrame

\* Only task t's and the registry's handles change; what is listed then.
LEMMA ListedAfter ==
    ASSUME TypeOK, NEW t \in Tasks, NEW r \in Rooms, NEW U, NEW S
    PROVE  /\ holders' = Hold(holders, t, S) => (registered(r)' <=> registered(r))
           /\ holders' = Hold(Unlist(holders, U), t, S) =>
                 (registered(r)' <=> registered(r) /\ r \notin U)
<1>1. holders \in [Rooms -> SUBSET Holder] /\ Registry # t
  BY RoomActorAssumptions DEF TypeOK
<1>2. ASSUME holders' = Hold(holders, t, S) PROVE registered(r)' <=> registered(r)
  BY <1>1, <1>2 DEF Hold, registered
<1>3. ASSUME holders' = Hold(Unlist(holders, U), t, S)
      PROVE  registered(r)' <=> registered(r) /\ r \notin U
  BY <1>1, <1>3 DEF Hold, Unlist, registered
<1> QED
  BY <1>2, <1>3

\* The inner call on a room returns.
LEMMA ReturnFields ==
    ASSUME ServiceInv, NEW t \in Tasks, NEW result \in {"ok", "err"}, NEW h, Return(t, result, h)
    PROVE  /\ \A u \in Tasks \ {t} : task'[u] = task[u]
           /\ task'[t].op = task[t].op
           /\ task'[t].pc \in {"idle", "remove", "next"}
           /\ task'[t].pc = "remove" <=> task[t].op = "create" /\ result = "err"
           /\ task'[t].pc = "next" => task[t].op \in {"leave_all", "close_all"}
           /\ task'[t].pc = "idle" => /\ task[t].op # "close_all"
                                      /\ task'[t].room = None /\ task'[t].rest = {}
           /\ task'[t].pc # "idle" => task'[t].room = task[t].room /\ task'[t].rest = task[t].rest
           /\ \E S : holders' = Hold(h, t, S)
<1> DEFINE k == task[t]
           pc == CASE k.op = "create" /\ result = "err" -> "remove"
                   [] k.op = "leave_all" /\ result = "ok" -> "next"
                   [] k.op = "close_all" -> "next"
                   [] OTHER -> "idle"
           k2 == IF pc = "idle" THEN Done(k, result) ELSE [k EXCEPT !.pc = pc]
<1>1. task \in [Tasks -> Call] /\ k \in Call
  BY DEF ServiceInv
<1>2. task' = [task EXCEPT ![t] = k2] /\ \E S : holders' = Hold(h, t, S)
  BY Zenon DEF Return
<1>3. /\ pc \in {"idle", "remove", "next"}
      /\ pc = "remove" <=> k.op = "create" /\ result = "err"
      /\ pc = "next" => k.op \in {"leave_all", "close_all"}
      /\ pc = "idle" => k.op # "close_all"
  OBVIOUS
<1> HIDE DEF pc
<1>4. /\ k2.op = k.op /\ k2.pc = pc
      /\ pc = "idle" => k2.room = None /\ k2.rest = {}
      /\ pc # "idle" => k2.room = k.room /\ k2.rest = k.rest
  BY <1>1 DEF Done, NoCall, call, Call
<1> HIDE DEF k2
<1>5. task'[t] = k2 /\ \A u \in Tasks \ {t} : task'[u] = task[u]
  BY <1>1, <1>2
<1> QED
  BY <1>2, <1>3, <1>4, <1>5

\* It returns, with its room over where it has to be, or joined.
LEMMA ReturnRegistry ==
    ASSUME IInv, ServiceInv, LeaveInv, RegistryInv, NEW t \in Tasks, NEW result \in {"ok", "err"},
           task[t].pc \in {"lookup", "send", "reply", "unregister"}, RoomsUnchanged,
           reply[t] \notin {"waiting", "abandoned"}, reply'[t] = "none",
           \A u \in Tasks \ {t} : reply'[u] = reply[u],
           \/ Return(t, result, holders) /\ (task[t].op \in Leaving => ~closed[task[t].room])
           \/ /\ Return(t, result, Unlist(holders, {task[t].room}))
              /\ registered(task[t].room) => closed[task[t].room],
           task[t].op = "create" /\ result = "err" => Doomed(task[t].room),
           task[t].op = "create" /\ result = "ok" => had_members[task[t].room],
           task[t].op = "close_all" => closed[task[t].room]
    PROVE  RegistryInv'
<1>0. PICK q \in Rooms :
        q = task[t].room /\ TypeOK /\ UNCHANGED <<had_members, actor, closed, commands>>
  BY DEF IInv, ServiceInv, TaskInv, ShapeOf, RoomsUnchanged
<1>1. /\ \A u \in Tasks \ {t} : task'[u] = task[u]
      /\ task'[t].op = task[t].op
      /\ task'[t].pc \in {"idle", "remove", "next"}
      /\ task'[t].pc = "remove" <=> task[t].op = "create" /\ result = "err"
      /\ task'[t].pc = "next" => task[t].op \in {"leave_all", "close_all"}
      /\ task'[t].pc = "idle" => /\ task[t].op # "close_all"
                                 /\ task'[t].room = None /\ task'[t].rest = {}
      /\ task'[t].pc # "idle" => task'[t].room = q /\ task'[t].rest = task[t].rest
  BY <1>0, ReturnFields
<1>2. /\ \A r \in Rooms : registered(r)' => registered(r)
      /\ \A r \in Rooms : registered(r) /\ ~registered(r)' => closed[r]
      /\ task[t].op \in Leaving /\ closed[q] => ~registered(q)'
  <2>1. CASE Return(t, result, holders) /\ (task[t].op \in Leaving => ~closed[q])
    <3>1. \E S : holders' = Hold(holders, t, S)
      BY <2>1, ReturnFields
    <3> QED
      BY <1>0, <2>1, <3>1, ListedAfter
  <2>2. CASE Return(t, result, Unlist(holders, {q})) /\ (registered(q) => closed[q])
    <3>1. \E S : holders' = Hold(Unlist(holders, {q}), t, S)
      BY <2>2, ReturnFields
    <3> QED
      BY <1>0, <2>2, <3>1, ListedAfter
  <2> QED
    BY <1>0, <2>1, <2>2
<1>3. GuestOf(t)'
  BY <1>1, NoneIsNoRoom DEF GuestOf
<1>4. ASSUME NEW r \in Rooms PROVE QuietFits(t, r)
  <2>1. Closing(t, r) => Closing(t, r)' \/ closed[r]
    BY <1>0, <1>1 DEF Closing
  <2>2. Closing(t, r)' => Closing(t, r)
    BY <1>0, <1>1 DEF Closing
  <2>3. ~Enters(t, r)'
    BY <1>1 DEF Enters
  <2>4. closed[r] /\ registered(r)' => ~Visits(t, r)
    BY <1>0, <1>2 DEF Visits
  <2>5. Creator(t, r)' => r = q /\ Creator(t, r) /\ task'[t].pc = "remove"
    BY <1>0, <1>1, NoneIsNoRoom, Zenon DEF Creator
  <2>6. Creator(t, r)' => ((Doomed(r) => Doomed(r)') => StageOf(t, r)')
    BY <1>0, <1>1, <2>5 DEF StageOf, Creator
  <2>7. Creator(t, r) /\ ~Creator(t, r)' => had_members[r]
    BY <1>0, <1>1 DEF Creator
  <2> QED
    BY <1>1, <1>2, <2>1, <2>2, <2>3, <2>4, <2>5, <2>6, <2>7, Zenon DEF QuietFits
<1> QED
  BY <1>0, <1>1, <1>3, <1>4, QuietCall

\* A call moves to another await and leaves the registry alone.
LEMMA GotoRegistry ==
    ASSUME IInv, ServiceInv, LeaveInv, RegistryInv, NEW t \in Tasks, NEW pc, Goto(t, pc),
           RoomsUnchanged, \A r \in Rooms : registered(r)' <=> registered(r), reply'[t] = "none",
           \A u \in Tasks \ {t} : reply'[u] = reply[u],
           \/ task[t].pc = "lookup" /\ pc = "send"
           \/ /\ task[t].pc \in {"send", "reply"} /\ pc = "unregister" /\ task[t].op \in Leaving
              /\ closed[task[t].room]
    PROVE  RegistryInv'
<1>0. /\ TaskInv(t) /\ GuestOf(t) /\ CreatorOf(t) /\ UNCHANGED <<had_members, actor, closed, commands>>
      /\ task[t].room \in Rooms
      /\ pc \in Pc /\ (task[t].pc = "lookup" => task[t].op # "close_all")
  BY DEF IInv, ServiceInv, TaskInv, ShapeOf, RoomsUnchanged, RegistryInv, Pc, Waiting
<1>1. /\ \A u \in Tasks \ {t} : task'[u] = task[u]
      /\ task'[t].pc = pc /\ task'[t].op = task[t].op /\ task'[t].room = task[t].room
      /\ task'[t].rest = task[t].rest
  BY <1>0, GotoFields, Zenon
<1>2. GuestOf(t)'
  BY <1>0, <1>1, Zenon DEF GuestOf
<1>3. ASSUME NEW r \in Rooms PROVE QuietFits(t, r)
  <2>1. /\ Closing(t, r) <=> Closing(t, r)'
        /\ Enters(t, r)' => Enters(t, r)
        /\ Creator(t, r)' <=> Creator(t, r)
    BY <1>0, <1>1, Zenon DEF Closing, Enters, Creator, Leaving
  <2>2. Visits(t, r) => Visits(t, r)'
    BY <1>1 DEF Visits
  <2>3. Creator(t, r)' => StageOf(t, r)'
    BY <1>0, <1>1, <2>1, Zenon DEF StageOf, Creator, CreatorOf, Leaving
  <2> QED
    BY <1>1, <2>1, <2>2, <2>3, Zenon DEF QuietFits
<1> QED
  BY <1>0, <1>1, <1>2, <1>3, QuietCall, Zenon

\* handle_for.  The creator of a room does not find it only if it is doomed.
LEMMA LookupRegistry ==
    ASSUME IInv, ServiceInv, LeaveInv, RegistryInv, NEW t \in Tasks, Lookup(t)
    PROVE  RegistryInv'
<1>0. /\ TypeOK /\ TaskInv(t) /\ task[t].room \in Rooms /\ task[t].pc = "lookup"
      /\ RoomsUnchanged /\ UNCHANGED reply /\ task[t].op # "close_all"
  BY Zenon DEF IInv, ServiceInv, TaskInv, ShapeOf, Lookup, Waiting
<1>1. reply[t] = "none"
  BY <1>0, EmptyOneshot
<1>2. CASE registered(task[t].room) /\ ~closed[task[t].room]
  <2>1. Goto(t, "send") /\ holders' = [holders EXCEPT ![task[t].room] = @ \cup {t}]
    BY <1>2 DEF Lookup
  <2>2. \A r \in Rooms : registered(r)' <=> registered(r)
    BY <1>0, <2>1, RoomActorAssumptions, Zenon DEF registered, TypeOK
  <2> QED
    BY <1>0, <1>1, <2>1, <2>2, GotoRegistry, Zenon
<1>3. CASE ~(registered(task[t].room) /\ ~closed[task[t].room])
  <2>1. PICK result \in {"ok", "err"} :
          /\ Return(t, result, Unlist(holders, {task[t].room}))
          /\ result = IF task[t].op \in {"leave", "leave_all"} THEN "ok" ELSE "err"
    BY <1>3 DEF Lookup
  <2>2. task[t].op = "create" => Doomed(task[t].room)
    <3>1. task[t].op = "create" => Enters(t, task[t].room)
      BY <1>0 DEF Enters, Creator
    <3> QED
      BY <1>0, <1>3, <3>1 DEF RegistryInv, RoomOf, ListedOf, Doomed
  <2> QED
    BY <1>0, <1>1, <1>3, <2>1, <2>2, ReturnRegistry
<1> QED
  BY <1>2, <1>3

\* A chat finds the queue full, a call finds the room gone.
LEMMA SendFailsRegistry ==
    ASSUME IInv, ServiceInv, LeaveInv, RegistryInv, NEW t \in Tasks, Busy(t) \/ SendFails(t)
    PROVE  RegistryInv'
<1>0. /\ TypeOK /\ TaskInv(t) /\ task[t].room \in Rooms /\ task[t].pc = "send"
      /\ RoomsUnchanged /\ UNCHANGED reply
  BY Zenon DEF IInv, ServiceInv, TaskInv, ShapeOf, Busy, SendFails
<1>1. reply[t] = "none"
  BY <1>0, EmptyOneshot
<1>2. CASE Busy(t)
  BY <1>0, <1>1, <1>2, ReturnRegistry, Zenon DEF Busy, Leaving
<1>3. CASE SendFails(t)
  <2>1. closed[task[t].room] /\ Doomed(task[t].room)
    BY <1>0, <1>3 DEF SendFails, IInv, FlagBeforeDrop, Doomed
  <2>2. CASE task[t].op \in Leaving
    <3>1. Goto(t, "unregister") /\ UNCHANGED holders
      BY <1>3, <2>1, <2>2 DEF SendFails, Leaving
    <3> QED
      BY <1>0, <1>1, <2>1, <2>2, <3>1, GotoRegistry DEF registered
  <2>3. CASE task[t].op \notin Leaving
    <3>1. Return(t, "err", holders)
      BY <1>3, <2>3 DEF SendFails, Leaving
    <3> QED
      BY <1>0, <1>1, <2>1, <2>3, <3>1, ReturnRegistry, Zenon
  <2> QED
    BY <2>2, <2>3
<1> QED
  BY <1>2, <1>3

\* The oneshot is read.
LEMMA TakeReplyRegistry ==
    ASSUME IInv, ServiceInv, LeaveInv, RegistryInv, NEW t \in Tasks, TakeReply(t)
    PROVE  RegistryInv'
<1>0. /\ TypeOK /\ TaskInv(t) /\ task[t].room \in Rooms /\ task[t].pc = "reply"
      /\ RoomsUnchanged /\ reply[t] # "waiting" /\ reply' = [reply EXCEPT ![t] = "none"]
      /\ task[t].op # "close_all" /\ CreatorOf(t)
  BY Zenon DEF IInv, ServiceInv, TaskInv, ShapeOf, TakeReply, Waiting, RegistryInv
<1>1. /\ reply[t] \notin {"waiting", "abandoned"} /\ reply'[t] = "none"
      /\ \A u \in Tasks \ {t} : reply'[u] = reply[u]
  BY <1>0, Zenon DEF TaskInv, OneshotOf, TypeOK
<1>2. CASE task[t].op \in Leaving
  <2>1. reply[t] \in {"left", "absent"} \/ (reply[t] = "dropped" /\ closed[task[t].room])
    BY <1>0, <1>2 DEF LeaveInv, LeaveOf, AnswerOf
  <2>2. CASE closed[task[t].room]
    <3>1. Goto(t, "unregister") /\ UNCHANGED holders
      BY <1>2, <2>1, <2>2 DEF TakeReply, Leaving
    <3> QED
      BY <1>0, <1>1, <1>2, <2>2, <3>1, GotoRegistry DEF registered
  <2>3. CASE ~closed[task[t].room]
    <3>1. Return(t, "ok", holders)
      BY <1>2, <2>1, <2>3 DEF TakeReply, Leaving
    <3>2. task[t].op # "create"
      BY <1>2 DEF Leaving
    <3> QED
      BY <1>0, <1>1, <2>3, <3>1, <3>2, ReturnRegistry, Zenon
  <2> QED
    BY <2>2, <2>3
<1>3. CASE task[t].op \notin Leaving
  <2>1. PICK result \in {"ok", "err"} :
          Return(t, result, holders) /\ (result = "ok" <=> reply[t] = "joined")
    BY <1>3 DEF TakeReply, Leaving
  <2>2. task[t].op = "create" =>
           IF result = "ok" THEN had_members[task[t].room] ELSE Doomed(task[t].room)
    BY <1>0, <2>1, Zenon DEF CreatorOf, Creator, StageOf, Doomed
  <2> QED
    BY <1>0, <1>1, <1>3, <2>1, <2>2, ReturnRegistry, Zenon
<1> QED
  BY <1>2, <1>3

\* leave takes the closed room out.
LEMMA UnregisterRegistry ==
    ASSUME IInv, ServiceInv, LeaveInv, RegistryInv, NEW t \in Tasks, Unregister(t)
    PROVE  RegistryInv'
<1>0. /\ TypeOK /\ task[t].room \in Rooms /\ task[t].pc = "unregister" /\ task[t].op \in Leaving
      /\ RoomsUnchanged /\ UNCHANGED reply /\ closed[task[t].room]
      /\ Return(t, "ok", Unlist(holders, {task[t].room}))
  BY Zenon DEF IInv, ServiceInv, TaskInv, ShapeOf, Unregister, RegistryInv, GuestOf
<1>1. reply[t] = "none" /\ task[t].op \notin {"create", "close_all"}
  BY <1>0, EmptyOneshot DEF Leaving
<1> QED
  BY <1>0, <1>1, ReturnRegistry

\* The room is listed: no Close can be on its way to it yet.
LEMMA InsertRegistry ==
    ASSUME IInv, ServiceInv, LeaveInv, RegistryInv, NEW t \in Tasks, Insert(t)
    PROVE  RegistryInv'
<1>0. PICK q \in Rooms :
        /\ q = task[t].room /\ TypeOK /\ task[t].pc = "insert" /\ task[t].op = "create"
        /\ Goto(t, "lookup") /\ UNCHANGED <<had_members, actor, closed, commands, reply>>
        /\ holders' = [holders EXCEPT ![q] = @ \cup {Registry}]
  BY Zenon DEF IInv, ServiceInv, TaskInv, ShapeOf, RoomsUnchanged, Insert
<1>1. /\ \A u \in Tasks \ {t} : task'[u] = task[u]
      /\ task'[t].pc = "lookup" /\ task'[t].op = "create" /\ task'[t].room = q
  BY <1>0, GotoFields DEF Pc
<1>2. registered(q)' /\ \A r \in Rooms \ {q} : registered(r)' <=> registered(r)
  BY <1>0 DEF TypeOK, registered
<1>3. GuestOf(t)'
  BY <1>1 DEF GuestOf
<1>4. StageOf(t, q) /\ reply[t] = "none"
  BY <1>0, EmptyOneshot DEF RegistryInv, CreatorOf, Creator
<1>5. ASSUME NEW r \in Rooms PROVE QuietFits(t, r)
  <2>1. /\ ~Closing(t, r) /\ ~Closing(t, r)' /\ ~Visits(t, r)
        /\ Creator(t, r) <=> r = q
        /\ Creator(t, r)' <=> r = q
        /\ Enters(t, r)' => r = q
    BY <1>0, <1>1 DEF Closing, Visits, Leaving, Creator, Enters
  <2>2. r = q => StageOf(t, r)'
    BY <1>0, <1>1, <1>4 DEF StageOf
  <2> QED
    BY <1>0, <1>1, <1>2, <2>1, <2>2, Zenon DEF QuietFits
<1> QED
  BY <1>0, <1>1, <1>3, <1>5, QuietCall

\* A step of a call that creates nothing, before and after it.
LEMMA PlainCall ==
    ASSUME IInv, LeaveInv, RegistryInv, NEW t \in Tasks,
           UNCHANGED <<had_members, actor, closed, commands>>, task[t].pc # "cancelled",
           \A u \in Tasks \ {t} : task'[u] = task[u] /\ reply'[u] = reply[u],
           \A r \in Rooms : ~Creator(t, r) /\ ~Creator(t, r)' /\ ~Visits(t, r),
           \A r \in Rooms : registered(r)' => registered(r),
           \A r \in Rooms : registered(r) /\ ~registered(r)' => closed[r] \/ Closing(t, r)',
           \A r \in Rooms : Closing(t, r) => Closing(t, r)',
           \A r \in Rooms : Closing(t, r)' => Closing(t, r) \/ (registered(r) /\ ~registered(r)'),
           GuestOf(t)'
    PROVE  RegistryInv'
<1>1. ASSUME NEW r \in Rooms PROVE QuietFits(t, r)
  BY Zenon DEF QuietFits, Enters
<1> QED
  BY <1>1, QuietCall

\* Closed rooms are unlisted, or all are, by a close_all that will send Close.
LEMMA IterateRegistry ==
    ASSUME IInv, ServiceInv, LeaveInv, RegistryInv, NEW t \in Tasks, Snapshot(t) \/ Drain(t)
    PROVE  RegistryInv'
<1>0. /\ TypeOK /\ task[t].pc \in {"snapshot", "drain"} /\ task \in [Tasks -> Call]
      /\ UNCHANGED <<had_members, actor, closed, commands, reply>>
      /\ task[t].op = IF task[t].pc = "snapshot" THEN "leave_all" ELSE "close_all"
      /\ task[t].rest = {}
  BY DEF IInv, ServiceInv, Snapshot, Drain, RoomsUnchanged, RegistryInv, GuestOf
<1>1. PICK S, U :
        /\ task' = [task EXCEPT ![t].pc = "next", ![t].rest = S]
        /\ holders' = Hold(Unlist(holders, U), t, S)
        /\ \/ task[t].op = "leave_all" /\ \A r \in Rooms : r \in U => closed[r]
           \/ task[t].op = "close_all" /\ S = Registered /\ U = Registered
  <2>1. CASE Snapshot(t)
    <3> DEFINE live == {r \in Registered : ~closed[r]}
    <3>1. /\ task' = [task EXCEPT ![t].pc = "next", ![t].rest = live]
          /\ holders' = Hold(Unlist(holders, Registered \ live), t, live)
          /\ task[t].op = "leave_all"
      BY <1>0, <2>1 DEF Snapshot
    <3>2. \A r \in Rooms : r \in Registered \ live => closed[r]
      OBVIOUS
    <3> HIDE DEF live
    <3> QED
      BY <3>1, <3>2, Zenon
  <2>2. CASE Drain(t)
    BY <1>0, <2>2, Zenon DEF Drain
  <2> QED
    BY <2>1, <2>2
<1>2. /\ \A u \in Tasks \ {t} : task'[u] = task[u]
      /\ task'[t].pc = "next" /\ task'[t].op = task[t].op /\ task'[t].rest = S
  BY <1>0, <1>1 DEF Call
<1>3. \A r \in Rooms : registered(r)' <=> registered(r) /\ r \notin U
  BY <1>0, <1>1, ListedAfter
<1>4. GuestOf(t)'
  BY <1>0, <1>2, Zenon DEF GuestOf
<1>5. ASSUME NEW r \in Rooms
      PROVE  /\ ~Creator(t, r) /\ ~Creator(t, r)' /\ ~Visits(t, r) /\ ~Closing(t, r)
             /\ Closing(t, r)' <=> task[t].op = "close_all" /\ r \in S
  BY <1>0, <1>2, Zenon DEF Creator, Visits, Closing
<1>6. ASSUME NEW r \in Rooms
      PROVE  /\ registered(r) /\ ~registered(r)' => closed[r] \/ Closing(t, r)'
             /\ Closing(t, r)' => registered(r) /\ ~registered(r)'
  BY <1>1, <1>3, <1>5 DEF Registered
<1> QED
  BY <1>0, <1>2, <1>3, <1>4, <1>5, <1>6, PlainCall, Zenon

\* The loops go from room to room; the handle taken is the one to be sent to.
LEMMA NextRoomRegistry ==
    ASSUME IInv, ServiceInv, LeaveInv, RegistryInv, NEW t \in Tasks, NextRoom(t)
    PROVE  RegistryInv'
<1>0. /\ task[t].pc = "next" /\ task \in [Tasks -> Call] /\ task[t] \in Call
      /\ UNCHANGED <<had_members, actor, closed, commands, reply, holders>>
      /\ task[t].op \in {"leave_all", "close_all"}
  BY Zenon DEF ServiceInv, TaskInv, ShapeOf, NextRoom, actorVars
<1>1. /\ \A u \in Tasks \ {t} : task'[u] = task[u]
      /\ task'[t].op = task[t].op
      /\ \/ /\ task'[t].pc = "idle" /\ task[t].rest = {} /\ task'[t].rest = {}
            /\ task'[t].room = None
         \/ /\ task'[t].pc = (IF task[t].op = "leave_all" THEN "lookup" ELSE "send")
            /\ task'[t].room \in task[t].rest
            /\ task'[t].rest = task[t].rest \ {task'[t].room}
  <2>1. CASE task[t].rest = {} /\ task' = [task EXCEPT ![t] = Done(@, "ok")]
    BY <1>0, <2>1 DEF Done, NoCall, call
  <2>2. ASSUME NEW r \in task[t].rest,
               task' = [task EXCEPT
                         ![t].pc = IF task[t].op = "leave_all"
                                   THEN "lookup" ELSE "send",
                         ![t].room = r, ![t].rest = @ \ {r}]
        PROVE  /\ \A u \in Tasks \ {t} : task'[u] = task[u]
               /\ task'[t].op = task[t].op
               /\ task'[t].pc = (IF task[t].op = "leave_all" THEN "lookup" ELSE "send")
               /\ task'[t].room = r
               /\ task'[t].rest = task[t].rest \ {r}
    BY <1>0, <2>2 DEF Call
  <2> QED
    BY <2>1, <2>2, Zenon DEF NextRoom
<1>2. GuestOf(t)'
  BY <1>0, <1>1, NoneIsNoRoom DEF GuestOf
<1>3. ASSUME NEW r \in Rooms
      PROVE  ~Creator(t, r) /\ ~Creator(t, r)' /\ ~Visits(t, r) /\ (registered(r)' <=> registered(r))
  BY <1>0, <1>1 DEF Creator, Visits, registered
<1>4. ASSUME NEW r \in Rooms PROVE Closing(t, r)' <=> Closing(t, r)
  BY <1>0, <1>1 DEF Closing
<1> QED
  BY <1>0, <1>1, <1>2, <1>3, <1>4, PlainCall, Zenon

\* create_and_join gives up a room that is over, or will be.
LEMMA RemoveRegistry ==
    ASSUME IInv, ServiceInv, LeaveInv, RegistryInv, NEW t \in Tasks, Remove(t)
    PROVE  RegistryInv'
<1>0. PICK q \in Rooms :
        /\ q = task[t].room /\ TypeOK /\ task[t].pc = "remove" /\ task[t].op = "create"
        /\ UNCHANGED <<had_members, actor, closed, commands, reply>>
        /\ task' = [task EXCEPT ![t] = Done(@, "err")] /\ task \in [Tasks -> Call]
        /\ holders' = Hold(Unlist(holders, {q}), t, {})
  BY Zenon DEF IInv, ServiceInv, TaskInv, ShapeOf, RoomsUnchanged, Remove
<1>1. /\ \A u \in Tasks \ {t} : task'[u] = task[u]
      /\ task'[t].pc = "idle" /\ task'[t].op = "create"
      /\ task'[t].room = None /\ task'[t].rest = {}
  BY <1>0 DEF Done, NoCall, call
<1>2. \A r \in Rooms : registered(r)' <=> registered(r) /\ r # q
  <2>1. \A r \in Rooms : registered(r)' <=> registered(r) /\ r \notin {q}
    BY <1>0, ListedAfter
  <2> QED
    BY <2>1
<1>3. GuestOf(t)'
  BY <1>1, NoneIsNoRoom DEF GuestOf
<1>4. Doomed(q) /\ reply[t] = "none"
  BY <1>0, EmptyOneshot, Zenon DEF RegistryInv, CreatorOf, Creator, StageOf
<1>5. ASSUME NEW r \in Rooms PROVE QuietFits(t, r)
  <2>1. /\ ~Closing(t, r) /\ ~Closing(t, r)' /\ ~Visits(t, r)
        /\ Creator(t, r) <=> r = q
        /\ ~Creator(t, r)' /\ ~Enters(t, r)'
    BY <1>0, <1>1, NoneIsNoRoom, Zenon DEF Closing, Visits, Leaving, Creator, Enters
  <2> QED
    BY <1>2, <1>4, <2>1, Zenon DEF QuietFits
<1> QED
  BY <1>0, <1>1, <1>3, <1>5, QuietCall

\* A call is dropped: what it would have done is known to be missing.
LEMMA CancelRegistry ==
    ASSUME IInv, ServiceInv, LeaveInv, RegistryInv, NEW t \in Tasks, Cancel(t)
    PROVE  RegistryInv'
<1>0. /\ TypeOK /\ task[t].pc \notin {"idle", "cancelled"} /\ reply \in [Tasks -> Reply]
      /\ UNCHANGED <<had_members, actor, closed, commands>>
      /\ task' = [task EXCEPT ![t].pc = "cancelled", ![t].rest = {}] /\ task \in [Tasks -> Call]
      /\ holders' = Hold(holders, t, {}) /\ GuestOf(t)
      /\ reply' = [reply EXCEPT ![t] = IF @ = "waiting" THEN "abandoned" ELSE "none"]
  BY DEF IInv, TypeOK, ServiceInv, RoomsUnchanged, Cancel, RegistryInv
<1>1. /\ \A u \in Tasks \ {t} : task'[u] = task[u] /\ reply'[u] = reply[u]
      /\ task'[t].pc = "cancelled" /\ task'[t].op = task[t].op
      /\ task'[t].room = task[t].room /\ task'[t].rest = {} /\ reply'[t] # "waiting"
  BY <1>0 DEF Call
<1>2. \A r \in Rooms : registered(r)' <=> registered(r)
  BY <1>0, ListedAfter
<1>3. GuestOf(t)'
  BY <1>0, <1>1 DEF GuestOf
<1>4. ASSUME NEW r \in Rooms PROVE QuietFits(t, r)
  <2>1. /\ ~Closing(t, r)' /\ ~Enters(t, r)'
        /\ Creator(t, r)' <=> Creator(t, r)
        /\ Visits(t, r) => Visits(t, r)'
    BY <1>1 DEF Closing, Visits, Creator, Enters
  <2>2. Closing(t, r) => CloseCancelled'
    BY <1>1 DEF Closing, CloseCancelled
  <2>3. StageOf(t, r)'
    BY <1>1 DEF StageOf
  <2> QED
    BY <1>1, <1>2, <2>1, <2>2, <2>3, Zenon DEF QuietFits
<1> QED
  BY <1>0, <1>1, <1>3, <1>4, QuietCall

\* A call begins that creates nothing: nobody can name a room before its creator
\* is in it.
LEMMA BeginRegistry ==
    ASSUME IInv, ServiceInv, LeaveInv, RegistryInv, NEW t \in Tasks, NEW pc, NEW op, NEW c, NEW q,
           Begin(t, call(pc, op, c, q)), UNCHANGED actorVars,
           \/ pc = "lookup" /\ op \in {"join", "leave", "chat"} /\ had_members[q]
           \/ pc = "snapshot" /\ op = "leave_all"
           \/ pc = "drain" /\ op = "close_all"
    PROVE  RegistryInv'
<1>0. /\ task[t].pc = "idle" /\ GuestOf(t)
      /\ UNCHANGED <<had_members, actor, closed, commands, reply, holders>>
      /\ task' = [task EXCEPT ![t] = call(pc, op, c, q)] /\ task \in [Tasks -> Call]
  BY DEF Begin, ServiceInv, RegistryInv, actorVars
<1>1. /\ \A u \in Tasks \ {t} : task'[u] = task[u]
      /\ task'[t].pc = pc /\ task'[t].op = op /\ task'[t].room = q /\ task'[t].rest = {}
  BY <1>0 DEF call
<1>2. GuestOf(t)'
  BY <1>0, <1>1 DEF GuestOf
<1>3. ASSUME NEW r \in Rooms
      PROVE  /\ ~Creator(t, r) /\ ~Creator(t, r)' /\ ~Visits(t, r)
             /\ ~Closing(t, r) /\ ~Closing(t, r)' /\ (registered(r)' <=> registered(r))
  BY <1>0, <1>1 DEF GuestOf, Creator, Visits, Closing, registered
<1> QED
  BY <1>0, <1>1, <1>2, <1>3, PlainCall, Zenon

\* create_and_join spawns a room of which there was no trace.
LEMMA CreateRegistry ==
    ASSUME IInv, ServiceInv, LeaveInv, RegistryInv, NEW t \in Tasks, NEW c \in Conns, NEW q \in Rooms,
           create_and_join(t, c, q)
    PROVE  RegistryInv'
<1>0. /\ task[t].pc = "idle" /\ GuestOf(t) /\ actor[q] = "unborn" /\ TypeOK
      /\ UNCHANGED <<had_members, closed, commands, reply>>
      /\ task' = [task EXCEPT ![t] = call("insert", "create", c, q)] /\ task \in [Tasks -> Call]
      /\ actor' = [actor EXCEPT ![q] = "running"]
      /\ holders' = [holders EXCEPT ![q] = {t}]
  BY DEF create_and_join, Spawn, Begin, ServiceInv, RegistryInv, IInv
<1>1. /\ \A u \in Tasks \ {t} : task'[u] = task[u]
      /\ task'[t].pc = "insert" /\ task'[t].op = "create" /\ task'[t].room = q
      /\ task'[t].rest = {}
  BY <1>0 DEF call
<1>2. ~had_members[q] /\ ~closed[q] /\ commands[q] = <<>> /\ holders[q] = {}
  <2>1. ~had_members[q] /\ commands[q] = <<>> /\ room[q] = open /\ (closed[q] <=> is_closed(room[q]))
    BY <1>0, Zenon DEF IInv, Lifecycle
  <2>2. ~closed[q]
    BY <2>1 DEF is_closed, open
  <2>3. holders[q] = {}
    BY <1>0, Zenon DEF ServiceInv, UnbornUnheld
  <2> QED
    BY <2>1, <2>2, <2>3
<1>3. \A r \in Rooms : registered(r)' <=> registered(r)
  BY <1>0, <1>2, RoomActorAssumptions DEF TypeOK, registered
<1>4. \A r \in Rooms : actor'[r] = IF r = q THEN "running" ELSE actor[r]
  BY <1>0 DEF TypeOK
<1>5. ASSUME NEW u \in Tasks, NEW r \in Rooms
      PROVE  /\ Creator(u, r)' <=> Creator(u, r) \/ (u = t /\ r = q)
             /\ ~Creator(u, q) /\ ~Creator(t, r)
             /\ Enters(u, r)' <=> Enters(u, r)
             /\ Visits(u, r) => Visits(u, r)'
             /\ Closing(u, r)' <=> Closing(u, r)
  <2>1. ~Creator(u, q)
    BY <1>0 DEF RegistryInv, CreatorOf
  <2>2. ~Creator(t, r) /\ ~Visits(t, r) /\ ~Closing(t, r)
    BY <1>0 DEF GuestOf, Creator, Visits, Closing
  <2>3. ~Enters(t, r)' /\ ~Closing(t, r)' /\ (Creator(t, r)' <=> r = q)
    BY <1>1 DEF Creator, Enters, Closing
  <2> QED
    BY <1>1, <2>1, <2>2, <2>3, Zenon DEF Creator, Visits, Enters, Closing
<1>6. ~CloseOnItsWay(q)
  <2>1. \A u \in Tasks : ~Closing(u, q)
    BY <1>2 DEF Closing, ServiceInv, TaskInv, HoldsOf
  <2>2. ~CloseQueued(q)
    BY <1>2 DEF CloseQueued
  <2> QED
    BY <2>1, <2>2, CloseWays
<1>7. ASSUME NEW r \in Rooms
      PROVE  (CloseOnItsWay(r)' <=> CloseOnItsWay(r)) /\ (Doomed(r) => Doomed(r)')
  <2>1. CloseOnItsWay(r)' <=> CloseOnItsWay(r)
    BY <1>0, <1>5, CloseWays, CloseWaysNext, Zenon DEF CloseQueued
  <2>2. CloseCancelled => CloseCancelled'
    BY <1>0, <1>1 DEF CloseCancelled
  <2> QED
    BY <1>0, <2>1, <2>2 DEF Doomed
<1>8. ASSUME NEW r \in Rooms PROVE RoomOf(r)'
  <2>0. RoomOf(r)
    BY DEF RegistryInv
  <2>1. FirstOf(r)'
    <3> SUFFICES ASSUME ~had_members[r], NEW i \in DOMAIN commands[r],
                        commands[r][i].type = "Join"
                 PROVE  Creator(commands[r][i].reply, r)'
      BY <1>0 DEF FirstOf
    <3>1. PICK u \in Tasks : u = commands[r][i].reply /\ Creator(u, r)
      BY <1>0, <2>0, JoinReply, Zenon DEF RoomOf, FirstOf
    <3> QED
      BY <1>0, <1>5, <3>1, Zenon
  <2>2. ListedOf(r)'
    BY <1>0, <1>3, <1>5, <1>7, <2>0, Zenon DEF RoomOf, ListedOf, JoinQueued
  <2>3. DrainedOf(r)'
    BY <1>1, <1>3, <1>5, <1>6, <1>7, <2>0, Zenon DEF RoomOf, DrainedOf
  <2>4. ClosedOf(r)'
    BY <1>0, <1>3, <1>5, <2>0 DEF RoomOf, ClosedOf
  <2>5. EmptyOf(r)'
    BY <1>0, <1>2, <1>3, <1>4, <1>5, <2>0, Zenon DEF RoomOf, EmptyOf, registered
  <2> QED
    BY <2>1, <2>2, <2>3, <2>4, <2>5 DEF RoomOf
<1>9. ASSUME NEW u \in Tasks PROVE CreatorOf(u)' /\ GuestOf(u)'
  <2>1. CASE u = t
    <3>1. StageOf(t, q)'
      BY <1>0, <1>1, <1>2, <1>3, EmptyOneshot, Zenon DEF StageOf, registered
    <3>2. GuestOf(t)'
      BY <1>1 DEF GuestOf
    <3>3. CreatorOf(t)'
      BY <1>4, <1>5, <3>1, Zenon DEF CreatorOf
    <3> QED
      BY <2>1, <3>2, <3>3
  <2>2. CASE u # t
    <3>0. CreatorOf(u) /\ GuestOf(u) /\ task'[u] = task[u]
      BY <1>1, <2>2 DEF RegistryInv
    <3>1. GuestOf(u)'
      BY <1>0, <3>0, Zenon DEF GuestOf
    <3>2. ASSUME NEW r \in Rooms, Creator(u, r)
          PROVE  actor'[r] # "unborn" /\ StageOf(u, r)' /\ \A v \in Tasks : Creator(v, r)' => v = u
      <4>1. r # q /\ StageOf(u, r) /\ actor[r] # "unborn" /\ \A v \in Tasks : Creator(v, r) => v = u
        BY <1>5, <3>0, <3>2 DEF CreatorOf
      <4>2. StageOf(u, r)'
        BY <1>0, <1>3, <1>7, <3>0, <4>1, Zenon DEF StageOf
      <4> QED
        BY <1>4, <1>5, <4>1, <4>2, Zenon
    <3> QED
      BY <1>5, <2>2, <3>1, <3>2 DEF CreatorOf
  <2> QED
    BY <2>1, <2>2
<1> QED
  BY <1>8, <1>9 DEF RegistryInv

\* Which call sends what.
LEMMA CommandType ==
    ASSUME NEW t \in Tasks, TaskInv(t), task[t].pc = "send"
    PROVE  /\ Command(t).type = "Join" <=> task[t].op \in {"join", "create"}
           /\ Command(t).type = "Close" <=> task[t].op = "close_all"
<1>1. task[t].op \in {"join", "create", "leave", "leave_all", "chat", "close_all"}
  BY DEF TaskInv, ShapeOf, Call, Op
<1>2. CASE task[t].op \in {"join", "create"}
  BY <1>2 DEF Command, Join
<1>3. CASE task[t].op \in {"leave", "leave_all"}
  BY <1>3 DEF Command, Leave
<1>4. CASE task[t].op = "chat"
  BY <1>4 DEF Command, Chat
<1>5. CASE task[t].op = "close_all"
  BY <1>5 DEF Command, Close
<1> QED
  BY <1>1, <1>2, <1>3, <1>4, <1>5

\* A command is queued: a Join by the creator or by somebody who knows the room,
\* or the Close of a room that was drained.
LEMMA EnqueueRegistry ==
    ASSUME IInv, ServiceInv, LeaveInv, RegistryInv, NEW t \in Tasks, Enqueue(t)
    PROVE  RegistryInv'
<1> DEFINE wait == task[t].op \in Waiting
<1>0. PICK q \in Rooms, cmd \in RoomCommand :
        /\ q = task[t].room /\ cmd = Command(t) /\ task[t].pc = "send" /\ Send(q, t, cmd, wait)
        /\ TypeOK /\ TaskInv(t) /\ task[t] \in Call /\ task \in [Tasks -> Call]
        /\ GuestOf(t) /\ CreatorOf(t)
        /\ task' = [task EXCEPT ![t] =
                       IF wait THEN [@ EXCEPT !.pc = "reply"]
                       ELSE IF @.op = "close_all" THEN [@ EXCEPT !.pc = "next"]
                       ELSE Done(@, "ok")]
  <2>1. /\ task[t].pc = "send" /\ TaskInv(t) /\ task[t].room \in Rooms
    BY DEF Enqueue, ServiceInv, TaskInv, ShapeOf
  <2>2. Command(t) \in RoomCommand
    BY <2>1, CommandFits
  <2> QED
    BY <2>1, <2>2 DEF Enqueue, ServiceInv, Waiting, IInv, RegistryInv
<1>1. /\ cmd.reply = IF wait THEN t ELSE None
      /\ cmd.type = "Join" <=> task[t].op \in {"join", "create"}
      /\ cmd.type = "Close" <=> task[t].op = "close_all"
  BY <1>0, CommandFits, CommandType
<1>2. reply[t] = "none" /\ reply \in [Tasks -> Reply] /\ commands \in [Rooms -> Seq(RoomCommand)]
  BY <1>0, EmptyOneshot, Zenon DEF TypeOK
<1>3. /\ UNCHANGED <<had_members, actor, closed>>
      /\ commands' = [commands EXCEPT ![q] = Append(@, cmd)]
      /\ \A u \in Tasks \ {t} : reply'[u] = reply[u]
      /\ wait => reply'[t] = "waiting"
      /\ holders' = IF wait THEN holders ELSE [holders EXCEPT ![q] = @ \ {t}]
  BY <1>0, <1>1, <1>2, RoomActorAssumptions, Zenon DEF Send
<1>4. PICK n :
        /\ \A r \in Rooms \ {q} : commands'[r] = commands[r]
        /\ DOMAIN commands'[q] = DOMAIN commands[q] \cup {n} /\ n \notin DOMAIN commands[q]
        /\ commands'[q][n] = cmd
        /\ \A i \in DOMAIN commands[q] : commands'[q][i] = commands[q][i]
  <2>1. commands'[q] = Append(commands[q], cmd) /\ commands[q] \in Seq(RoomCommand)
    BY <1>0, <1>2, <1>3
  <2> DEFINE m == Len(commands[q]) + 1
  <2>2. /\ \A r \in Rooms \ {q} : commands'[r] = commands[r]
        /\ DOMAIN commands'[q] = DOMAIN commands[q] \cup {m} /\ m \notin DOMAIN commands[q]
        /\ commands'[q][m] = cmd
        /\ \A i \in DOMAIN commands[q] : commands'[q][i] = commands[q][i]
    BY <1>0, <1>2, <1>3, <2>1
  <2> QED
    BY <2>2
<1>5. /\ \A u \in Tasks \ {t} : task'[u] = task[u]
      /\ task'[t].op = task[t].op
      /\ wait => task'[t].pc = "reply"
      /\ ~wait /\ task[t].op = "close_all" => task'[t].pc = "next"
      /\ wait \/ task[t].op = "close_all" => task'[t].room = q /\ task'[t].rest = task[t].rest
      /\ ~wait /\ task[t].op # "close_all" =>
            task'[t].pc = "idle" /\ task'[t].room = None /\ task'[t].rest = {}
  BY <1>0 DEF Call, Done, NoCall, call
<1>6. \A r \in Rooms : registered(r)' <=> registered(r)
  BY <1>0, <1>3, RoomActorAssumptions DEF TypeOK, registered
<1>7. GuestOf(t)'
  BY <1>0, <1>3, <1>5, NoneIsNoRoom DEF GuestOf
<1>8. ASSUME NEW r \in Rooms PROVE CallFits(t, r)
  <2>1. /\ JoinQueued(r)' <=> JoinQueued(r) \/ (r = q /\ cmd.type = "Join")
        /\ CloseQueued(r)' <=> CloseQueued(r) \/ (r = q /\ cmd.type = "Close")
    BY <1>4 DEF JoinQueued, CloseQueued
  <2>2. /\ Closing(t, r)' => Closing(t, r)
        /\ Closing(t, r) => Closing(t, r)' \/ (r = q /\ cmd.type = "Close")
        /\ r = q /\ cmd.type = "Close" => Closing(t, r)
    BY <1>0, <1>1, <1>5 DEF Closing, Waiting
  <2>3. Doomed(r) => Doomed(r)'
    <3>1. CloseCancelled => CloseCancelled'
      BY <1>0, <1>5 DEF CloseCancelled
    <3>2. \A u \in Tasks \ {t} : Closing(u, r)' <=> Closing(u, r)
      BY <1>5 DEF Closing
    <3>3. CloseOnItsWay(r) => CloseOnItsWay(r)'
      BY <2>1, <2>2, <3>2, CloseWays, CloseWaysNext
    <3> QED
      BY <1>3, <3>1, <3>3 DEF Doomed
  <2>4. Closing(t, r)' \/ CloseQueued(r)' => CloseOnItsWay(r)
    BY <2>1, <2>2, CloseWays
  <2>5. ~Enters(t, r)' /\ (r = q /\ cmd.type = "Join" => Enters(t, r) \/ had_members[r])
    BY <1>0, <1>1, <1>5 DEF Enters, Creator, GuestOf
  <2>6. Creator(t, r)' <=> Creator(t, r)
    BY <1>0, <1>5 DEF Creator, Waiting
  <2>7. FirstOf(r)'
    <3> SUFFICES ASSUME ~had_members[r], NEW i \in DOMAIN commands'[r],
                        commands'[r][i].type = "Join"
                 PROVE  Creator(commands[r][i].reply, r)'
      BY <1>3 DEF FirstOf
    <3>1. CASE r = q /\ i = n
      <4>1. Creator(t, r)
        BY <1>0, <1>1, <1>4, <3>1 DEF Creator, GuestOf
      <4>2. commands'[r][i].reply = t
        BY <1>1, <1>4, <3>1 DEF Waiting
      <4> QED
        BY <2>6, <4>1, <4>2
    <3>2. CASE ~(r = q /\ i = n)
      <4>1. i \in DOMAIN commands[r] /\ commands'[r][i] = commands[r][i]
        BY <1>4, <3>2
      <4>2. PICK u \in Tasks : u = commands[r][i].reply /\ Creator(u, r)
        BY <1>0, <4>1, JoinReply DEF RegistryInv, RoomOf, FirstOf
      <4>3. Creator(u, r)'
        BY <1>5, <2>6, <4>2 DEF Creator
      <4> QED
        BY <4>1, <4>2, <4>3
    <3> QED
      BY <3>1, <3>2
  <2>8. Visits(t, r) => Visits(t, r)'
    BY <1>0, <1>5 DEF Visits, Waiting, Leaving
  <2>9. Creator(t, r)' => task'[t].pc # "insert" /\ StageOf(t, r)'
    BY <1>0, <1>3, <1>5, <2>6 DEF CreatorOf, Creator, StageOf, Waiting
  <2> QED
    BY <1>6, <2>1, <2>3, <2>4, <2>5, <2>6, <2>7, <2>8, <2>9, Zenon DEF CallFits
<1> QED
  BY <1>3, <1>5, <1>7, <1>8, CallFrame

-----------------------------------------------------------------------------
(***************************************************************************)
(* Rooms.                                                                  *)
(***************************************************************************)

\* A room takes a command.
LEMMA HandleRegistry ==
    ASSUME IInv, ServiceInv, LeaveInv, RegistryInv, NEW q \in Rooms, Handle(q), UNCHANGED task,
           HandleEffect(q, Head(commands[q]))
    PROVE  RegistryInv'
<1>0. /\ TypeOK /\ actor[q] = "running" /\ ~closed[q] /\ UNCHANGED holders
      /\ commands[q] \in Seq(RoomCommand) /\ commands[q] # <<>>
      /\ commands \in [Rooms -> Seq(RoomCommand)] /\ commands' = [commands EXCEPT ![q] = Tail(@)]
  BY Zenon DEF IInv, TypeOK, OpenWhileRunning, Handle
<1>1. PICK cmd : cmd = Head(commands[q])
  OBVIOUS
<1>2. HandleEffect(q, cmd)
  BY <1>1
<1>3. /\ \A r \in Rooms \ {q} : commands'[r] = commands[r]
      /\ 1 \in DOMAIN commands[q] /\ commands[q][1] = cmd
      /\ \A i \in DOMAIN commands'[q] : /\ i + 1 \in DOMAIN commands[q]
                                       /\ commands'[q][i] = commands[q][i + 1]
      /\ \A i \in DOMAIN commands[q] : i # 1 => /\ i - 1 \in DOMAIN commands'[q]
                                               /\ commands'[q][i - 1] = commands[q][i]
  <2>1. commands'[q] = Tail(commands[q])
    BY <1>0
  <2> QED
    BY <1>0, <1>1, <2>1
<1>4. \A r \in Rooms : (had_members[r] => had_members'[r]) /\ (closed[r] => closed'[r])
  BY <1>0, <1>2, Zenon DEF HandleEffect
<1>5. ASSUME NEW r \in Rooms
      PROVE  /\ JoinQueued(r)' => JoinQueued(r)
             /\ CloseQueued(r)' => CloseQueued(r)
             /\ CloseQueued(r) => CloseQueued(r)' \/ closed'[r]
             /\ r = q /\ cmd.type = "Join" => JoinQueued(r)
             /\ r = q /\ cmd.type = "Close" => CloseQueued(r)
  <2>1. CASE r # q
    BY <1>3, <2>1, Zenon DEF JoinQueued, CloseQueued
  <2>2. CASE r = q
    <3>1. cmd.type = "Close" => closed'[q]
      BY <1>2, Zenon DEF HandleEffect
    <3>2. \A i \in DOMAIN commands'[q] : \E j \in DOMAIN commands[q] : commands[q][j] = commands'[q][i]
      BY <1>3
    <3>3. \A i \in DOMAIN commands[q] :
             commands[q][i] = cmd \/ \E j \in DOMAIN commands'[q] : commands'[q][j] = commands[q][i]
      BY <1>3
    <3>4. \E i \in DOMAIN commands[q] : commands[q][i] = cmd
      BY <1>3
    <3>5. (JoinQueued(r)' => JoinQueued(r)) /\ (CloseQueued(r)' => CloseQueued(r))
      BY <2>2, <3>2, Zenon DEF JoinQueued, CloseQueued
    <3>6. CloseQueued(r) => CloseQueued(r)' \/ closed'[r]
      BY <2>2, <3>1, <3>3, Zenon DEF CloseQueued
    <3>7. (cmd.type = "Join" => JoinQueued(r)) /\ (cmd.type = "Close" => CloseQueued(r))
      BY <2>2, <3>4, Zenon DEF JoinQueued, CloseQueued
    <3> QED
      BY <3>5, <3>6, <3>7
  <2> QED
    BY <2>1, <2>2
<1>6. ASSUME NEW u \in Tasks, NEW r \in Rooms
      PROVE  /\ Creator(u, r)' <=> Creator(u, r)
             /\ Enters(u, r)' <=> Enters(u, r)
             /\ Visits(u, r)' <=> Visits(u, r)
             /\ Closing(u, r)' <=> Closing(u, r)
  BY DEF Creator, Enters, Visits, Closing
<1>7. ASSUME NEW r \in Rooms
      PROVE  /\ CloseOnItsWay(r)' => CloseOnItsWay(r)
             /\ Doomed(r) => Doomed(r)'
             /\ registered(r)' <=> registered(r)
  <2>1. CloseOnItsWay(r)' => CloseOnItsWay(r)
    BY <1>5, <1>6, CloseWays, CloseWaysNext
  <2>2. CloseOnItsWay(r) => CloseOnItsWay(r)' \/ closed'[r]
    BY <1>5, <1>6, CloseWays, CloseWaysNext
  <2>3. CloseCancelled => CloseCancelled'
    BY DEF CloseCancelled
  <2> QED
    BY <1>0, <1>4, <2>1, <2>2, <2>3 DEF Doomed, registered
<1>8. ASSUME NEW u \in Tasks, cmd.reply = u
      PROVE  /\ task[u].room = q /\ task[u].pc \in {"reply", "cancelled"}
             /\ reply[u] \in {"waiting", "abandoned"}
             /\ cmd.type = IF task[u].op \in Leaving THEN "Leave" ELSE "Join"
  <2>1. QueuedOf(u) /\ OneshotOf(u, task[u])
    BY DEF LeaveInv, LeaveOf, ServiceInv, TaskInv
  <2>2. /\ task[u].room = q /\ reply[u] \in {"waiting", "abandoned"}
        /\ cmd.type = IF task[u].op \in Leaving THEN "Leave" ELSE "Join"
    BY <1>3, <1>8, <2>1 DEF QueuedOf
  <2> QED
    BY <2>1, <2>2, Zenon DEF OneshotOf
<1>9. ASSUME cmd.type = "Leave" PROVE \E u \in Tasks : Visits(u, q)
  <2>1. cmd \in RoomCommand
    BY <1>0, <1>3
  <2>2. cmd.reply \in Tasks
    BY <1>9, <2>1 DEF RoomCommand, Join, Leave, Chat, UnfitChat, Close
  <2> QED
    BY <1>8, <1>9, <2>2 DEF Visits
<1>10. ASSUME cmd.type = "Join", ~had_members[q]
       PROVE  \E u \in Tasks : u = cmd.reply /\ Creator(u, q)
  BY <1>0, <1>3, <1>10, JoinReply, Zenon DEF RegistryInv, RoomOf, FirstOf
<1>11. ASSUME NEW r \in Rooms PROVE RoomOf(r)'
  <2>0. RoomOf(r)
    BY DEF RegistryInv
  <2>1. FirstOf(r)'
    <3>1. CASE r # q
      <4>1. commands'[r] = commands[r] /\ had_members'[r] = had_members[r]
        BY <1>2, <1>3, <3>1, Zenon DEF HandleEffect
      <4> QED
        BY <2>0, <4>1, Zenon DEF RoomOf, FirstOf, Creator
    <3>2. CASE r = q
      <4>1. \A i \in DOMAIN commands'[q] : \E j \in DOMAIN commands[q] : commands[q][j] = commands'[q][i]
        BY <1>3
      <4>2. had_members[q] => had_members'[q]
        BY <1>4
      <4> QED
        <5>1. FirstOf(q)
          BY <2>0, <3>2, Zenon DEF RoomOf
        <5>2. ASSUME NEW i \in DOMAIN commands'[q], commands'[q][i].type = "Join", ~had_members'[q]
              PROVE  Creator(commands'[q][i].reply, q)
          BY <4>1, <4>2, <5>1, <5>2, Zenon DEF FirstOf
        <5> QED
          BY <3>2, <5>2 DEF FirstOf, Creator
    <3> QED
      BY <3>1, <3>2
  <2>2. ListedOf(r)'
    <3>1. had_members'[r] => had_members[r] \/ JoinQueued(r)
      BY <1>2, <1>5, Zenon DEF HandleEffect
    <3> QED
      BY <1>5, <1>6, <1>7, <2>0, <3>1, Zenon DEF RoomOf, ListedOf
  <2>3. DrainedOf(r)'
    BY <1>6, <1>7, <2>0, Zenon DEF RoomOf, DrainedOf
  <2>4. ClosedOf(r)'
    <3>1. CASE closed[r]
      BY <1>6, <1>7, <2>0, <3>1, Zenon DEF RoomOf, ClosedOf
    <3>2. CASE ~closed[r] /\ closed'[r]
      <4>1. r = q /\ (cmd.type = "Close" \/ cmd.type = "Leave")
        BY <1>2, <3>2, Zenon DEF HandleEffect
      <4>2. cmd.type = "Close" => ~registered(r)
        BY <1>5, <2>0, <4>1, CloseWays, Zenon DEF RoomOf, DrainedOf
      <4> QED
        BY <1>6, <1>7, <1>9, <4>1, <4>2 DEF ClosedOf
    <3> QED
      BY <3>1, <3>2, Zenon DEF ClosedOf
  <2>5. EmptyOf(r)'
    <3>1. actor'[r] = "running" => actor[r] = "running"
      BY <1>0, <1>2, Zenon DEF HandleEffect
    <3> QED
      BY <1>4, <1>6, <1>7, <2>0, <3>1, Zenon DEF RoomOf, EmptyOf
  <2> QED
    BY <2>1, <2>2, <2>3, <2>4, <2>5 DEF RoomOf
<1>12. ASSUME NEW u \in Tasks PROVE CreatorOf(u)' /\ GuestOf(u)'
  <2>0. CreatorOf(u) /\ GuestOf(u) /\ task'[u] = task[u]
    BY DEF RegistryInv
  <2>1. GuestOf(u)'
    <3>1. task[u].pc = "unregister" => task[u].room \in Rooms
      BY Zenon DEF ServiceInv, TaskInv, ShapeOf
    <3> QED
      BY <1>4, <2>0, <3>1 DEF GuestOf
  <2>2. ASSUME NEW r \in Rooms, Creator(u, r) PROVE actor'[r] # "unborn" /\ StageOf(u, r)'
    <3>0. /\ StageOf(u, r) /\ actor[r] # "unborn" /\ \A v \in Tasks : Creator(v, r) => v = u
          /\ task[u].op = "create" /\ task[u].room = r
      BY <2>0, <2>2, Zenon DEF CreatorOf, Creator
    <3>1. actor'[r] # "unborn"
      BY <1>2, <3>0, Zenon DEF HandleEffect
    <3>2. CASE had_members'[r] /\ ~had_members[r]
      <4>1. r = q /\ cmd.type = "Join" /\ ~had_members[q]
        BY <1>2, <3>2, Zenon DEF HandleEffect
      <4>2. cmd.reply = u
        BY <1>10, <3>0, <4>1
      <4>3. task[u].pc \in {"reply", "cancelled"} /\ reply[u] \in {"waiting", "abandoned"}
        BY <1>8, <4>2
      <4>4. had_members'[r] /\ (reply[u] = "waiting" => reply'[u] = "joined")
        BY <1>2, <4>1, <4>2 DEF HandleEffect
      <4>5. reply[u] = "abandoned" => reply'[u] = "abandoned"
        BY <1>2 DEF HandleEffect
      <4> QED
        BY <2>0, <3>0, <3>1, <4>3, <4>4, <4>5, Zenon DEF StageOf
    <3>3. CASE had_members'[r] => had_members[r]
      <4>1. reply'[u] = reply[u]
        <5>1. SUFFICES ASSUME reply'[u] # reply[u] PROVE FALSE
          BY Zenon
        <5>2. cmd.reply = u /\ reply[u] = "waiting"
          BY <1>2, <5>1, Zenon DEF HandleEffect
        <5>3. r = q /\ cmd.type = "Join"
          BY <1>8, <3>0, <5>2 DEF Leaving
        <5>4. ~had_members[q]
          BY <3>0, <5>2, <5>3, Zenon DEF StageOf
        <5> QED
          BY <1>2, <3>3, <5>3, <5>4, Zenon DEF HandleEffect
      <4>2. task[u].pc = "insert" => ~closed'[r]
        <5>1. SUFFICES ASSUME task[u].pc = "insert", closed'[r] PROVE FALSE
          BY Zenon
        <5>2. ~closed[r] /\ ~had_members[r]
          BY <3>0, <5>1 DEF StageOf
        <5>3. r = q /\ cmd.type = "Close"
          BY <1>2, <5>1, <5>2, Zenon DEF HandleEffect
        <5>4. CloseOnItsWay(r)
          BY <1>5, <5>3, CloseWays
        <5> QED
          BY <2>2, <5>1, <5>4, Zenon DEF RegistryInv, RoomOf, DrainedOf
      <4>3. StageOf(u, r)'
        BY <1>4, <1>7, <2>0, <3>0, <3>3, <4>1, <4>2, Zenon DEF StageOf
      <4> QED
        BY <3>1, <4>3
    <3> QED
      BY <3>2, <3>3, Zenon
  <2> QED
    BY <1>6, <2>0, <2>1, <2>2, Zenon DEF CreatorOf
<1> QED
  BY <1>11, <1>12 DEF RegistryInv

\* A room ends: it was flagged already, or nobody has a handle of it.
LEMMA StopRegistry ==
    ASSUME IInv, ServiceInv, LeaveInv, RegistryInv, NEW q \in Rooms, Break(q) \/ Disconnect(q),
           UNCHANGED task
    PROVE  RegistryInv'
<1>0. /\ TypeOK /\ UNCHANGED <<had_members, holders>> /\ (closed[q] \/ holders[q] = {})
      /\ commands' = [commands EXCEPT ![q] = <<>>] /\ closed' = [closed EXCEPT ![q] = TRUE]
      /\ actor' = [actor EXCEPT ![q] = "stopped"]
      /\ reply' = [t \in Tasks |-> IF t \in {commands[q][i].reply : i \in DOMAIN commands[q]}
                                      /\ reply[t] = "waiting"
                                   THEN "dropped" ELSE reply[t]]
  BY Zenon DEF IInv, FlagBeforeDrop, Break, Disconnect, Stop
<1>1. /\ \A r \in Rooms \ {q} : /\ commands'[r] = commands[r] /\ closed'[r] = closed[r]
                                /\ actor'[r] = actor[r]
      /\ commands'[q] = <<>> /\ DOMAIN commands'[q] = {} /\ closed'[q] /\ actor'[q] = "stopped"
  BY <1>0 DEF TypeOK
<1>2. \A u \in Tasks : reply'[u] # reply[u] =>
         reply'[u] = "dropped" /\ reply[u] = "waiting" /\ task[u].room = q
  BY <1>0, Zenon DEF LeaveInv, LeaveOf, QueuedOf
<1>3. ASSUME NEW u \in Tasks, NEW r \in Rooms
      PROVE  /\ Creator(u, r)' <=> Creator(u, r)
             /\ Enters(u, r)' <=> Enters(u, r)
             /\ Visits(u, r)' <=> Visits(u, r)
             /\ Closing(u, r)' <=> Closing(u, r)
  BY DEF Creator, Enters, Visits, Closing
<1>4. ASSUME NEW r \in Rooms
      PROVE  /\ CloseOnItsWay(r)' => CloseOnItsWay(r)
             /\ Doomed(r) => Doomed(r)'
             /\ JoinQueued(r)' => JoinQueued(r)
             /\ registered(r)' <=> registered(r)
             /\ closed[r] => closed'[r]
  <2>1. /\ CloseQueued(r)' => CloseQueued(r)
        /\ CloseQueued(r) => CloseQueued(r)' \/ closed'[r]
        /\ JoinQueued(r)' => JoinQueued(r)
    BY <1>1, Zenon DEF CloseQueued, JoinQueued
  <2>2. /\ CloseOnItsWay(r)' => CloseOnItsWay(r)
        /\ CloseOnItsWay(r) => CloseOnItsWay(r)' \/ closed'[r]
    BY <1>3, <2>1, CloseWays, CloseWaysNext
  <2>3. CloseCancelled => CloseCancelled'
    BY DEF CloseCancelled
  <2> QED
    BY <1>0, <1>1, <2>1, <2>2, <2>3, Zenon DEF Doomed, registered
<1>5. ASSUME NEW r \in Rooms PROVE RoomOf(r)'
  <2>0. RoomOf(r)
    BY DEF RegistryInv
  <2>1. FirstOf(r)'
    BY <1>0, <1>1, <2>0, Zenon DEF RoomOf, FirstOf, Creator
  <2>2. ListedOf(r)' /\ DrainedOf(r)'
    BY <1>0, <1>3, <1>4, <2>0, Zenon DEF RoomOf, ListedOf, DrainedOf
  <2>3. ClosedOf(r)'
    BY <1>0, <1>1, <1>3, <1>4, <2>0, Zenon DEF RoomOf, ClosedOf, registered
  <2>4. EmptyOf(r)'
    BY <1>0, <1>1, <1>3, <1>4, <2>0, Zenon DEF RoomOf, EmptyOf
  <2> QED
    BY <2>1, <2>2, <2>3, <2>4 DEF RoomOf
<1>6. ASSUME NEW u \in Tasks PROVE CreatorOf(u)' /\ GuestOf(u)'
  <2>0. CreatorOf(u) /\ GuestOf(u) /\ task'[u] = task[u] /\ TaskInv(u)
    BY DEF RegistryInv, ServiceInv
  <2>1. GuestOf(u)'
    <3>1. task[u].pc = "unregister" => task[u].room \in Rooms
      BY <2>0, Zenon DEF TaskInv, ShapeOf
    <3> QED
      BY <1>0, <1>4, <2>0, <3>1, Zenon DEF GuestOf
  <2>2. ASSUME NEW r \in Rooms, Creator(u, r) PROVE actor'[r] # "unborn" /\ StageOf(u, r)'
    <3>0. /\ StageOf(u, r) /\ actor[r] # "unborn"
          /\ task[u].op = "create" /\ task[u].room = r
      BY <2>0, <2>2 DEF CreatorOf, Creator
    <3>1. task[u].pc = "insert" => ~closed'[r]
      <4>1. task[u].pc = "insert" => u \in holders[r] /\ ~closed[r]
        BY <2>0, <3>0, Zenon DEF StageOf, TaskInv, HoldsOf
      <4>2. u \in holders[r] /\ ~closed[r] => r # q
        BY <1>0, Zenon
      <4> QED
        BY <1>1, <4>1, <4>2, Zenon
    <3>2. \/ reply'[u] = reply[u]
          \/ reply'[u] = "dropped" /\ reply[u] = "waiting" /\ closed'[r]
      BY <1>1, <1>2, <3>0, Zenon
    <3>3. StageOf(u, r)'
      BY <1>0, <1>4, <2>0, <3>0, <3>1, <3>2, Zenon DEF StageOf
    <3> QED
      BY <1>1, <3>0, <3>3, Zenon
  <2> QED
    BY <1>3, <2>0, <2>1, <2>2, Zenon DEF CreatorOf
<1> QED
  BY <1>5, <1>6 DEF RegistryInv

-----------------------------------------------------------------------------
(***************************************************************************)
(* The theorems.                                                           *)
(***************************************************************************)

\* Nothing the registry depends on changes.
LEMMA SameRegistry ==
    ASSUME RegistryInv, UNCHANGED <<had_members, actor, closed, commands, holders, reply, task>>
    PROVE  RegistryInv'
<1>1. ASSUME NEW r \in Rooms PROVE CloseOnItsWay(r)' <=> CloseOnItsWay(r)
  BY Zenon DEF CloseOnItsWay
<1>2. CloseCancelled' <=> CloseCancelled
  BY DEF CloseCancelled
<1>3. ASSUME NEW r \in Rooms PROVE (Doomed(r)' <=> Doomed(r)) /\ (registered(r)' <=> registered(r))
  BY <1>1, <1>2 DEF Doomed, registered
<1>4. ASSUME NEW r \in Rooms PROVE RoomOf(r)'
  <2>0. RoomOf(r)
    BY DEF RegistryInv
  <2>1. FirstOf(r)'
    BY <2>0 DEF RoomOf, FirstOf, Creator
  <2>2. ListedOf(r)'
    BY <1>3, <2>0, Zenon DEF RoomOf, ListedOf, JoinQueued, Enters, Creator
  <2>3. DrainedOf(r)' /\ ClosedOf(r)' /\ EmptyOf(r)'
    BY <1>1, <1>3, <2>0, Zenon DEF RoomOf, DrainedOf, ClosedOf, EmptyOf, Creator, Visits
  <2> QED
    BY <2>1, <2>2, <2>3 DEF RoomOf
<1>5. ASSUME NEW t \in Tasks PROVE CreatorOf(t)' /\ GuestOf(t)'
  <2>1. CreatorOf(t) /\ GuestOf(t)
    BY DEF RegistryInv
  <2>2. \A r \in Rooms : StageOf(t, r) => StageOf(t, r)'
    BY <1>3 DEF StageOf
  <2> QED
    BY <2>1, <2>2, Zenon DEF CreatorOf, GuestOf, Creator
<1> QED
  BY <1>4, <1>5 DEF RegistryInv

\* Every step keeps RegistryInv, given what rooms do with their commands.
LEMMA RegistryStep ==
    ASSUME IInv, ServiceInv, LeaveInv, RegistryInv, [ServiceNext]_serviceVars,
           \A q \in Rooms : Handle(q) => HandleEffect(q, Head(commands[q]))
    PROVE  RegistryInv'
<1>1. ASSUME NEW t \in Tasks, CallStep(t) PROVE RegistryInv'
  BY <1>1, InsertRegistry, LookupRegistry, EnqueueRegistry, SendFailsRegistry, TakeReplyRegistry,
     UnregisterRegistry, RemoveRegistry, IterateRegistry, NextRoomRegistry, Zenon DEF CallStep
<1>2. ASSUME NEW t \in Tasks, AnyCall(t) PROVE RegistryInv'
  <2>1. ASSUME NEW c \in Conns, NEW r \in Rooms, join(t, c, r) \/ leave(t, c, r) \/ chat(t, c, r)
        PROVE  RegistryInv'
    BY <2>1, BeginRegistry DEF join, leave, chat, Nameable
  <2>2. ASSUME NEW c \in Conns, leave_all(t, c) PROVE RegistryInv'
    BY <2>2, BeginRegistry DEF leave_all
  <2>3. CASE close_all(t)
    BY <2>3, BeginRegistry DEF close_all
  <2> QED
    BY <1>2, <2>1, <2>2, <2>3, CreateRegistry, Zenon DEF AnyCall
<1>3. CASE RoomsStep
  <2>1. ASSUME NEW r \in Rooms, ActorStep(r), UNCHANGED task PROVE RegistryInv'
    BY <2>1, HandleRegistry, StopRegistry, Zenon DEF ActorStep
  <2>2. ASSUME NEW c \in Conns, Receive(c) \/ DropReceiver(c), UNCHANGED task PROVE RegistryInv'
    BY <2>2, SameRegistry, Zenon DEF Receive, DropReceiver
  <2> QED
    BY <1>3, <2>1, <2>2, Zenon DEF RoomsStep
<1>4. CASE UNCHANGED serviceVars
  BY <1>4, SameRegistry DEF serviceVars, actorVars
<1> QED
  BY <1>1, <1>2, <1>3, <1>4, CancelRegistry, Zenon DEF ServiceNext

\* At first there is no room and no call.
LEMMA RegistryInit == ServiceInit => RegistryInv
<1> SUFFICES ASSUME ServiceInit PROVE RegistryInv
  OBVIOUS
<1>1. /\ \A r \in Rooms : /\ ~had_members[r] /\ ~closed[r] /\ actor[r] = "unborn"
                          /\ DOMAIN commands[r] = {} /\ holders[r] = {}
      /\ \A t \in Tasks : /\ task[t].pc = "idle" /\ task[t].op = "none"
                          /\ task[t].room = None /\ task[t].rest = {}
  BY DEF ServiceInit, Init, NoCall, call
<1>2. \A t \in Tasks, r \in Rooms : ~Creator(t, r) /\ ~Closing(t, r)
  BY <1>1 DEF Creator, Closing
<1>3. \A t \in Tasks : CreatorOf(t) /\ GuestOf(t)
  BY <1>1, <1>2, NoneIsNoRoom DEF CreatorOf, GuestOf
<1>4. ASSUME NEW r \in Rooms PROVE RoomOf(r)
  <2>1. ~CloseOnItsWay(r)
    BY <1>1, <1>2, CloseWays DEF CloseQueued
  <2> QED
    BY <1>1, <1>2, <2>1, Zenon DEF RoomOf, FirstOf, ListedOf, DrainedOf, ClosedOf, EmptyOf, registered,
                            JoinQueued, Enters
<1> QED
  BY <1>3, <1>4 DEF RegistryInv
=============================================================================
