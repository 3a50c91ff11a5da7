-------------------------- MODULE RoomServiceLemmas --------------------------
(***************************************************************************)
(* Every step of RoomService keeps ServiceInv and is a step of RoomActor,  *)
(* and keeps LeaveInv: a lemma for each kind of step.                      *)
(***************************************************************************)
EXTENDS RoomServiceInv, TLAPS

-----------------------------------------------------------------------------
(***************************************************************************)
(* Handles.                                                                *)
(***************************************************************************)

\* Only task t and the registry change handles, and no handle appears where
\* none was.
HandlesOf(t) ==
    /\ holders' \in [Rooms -> SUBSET Holder]
    /\ Clonable(holders, holders')
    /\ \A r \in Rooms, u \in Tasks \ {t} : u \in holders[r] => u \in holders'[r]

\* Hold and Unlist: what each room's holders are.
LEMMA HeldAfter ==
    ASSUME TypeOK, NEW t \in Tasks, NEW U, NEW S,
           \A r \in Rooms : r \in S => holders[r] # {},
           \/ holders' = Hold(holders, t, S)
           \/ holders' = Hold(Unlist(holders, U), t, S)
    PROVE  /\ HandlesOf(t)
           /\ \A r \in Rooms : r \in S => t \in holders'[r]
<1>1. holders \in [Rooms -> SUBSET Holder]
  BY DEF TypeOK
<1>2. Registry # t /\ t \in Holder
  BY RoomActorAssumptions DEF Holder
<1>3. \A r \in Rooms : holders'[r] \in SUBSET Holder
  BY <1>1, <1>2 DEF Hold, Unlist
<1>4. holders' = [r \in Rooms |-> holders'[r]]
  BY DEF Hold
<1>5. holders' \in [Rooms -> SUBSET Holder]
  BY <1>3, <1>4
<1>6. \A r \in Rooms : holders[r] = {} => holders'[r] = {}
  BY <1>1 DEF Hold, Unlist
<1>7. \A r \in Rooms, u \in Tasks \ {t} : u \in holders[r] => u \in holders'[r]
  BY <1>1, RoomActorAssumptions DEF Hold, Unlist
<1>8. \A r \in Rooms : r \in S => t \in holders'[r]
  BY DEF Hold
<1> QED
  BY <1>5, <1>6, <1>7, <1>8 DEF HandlesOf, Clonable

\* A clone of a handle that somebody has.
LEMMA ClonedAfter ==
    ASSUME TypeOK, NEW t \in Tasks, NEW r \in Rooms, NEW h \in {t, Registry}, holders[r] # {},
           holders' = [holders EXCEPT ![r] = @ \cup {h}]
    PROVE  HandlesOf(t) /\ h \in holders'[r] /\ \A q \in Rooms : holders[q] \subseteq holders'[q]
<1>1. holders \in [Rooms -> SUBSET Holder]
  BY DEF TypeOK
<1> QED
  BY <1>1 DEF HandlesOf, Clonable, Holder

\* Such a step is one of RoomActor's environment.
LEMMA IsTouch ==
    ASSUME NEW t \in Tasks, HandlesOf(t), RoomsUnchanged,
           \/ UNCHANGED reply
           \/ reply[t] \notin {"waiting", "abandoned"} /\ reply' = [reply EXCEPT ![t] = "none"]
           \/ reply[t] = "waiting" /\ reply' = [reply EXCEPT ![t] = "abandoned"]
    PROVE  Next
<1>1. Touch(t)
  BY DEF HandlesOf, Touch, RoomsUnchanged
<1> QED
  BY <1>1 DEF Next

\* What a step of task t, or of rooms, leaves true of another task.
LEMMA OthersKept ==
    ASSUME NEW t \in Tasks, NEW u \in Tasks, TaskInv(u), u # t, HandlesOf(t),
           task'[u] = task[u], reply'[u] = reply[u]
    PROVE  TaskInv(u)'
<1>1. ShapeOf(task[u])'
  BY DEF TaskInv, ShapeOf
<1>2. \A r \in Rooms : u \in holders[r] => u \in holders'[r]
  BY DEF HandlesOf
<1>3. task[u].rest \subseteq Rooms /\ (task[u].pc \in {"insert", "lookup", "send", "reply", "remove"} => task[u].room \in Rooms)
  BY DEF TaskInv, ShapeOf, Call
<1>4. HoldsOf(u, task[u])'
  BY <1>2, <1>3 DEF TaskInv, HoldsOf
<1>5. OneshotOf(u, task[u])'
  BY DEF TaskInv, OneshotOf
<1> QED
  BY <1>1, <1>4, <1>5 DEF TaskInv

\* A step of task t that changes no room keeps the invariant if it keeps t's.
LEMMA TaskStep ==
    ASSUME ServiceInv, NEW t \in Tasks, HandlesOf(t), UNCHANGED actor,
           task' \in [Tasks -> Call], TaskInv(t)',
           \A u \in Tasks \ {t} : task'[u] = task[u] /\ reply'[u] = reply[u]
    PROVE  ServiceInv'
<1>1. UnbornUnheld'
  BY DEF ServiceInv, UnbornUnheld, HandlesOf, Clonable
<1>2. \A u \in Tasks : TaskInv(u)'
  BY OthersKept DEF ServiceInv
<1> QED
  BY <1>1, <1>2 DEF ServiceInv

-----------------------------------------------------------------------------
(***************************************************************************)
(* Calls begin.                                                            *)
(***************************************************************************)

\* A call begins and has not done anything.
LEMMA BeginKeeps ==
    ASSUME TypeOK, ServiceInv, NEW t \in Tasks, NEW k, Begin(t, k), UNCHANGED actorVars,
           ShapeOf(k), k.rest = {}, k.pc \in {"lookup", "snapshot", "drain"}, k.op # "create"
    PROVE  ServiceInv'
<1> UNCHANGED <<actor, holders, reply>>
  BY DEF actorVars
<1>1. k \in Call
  BY DEF ShapeOf
<1>2. task' \in [Tasks -> Call] /\ task'[t] = k /\ \A u \in Tasks \ {t} : task'[u] = task[u]
  BY <1>1 DEF Begin, ServiceInv
<1>3. HandlesOf(t)
  BY DEF HandlesOf, Clonable, TypeOK
<1>4. reply[t] = "none"
  BY DEF Begin, ServiceInv, TaskInv, OneshotOf
<1>5. ShapeOf(task[t])'
  BY <1>2 DEF ShapeOf
<1>6. HoldsOf(t, task[t])' /\ OneshotOf(t, task[t])'
  BY <1>2, <1>4 DEF HoldsOf, OneshotOf
<1> QED
  BY <1>2, <1>3, <1>5, <1>6, TaskStep DEF TaskInv

\* The first state of each call is well formed.
LEMMA CallShape ==
    ASSUME NEW pc, NEW op, NEW c, NEW r,
           \/ pc = "lookup" /\ op \in {"join", "leave", "chat"} /\ c \in Conns /\ r \in Rooms
           \/ pc = "insert" /\ op = "create" /\ c \in Conns /\ r \in Rooms
           \/ pc = "snapshot" /\ op = "leave_all" /\ c \in Conns /\ r = None
           \/ pc = "drain" /\ op = "close_all" /\ c = None /\ r = None
    PROVE  ShapeOf(call(pc, op, c, r)) /\ call(pc, op, c, r).rest = {}
             /\ call(pc, op, c, r).pc = pc /\ call(pc, op, c, r).op = op
             /\ call(pc, op, c, r).room = r
<1>1. call(pc, op, c, r) \in Call
  BY DEF call, Call, Pc, Op
<1> QED
  BY <1>1 DEF ShapeOf, call, Waiting

\* create_and_join spawns the room; its task has the only handle.
LEMMA CreateKeeps ==
    ASSUME TypeOK, ServiceInv, NEW t \in Tasks, NEW c \in Conns, NEW r \in Rooms,
           create_and_join(t, c, r)
    PROVE  ServiceInv'
<1> DEFINE k == call("insert", "create", c, r)
<1>1. ShapeOf(k) /\ k.rest = {} /\ k.pc = "insert" /\ k.op = "create" /\ k.room = r
  BY CallShape
<1> HIDE DEF k
<1>2. /\ task[t].pc = "idle" /\ actor[r] = "unborn" /\ holders[r] = {}
      /\ task' = [task EXCEPT ![t] = k]
      /\ holders' = [holders EXCEPT ![r] = {t}]
      /\ actor' = [actor EXCEPT ![r] = "running"]
      /\ reply' = reply
  BY DEF create_and_join, Begin, Spawn, ServiceInv, UnbornUnheld, k
<1>3. task' \in [Tasks -> Call] /\ task'[t] = k /\ \A u \in Tasks \ {t} : task'[u] = task[u]
  BY <1>1, <1>2 DEF ServiceInv, ShapeOf
<1>4. \A q \in Rooms : holders[q] \subseteq holders'[q]
  BY <1>2 DEF TypeOK
<1>5. UnbornUnheld'
  BY <1>2 DEF ServiceInv, UnbornUnheld, TypeOK
<1>6. TaskInv(t)'
  <2>1. ShapeOf(task[t])'
    BY <1>1, <1>3 DEF ShapeOf
  <2>2. HoldsOf(t, task[t])'
    BY <1>1, <1>2, <1>3 DEF HoldsOf, TypeOK
  <2>3. OneshotOf(t, task[t])'
    BY <1>1, <1>2, <1>3 DEF OneshotOf, ServiceInv, TaskInv
  <2> QED
    BY <2>1, <2>2, <2>3 DEF TaskInv
<1>7. ASSUME NEW u \in Tasks, u # t PROVE TaskInv(u)'
  <2>1. TaskInv(u) /\ task'[u] = task[u] /\ reply'[u] = reply[u]
    BY <1>2, <1>3, <1>7 DEF ServiceInv
  <2>2. task[u].rest \subseteq Rooms
        /\ (task[u].pc \in {"insert", "lookup", "send", "reply", "remove"} => task[u].room \in Rooms)
    BY <2>1 DEF TaskInv, ShapeOf, Call
  <2>3. ShapeOf(task[u])'
    BY <2>1 DEF TaskInv, ShapeOf
  <2>4. HoldsOf(u, task[u])'
    BY <2>1, <2>2, <1>4 DEF TaskInv, HoldsOf
  <2>5. OneshotOf(u, task[u])'
    BY <2>1 DEF TaskInv, OneshotOf
  <2> QED
    BY <2>3, <2>4, <2>5 DEF TaskInv
<1> QED
  BY <1>3, <1>5, <1>6, <1>7 DEF ServiceInv

\* Whatever a task calls, the rooms see nothing or a Spawn.
LEMMA AnyCallKeeps ==
    ASSUME TypeOK, ServiceInv, NEW t \in Tasks, AnyCall(t)
    PROVE  ServiceInv' /\ [Next]_actorVars
<1>1. ASSUME NEW c \in Conns, NEW r \in Rooms, join(t, c, r) \/ leave(t, c, r) \/ chat(t, c, r)
      PROVE  ServiceInv' /\ UNCHANGED actorVars
  BY <1>1, CallShape, BeginKeeps DEF join, leave, chat
<1>2. ASSUME NEW c \in Conns, leave_all(t, c)
      PROVE  ServiceInv' /\ UNCHANGED actorVars
  BY <1>2, CallShape, BeginKeeps DEF leave_all
<1>3. ASSUME close_all(t)
      PROVE  ServiceInv' /\ UNCHANGED actorVars
  BY <1>3, CallShape, BeginKeeps DEF close_all
<1>4. ASSUME NEW c \in Conns, NEW r \in Rooms, create_and_join(t, c, r)
      PROVE  ServiceInv' /\ Next
  BY <1>4, CreateKeeps DEF create_and_join, Next
<1> QED
  BY <1>1, <1>2, <1>3, <1>4 DEF AnyCall

-----------------------------------------------------------------------------
(***************************************************************************)
(* Steps of a call.                                                        *)
(***************************************************************************)

\* What the inner call leaves when it returns: the oneshot aside, t is right.
LEMMA ReturnKeeps ==
    ASSUME TypeOK, ServiceInv, NEW t \in Tasks, NEW result \in {"ok", "err"}, NEW U,
           task[t].pc \in {"lookup", "send", "reply", "unregister"},
           Return(t, result, holders) \/ Return(t, result, Unlist(holders, U))
    PROVE  /\ HandlesOf(t)
           /\ task' \in [Tasks -> Call]
           /\ \A u \in Tasks \ {t} : task'[u] = task[u]
           /\ ShapeOf(task'[t]) /\ HoldsOf(t, task[t])'
           /\ task'[t].pc \in {"idle", "next", "remove"}
<1> DEFINE k == task[t]
           pc == CASE k.op = "create" /\ result = "err" -> "remove"
                   [] k.op = "leave_all" /\ result = "ok" -> "next"
                   [] k.op = "close_all" -> "next"
                   [] OTHER -> "idle"
           kept == CASE pc = "remove" -> {k.room}
                     [] pc = "next" -> k.rest
                     [] OTHER -> {}
           k2 == IF pc = "idle" THEN Done(k, result) ELSE [k EXCEPT !.pc = pc]
<1>0. ShapeOf(k) /\ HoldsOf(t, k) /\ task \in [Tasks -> Call]
  BY DEF ServiceInv, TaskInv
<1>1. /\ k \in Call /\ k.room \in Rooms /\ k.rest \subseteq Rooms /\ k.op # "none"
      /\ k.op # "close_all" => k.conn \in Conns
  BY <1>0 DEF ShapeOf, Call
<1>2. /\ task' = [task EXCEPT ![t] = k2]
      /\ holders' = Hold(holders, t, kept) \/ holders' = Hold(Unlist(holders, U), t, kept)
  BY DEF Return
<1>3. /\ pc \in {"idle", "next", "remove"}
      /\ pc = "next" => k.op \in {"leave_all", "close_all"} /\ kept = k.rest
      /\ pc = "remove" => k.op = "create" /\ kept = {k.room}
  OBVIOUS
<1>4. pc = "remove" => t \in holders[k.room]
  BY <1>0, <1>3 DEF ShapeOf, HoldsOf, Leaving
<1>5. \A r \in Rooms : r \in kept => holders[r] # {}
  BY <1>0, <1>3, <1>4 DEF HoldsOf
<1> HIDE DEF pc, kept
<1>6. k2 \in Call /\ k2.pc = pc /\ (pc # "idle" => k2 = [k EXCEPT !.pc = pc]) /\ (pc = "idle" => k2.rest = {})
  BY <1>1, <1>3, Zenon DEF Done, NoCall, call, Call, Pc, Op
<1> HIDE DEF k2
<1>7. HandlesOf(t) /\ \A r \in Rooms : r \in kept => t \in holders'[r]
  BY <1>2, <1>5, HeldAfter, Zenon
<1>8. task' \in [Tasks -> Call] /\ task'[t] = k2 /\ \A u \in Tasks \ {t} : task'[u] = task[u]
  BY <1>0, <1>2, <1>6
<1>9. pc # "idle" => k2.op = k.op /\ k2.room = k.room /\ k2.rest = k.rest /\ k2.conn = k.conn
  BY <1>1, <1>6 DEF Call
<1>10. ShapeOf(k2)
  BY <1>0, <1>1, <1>3, <1>6, <1>9 DEF ShapeOf
<1>11. HoldsOf(t, task[t])'
  <2>1. pc = "remove" => k2.rest = {}
    BY <1>0, <1>9, <1>3 DEF ShapeOf
  <2>2. pc # "remove" => \A r \in k2.rest : t \in holders'[r]
    BY <1>1, <1>3, <1>6, <1>7, <1>9
  <2>3. pc = "remove" => t \in holders'[k2.room]
    BY <1>1, <1>3, <1>7, <1>9
  <2> QED
    BY <1>3, <1>6, <1>8, <2>1, <2>2, <2>3 DEF HoldsOf
<1> QED
  BY <1>3, <1>6, <1>7, <1>8, <1>10, <1>11

\* Steps of a call that end the inner call.
LEMMA ReturnStep ==
    ASSUME TypeOK, ServiceInv, NEW t \in Tasks, NEW result \in {"ok", "err"}, NEW U,
           task[t].pc \in {"lookup", "send", "reply", "unregister"},
           Return(t, result, holders) \/ Return(t, result, Unlist(holders, U)),
           RoomsUnchanged,
           \/ task[t].pc # "reply" /\ UNCHANGED reply
           \/ reply[t] \notin {"waiting", "abandoned"} /\ reply' = [reply EXCEPT ![t] = "none"]
    PROVE  ServiceInv' /\ Next
<1>1. /\ HandlesOf(t)
      /\ task' \in [Tasks -> Call]
      /\ \A u \in Tasks \ {t} : task'[u] = task[u]
      /\ ShapeOf(task'[t]) /\ HoldsOf(t, task[t])'
      /\ task'[t].pc \in {"idle", "next", "remove"}
  BY ReturnKeeps
<1>2. reply'[t] = "none" /\ \A u \in Tasks \ {t} : reply'[u] = reply[u]
  BY DEF ServiceInv, TaskInv, OneshotOf, TypeOK
<1>3. OneshotOf(t, task[t])'
  BY <1>1, <1>2 DEF OneshotOf
<1>4. ShapeOf(task[t])'
  BY <1>1 DEF ShapeOf
<1>5. UNCHANGED actor
  BY DEF RoomsUnchanged
<1>6. ServiceInv'
  BY <1>1, <1>2, <1>3, <1>4, <1>5, TaskStep DEF TaskInv
<1>7. Next
  BY <1>1, IsTouch
<1> QED
  BY <1>6, <1>7

\* A call moves to another await.
LEMMA GotoFields ==
    ASSUME ServiceInv, NEW t \in Tasks, NEW pc \in Pc, Goto(t, pc)
    PROVE  /\ task' \in [Tasks -> Call]
           /\ \A u \in Tasks \ {t} : task'[u] = task[u]
           /\ task'[t].pc = pc /\ task'[t].op = task[t].op /\ task'[t].room = task[t].room
           /\ task'[t].rest = task[t].rest /\ task'[t].conn = task[t].conn
<1>1. task \in [Tasks -> Call]
  BY DEF ServiceInv
<1>2. [task[t] EXCEPT !.pc = pc] \in Call
  BY <1>1 DEF Call
<1>3. task' = [task EXCEPT ![t] = [task[t] EXCEPT !.pc = pc]]
  BY DEF Goto
<1>4. task'[t] = [task[t] EXCEPT !.pc = pc] /\ task' \in [Tasks -> Call]
  BY <1>1, <1>2, <1>3
<1>5. \A u \in Tasks \ {t} : task'[u] = task[u]
  BY <1>1, <1>3
<1>6. task[t] \in Call
  BY <1>1
<1> QED
  BY <1>4, <1>5, <1>6 DEF Call

\* The same, with the handles it then needs.
LEMMA GotoStep ==
    ASSUME TypeOK, ServiceInv, NEW t \in Tasks, NEW pc, Goto(t, pc), RoomsUnchanged,
           HandlesOf(t), \A r \in Rooms : holders[r] \subseteq holders'[r],
           \/ task[t].pc = "insert" /\ pc = "lookup" /\ UNCHANGED reply
           \/ task[t].pc = "lookup" /\ pc = "send" /\ t \in holders'[task[t].room] /\ UNCHANGED reply
           \/ /\ task[t].pc = "send" /\ pc = "unregister" /\ task[t].op \in Leaving
              /\ UNCHANGED reply
           \/ /\ task[t].pc = "reply" /\ pc = "unregister" /\ task[t].op \in Leaving
              /\ reply[t] # "waiting" /\ reply' = [reply EXCEPT ![t] = "none"]
    PROVE  ServiceInv' /\ Next
<1>0. TaskInv(t) /\ pc \in Pc
  BY DEF ServiceInv, Pc
<1>1. /\ task' \in [Tasks -> Call]
      /\ \A u \in Tasks \ {t} : task'[u] = task[u]
      /\ task'[t].pc = pc /\ task'[t].op = task[t].op /\ task'[t].room = task[t].room
      /\ task'[t].rest = task[t].rest /\ task'[t].conn = task[t].conn
  BY <1>0, GotoFields
<1>2. reply'[t] = "none" /\ \A u \in Tasks \ {t} : reply'[u] = reply[u]
  BY <1>0 DEF TaskInv, OneshotOf, TypeOK
<1>3. task'[t] \in Call /\ task[t].rest \subseteq Rooms /\ task[t].room \in Rooms
  BY <1>0, <1>1 DEF TaskInv, ShapeOf, Call
<1>4. ShapeOf(task[t])'
  BY <1>0, <1>1, <1>3 DEF TaskInv, ShapeOf, Leaving, Waiting
<1>5. HoldsOf(t, task[t])'
  BY <1>0, <1>1, <1>3 DEF TaskInv, HoldsOf
<1>6. OneshotOf(t, task[t])'
  BY <1>1, <1>2 DEF OneshotOf
<1>7. ServiceInv'
  BY <1>1, <1>2, <1>4, <1>5, <1>6, TaskStep DEF TaskInv, RoomsUnchanged
<1>8. reply[t] # "abandoned" \/ UNCHANGED reply
  BY <1>0 DEF TaskInv, OneshotOf
<1>9. Next
  BY <1>8, IsTouch
<1> QED
  BY <1>7, <1>9

\* Nothing happens to handles.
LEMMA HandlesSame ==
    ASSUME TypeOK, NEW t \in Tasks, UNCHANGED holders
    PROVE  HandlesOf(t) /\ \A r \in Rooms : holders[r] \subseteq holders'[r]
  BY DEF TypeOK, HandlesOf, Clonable

\* create_and_join lists the room.
LEMMA InsertKeeps ==
    ASSUME TypeOK, ServiceInv, NEW t \in Tasks, Insert(t)
    PROVE  ServiceInv' /\ Next
<1> DEFINE r == task[t].room
<1>1. r \in Rooms /\ t \in holders[r]
  BY DEF Insert, ServiceInv, TaskInv, ShapeOf, HoldsOf
<1>2. HandlesOf(t) /\ \A q \in Rooms : holders[q] \subseteq holders'[q]
  BY <1>1, ClonedAfter, Zenon DEF Insert
<1> QED
  BY <1>2, GotoStep DEF Insert

\* handle_for finds the room, or its call ends.
LEMMA LookupKeeps ==
    ASSUME TypeOK, ServiceInv, NEW t \in Tasks, Lookup(t)
    PROVE  ServiceInv' /\ Next
<1> DEFINE r == task[t].room
<1>0. r \in Rooms /\ task[t].pc = "lookup" /\ RoomsUnchanged /\ UNCHANGED reply
  BY DEF Lookup, ServiceInv, TaskInv, ShapeOf
<1>1. CASE registered(r) /\ ~closed[r]
  <2>1. Goto(t, "send") /\ holders' = [holders EXCEPT ![r] = @ \cup {t}] /\ holders[r] # {}
    BY <1>1 DEF Lookup, registered
  <2>2. HandlesOf(t) /\ t \in holders'[r] /\ \A q \in Rooms : holders[q] \subseteq holders'[q]
    BY <1>0, <2>1, ClonedAfter, Zenon
  <2> QED
    BY <1>0, <2>1, <2>2, GotoStep
<1>2. CASE ~(registered(r) /\ ~closed[r])
  <2>1. \E result \in {"ok", "err"} : Return(t, result, Unlist(holders, {r}))
    BY <1>2 DEF Lookup
  <2> QED
    BY <1>0, <2>1, ReturnStep
<1> QED
  BY <1>1, <1>2

\* The queue is full for a chat, or the room is gone.
LEMMA SendFailsKeeps ==
    ASSUME TypeOK, ServiceInv, NEW t \in Tasks, Busy(t) \/ SendFails(t)
    PROVE  ServiceInv' /\ Next
<1>0. task[t].pc = "send" /\ RoomsUnchanged /\ UNCHANGED reply
  BY DEF Busy, SendFails
<1>1. CASE Return(t, "err", holders)
  BY <1>0, <1>1, ReturnStep
<1>2. CASE task[t].op \in Leaving /\ Goto(t, "unregister") /\ UNCHANGED holders
  BY <1>0, <1>2, HandlesSame, GotoStep
<1> QED
  BY <1>1, <1>2 DEF Busy, SendFails, Leaving

\* The oneshot is read.
LEMMA TakeReplyKeeps ==
    ASSUME TypeOK, ServiceInv, NEW t \in Tasks, TakeReply(t)
    PROVE  ServiceInv' /\ Next
<1>0. /\ task[t].pc = "reply" /\ RoomsUnchanged
      /\ reply[t] \notin {"waiting", "abandoned"} /\ reply' = [reply EXCEPT ![t] = "none"]
  BY DEF TakeReply, ServiceInv, TaskInv, OneshotOf
<1>1. CASE \E result \in {"ok", "err"} : Return(t, result, holders)
  BY <1>0, <1>1, ReturnStep, Zenon
<1>2. CASE task[t].op \in Leaving /\ Goto(t, "unregister") /\ UNCHANGED holders
  BY <1>0, <1>2, HandlesSame, GotoStep, Zenon
<1> QED
  BY <1>1, <1>2 DEF TakeReply, Leaving

\* leave takes a closed room out of the registry.
LEMMA UnregisterKeeps ==
    ASSUME TypeOK, ServiceInv, NEW t \in Tasks, Unregister(t)
    PROVE  ServiceInv' /\ Next
<1>1. /\ task[t].pc = "unregister" /\ RoomsUnchanged /\ UNCHANGED reply
      /\ Return(t, "ok", Unlist(holders, {task[t].room}))
  BY DEF Unregister
<1> QED
  BY <1>1, ReturnStep

\* A step after which t is idle, or at the head of its loop with handles of S.
LEMMA LoopStep ==
    ASSUME TypeOK, ServiceInv, NEW t \in Tasks, NEW k, NEW U, NEW S,
           task' = [task EXCEPT ![t] = k],
           \A r \in Rooms : r \in S => holders[r] # {},
           holders' = Hold(Unlist(holders, U), t, S),
           task[t].pc \notin {"reply", "cancelled"}, k.pc \in {"idle", "next"},
           ShapeOf(k), k.rest = S, S \subseteq Rooms,
           RoomsUnchanged, UNCHANGED reply
    PROVE  ServiceInv' /\ Next
<1>1. HandlesOf(t) /\ \A r \in Rooms : r \in S => t \in holders'[r]
  BY HeldAfter
<1>2. task' \in [Tasks -> Call] /\ task'[t] = k /\ \A u \in Tasks \ {t} : task'[u] = task[u]
  BY DEF ServiceInv, ShapeOf
<1>3. reply[t] = "none"
  BY DEF ServiceInv, TaskInv, OneshotOf
<1>4. ShapeOf(task[t])'
  BY <1>2 DEF ShapeOf
<1>5. HoldsOf(t, task[t])' /\ OneshotOf(t, task[t])'
  BY <1>1, <1>2, <1>3 DEF HoldsOf, OneshotOf
<1>6. ServiceInv'
  BY <1>1, <1>2, <1>4, <1>5, TaskStep DEF TaskInv, RoomsUnchanged
<1> QED
  BY <1>1, <1>6, IsTouch

\* A call that is over is well formed.
LEMMA DoneShape ==
    ASSUME NEW k \in Call, NEW result \in {"ok", "err"}
    PROVE  ShapeOf(Done(k, result)) /\ Done(k, result).rest = {} /\ Done(k, result).pc = "idle"
<1>1. Done(k, result) \in Call /\ Done(k, result).rest = {} /\ Done(k, result).pc = "idle"
  BY Zenon DEF Done, NoCall, call, Call, Pc, Op
<1> QED
  BY <1>1 DEF ShapeOf

\* create_and_join unlists its room.
LEMMA RemoveKeeps ==
    ASSUME TypeOK, ServiceInv, NEW t \in Tasks, Remove(t)
    PROVE  ServiceInv' /\ Next
<1> DEFINE k == Done(task[t], "err")
<1>1. /\ task[t].pc = "remove" /\ RoomsUnchanged /\ UNCHANGED reply
      /\ task' = [task EXCEPT ![t] = k]
      /\ holders' = Hold(Unlist(holders, {task[t].room}), t, {})
  BY DEF Remove
<1>2. ShapeOf(k) /\ k.rest = {} /\ k.pc = "idle"
  BY DoneShape DEF ServiceInv
<1> HIDE DEF k
<1> QED
  BY <1>1, <1>2, LoopStep, Zenon

\* live_handles, or the drain of the registry: t gets handles of listed rooms.
LEMMA IterateKeeps ==
    ASSUME TypeOK, ServiceInv, NEW t \in Tasks, Snapshot(t) \/ Drain(t)
    PROVE  ServiceInv' /\ Next
<1>0. PICK S \in SUBSET Registered, U \in SUBSET Registered :
        /\ task[t].pc \in {"snapshot", "drain"} /\ RoomsUnchanged /\ UNCHANGED reply
        /\ task' = [task EXCEPT ![t] = [task[t] EXCEPT !.pc = "next", !.rest = S]]
        /\ holders' = Hold(Unlist(holders, U), t, S)
  <2>1. CASE Snapshot(t)
    <3> DEFINE live == {r \in Registered : ~closed[r]}
    <3>1. task' = [task EXCEPT ![t] = [task[t] EXCEPT !.pc = "next", !.rest = live]]
      BY <2>1, Zenon DEF Snapshot
    <3> QED
      BY <2>1, <3>1, Zenon DEF Snapshot
  <2>2. CASE Drain(t)
    <3>1. task' = [task EXCEPT ![t] = [task[t] EXCEPT !.pc = "next", !.rest = Registered]]
      BY <2>2, Zenon DEF Drain
    <3> QED
      BY <2>2, <3>1, Zenon DEF Drain
  <2> QED
    BY <2>1, <2>2, Zenon
<1> DEFINE k == [task[t] EXCEPT !.pc = "next", !.rest = S]
<1>1. S \subseteq Rooms /\ \A r \in S : holders[r] # {}
  BY DEF Registered, registered
<1>2. TaskInv(t) /\ task[t] \in Call
  BY DEF ServiceInv
<1>3. k \in Call /\ k.pc = "next" /\ k.rest = S /\ k.op = task[t].op /\ k.conn = task[t].conn
  BY <1>1, <1>2, Zenon DEF Call, Pc
<1>4. ShapeOf(k)
  BY <1>0, <1>2, <1>3 DEF TaskInv, ShapeOf
<1> HIDE DEF k
<1>5. task' = [task EXCEPT ![t] = k]
  BY <1>0 DEF k
<1> QED
  BY <1>0, <1>1, <1>3, <1>4, <1>5, LoopStep, Zenon

\* leave_all and close_all turn to the next room, or are done.
LEMMA NextRoomKeeps ==
    ASSUME TypeOK, ServiceInv, NEW t \in Tasks, NextRoom(t)
    PROVE  ServiceInv' /\ UNCHANGED actorVars
<1>0. /\ task[t].pc = "next" /\ UNCHANGED actorVars /\ UNCHANGED <<actor, holders, reply>>
      /\ TaskInv(t) /\ task[t] \in Call /\ task \in [Tasks -> Call]
  BY Zenon DEF NextRoom, actorVars, ServiceInv
<1>1. HandlesOf(t)
  BY <1>0, HandlesSame
<1>2. reply'[t] = "none"
  BY <1>0 DEF TaskInv, OneshotOf
<1>3. ASSUME NEW k, task' = [task EXCEPT ![t] = k], ShapeOf(k), HoldsOf(t, k),
             k.pc \in {"lookup", "send", "idle"}
      PROVE  ServiceInv'
  <2>1. task' \in [Tasks -> Call] /\ task'[t] = k /\ \A u \in Tasks \ {t} : task'[u] = task[u]
    BY <1>0, <1>3 DEF ShapeOf
  <2>2. ShapeOf(task[t])'
    BY <1>3, <2>1 DEF ShapeOf
  <2>3. HoldsOf(t, task[t])'
    BY <1>0, <1>3, <2>1 DEF HoldsOf
  <2>4. OneshotOf(t, task[t])'
    BY <1>2, <1>3, <2>1 DEF OneshotOf
  <2> QED
    BY <1>0, <1>1, <2>1, <2>2, <2>3, <2>4, TaskStep DEF TaskInv
<1>4. ASSUME task[t].rest = {}, task' = [task EXCEPT ![t] = Done(@, "ok")]
      PROVE  ServiceInv'
  <2> DEFINE k == Done(task[t], "ok")
  <2>1. ShapeOf(k) /\ k.rest = {} /\ k.pc = "idle"
    BY <1>0, DoneShape, Zenon
  <2>2. task' = [task EXCEPT ![t] = k]
    BY <1>4
  <2> HIDE DEF k
  <2>3. HoldsOf(t, k)
    BY <2>1 DEF HoldsOf
  <2> QED
    BY <1>3, <2>1, <2>2, <2>3, Zenon
<1>5. ASSUME NEW r \in task[t].rest, NEW pc, pc = IF task[t].op = "leave_all" THEN "lookup" ELSE "send",
             task' = [task EXCEPT ![t].pc = pc, ![t].room = r, ![t].rest = @ \ {r}]
      PROVE  ServiceInv'
  <2> DEFINE k == [task[t] EXCEPT !.pc = pc, !.room = r, !.rest = @ \ {r}]
  <2>1. r \in Rooms /\ task[t].rest \subseteq Rooms /\ pc \in Pc /\ pc \in {"lookup", "send"}
    BY <1>0, <1>5 DEF Call, Pc
  <2>2. k \in Call /\ k.pc = pc /\ k.room = r /\ k.rest = task[t].rest \ {r}
        /\ k.op = task[t].op /\ k.conn = task[t].conn
    BY <1>0, <2>1, Zenon DEF Call
  <2>3. task' = [task EXCEPT ![t] = k]
    BY <1>0, <1>5, Zenon
  <2> HIDE DEF k
  <2>4. ShapeOf(k)
    BY <1>0, <1>5, <2>1, <2>2 DEF TaskInv, ShapeOf, Waiting
  <2>5. HoldsOf(t, k)
    BY <1>0, <1>5, <2>1, <2>2 DEF TaskInv, ShapeOf, HoldsOf
  <2> QED
    BY <1>3, <2>1, <2>2, <2>3, <2>4, <2>5, Zenon
<1> QED
  BY <1>0, <1>4, <1>5, Zenon DEF NextRoom

\* A call is dropped.
LEMMA CancelKeeps ==
    ASSUME TypeOK, ServiceInv, NEW t \in Tasks, Cancel(t)
    PROVE  ServiceInv' /\ Next
<1> DEFINE k == [task[t] EXCEPT !.pc = "cancelled", !.rest = {}]
<1>0. /\ task[t].pc \notin {"idle", "cancelled"} /\ RoomsUnchanged
      /\ TaskInv(t) /\ task[t] \in Call /\ task \in [Tasks -> Call]
      /\ holders' = Hold(holders, t, {})
      /\ reply' = [reply EXCEPT ![t] = IF @ = "waiting" THEN "abandoned" ELSE "none"]
  BY DEF Cancel, ServiceInv
<1>1. task' = [task EXCEPT ![t] = k]
  BY <1>0, Zenon DEF Cancel
<1>2. HandlesOf(t)
  BY <1>0, HeldAfter
<1>3. k \in Call /\ k.pc = "cancelled" /\ k.rest = {}
  BY <1>0, Zenon DEF Call, Pc
<1> HIDE DEF k
<1>4. task' \in [Tasks -> Call] /\ task'[t] = k /\ \A u \in Tasks \ {t} : task'[u] = task[u]
  BY <1>0, <1>1, <1>3
<1>5. ShapeOf(task[t])' /\ HoldsOf(t, task[t])' /\ OneshotOf(t, task[t])'
  BY <1>3, <1>4 DEF ShapeOf, HoldsOf, OneshotOf
<1>6. reply \in [Tasks -> Reply] /\ \A u \in Tasks \ {t} : reply'[u] = reply[u]
  BY <1>0 DEF TypeOK
<1>7. ServiceInv'
  BY <1>0, <1>2, <1>4, <1>5, <1>6, TaskStep DEF TaskInv, RoomsUnchanged
<1>8. reply[t] # "abandoned"
  BY <1>0 DEF TaskInv, OneshotOf
<1>9. Next
  BY <1>0, <1>2, <1>8, IsTouch, Zenon
<1> QED
  BY <1>7, <1>9

-----------------------------------------------------------------------------
(***************************************************************************)
(* Commands and rooms.                                                     *)
(***************************************************************************)

\* The command of a call is one that rooms know, with the oneshot of the task.
LEMMA CommandFits ==
    ASSUME NEW t \in Tasks, TaskInv(t), task[t].pc = "send"
    PROVE  /\ Command(t) \in RoomCommand
           /\ task[t].op \in Waiting => Command(t).reply = t
           /\ task[t].op \notin Waiting => Command(t).reply = None
           /\ task[t].op \in Leaving => Command(t).type = "Leave"
           /\ task[t].op \in {"join", "create"} => Command(t).type = "Join"
<1>1. /\ task[t].op \in {"join", "create", "leave", "leave_all", "chat", "close_all"}
      /\ task[t].op # "close_all" => task[t].conn \in Conns /\ PlayerOf[task[t].conn] \in Players
  BY RoomActorAssumptions DEF TaskInv, ShapeOf, Call, Op
<1>2. CASE task[t].op \in {"join", "create"}
  BY <1>1, <1>2 DEF Command, RoomCommand, Join, Waiting, Leaving
<1>3. CASE task[t].op \in {"leave", "leave_all"}
  BY <1>1, <1>3 DEF Command, RoomCommand, Leave, Waiting, Leaving
<1>4. CASE task[t].op = "chat"
  BY <1>1, <1>4 DEF Command, RoomCommand, Chat, Waiting, Leaving
<1>5. CASE task[t].op = "close_all"
  BY <1>1, <1>5 DEF Command, RoomCommand, Close, Waiting, Leaving
<1> QED
  BY <1>1, <1>2, <1>3, <1>4, <1>5

\* The queue takes the command.
LEMMA EnqueueKeeps ==
    ASSUME TypeOK, ServiceInv, NEW t \in Tasks, Enqueue(t)
    PROVE  ServiceInv' /\ Next
<1> DEFINE r == task[t].room
           wait == task[t].op \in Waiting
           k == IF wait THEN [task[t] EXCEPT !.pc = "reply"]
                ELSE IF task[t].op = "close_all" THEN [task[t] EXCEPT !.pc = "next"]
                ELSE Done(task[t], "ok")
<1>0. /\ task[t].pc = "send" /\ Send(r, t, Command(t), wait)
      /\ TaskInv(t) /\ task[t] \in Call /\ task \in [Tasks -> Call] /\ r \in Rooms
      /\ task' = [task EXCEPT ![t] = k]
  BY DEF Enqueue, ServiceInv, TaskInv, ShapeOf, Waiting
<1>1. Next
  <2>1. Command(t) \in RoomCommand /\ wait \in BOOLEAN
    BY <1>0, CommandFits
  <2> QED
    BY <1>0, <2>1, Zenon DEF Next
<1>2. /\ UNCHANGED actor
      /\ holders' = IF wait THEN holders ELSE [holders EXCEPT ![r] = @ \ {t}]
      /\ reply' = IF wait THEN [reply EXCEPT ![t] = "waiting"] ELSE reply
  BY <1>0, CommandFits, RoomActorAssumptions DEF Send
<1>3. HandlesOf(t) /\ \A q \in Rooms : q # r => holders'[q] = holders[q]
  BY <1>0, <1>2 DEF HandlesOf, Clonable, TypeOK
<1>4. /\ wait => k \in Call /\ k.pc = "reply"
      /\ ~wait /\ task[t].op = "close_all" => k \in Call /\ k.pc = "next"
      /\ wait \/ task[t].op = "close_all" => /\ k.op = task[t].op /\ k.rest = task[t].rest
                                             /\ k.conn = task[t].conn /\ k.room = r
      /\ ~wait /\ task[t].op # "close_all" => ShapeOf(k) /\ k.pc = "idle" /\ k.rest = {}
  BY <1>0, DoneShape DEF Call, Pc
<1> HIDE DEF k
<1>5. task' \in [Tasks -> Call] /\ task'[t] = k /\ \A u \in Tasks \ {t} : task'[u] = task[u]
  BY <1>0, <1>4 DEF ShapeOf
<1>6. reply \in [Tasks -> Reply] /\ reply[t] = "none"
  BY <1>0 DEF TypeOK, TaskInv, OneshotOf
<1>7. /\ \A u \in Tasks \ {t} : reply'[u] = reply[u]
      /\ reply'[t] = IF wait THEN "waiting" ELSE "none"
  BY <1>2, <1>6
<1>8. ShapeOf(k)
  BY <1>0, <1>4, Zenon DEF TaskInv, ShapeOf, Waiting
<1>9. HoldsOf(t, task[t])'
  <2>1. CASE wait
    BY <1>0, <1>2, <1>4, <1>5, <2>1, Zenon DEF TaskInv, HoldsOf
  <2>2. CASE ~wait /\ task[t].op = "close_all"
    BY <1>0, <1>3, <1>4, <1>5, <2>2, Zenon DEF TaskInv, ShapeOf, HoldsOf, Call
  <2>3. CASE ~wait /\ task[t].op # "close_all"
    BY <1>4, <1>5, <2>3, Zenon DEF HoldsOf
  <2> QED
    BY <2>1, <2>2, <2>3
<1>10. OneshotOf(t, task[t])'
  BY <1>4, <1>5, <1>7, Zenon DEF OneshotOf
<1>11. ShapeOf(task[t])'
  BY <1>5, <1>8 DEF ShapeOf
<1> QED
  BY <1>1, <1>2, <1>3, <1>5, <1>7, <1>9, <1>10, <1>11, TaskStep DEF TaskInv

\* Rooms answer those who wait and nobody else.
LEMMA ActorReplies ==
    ASSUME TypeOK, NEW r \in Rooms, ActorStep(r), NEW t \in Tasks
    PROVE  reply'[t] # reply[t] =>
              reply[t] = "waiting" /\ reply'[t] \notin {"none", "abandoned", "waiting"}
<1>0. reply \in [Tasks -> Reply]
  BY DEF TypeOK
<1>1. CASE Handle(r)
  <2> DEFINE cmd == Head(commands[r])
  <2>1. \E v \in {"joined", "RoomFull", "RoomClosed", "left", "absent"} :
           reply' = reply \/ reply' = Answer(reply, cmd.reply, v)
    <3>1. CASE handle_join(r, cmd)
      BY <3>1, Zenon DEF handle_join, try_join
    <3>2. CASE handle_leave(r, cmd)
      BY <3>2, Zenon DEF handle_leave, try_leave
    <3>3. CASE handle_chat(r, cmd) \/ handle_close(r, cmd)
      BY <3>3, Zenon DEF handle_chat, handle_close
    <3> QED
      BY <1>1, <3>1, <3>2, <3>3 DEF Handle
  <2> QED
    BY <1>0, <2>1 DEF Answer
<1>2. CASE Break(r) \/ Disconnect(r)
  BY <1>0, <1>2, Zenon DEF Break, Disconnect, Stop
<1> QED
  BY <1>1, <1>2 DEF ActorStep

\* Rooms and readers of events take no handles, and a room stays born.
LEMMA RoomsStepKeeps ==
    ASSUME TypeOK, ServiceInv, RoomsStep
    PROVE  ServiceInv' /\ Next
<1>1. UNCHANGED <<task, holders>>
  BY Zenon DEF RoomsStep, ActorStep, Handle, Break, Disconnect, Stop, Receive, DropReceiver
<1>2. \A q \in Rooms : actor'[q] = "unborn" => actor[q] = "unborn"
  <2>1. ASSUME NEW r \in Rooms, ActorStep(r)
        PROVE  \E a \in {"running", "breaking", "stopped"} : actor' = [actor EXCEPT ![r] = a]
    BY <2>1, Zenon DEF ActorStep, Handle, Break, Disconnect, Stop, handle_join, handle_chat,
                       handle_leave, handle_close, Continue
  <2>2. ASSUME NEW c \in Conns, Receive(c) \/ DropReceiver(c) PROVE actor' = actor
    BY <2>2, Zenon DEF Receive, DropReceiver
  <2> QED
    BY <2>1, <2>2, Zenon DEF RoomsStep, TypeOK
<1>3. \A t \in Tasks : reply'[t] # reply[t] =>
         reply[t] = "waiting" /\ reply'[t] \notin {"none", "abandoned", "waiting"}
  <2>1. ASSUME NEW c \in Conns, Receive(c) \/ DropReceiver(c) PROVE reply' = reply
    BY <2>1, Zenon DEF Receive, DropReceiver
  <2> QED
    BY <2>1, ActorReplies DEF RoomsStep
<1>4. ASSUME NEW t \in Tasks PROVE TaskInv(t)'
  <2>0. TaskInv(t) /\ task'[t] = task[t]
    BY <1>1 DEF ServiceInv
  <2>1. ShapeOf(task[t])'
    BY <2>0 DEF TaskInv, ShapeOf
  <2>2. HoldsOf(t, task[t])'
    BY <1>1, <2>0 DEF TaskInv, HoldsOf
  <2>3. OneshotOf(t, task[t])'
    BY <1>3, <2>0 DEF TaskInv, OneshotOf
  <2> QED
    BY <2>1, <2>2, <2>3 DEF TaskInv
<1>5. ServiceInv'
  BY <1>1, <1>2, <1>4 DEF ServiceInv, UnbornUnheld
<1>6. Next
  BY Zenon DEF RoomsStep, Next
<1> QED
  BY <1>5, <1>6

\* Every step of the service keeps its invariant and is a step of RoomActor, or
\* none.
LEMMA ServiceStep ==
    ASSUME IInv, ServiceInv, [ServiceNext]_serviceVars
    PROVE  ServiceInv' /\ [Next]_actorVars
<1>0. TypeOK
  BY DEF IInv
<1>1. ASSUME NEW t \in Tasks, CallStep(t) PROVE ServiceInv' /\ [Next]_actorVars
  BY <1>0, <1>1, InsertKeeps, LookupKeeps, EnqueueKeeps, SendFailsKeeps, TakeReplyKeeps,
     UnregisterKeeps, RemoveKeeps, IterateKeeps, NextRoomKeeps, Zenon DEF CallStep
<1>2. CASE UNCHANGED serviceVars
  <2>1. UNCHANGED actorVars /\ UNCHANGED <<task, holders, actor, reply>>
    BY <1>2 DEF serviceVars, actorVars
  <2> QED
    BY <2>1 DEF ServiceInv, UnbornUnheld, TaskInv, ShapeOf, HoldsOf, OneshotOf
<1> QED
  BY <1>0, <1>1, <1>2, AnyCallKeeps, CancelKeeps, RoomsStepKeeps, Zenon DEF ServiceNext

-----------------------------------------------------------------------------
(***************************************************************************)
(* leave and leave_all never fail, though they read the closed flag only   *)
(* after the answer, or its loss, and the room and other calls go on in    *)
(* between.                                                                *)
(***************************************************************************)

\* What a step of task t leaves true of the others.
LEMMA OthersLeave ==
    ASSUME LeaveInv, NEW t \in Tasks, NEW u \in Tasks, u # t, UNCHANGED <<commands, closed>>,
           task'[u] = task[u], reply'[u] = reply[u]
    PROVE  LeaveOf(u)'
<1>1. LeaveOf(u)
  BY Zenon DEF LeaveInv
<1>2. QueuedOf(u)'
  BY <1>1 DEF LeaveOf, QueuedOf
<1>3. AnswerOf(u)'
  BY <1>1 DEF LeaveOf, AnswerOf
<1> QED
  BY <1>1, <1>2, <1>3, Zenon DEF LeaveOf, ResultOf

\* A step that sends nothing and after which t does not wait.
LEMMA QuietStep ==
    ASSUME LeaveInv, NEW t \in Tasks, UNCHANGED <<commands, closed>>,
           \A u \in Tasks \ {t} : task'[u] = task[u] /\ reply'[u] = reply[u],
           reply[t] \notin {"waiting", "abandoned"}, reply'[t] = "none",
           task'[t].pc # "reply", ResultOf(t)'
    PROVE  LeaveInv'
<1>1. QueuedOf(t)'
  BY DEF LeaveInv, LeaveOf, QueuedOf
<1>2. AnswerOf(t)'
  BY DEF AnswerOf
<1>3. LeaveOf(t)'
  BY <1>1, <1>2 DEF LeaveOf
<1> QED
  BY <1>3, OthersLeave DEF LeaveInv

\* The oneshot of a task that is not at "reply" is empty.
LEMMA EmptyOneshot ==
    ASSUME TypeOK, ServiceInv, NEW t \in Tasks, task[t].pc \notin {"reply", "cancelled"}
    PROVE  reply[t] = "none"
  BY DEF ServiceInv, TaskInv, OneshotOf

\* A call begins.
LEMMA BeginLeave ==
    ASSUME TypeOK, ServiceInv, LeaveInv, NEW t \in Tasks, AnyCall(t)
    PROVE  LeaveInv'
<1>1. ASSUME NEW pc, NEW op, NEW c, NEW r, Begin(t, call(pc, op, c, r)), pc # "reply",
             UNCHANGED <<commands, closed, reply>>
      PROVE  LeaveInv'
  <2>1. /\ task[t].pc = "idle" /\ task'[t] = call(pc, op, c, r)
        /\ \A u \in Tasks \ {t} : task'[u] = task[u]
    BY <1>1 DEF Begin, ServiceInv
  <2>2. task'[t].pc = pc /\ task'[t].result = "none"
    BY <2>1 DEF call
  <2> QED
    BY <1>1, <2>1, <2>2, EmptyOneshot, QuietStep, Zenon DEF ResultOf
<1>2. ASSUME NEW c \in Conns, NEW r \in Rooms,
             join(t, c, r) \/ leave(t, c, r) \/ chat(t, c, r) \/ create_and_join(t, c, r)
      PROVE  LeaveInv'
  BY <1>1, <1>2 DEF join, leave, chat, create_and_join, Spawn, actorVars
<1>3. ASSUME NEW c \in Conns, leave_all(t, c) PROVE LeaveInv'
  BY <1>1, <1>3 DEF leave_all, actorVars
<1>4. CASE close_all(t)
  BY <1>1, <1>4 DEF close_all, actorVars
<1> QED
  BY <1>2, <1>3, <1>4, Zenon DEF AnyCall

\* A call returns a result, or goes on, from a place where it does not wait.
LEMMA ReturnLeave ==
    ASSUME TypeOK, ServiceInv, LeaveInv, NEW t \in Tasks, NEW result \in {"ok", "err"}, NEW h,
           Return(t, result, h), task[t].op \in Leaving => result = "ok",
           UNCHANGED <<commands, closed>>, reply[t] \notin {"waiting", "abandoned"},
           \A u \in Tasks \ {t} : reply'[u] = reply[u], reply'[t] = "none"
    PROVE  LeaveInv'
<1>1. PICK pc \in {"remove", "next", "idle"} :
         task' = [task EXCEPT ![t] = IF pc = "idle" THEN Done(task[t], result)
                                     ELSE [task[t] EXCEPT !.pc = pc]]
  BY Zenon DEF Return
<1>2. task \in [Tasks -> Call] /\ task[t] \in Call /\ ResultOf(t)
  BY DEF ServiceInv, LeaveInv, LeaveOf
<1>3. /\ Done(task[t], result).pc = "idle" /\ Done(task[t], result).op = task[t].op
      /\ Done(task[t], result).result = result
  BY DEF Done, NoCall, call
<1>4. /\ \A u \in Tasks \ {t} : task'[u] = task[u]
      /\ task'[t].pc = pc /\ task'[t].op = task[t].op
      /\ task'[t].result \in {task[t].result, result}
      /\ task'[t].result = result \/ task'[t].result = task[t].result
  BY <1>1, <1>2, <1>3 DEF Call
<1>5. ResultOf(t)'
  BY <1>2, <1>4 DEF ResultOf
<1> QED
  BY <1>4, <1>5, QuietStep

\* A call moves on to a place where it does not wait.
LEMMA GotoLeave ==
    ASSUME TypeOK, ServiceInv, LeaveInv, NEW t \in Tasks, NEW pc, pc # "reply", Goto(t, pc),
           UNCHANGED <<commands, closed>>, reply[t] \notin {"waiting", "abandoned"},
           \A u \in Tasks \ {t} : reply'[u] = reply[u], reply'[t] = "none"
    PROVE  LeaveInv'
<1>1. task \in [Tasks -> Call] /\ task[t] \in Call /\ ResultOf(t)
  BY DEF ServiceInv, LeaveInv, LeaveOf
<1>2. /\ \A u \in Tasks \ {t} : task'[u] = task[u]
      /\ task'[t].pc = pc /\ task'[t].op = task[t].op /\ task'[t].result = task[t].result
  BY <1>1 DEF Goto, Call
<1> QED
  BY <1>1, <1>2, QuietStep DEF ResultOf

\* The steps of a call up to the send, and after the reply.
LEMMA QuietLeave ==
    ASSUME IInv, ServiceInv, LeaveInv, NEW t \in Tasks,
           \/ Insert(t) \/ Lookup(t) \/ Busy(t) \/ SendFails(t) \/ Unregister(t) \/ Remove(t)
    PROVE  LeaveInv'
<1>0. TypeOK /\ TaskInv(t)
  BY DEF IInv, ServiceInv
<1>1. task[t].pc \notin {"reply", "cancelled"} /\ UNCHANGED <<commands, closed, reply>>
  BY Zenon DEF Insert, Lookup, Busy, SendFails, Unregister, Remove, RoomsUnchanged
<1>2. reply[t] = "none" /\ reply' = reply
  BY <1>0, <1>1, EmptyOneshot
<1>3. CASE Insert(t)
  BY <1>0, <1>1, <1>2, <1>3, GotoLeave DEF Insert
<1>4. CASE Lookup(t)
  <2>1. CASE Goto(t, "send")
    BY <1>0, <1>1, <1>2, <2>1, GotoLeave, Zenon
  <2>2. CASE Return(t, IF task[t].op \in {"leave", "leave_all"} THEN "ok" ELSE "err",
                    Unlist(holders, {task[t].room}))
    BY <1>0, <1>1, <1>2, <2>2, ReturnLeave DEF Leaving
  <2> QED
    BY <1>4, <2>1, <2>2, Zenon DEF Lookup
<1>5. CASE Busy(t)
  BY <1>0, <1>1, <1>2, <1>5, ReturnLeave DEF Busy, Leaving
<1>6. CASE SendFails(t)
  <2>1. task[t].room \in Rooms /\ closed[task[t].room]
    BY <1>0, <1>6, Zenon DEF SendFails, TaskInv, ShapeOf, IInv, FlagBeforeDrop
  <2>2. CASE Goto(t, "unregister")
    BY <1>0, <1>1, <1>2, <2>2, GotoLeave, Zenon
  <2>3. CASE task[t].op \notin Leaving /\ Return(t, "err", holders)
    BY <1>0, <1>1, <1>2, <2>3, ReturnLeave
  <2> QED
    BY <1>6, <2>1, <2>2, <2>3 DEF SendFails, Leaving
<1>7. CASE Unregister(t)
  BY <1>0, <1>1, <1>2, <1>7, ReturnLeave DEF Unregister
<1>8. CASE Remove(t)
  <2>1. task[t].op = "create" /\ task \in [Tasks -> Call]
    BY <1>0, <1>8, Zenon DEF Remove, TaskInv, ShapeOf, ServiceInv
  <2>2. /\ \A u \in Tasks \ {t} : task'[u] = task[u]
        /\ task'[t].pc = "idle" /\ task'[t].op = "create"
    BY <1>8, <2>1 DEF Remove, Done, NoCall, call
  <2> QED
    BY <1>1, <1>2, <2>2, QuietStep DEF ResultOf, Leaving
<1> QED
  BY <1>3, <1>4, <1>5, <1>6, <1>7, <1>8

\* leave_all and close_all go from room to room.
LEMMA LoopLeave ==
    ASSUME TypeOK, ServiceInv, LeaveInv, NEW t \in Tasks,
           Snapshot(t) \/ Drain(t) \/ NextRoom(t)
    PROVE  LeaveInv'
<1>0. task \in [Tasks -> Call] /\ task[t] \in Call /\ ResultOf(t)
  BY DEF ServiceInv, LeaveInv, LeaveOf
<1>1. task[t].pc \notin {"reply", "cancelled"} /\ UNCHANGED <<commands, closed, reply>>
  BY Zenon DEF Snapshot, Drain, NextRoom, RoomsUnchanged, actorVars
<1>2. reply[t] = "none" /\ reply' = reply
  BY <1>1, EmptyOneshot
<1>3. CASE \E S : task' = [task EXCEPT ![t].pc = "next", ![t].rest = S]
  <2>1. /\ \A u \in Tasks \ {t} : task'[u] = task[u]
        /\ task'[t].pc = "next" /\ task'[t].op = task[t].op /\ task'[t].result = task[t].result
    BY <1>0, <1>3 DEF Call
  <2> QED
    BY <1>0, <1>1, <1>2, <2>1, QuietStep DEF ResultOf
<1>4. CASE \E pc \in {"lookup", "send"}, r \in task[t].rest :
              task' = [task EXCEPT ![t].pc = pc, ![t].room = r, ![t].rest = @ \ {r}]
  <2>1. /\ \A u \in Tasks \ {t} : task'[u] = task[u]
        /\ task'[t].pc # "reply" /\ task'[t].op = task[t].op /\ task'[t].result = task[t].result
    BY <1>0, <1>4 DEF Call
  <2> QED
    BY <1>0, <1>1, <1>2, <2>1, QuietStep DEF ResultOf
<1>5. CASE task' = [task EXCEPT ![t] = Done(@, "ok")]
  <2>1. /\ \A u \in Tasks \ {t} : task'[u] = task[u]
        /\ task'[t].pc = "idle" /\ task'[t].result = "ok"
    BY <1>0, <1>5 DEF Done, NoCall, call
  <2> QED
    BY <1>1, <1>2, <2>1, QuietStep DEF ResultOf
<1>6. CASE Snapshot(t) \/ Drain(t)
  BY <1>3, <1>6, Zenon DEF Snapshot, Drain
<1>7. CASE NextRoom(t)
  BY <1>4, <1>5, <1>7, Zenon DEF NextRoom
<1> QED
  BY <1>6, <1>7

\* The answer is read.
LEMMA TakeReplyLeave ==
    ASSUME TypeOK, ServiceInv, LeaveInv, NEW t \in Tasks, TakeReply(t)
    PROVE  LeaveInv'
<1>0. /\ task[t].pc = "reply" /\ reply[t] # "waiting" /\ UNCHANGED <<commands, closed>>
      /\ reply' = [reply EXCEPT ![t] = "none"] /\ reply \in [Tasks -> Reply]
  BY Zenon DEF TakeReply, RoomsUnchanged, TypeOK
<1>1. /\ reply[t] \notin {"waiting", "abandoned"} /\ reply'[t] = "none"
      /\ \A u \in Tasks \ {t} : reply'[u] = reply[u]
  BY <1>0 DEF ServiceInv, TaskInv, OneshotOf
<1>2. task[t].op \in Leaving =>
         reply[t] \in {"left", "absent"} \/ (reply[t] = "dropped" /\ closed[task[t].room])
  BY <1>0, Zenon DEF LeaveInv, LeaveOf, AnswerOf
<1>3. CASE Goto(t, "unregister")
  BY <1>0, <1>1, <1>3, GotoLeave
<1>4. CASE \E result \in {"ok", "err"} :
              (task[t].op \in Leaving => result = "ok") /\ Return(t, result, holders)
  BY <1>0, <1>1, <1>4, ReturnLeave
<1> QED
  BY <1>2, <1>3, <1>4 DEF TakeReply, Leaving

\* The future is dropped: its command stays queued.
LEMMA CancelLeave ==
    ASSUME TypeOK, ServiceInv, LeaveInv, NEW t \in Tasks, Cancel(t)
    PROVE  LeaveInv'
<1>0. /\ task[t].pc # "cancelled" /\ UNCHANGED <<commands, closed>>
      /\ task \in [Tasks -> Call] /\ task[t] \in Call /\ LeaveOf(t) /\ reply \in [Tasks -> Reply]
  BY DEF Cancel, RoomsUnchanged, ServiceInv, LeaveInv, TypeOK
<1>1. /\ \A u \in Tasks \ {t} : task'[u] = task[u] /\ reply'[u] = reply[u]
      /\ task'[t].pc = "cancelled" /\ task'[t].op = task[t].op /\ task'[t].room = task[t].room
      /\ task'[t].result = task[t].result
      /\ reply'[t] = IF reply[t] = "waiting" THEN "abandoned" ELSE "none"
  BY <1>0 DEF Cancel, Call
<1>2. reply[t] # "abandoned"
  BY <1>0 DEF ServiceInv, TaskInv, OneshotOf
<1>3. QueuedOf(t)'
  BY <1>0, <1>1, <1>2 DEF LeaveOf, QueuedOf
<1>4. AnswerOf(t)' /\ ResultOf(t)'
  BY <1>0, <1>1, Zenon DEF LeaveOf, AnswerOf, ResultOf
<1> QED
  BY <1>0, <1>1, <1>3, <1>4, OthersLeave DEF LeaveInv, LeaveOf

\* A command is queued, with the oneshot of its sender if that waits.
LEMMA EnqueueLeave ==
    ASSUME TypeOK, ServiceInv, LeaveInv, NEW t \in Tasks, Enqueue(t)
    PROVE  LeaveInv'
<1> DEFINE r == task[t].room
           cmd == Command(t)
           wait == task[t].op \in Waiting
           n == Len(commands[r]) + 1
<1>0. /\ task[t].pc = "send" /\ Send(r, t, cmd, wait)
      /\ TaskInv(t) /\ task[t] \in Call /\ task \in [Tasks -> Call] /\ r \in Rooms
      /\ task' = [task EXCEPT ![t] =
                     IF wait THEN [@ EXCEPT !.pc = "reply"]
                     ELSE IF @.op = "close_all" THEN [@ EXCEPT !.pc = "next"]
                     ELSE Done(@, "ok")]
  BY DEF Enqueue, ServiceInv, TaskInv, ShapeOf, Waiting
<1>1. /\ cmd \in RoomCommand
      /\ cmd.reply = IF wait THEN t ELSE None
      /\ wait => cmd.type = IF task[t].op \in Leaving THEN "Leave" ELSE "Join"
  BY <1>0, CommandFits DEF Waiting, Leaving
<1> HIDE DEF cmd
<1>2. /\ reply[t] = "none" /\ reply \in [Tasks -> Reply]
      /\ commands \in [Rooms -> Seq(RoomCommand)] /\ LeaveOf(t)
  BY <1>0, EmptyOneshot, Zenon DEF TypeOK, LeaveInv
<1>3. /\ closed' = closed /\ commands' = [commands EXCEPT ![r] = Append(@, cmd)]
      /\ \A u \in Tasks \ {t} : reply'[u] = reply[u]
      /\ reply'[t] = IF wait THEN "waiting" ELSE "none"
  BY <1>0, <1>1, <1>2, RoomActorAssumptions, Zenon DEF Send
<1>4. /\ \A q \in Rooms \ {r} : commands'[q] = commands[q]
      /\ DOMAIN commands'[r] = DOMAIN commands[r] \cup {n} /\ n \notin DOMAIN commands[r]
      /\ commands'[r][n] = cmd
      /\ \A i \in DOMAIN commands[r] : commands'[r][i] = commands[r][i]
  <2>1. commands'[r] = Append(commands[r], cmd) /\ commands[r] \in Seq(RoomCommand)
    BY <1>0, <1>2, <1>3
  <2> QED
    BY <1>0, <1>1, <1>2, <1>3, <2>1
<1>5. /\ \A u \in Tasks \ {t} : task'[u] = task[u]
      /\ wait => /\ task'[t].pc = "reply" /\ task'[t].op = task[t].op
                 /\ task'[t].room = r /\ task'[t].result = task[t].result
      /\ ~wait => task'[t].pc # "reply" /\ task'[t].pc # "cancelled" /\ task'[t].op = task[t].op
  BY <1>0 DEF Call, Done, NoCall, call
<1> HIDE DEF n
<1>6. ASSUME NEW u \in Tasks, u # t PROVE LeaveOf(u)'
  <2>1. LeaveOf(u) /\ cmd.reply # u
    BY <1>1, <1>6, RoomActorAssumptions DEF LeaveInv
  <2>2. QueuedOf(u)'
    BY <1>0, <1>3, <1>4, <1>5, <1>6, <2>1 DEF LeaveOf, QueuedOf
  <2> QED
    BY <1>3, <1>5, <1>6, <2>1, <2>2 DEF LeaveOf, AnswerOf, ResultOf
<1>7. \A q \in Rooms : \A i \in DOMAIN commands[q] : commands[q][i].reply # t
  BY <1>2 DEF LeaveOf, QueuedOf
<1>8. QueuedOf(t)'
  <2>1. CASE wait
    BY <1>0, <1>1, <1>3, <1>4, <1>5, <1>7, <2>1 DEF QueuedOf
  <2>2. CASE ~wait
    BY <1>0, <1>1, <1>4, <1>7, <2>2, RoomActorAssumptions DEF QueuedOf
  <2> QED
    BY <2>1, <2>2
<1>9. AnswerOf(t)' /\ ResultOf(t)'
  BY <1>2, <1>3, <1>5, Zenon DEF LeaveOf, AnswerOf, ResultOf, Leaving, Waiting
<1> QED
  BY <1>6, <1>8, <1>9 DEF LeaveInv, LeaveOf

-----------------------------------------------------------------------------
(***************************************************************************)
(* Rooms.                                                                  *)
(***************************************************************************)

\* The head of the queue is taken and answered.
LEMMA HandleLeave ==
    ASSUME IInv, IInv', ServiceInv, LeaveInv, NEW r \in Rooms, Handle(r), UNCHANGED task
    PROVE  LeaveInv'
<1> DEFINE cmd == Head(commands[r])
<1>0. /\ commands[r] \in Seq(RoomCommand) /\ commands[r] # <<>>
      /\ commands \in [Rooms -> Seq(RoomCommand)] /\ reply \in [Tasks -> Reply]
      /\ commands' = [commands EXCEPT ![r] = Tail(@)]
  BY DEF IInv, TypeOK, Handle
<1>1. /\ \A q \in Rooms \ {r} : commands'[q] = commands[q]
      /\ 1 \in DOMAIN commands[r] /\ commands[r][1] = cmd
      /\ \A i \in DOMAIN commands'[r] : /\ i \in Nat /\ i + 1 # 1
                                       /\ i + 1 \in DOMAIN commands[r]
                                       /\ commands'[r][i] = commands[r][i + 1]
  <2>1. commands'[r] = Tail(commands[r])
    BY <1>0
  <2> QED
    BY <1>0, <2>1
<1>2. \A q \in Rooms : closed[q] => closed'[q]
  <2>1. closed \in [Rooms -> BOOLEAN]
    BY DEF IInv, TypeOK
  <2> QED
    BY <2>1, Zenon DEF Handle, handle_join, handle_chat, handle_leave, handle_close
<1>3. \A u \in Tasks : reply'[u] # reply[u] => cmd.reply = u /\ reply[u] = "waiting"
  <2>1. \E v : reply' = reply \/ reply' = Answer(reply, cmd.reply, v)
    BY Zenon DEF Handle, handle_join, handle_chat, handle_leave, handle_close
  <2> QED
    BY <1>0, <2>1 DEF Answer
<1>4. \A u \in Tasks : cmd.type = "Leave" /\ reply'[u] # reply[u] => reply'[u] \in {"left", "absent"}
  <2>1. cmd.type = "Leave" => \E v \in {"left", "absent", "RoomClosed"} : reply' = Answer(reply, cmd.reply, v)
    BY Zenon DEF Handle, handle_join, handle_chat, handle_leave, handle_close, try_leave
  <2>2. \A u \in Tasks : reply'[u] # "RoomClosed"
    BY DEF IInv, FlagBeforeDrop
  <2> QED
    BY <1>0, <2>1, <2>2 DEF Answer
<1> HIDE DEF cmd
<1>5. ASSUME NEW u \in Tasks PROVE LeaveOf(u)'
  <2>0. LeaveOf(u) /\ task'[u] = task[u]
    BY DEF LeaveInv
  <2>1. QueuedOf(u)'
    <3> SUFFICES ASSUME NEW q \in Rooms, NEW i \in DOMAIN commands'[q], commands'[q][i].reply = u
                 PROVE  /\ task[u].room = q
                        /\ reply'[u] \in {"waiting", "abandoned"}
                        /\ commands'[q][i].type = IF task[u].op \in Leaving THEN "Leave" ELSE "Join"
                        /\ \A j \in DOMAIN commands'[q] : commands'[q][j].reply = u => j = i
      BY <2>0 DEF QueuedOf
    <3>1. CASE q # r
      <4>1. commands'[q] = commands[q]
        BY <1>1, <3>1
      <4>2. cmd.reply = u /\ reply[u] = "waiting" => task[u].room = r
        BY <1>1, <2>0 DEF LeaveOf, QueuedOf
      <4> QED
        <5>1. /\ task[u].room = q
              /\ reply[u] \in {"waiting", "abandoned"}
              /\ commands[q][i].type = IF task[u].op \in Leaving THEN "Leave" ELSE "Join"
              /\ \A j \in DOMAIN commands[q] : commands[q][j].reply = u => j = i
          BY <2>0, <4>1, Zenon DEF LeaveOf, QueuedOf
        <5>2. reply'[u] = reply[u]
          BY <1>3, <3>1, <4>2, <5>1, Zenon
        <5> QED
          BY <4>1, <5>1, <5>2, Zenon
    <3>2. CASE q = r
      <4>1. commands[r][i + 1].reply = u /\ i + 1 \in DOMAIN commands[r] /\ i + 1 # 1 /\ i \in Nat
        BY <1>1, <3>2
      <4>2. reply[u] = "waiting" => cmd.reply # u
        BY <1>1, <2>0, <4>1 DEF LeaveOf, QueuedOf
      <4>3. reply'[u] = reply[u]
        BY <1>3, <4>2
      <4>4. ASSUME NEW j \in DOMAIN commands'[r], commands'[r][j].reply = u
            PROVE  j = i
        <5>1. j + 1 = i + 1 /\ j \in Nat
          BY <1>1, <2>0, <4>1, <4>4 DEF LeaveOf, QueuedOf
        <5> QED
          BY <4>1, <5>1
      <4> QED
        BY <1>1, <2>0, <3>2, <4>1, <4>3, <4>4 DEF LeaveOf, QueuedOf
    <3> QED
      BY <3>1, <3>2
  <2>2. AnswerOf(u)'
    <3>1. CASE reply'[u] = reply[u]
      <4>1. task[u].pc = "reply" => task[u].room \in Rooms
        BY DEF ServiceInv, TaskInv, ShapeOf
      <4> QED
        BY <1>2, <2>0, <3>1, <4>1 DEF LeaveOf, AnswerOf
    <3>2. CASE reply'[u] # reply[u]
      <4>1. task[u].op \in Leaving => reply'[u] \in {"left", "absent"}
        <5>1. cmd.reply = u
          BY <1>3, <3>2, Zenon
        <5>2. cmd.type = IF task[u].op \in Leaving THEN "Leave" ELSE "Join"
          BY <1>1, <2>0, <5>1, Zenon DEF LeaveOf, QueuedOf
        <5> QED
          BY <1>4, <3>2, <5>2
      <4> QED
        BY <1>3, <2>0, <3>2, <4>1, Zenon DEF LeaveOf, AnswerOf
    <3> QED
      BY <3>1, <3>2
  <2> QED
    BY <2>0, <2>1, <2>2 DEF LeaveOf, ResultOf
<1> QED
  BY <1>5 DEF LeaveInv

\* A room ends: those it leaves waiting wait for this room, and it is flagged.
LEMMA StopLeave ==
    ASSUME TypeOK, ServiceInv, LeaveInv, NEW r \in Rooms, Stop(r), UNCHANGED task
    PROVE  LeaveInv'
<1> DEFINE orphaned == {commands[r][i].reply : i \in DOMAIN commands[r]}
<1>0. /\ commands' = [commands EXCEPT ![r] = <<>>] /\ commands \in [Rooms -> Seq(RoomCommand)]
      /\ closed' = [closed EXCEPT ![r] = TRUE] /\ closed \in [Rooms -> BOOLEAN]
      /\ reply' = [t \in Tasks |-> IF t \in orphaned /\ reply[t] = "waiting"
                                   THEN "dropped" ELSE reply[t]]
  BY Zenon DEF Stop, TypeOK
<1>1. \A u \in Tasks : u \in orphaned /\ reply[u] = "waiting" => task[u].room = r
  BY DEF LeaveInv, LeaveOf, QueuedOf
<1>2. \A q \in Rooms : q # r => commands'[q] = commands[q]
  BY <1>0
<1>3. commands'[r] = <<>> /\ DOMAIN commands'[r] = {}
  BY <1>0
<1>4. \A q \in Rooms : (closed[q] => closed'[q]) /\ closed'[r]
  BY <1>0
<1>5. \A u \in Tasks : \/ reply'[u] = reply[u]
                       \/ reply'[u] = "dropped" /\ reply[u] = "waiting" /\ task[u].room = r
  BY <1>0, <1>1
<1>6. ASSUME NEW u \in Tasks PROVE LeaveOf(u)'
  <2>0. LeaveOf(u) /\ task'[u] = task[u]
    BY DEF LeaveInv
  <2>1. QueuedOf(u)'
    <3> SUFFICES ASSUME NEW q \in Rooms, NEW i \in DOMAIN commands'[q], commands'[q][i].reply = u
                 PROVE  /\ task[u].room = q
                        /\ reply'[u] \in {"waiting", "abandoned"}
                        /\ commands'[q][i].type = IF task[u].op \in Leaving THEN "Leave" ELSE "Join"
                        /\ \A j \in DOMAIN commands'[q] : commands'[q][j].reply = u => j = i
      BY <2>0, Zenon DEF QueuedOf
    <3>1. q # r /\ commands'[q] = commands[q]
      BY <1>2, <1>3, Zenon
    <3>2. /\ task[u].room = q
          /\ reply[u] \in {"waiting", "abandoned"}
          /\ commands[q][i].type = IF task[u].op \in Leaving THEN "Leave" ELSE "Join"
          /\ \A j \in DOMAIN commands[q] : commands[q][j].reply = u => j = i
      BY <2>0, <3>1, Zenon DEF LeaveOf, QueuedOf
    <3> QED
      BY <1>5, <3>1, <3>2, Zenon
  <2>2. AnswerOf(u)'
    <3>1. task[u].pc = "reply" => task[u].room \in Rooms
      BY DEF ServiceInv, TaskInv, ShapeOf
    <3> QED
      BY <1>4, <1>5, <2>0, <3>1, Zenon DEF LeaveOf, AnswerOf
  <2> QED
    BY <2>0, <2>1, <2>2 DEF LeaveOf, ResultOf
<1> QED
  BY <1>6 DEF LeaveInv

\* Every step keeps LeaveInv.
LEMMA LeaveStep ==
    ASSUME IInv, IInv', ServiceInv, LeaveInv, [ServiceNext]_serviceVars
    PROVE  LeaveInv'
<1>0. TypeOK
  BY DEF IInv
<1>1. ASSUME NEW t \in Tasks, CallStep(t) PROVE LeaveInv'
  BY <1>0, <1>1, QuietLeave, LoopLeave, TakeReplyLeave, EnqueueLeave, Zenon DEF CallStep
<1>2. ASSUME UNCHANGED <<task, commands, closed, reply>> PROVE LeaveInv'
  BY <1>2 DEF LeaveInv, LeaveOf, QueuedOf, AnswerOf, ResultOf
<1>3. CASE RoomsStep
  <2>1. ASSUME NEW r \in Rooms, ActorStep(r), UNCHANGED task PROVE LeaveInv'
    BY <1>0, <2>1, HandleLeave, StopLeave DEF ActorStep, Break, Disconnect
  <2>2. ASSUME NEW c \in Conns, Receive(c) \/ DropReceiver(c), UNCHANGED task PROVE LeaveInv'
    BY <1>2, <2>2, Zenon DEF Receive, DropReceiver
  <2> QED
    BY <1>3, <2>1, <2>2, Zenon DEF RoomsStep
<1>4. CASE UNCHANGED serviceVars
  BY <1>2, <1>4 DEF serviceVars, actorVars
<1> QED
  BY <1>0, <1>1, <1>3, <1>4, BeginLeave, CancelLeave, Zenon DEF ServiceNext
=============================================================================
