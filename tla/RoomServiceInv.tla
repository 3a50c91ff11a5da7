--------------------------- MODULE RoomServiceInv ---------------------------
(***************************************************************************)
(* The inductive invariants of RoomService: ServiceInv, what is true of    *)
(* each call by itself; LeaveInv, what a leave that waits can find; and    *)
(* RegistryInv, how rooms, their creators and the registry go together.    *)
(***************************************************************************)
EXTENDS RoomService

Leaving == {"leave", "leave_all"}
Waiting == {"join", "create", "leave", "leave_all"}

\* Which call can be where.
ShapeOf(k) ==
    /\ k \in Call
    /\ k.pc \in {"insert", "lookup", "send", "reply", "unregister", "remove"} => k.room \in Rooms
    /\ k.pc \notin {"idle", "cancelled"} => k.op # "none"
    /\ k.pc \notin {"idle", "cancelled"} /\ k.op # "close_all" => k.conn \in Conns
    /\ k.pc \in {"insert", "remove"} => k.op = "create"
    /\ k.pc = "lookup" => k.op \in Waiting \cup {"chat"}
    /\ k.pc = "reply" => k.op \in Waiting
    /\ k.pc = "unregister" => k.op \in Leaving
    /\ k.pc \in {"snapshot", "drain", "next"} => k.op \in {"leave_all", "close_all"}
    /\ k.op \notin {"leave_all", "close_all"} => k.rest = {}
    /\ k.pc \in {"lookup", "send"} => k.room \notin k.rest

\* The handles that call k of task t has: the one it sends to, the one of the
\* room it creates, and those of the rooms it still has to visit.
HoldsOf(t, k) ==
    /\ k.pc = "send" => t \in holders[k.room]
    /\ k.pc \in {"insert", "lookup", "reply", "remove"} /\ k.op = "create" => t \in holders[k.room]
    /\ \A r \in k.rest : t \in holders[r]

\* The oneshot of a task is in use exactly while it waits for a reply.
OneshotOf(t, k) ==
    /\ k.pc \notin {"reply", "cancelled"} => reply[t] = "none"
    /\ k.pc = "reply" => reply[t] \notin {"none", "abandoned"}

TaskInv(t) == ShapeOf(task[t]) /\ HoldsOf(t, task[t]) /\ OneshotOf(t, task[t])

\* No handle exists before its room.
UnbornUnheld == \A r \in Rooms : actor[r] = "unborn" => holders[r] = {}

ServiceInv ==
    /\ task \in [Tasks -> Call]
    /\ UnbornUnheld
    /\ \A t \in Tasks : TaskInv(t)

-----------------------------------------------------------------------------
(***************************************************************************)
(* leave and leave_all.                                                    *)
(***************************************************************************)

\* A queued command that carries the oneshot of task t is in the queue of the
\* room t waits for; it is the only one and the command that t's call sends,
\* unless t was dropped.
QueuedOf(t) ==
    \A r \in Rooms : \A i \in DOMAIN commands[r] : commands[r][i].reply = t =>
        /\ task[t].room = r
        /\ reply[t] \in {"waiting", "abandoned"}
        /\ commands[r][i].type = IF task[t].op \in Leaving THEN "Leave" ELSE "Join"
        /\ \A j \in DOMAIN commands[r] : commands[r][j].reply = t => j = i

\* What a leave that waits can find in its oneshot.
AnswerOf(t) ==
    /\ task[t].pc = "cancelled" => reply[t] \in {"none", "abandoned"}
    /\ task[t].pc = "reply" /\ task[t].op \in Leaving =>
          /\ reply[t] \in {"waiting", "left", "absent", "dropped"}
          /\ reply[t] = "dropped" => closed[task[t].room]

ResultOf(t) == task[t].op \in Leaving => task[t].result # "err"

LeaveOf(t) == QueuedOf(t) /\ AnswerOf(t) /\ ResultOf(t)

LeaveInv == \A t \in Tasks : LeaveOf(t)

-----------------------------------------------------------------------------
(***************************************************************************)
(* The registry.                                                           *)
(***************************************************************************)

\* Task t, or its dropped call, creates room r.
Creator(t, r) == task[t].op = "create" /\ task[t].room = r

\* Task t is a close_all that will send Close to room r.
Closing(t, r) ==
    /\ task[t].op = "close_all"
    /\ r \in task[t].rest \/ (r = task[t].room /\ task[t].pc = "send")

CloseQueued(r) == \E i \in DOMAIN commands[r] : commands[r][i].type = "Close"

\* Room r is over, or will be.
Doomed(r) == closed[r] \/ CloseOnItsWay(r) \/ CloseCancelled

\* How far the creation of room r by task t is.  Nobody else can name the room,
\* and so join it, before its creator has joined.  Hence that join succeeds or
\* finds the room over.
StageOf(t, r) ==
    /\ task[t].pc \in {"insert", "lookup", "send"} \/ reply[t] = "waiting" => ~had_members[r]
    /\ task[t].pc = "insert" => ~registered(r) /\ ~closed[r]
    /\ task[t].pc = "reply" =>
          /\ reply[t] \in {"waiting", "joined", "dropped"}
          /\ reply[t] = "joined" => had_members[r]
          /\ reply[t] = "dropped" => closed[r]
    /\ task[t].pc = "remove" => Doomed(r)

\* Each creator has a room of its own.
CreatorOf(t) ==
    \A r \in Rooms : Creator(t, r) =>
        /\ actor[r] # "unborn"
        /\ \A u \in Tasks : Creator(u, r) => u = t
        /\ StageOf(t, r)

\* The other calls.
GuestOf(t) ==
    /\ task[t].op = "join" /\ task[t].room \in Rooms => had_members[task[t].room]
    /\ task[t].pc = "unregister" => closed[task[t].room]
    /\ task[t].pc = "idle" => task[t].room \notin Rooms
    /\ task[t].pc \in {"idle", "snapshot", "drain"} => task[t].rest = {}
    /\ task[t].pc = "snapshot" => task[t].op = "leave_all"
    /\ task[t].pc = "drain" => task[t].op = "close_all"

\* A leave that will look at r again, or any call about r that was dropped.
Visits(t, r) ==
    /\ task[t].room = r
    /\ \/ task[t].op \in Leaving /\ task[t].pc \in {"lookup", "send", "reply", "unregister"}
       \/ task[t].pc = "cancelled"

\* The creator t of room r is about to join it.
Enters(t, r) == Creator(t, r) /\ task[t].pc \in {"lookup", "send"}

JoinQueued(r) == \E i \in DOMAIN commands[r] : commands[r][i].type = "Join"

\* Rooms.  The first to join is the creator; a room that anybody is in, or about
\* to enter, is listed or doomed; a Close finds the room unlisted for good; and
\* only a leave closes a room that is listed.
FirstOf(r) ==
    ~had_members[r] => \A i \in DOMAIN commands[r] :
        commands[r][i].type = "Join" => Creator(commands[r][i].reply, r)

ListedOf(r) ==
    had_members[r] \/ JoinQueued(r) \/ (\E t \in Tasks : Enters(t, r))
       => registered(r) \/ Doomed(r)

DrainedOf(r) ==
    CloseOnItsWay(r) =>
       ~registered(r) /\ \A t \in Tasks : Creator(t, r) => task[t].pc # "insert"

ClosedOf(r) == closed[r] /\ registered(r) => \E t \in Tasks : Visits(t, r)

EmptyOf(r) ==
    actor[r] = "running" /\ registered(r) /\ ~had_members[r] => \E t \in Tasks : Creator(t, r)

RoomOf(r) == FirstOf(r) /\ ListedOf(r) /\ DrainedOf(r) /\ ClosedOf(r) /\ EmptyOf(r)

RegistryInv ==
    /\ \A t \in Tasks : CreatorOf(t) /\ GuestOf(t)
    /\ \A r \in Rooms : RoomOf(r)

-----------------------------------------------------------------------------
\* What a room q does with a command, as far as the registry is concerned.
HandleEffect(q, cmd) ==
    /\ \A r \in Rooms \ {q} : /\ had_members'[r] = had_members[r] /\ closed'[r] = closed[r]
                              /\ actor'[r] = actor[r]
    /\ actor'[q] \in {"running", "breaking"}
    /\ had_members[q] => had_members'[q]
    /\ had_members'[q] => had_members[q] \/ cmd.type = "Join"
    /\ closed'[q] => cmd.type = "Close" \/ (cmd.type = "Leave" /\ had_members[q])
    /\ cmd.type = "Close" => closed'[q]
    /\ \A u \in Tasks : reply'[u] # reply[u] =>
          cmd.reply = u /\ reply[u] = "waiting" /\ reply'[u] # "waiting"
    /\ cmd.type = "Join" /\ ~had_members[q] =>
          had_members'[q] /\ \A u \in Tasks : cmd.reply = u /\ reply[u] = "waiting" => reply'[u] = "joined"
=============================================================================
