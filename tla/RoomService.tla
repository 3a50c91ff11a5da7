----------------------------- MODULE RoomService -----------------------------
(***************************************************************************)
(* RoomService (crates/application/src/room/service.rs): the registry of   *)
(* rooms and the calls that use it.  It composes with the room actors of   *)
(* module RoomActor: each call is a task that goes from await to await,    *)
(* and any await is a point where the task may be dropped.                 *)
(*                                                                         *)
(* The registry is not a variable of its own: room r is registered exactly *)
(* when Registry holds a handle of it.  Every access to the registry is    *)
(* one step, as it happens under its mutex.  Publishing a domain event     *)
(* changes no state of the service and is left out.                        *)
(***************************************************************************)
EXTENDS RoomActor

CONSTANT MaxCancels   \* bound: how many tasks are dropped in the middle

ASSUME MaxCancelsAssumption == MaxCancels \in Nat

\* A call that is about no room has None in its place.
ASSUME NoneIsNoRoom == None \notin Rooms

VARIABLE task   \* the call each task is in

serviceVars == <<actorVars, task>>

Op == {"none", "join", "create", "leave", "leave_all", "chat", "close_all"}

\* "insert", "lookup", "unregister", "remove", "snapshot", "drain": waits for
\* the registry's mutex.  "send": waits for capacity of the command queue.
\* "reply": waits for the oneshot.  "next": the head of a loop over handles.
\* "cancelled": the future was dropped.
Pc == {"idle", "insert", "lookup", "send", "reply", "unregister", "remove",
       "snapshot", "drain", "next", "cancelled"}

\* rest is what is left of the handles that leave_all and close_all iterate.
Call == [pc: Pc, op: Op, conn: Conns \cup {None}, room: Rooms \cup {None},
         rest: SUBSET Rooms, result: {"none", "ok", "err"}]

call(pc, op, c, r) ==
    [pc |-> pc, op |-> op, conn |-> c, room |-> r, rest |-> {}, result |-> "none"]

NoCall == call("idle", "none", None, None)

\* The call k after it returned.
Done(k, result) == [NoCall EXCEPT !.op = k.op, !.result = result]

registered(r) == Registry \in holders[r]
Registered == {r \in Rooms : registered(r)}

\* Handles h with t holding exactly those of the rooms in S.
Hold(h, t, S) == [r \in Rooms |-> IF r \in S THEN h[r] \cup {t} ELSE h[r] \ {t}]

\* Handles h with the rooms in S taken out of the registry.
Unlist(h, S) == [r \in Rooms |-> IF r \in S THEN h[r] \ {Registry} ELSE h[r]]

\* What the registry and the tasks may touch in one step of RoomService that
\* sends nothing.
RoomsUnchanged == UNCHANGED <<room, members, had_members, actor, closed, commands, sink>>

-----------------------------------------------------------------------------
(***************************************************************************)
(* Calls begin.  A room id is a random UUID that clients learn from the    *)
(* MemberJoined event, so a caller names a room that has had a member.  An *)
(* id that was never given is to the registry as one that is gone.         *)
(***************************************************************************)
Nameable(r) == had_members[r]

Begin(t, k) ==
    /\ task[t].pc = "idle"
    /\ task' = [task EXCEPT ![t] = k]

join(t, c, r) ==
    Nameable(r) /\ Begin(t, call("lookup", "join", c, r)) /\ UNCHANGED actorVars

\* create_and_join has spawned the actor before it first waits.
create_and_join(t, c, r) ==
    Spawn(r, t) /\ Begin(t, call("insert", "create", c, r))

leave(t, c, r) ==
    Nameable(r) /\ Begin(t, call("lookup", "leave", c, r)) /\ UNCHANGED actorVars

leave_all(t, c) ==
    Begin(t, call("snapshot", "leave_all", c, None)) /\ UNCHANGED actorVars

\* An unfit text is refused before any wait, with no effect.
chat(t, c, r) ==
    Nameable(r) /\ Begin(t, call("lookup", "chat", c, r)) /\ UNCHANGED actorVars

close_all(t) ==
    Begin(t, call("drain", "close_all", None, None)) /\ UNCHANGED actorVars

-----------------------------------------------------------------------------
(***************************************************************************)
(* Steps of a call.                                                        *)
(***************************************************************************)

\* The inner call on task[t].room returns: create_and_join takes an error to
\* the registry, leave_all goes on unless it is one, the rest is done.  What
\* the caller no longer needs of its handles is dropped from h.
Return(t, result, h) ==
    LET k == task[t]
        pc == CASE k.op = "create" /\ result = "err" -> "remove"
                [] k.op = "leave_all" /\ result = "ok" -> "next"
                [] k.op = "close_all" -> "next"
                [] OTHER -> "idle"
        kept == CASE pc = "remove" -> {k.room}
                  [] pc = "next" -> k.rest
                  [] OTHER -> {}
    IN  /\ task' = [task EXCEPT ![t] =
                       IF pc = "idle" THEN Done(k, result)
                                      ELSE [k EXCEPT !.pc = pc]]
        /\ holders' = Hold(h, t, kept)

Goto(t, pc) == task' = [task EXCEPT ![t].pc = pc]

\* create_and_join: the registry gets a clone.
Insert(t) ==
    LET r == task[t].room
    IN  /\ task[t].pc = "insert"
        /\ holders' = [holders EXCEPT ![r] = @ \cup {Registry}]
        /\ Goto(t, "lookup")
        /\ RoomsUnchanged /\ UNCHANGED reply

\* Mutant of Lookup: a handle is obtained though the registry has none.
LookupUnlisted(t) ==
    LET r == task[t].room
    IN  /\ task[t].pc = "lookup"
        /\ ~closed[r]
        /\ Goto(t, "send")
        /\ holders' = [holders EXCEPT ![r] = @ \cup {t}]
        /\ RoomsUnchanged /\ UNCHANGED reply

\* handle_for: a closed room is unlisted and counts as absent; leave takes an
\* absent room for left.
Lookup(t) ==
    LET r == task[t].room
        found == registered(r) /\ ~closed[r]
    IN  /\ task[t].pc = "lookup"
        /\ IF found
           THEN Goto(t, "send") /\ holders' = [holders EXCEPT ![r] = @ \cup {t}]
           ELSE Return(t, IF task[t].op \in {"leave", "leave_all"} THEN "ok" ELSE "err",
                       Unlist(holders, {r}))
        /\ RoomsUnchanged /\ UNCHANGED reply

Command(t) ==
    LET c == task[t].conn
    IN  CASE task[t].op \in {"join", "create"} -> Join(c, t)
          [] task[t].op \in {"leave", "leave_all"} -> Leave(PlayerOf[c], t)
          [] task[t].op = "chat" -> Chat(PlayerOf[c])
          [] task[t].op = "close_all" -> Close

\* RoomHandle::send got capacity, or try_send found it.
Enqueue(t) ==
    LET r == task[t].room
        wait == task[t].op \in {"join", "create", "leave", "leave_all"}
    IN  /\ task[t].pc = "send"
        /\ Send(r, t, Command(t), wait)
        /\ task' = [task EXCEPT ![t] =
                       IF wait THEN [@ EXCEPT !.pc = "reply"]
                       ELSE IF @.op = "close_all" THEN [@ EXCEPT !.pc = "next"]
                       ELSE Done(@, "ok")]

\* try_send of chat finds the queue full: Busy.
Busy(t) ==
    /\ task[t].pc = "send" /\ task[t].op = "chat"
    /\ actor[task[t].room] # "stopped" /\ ~CanSend(task[t].room)
    /\ Return(t, "err", holders)
    /\ RoomsUnchanged /\ UNCHANGED reply

\* Mutant of SendFails: leave does not look at the closed flag.
SendFailsBlindly(t) ==
    /\ task[t].pc = "send"
    /\ actor[task[t].room] = "stopped"
    /\ Return(t, "err", holders)
    /\ RoomsUnchanged /\ UNCHANGED reply

\* send or try_send finds the receiver gone.  leave asks the closed flag
\* whether that is an error; close_all only logs it.
SendFails(t) ==
    LET r == task[t].room
    IN  /\ task[t].pc = "send"
        /\ actor[r] = "stopped"
        /\ IF task[t].op \in {"leave", "leave_all"} /\ closed[r]
           THEN Goto(t, "unregister") /\ UNCHANGED holders
           ELSE Return(t, "err", holders)
        /\ RoomsUnchanged /\ UNCHANGED reply

\* The oneshot is answered, or dropped, and read.
TakeReply(t) ==
    LET r == task[t].room
        answer == reply[t]
        leaving == task[t].op \in {"leave", "leave_all"}
        result == IF leaving
                  THEN IF \/ answer \in {"left", "absent"}
                          \/ answer = "dropped" /\ closed[r]
                       THEN "ok" ELSE "err"
                  ELSE IF answer = "joined" THEN "ok" ELSE "err"
    IN  /\ task[t].pc = "reply"
        /\ answer # "waiting"
        /\ reply' = [reply EXCEPT ![t] = "none"]
        /\ IF leaving /\ result = "ok" /\ closed[r]
           THEN Goto(t, "unregister") /\ UNCHANGED holders
           ELSE Return(t, result, holders)
        /\ RoomsUnchanged

\* Mutant of Unregister: the room stays listed.
UnregisterNothing(t) ==
    /\ task[t].pc = "unregister"
    /\ Return(t, "ok", holders)
    /\ RoomsUnchanged /\ UNCHANGED reply

\* leave found the room closed and takes it out of the registry, ...
Unregister(t) ==
    /\ task[t].pc = "unregister"
    /\ Return(t, "ok", Unlist(holders, {task[t].room}))
    /\ RoomsUnchanged /\ UNCHANGED reply

\* ... and so does create_and_join when its join failed.
Remove(t) ==
    /\ task[t].pc = "remove"
    /\ task' = [task EXCEPT ![t] = Done(@, "err")]
    /\ holders' = Hold(Unlist(holders, {task[t].room}), t, {})
    /\ RoomsUnchanged /\ UNCHANGED reply

\* Mutant of Snapshot: the wrong rooms are retained.
SnapshotInverted(t) ==
    LET live == {r \in Registered : ~closed[r]}
    IN  /\ task[t].pc = "snapshot"
        /\ task' = [task EXCEPT ![t].pc = "next", ![t].rest = live]
        /\ holders' = Hold(Unlist(holders, live), t, live)
        /\ RoomsUnchanged /\ UNCHANGED reply

\* live_handles: closed rooms are unlisted, the others are cloned.
Snapshot(t) ==
    LET live == {r \in Registered : ~closed[r]}
    IN  /\ task[t].pc = "snapshot"
        /\ task' = [task EXCEPT ![t].pc = "next", ![t].rest = live]
        /\ holders' = Hold(Unlist(holders, Registered \ live), t, live)
        /\ RoomsUnchanged /\ UNCHANGED reply

\* close_all: the registry is drained.
Drain(t) ==
    /\ task[t].pc = "drain"
    /\ task' = [task EXCEPT ![t].pc = "next", ![t].rest = Registered]
    /\ holders' = Hold(Unlist(holders, Registered), t, Registered)
    /\ RoomsUnchanged /\ UNCHANGED reply

\* leave_all and close_all take the next handle, in any order, or are done.
\* leave_all looks the room up again; close_all sends at once.
NextRoom(t) ==
    /\ task[t].pc = "next"
    /\ \/ \E r \in task[t].rest :
             task' = [task EXCEPT
                         ![t].pc = IF task[t].op = "leave_all"
                                   THEN "lookup" ELSE "send",
                         ![t].room = r, ![t].rest = @ \ {r}]
       \/ task[t].rest = {}
          /\ task' = [task EXCEPT ![t] = Done(@, "ok")]
    /\ UNCHANGED actorVars

CallStep(t) ==
    \/ Insert(t) \/ Lookup(t) \/ Enqueue(t) \/ Busy(t) \/ SendFails(t)
    \/ TakeReply(t) \/ Unregister(t) \/ Remove(t)
    \/ Snapshot(t) \/ Drain(t) \/ NextRoom(t)

\* The future of the call is dropped at an await, and its handles with it.
Cancel(t) ==
    /\ task[t].pc \notin {"idle", "cancelled"}
    /\ Cardinality({u \in Tasks : task[u].pc = "cancelled"}) < MaxCancels
    /\ task' = [task EXCEPT ![t].pc = "cancelled", ![t].rest = {}]
    /\ holders' = Hold(holders, t, {})
    /\ reply' = [reply EXCEPT ![t] = IF @ = "waiting" THEN "abandoned" ELSE "none"]
    /\ RoomsUnchanged

-----------------------------------------------------------------------------
ServiceInit == Init /\ task = [t \in Tasks |-> NoCall]

\* What a task may call, when anyone may call anything.
AnyCall(t) ==
    \/ \E c \in Conns, r \in Rooms :
          \/ join(t, c, r) \/ create_and_join(t, c, r)
          \/ leave(t, c, r) \/ chat(t, c, r)
    \/ \E c \in Conns : leave_all(t, c)
    \/ close_all(t)

\* The rooms, and the connections that take their events.
RoomsStep ==
    /\ \/ \E r \in Rooms : ActorStep(r)
       \/ \E c \in Conns : Receive(c) \/ DropReceiver(c)
    /\ UNCHANGED task

ServiceNext ==
    \/ RoomsStep
    \/ \E t \in Tasks : AnyCall(t) \/ CallStep(t) \/ Cancel(t)

ServiceSpec == ServiceInit /\ [][ServiceNext]_serviceVars

(***************************************************************************)
(* A task that can proceed is polled, and so is a room.  The capacity of a *)
(* command queue is handed out in the order of arrival (tokio's mpsc), so  *)
(* nobody who waits for it is passed over forever: strong fairness of      *)
(* Enqueue.  Nobody has to call, and nobody has to be dropped.             *)
(***************************************************************************)
ServiceFairness ==
    /\ \A r \in Rooms : WF_serviceVars(ActorStep(r) /\ UNCHANGED task)
    /\ \A t \in Tasks : WF_serviceVars(CallStep(t)) /\ SF_serviceVars(Enqueue(t))

FairServiceSpec == ServiceSpec /\ ServiceFairness

-----------------------------------------------------------------------------
(***************************************************************************)
(* Properties.  RoomActor's Spec is one of them: the service uses rooms as *)
(* the actor expects, so what is shown of the actor holds here.            *)
(***************************************************************************)

\* leave and leave_all never fail, so leave_all never stops at a room and
\* skips the others (the ? at service.rs:180): whenever the receiver or the
\* oneshot is gone the room is flagged closed.
LeaveNeverFails ==
    \A t \in Tasks : task[t].op \in {"leave", "leave_all"} => task[t].result # "err"

\* A call that will send Close to room r, or has.
CloseOnItsWay(r) ==
    \/ \E i \in DOMAIN commands[r] : commands[r][i].type = "Close"
    \/ \E t \in Tasks : /\ task[t].op = "close_all"
                        /\ \/ r \in task[t].rest
                           \/ r = task[t].room /\ task[t].pc = "send"

\* A close_all that was dropped before it was through.
CloseCancelled ==
    \E t \in Tasks : task[t].op = "close_all" /\ task[t].pc = "cancelled"

\* No room is lost with its members: one that is open and has members is in
\* the registry, where leave_all and close_all find it, or a Close is on its
\* way.  leave and create_and_join unlist rooms by id, on the strength of
\* what they saw before they took the mutex.
NoLostRoom ==
    \A r \in Rooms :
        /\ actor[r] = "running"
        /\ room[r].members # {}
        => registered(r) \/ CloseOnItsWay(r) \/ CloseCancelled

\* The call is still going to look at room r.
WillVisit(t, r) ==
    /\ task[t].op \in {"leave", "leave_all", "create"}
    /\ task[t].pc \in {"send", "reply", "unregister", "remove", "lookup"}
    /\ task[t].room = r

\* A closed room that is still listed is about to be unlisted, by the leave
\* that emptied it, unless a call about it was dropped: "the entry is removed
\* at once, not by a later request" (README.md, 314).
ClosedRoomUnlisted ==
    \A r \in Rooms : closed[r] /\ registered(r) =>
        \E t \in Tasks : \/ WillVisit(t, r)
                         \/ task[t].pc = "cancelled" /\ task[t].room = r

\* A listed room that never had a member is being created, or its creator
\* was dropped on the way: no other path leaves such a room behind, and
\* nothing but close_all ends it.
EmptyRoomHasCreator ==
    \A r \in Rooms :
        /\ actor[r] = "running"
        /\ registered(r)
        /\ ~had_members[r]
        => \E t \in Tasks : task[t].op = "create" /\ task[t].room = r

\* Every call returns, whatever the others do, unless it is dropped: no
\* oneshot and no capacity is waited for in vain.
CallsReturn ==
    \A t \in Tasks : task[t].pc # "idle" ~> task[t].pc \in {"idle", "cancelled"}

=============================================================================
