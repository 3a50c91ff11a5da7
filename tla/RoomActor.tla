------------------------------ MODULE RoomActor ------------------------------
(***************************************************************************)
(* Room actors (crates/application/src/room/actor.rs) and the event sinks  *)
(* they broadcast to (sink.rs).                                            *)
(*                                                                         *)
(* A room is owned by one task that takes commands from a bounded queue    *)
(* one at a time.  Everything else here is the environment: tasks that     *)
(* hold a handle of the room enqueue commands and wait for a reply on a    *)
(* oneshot channel, or are dropped while they wait; connections drain      *)
(* their event queue or go away.  The environment is as free as the types  *)
(* of the channels allow, so what holds here holds for every user of a     *)
(* room; module RoomService restricts it to the one the program has.       *)
(***************************************************************************)
EXTENDS Room, Sequences

CONSTANTS Rooms,            \* every room id
          Conns,            \* connections, each with one event sink
          Tasks,            \* tasks that call rooms; one oneshot each
          PlayerOf,         \* the player a connection is bound to
          CommandCapacity,  \* capacity of a room's command queue
          EventCapacity,    \* capacity of a connection's event queue
          Registry,         \* RoomService's registry, as a holder of handles
          None              \* "no connection", "no task", "no player"

ASSUME RoomActorAssumptions ==
    /\ PlayerOf \in [Conns -> Players]
    /\ CommandCapacity \in Nat \ {0}
    /\ EventCapacity \in Nat \ {0}
    /\ None \notin Conns \cup Tasks \cup Players
    /\ Registry \notin Tasks

VARIABLES
    room,         \* RoomActor.room: the aggregate
    members,      \* RoomActor.members: the sink registered for each player
    had_members,  \* RoomActor.had_members
    actor,        \* where the task of the room is in RoomActor::run
    closed,       \* the watch flag behind RoomHandle::is_closed
    commands,     \* the command queue
    holders,      \* who holds a clone of the room's handle
    reply,        \* the oneshot of each task
    sink          \* the event sink of each connection

actorVars == <<room, members, had_members, actor, closed, commands, holders,
               reply, sink>>

-----------------------------------------------------------------------------
(***************************************************************************)
(* Values.                                                                 *)
(***************************************************************************)

\* "unborn": not spawned.  "running": in the recv loop.  "breaking": handle
\* returned true, run has not called finish yet.  "stopped": the task ended
\* and its receiver is dropped.
ActorState == {"unborn", "running", "breaking", "stopped"}

\* What a task finds in its oneshot.  "waiting": no answer yet.  "dropped":
\* the sender is gone.  "abandoned": the task itself was dropped.
Reply == {"none", "waiting", "joined", "RoomFull", "RoomClosed", "left",
          "absent", "dropped", "abandoned"}

Join(c, t) == [type |-> "Join", player |-> PlayerOf[c], sink |-> c, reply |-> t]
Leave(p, t) == [type |-> "Leave", player |-> p, sink |-> None, reply |-> t]
\* "Unfit" is a chat whose trimmed text is empty or over MAX_CHAT_CHARS.
Chat(p) == [type |-> "Chat", player |-> p, sink |-> None, reply |-> None]
UnfitChat(p) == [type |-> "Unfit", player |-> p, sink |-> None, reply |-> None]
Close == [type |-> "Close", player |-> None, sink |-> None, reply |-> None]

RoomCommand ==
         {Join(c, t) : c \in Conns, t \in Tasks}
    \cup {Leave(p, t) : p \in Players, t \in Tasks}
    \cup {Chat(p) : p \in Players}
    \cup {UnfitChat(p) : p \in Players}
    \cup {Close}

\* Who may hold a clone of a handle: tasks, and the registry of RoomService.
Holder == Tasks \cup {Registry}

(***************************************************************************)
(* A sink is a bounded queue with a sticky failure flag.  Of the queued    *)
(* events only their number is kept.  What they say is kept in view, an    *)
(* auxiliary field the code does not have: what a client that applies the  *)
(* events accepted for it knows of each room.  A view starts with the      *)
(* client's own MemberJoined; phase "bad" is an event that makes no sense  *)
(* to the client (before it joined, after it left, or after Closed).       *)
(***************************************************************************)
View == [phase: {"none", "in", "out", "over", "bad"}, roster: SUBSET Players]
Sink == [queued: 0..EventCapacity, rx: BOOLEAN, failed: BOOLEAN,
         view: [Rooms -> View]]

view(phase, roster) == [phase |-> phase, roster |-> roster]

\* The view v of player self after event e about player p.  now is the roster
\* of the room when the event is broadcast, which a client learns on joining.
observe(v, self, e, p, now) ==
    CASE e = "MemberJoined" /\ p = self /\ v.phase \in {"none", "out"} ->
            view("in", now)
      [] e = "MemberJoined" /\ p # self /\ v.phase = "in" ->
            view("in", v.roster \cup {p})
      [] e = "MemberLeft" /\ p = self /\ v.phase = "in" -> view("out", {})
      [] e = "MemberLeft" /\ p # self /\ v.phase = "in" ->
            view("in", v.roster \ {p})
      [] e = "Chat" /\ v.phase = "in" /\ p \in v.roster -> v
      [] e = "Closed" /\ v.phase \in {"in", "out"} -> view("over", {})
      [] OTHER -> view("bad", {})

NoView == [r \in Rooms |-> view("none", {})]

\* RoomEventSink::try_send: a full queue or a dropped receiver loses the
\* event and sets the flag, for good.  Later events may still get through,
\* but to a client that can no longer make sense of them.
try_send(s, r, self, e, p, now) ==
    LET fits == s.rx /\ s.queued < EventCapacity
        failed == s.failed \/ ~fits
    IN  [queued |-> IF fits THEN s.queued + 1 ELSE s.queued,
         rx |-> s.rx,
         failed |-> failed,
         view |-> IF failed THEN NoView
                  ELSE [s.view EXCEPT ![r] = observe(@, self, e, p, now)]]

\* RoomActor::broadcast: the sinks sk after event e of room r about player p,
\* for the members ms, when the roster is now.
broadcast(sk, r, ms, e, p, now) ==
    [c \in Conns |->
        IF ms[PlayerOf[c]] = c
        THEN try_send(sk[c], r, PlayerOf[c], e, p, now)
        ELSE sk[c]]

\* Mutant of finish: Closed is broadcast by every call.
finishAgain(sk, r, ms, rm) == broadcast(sk, r, ms, "Closed", None, {})

\* RoomActor::finish: Closed is broadcast only by the call that closes.
finish(sk, r, ms, rm) ==
    IF is_closed(rm) THEN sk ELSE broadcast(sk, r, ms, "Closed", None, {})

NoMembers == [p \in Players |-> None]

\* Mutant of Answer: a refusal is not sent.
AnswerSuccess(rp, t, v) ==
    [rp EXCEPT ![t] = IF @ = "waiting" /\ v \in {"joined", "left"} THEN v ELSE @]

\* oneshot::Sender::send; an abandoned receiver ignores it.
Answer(rp, t, v) == [rp EXCEPT ![t] = IF @ = "waiting" THEN v ELSE @]

-----------------------------------------------------------------------------
(***************************************************************************)
(* The task of a room.                                                     *)
(***************************************************************************)

\* Mutants of Emptied: a room that was always empty counts; no room does.
EmptiedEarly(had, rm) == member_count(rm) = 0
EmptiedNever(had, rm) == FALSE

\* What RoomActor::handle returns after any command but Close.
Emptied(had, rm) == had /\ member_count(rm) = 0

\* The loop goes on or breaks.
Continue(r, stop) ==
    actor' = [actor EXCEPT ![r] = IF stop THEN "breaking" ELSE "running"]

\* RoomActor::handle_join.  A repeated join succeeds, keeps the sink of the
\* first and broadcasts nothing.
handle_join(r, cmd) ==
    LET j == try_join(room[r], cmd.player)
        isNew == j.outcome = "new"
        ms == IF isNew THEN [members[r] EXCEPT ![cmd.player] = cmd.sink]
                       ELSE members[r]
        had == had_members[r] \/ isNew
        answer == IF j.outcome \in {"new", "already"} THEN "joined"
                                                      ELSE j.outcome
    IN  /\ cmd.type = "Join"
        /\ room' = [room EXCEPT ![r] = j.room]
        /\ members' = [members EXCEPT ![r] = ms]
        /\ had_members' = [had_members EXCEPT ![r] = had]
        /\ reply' = Answer(reply, cmd.reply, answer)
        /\ sink' = IF isNew
                   THEN broadcast(sink, r, ms, "MemberJoined", cmd.player,
                                  j.room.members)
                   ELSE sink
        /\ Continue(r, Emptied(had, j.room))
        /\ UNCHANGED closed

\* RoomActor::handle_chat: ignored from a stranger and when the text is unfit.
handle_chat(r, cmd) ==
    /\ cmd.type \in {"Chat", "Unfit"}
    /\ sink' = IF members[r][cmd.player] # None /\ cmd.type = "Chat"
               THEN broadcast(sink, r, members[r], "Chat", cmd.player,
                              room[r].members)
               ELSE sink
    /\ Continue(r, Emptied(had_members[r], room[r]))
    /\ UNCHANGED <<room, members, had_members, closed, reply>>

\* RoomActor::handle_leave and the reply.  The leaver is still registered
\* when MemberLeft, and Closed if the room is now empty, are broadcast; the
\* closed flag is up before the leaver gets its reply.
handle_leave(r, cmd) ==
    LET l == try_leave(room[r], cmd.player)
        isLeft == l.outcome = "left"
        last == isLeft /\ Emptied(had_members[r], l.room)
        rm == IF last THEN close(l.room) ELSE l.room
        told == broadcast(sink, r, members[r], "MemberLeft", cmd.player,
                          l.room.members)
    IN  /\ cmd.type = "Leave"
        /\ room' = [room EXCEPT ![r] = rm]
        /\ sink' = IF last THEN finish(told, r, members[r], l.room)
                   ELSE IF isLeft THEN told ELSE sink
        /\ closed' = [closed EXCEPT ![r] = @ \/ last]
        /\ members' = [members EXCEPT ![r] =
                          IF isLeft THEN [@ EXCEPT ![cmd.player] = None] ELSE @]
        /\ reply' = Answer(reply, cmd.reply, l.outcome)
        /\ Continue(r, Emptied(had_members[r], rm))
        /\ UNCHANGED had_members

\* RoomCommand::Close: everyone still registered is told.
handle_close(r, cmd) ==
    /\ cmd.type = "Close"
    /\ room' = [room EXCEPT ![r] = close(@)]
    /\ sink' = finish(sink, r, members[r], room[r])
    /\ closed' = [closed EXCEPT ![r] = TRUE]
    /\ Continue(r, TRUE)
    /\ UNCHANGED <<members, had_members, reply>>

\* One turn of the loop of RoomActor::run: recv, then handle.
Handle(r) ==
    /\ actor[r] = "running"
    /\ commands[r] # <<>>
    /\ commands' = [commands EXCEPT ![r] = Tail(@)]
    /\ LET cmd == Head(commands[r])
       IN  \/ handle_join(r, cmd)
           \/ handle_chat(r, cmd)
           \/ handle_leave(r, cmd)
           \/ handle_close(r, cmd)
    /\ UNCHANGED holders

\* The end of RoomActor::run: finish, then the task ends, its receiver goes
\* with the commands still queued, and whoever waits for one finds the
\* oneshot's sender dropped.
Stop(r) ==
    LET orphaned == {commands[r][i].reply : i \in DOMAIN commands[r]}
    IN  /\ room' = [room EXCEPT ![r] = close(@)]
        /\ sink' = finish(sink, r, members[r], room[r])
        /\ closed' = [closed EXCEPT ![r] = TRUE]
        /\ actor' = [actor EXCEPT ![r] = "stopped"]
        /\ members' = [members EXCEPT ![r] = NoMembers]
        /\ commands' = [commands EXCEPT ![r] = <<>>]
        /\ reply' = [t \in Tasks |->
                        IF t \in orphaned /\ reply[t] = "waiting"
                        THEN "dropped" ELSE reply[t]]
        /\ UNCHANGED <<had_members, holders>>

\* run leaves the loop because handle returned true ...
Break(r) == actor[r] = "breaking" /\ Stop(r)

\* ... or because recv returned None: no command and nobody to send one.
Disconnect(r) ==
    /\ actor[r] = "running"
    /\ commands[r] = <<>>
    /\ holders[r] = {}
    /\ Stop(r)

\* Mutants of ActorStep: the loop is not left when the room is over, or when
\* all handles are dropped.
ActorStepStuck(r) == Handle(r) \/ Disconnect(r)
ActorStepImmortal(r) == Handle(r) \/ Break(r)

ActorStep(r) == Handle(r) \/ Break(r) \/ Disconnect(r)

-----------------------------------------------------------------------------
(***************************************************************************)
(* The environment: tasks with handles, and connections with sinks.        *)
(***************************************************************************)

\* RoomActor::spawn gives the first handle to its caller.
Spawn(r, t) ==
    /\ actor[r] = "unborn"
    /\ actor' = [actor EXCEPT ![r] = "running"]
    /\ holders' = [holders EXCEPT ![r] = {t}]
    /\ UNCHANGED <<room, members, had_members, closed, commands, reply, sink>>

\* The queue takes a command: its receiver is alive and it has room.
CanSend(r) ==
    /\ actor[r] \in {"running", "breaking"}
    /\ Len(commands[r]) < CommandCapacity

\* A handle can only be cloned from one that exists.
Clonable(before, after) ==
    \A r \in Rooms : before[r] = {} => after[r] = {}

\* RoomHandle::send or try_send succeeds; a command with a oneshot makes the
\* sender wait for it.  The handle may be dropped right after.
Send(r, t, cmd, keep) ==
    /\ holders[r] # {}
    /\ CanSend(r)
    /\ cmd.reply \in {t, None}
    /\ cmd.reply = t => reply[t] \notin {"waiting", "abandoned"}
    /\ commands' = [commands EXCEPT ![r] = Append(@, cmd)]
    /\ reply' = IF cmd.reply = t THEN [reply EXCEPT ![t] = "waiting"] ELSE reply
    /\ holders' = IF keep THEN holders ELSE [holders EXCEPT ![r] = @ \ {t}]
    /\ UNCHANGED <<room, members, had_members, actor, closed, sink>>

\* Handles are cloned and dropped, by tasks and by the registry, and a task
\* takes the answer out of its oneshot or is dropped while it waits.
Touch(t) ==
    /\ holders' \in [Rooms -> SUBSET Holder]
    /\ Clonable(holders, holders')
    /\ \/ UNCHANGED reply
       \/ reply[t] \notin {"waiting", "abandoned"}
          /\ reply' = [reply EXCEPT ![t] = "none"]
       \/ reply[t] = "waiting" /\ reply' = [reply EXCEPT ![t] = "abandoned"]
    /\ UNCHANGED <<room, members, had_members, actor, closed, commands, sink>>

\* Sink s with n events queued, and its receiver alive or not.
Queued(s, n, rx) ==
    [queued |-> n, rx |-> rx, failed |-> s.failed, view |-> s.view]

\* The translator task of a connection takes an event ...
Receive(c) ==
    /\ sink[c].queued > 0
    /\ sink' = [sink EXCEPT ![c] = Queued(@, @.queued - 1, @.rx)]
    /\ UNCHANGED <<room, members, had_members, actor, closed, commands,
                   holders, reply>>

\* ... or ends, and the receiver goes with the events still queued.
DropReceiver(c) ==
    /\ sink[c].rx
    /\ sink' = [sink EXCEPT ![c] = Queued(@, 0, FALSE)]
    /\ UNCHANGED <<room, members, had_members, actor, closed, commands,
                   holders, reply>>

-----------------------------------------------------------------------------
Init ==
    /\ room = [r \in Rooms |-> open]
    /\ members = [r \in Rooms |-> NoMembers]
    /\ had_members = [r \in Rooms |-> FALSE]
    /\ actor = [r \in Rooms |-> "unborn"]
    /\ closed = [r \in Rooms |-> FALSE]
    /\ commands = [r \in Rooms |-> <<>>]
    /\ holders = [r \in Rooms |-> {}]
    /\ reply = [t \in Tasks |-> "none"]
    /\ sink = [c \in Conns |->
                 [queued |-> 0, rx |-> TRUE, failed |-> FALSE, view |-> NoView]]

Next ==
    \/ \E r \in Rooms : ActorStep(r)
    \/ \E r \in Rooms, t \in Tasks : Spawn(r, t)
    \/ \E r \in Rooms, t \in Tasks, cmd \in RoomCommand, keep \in BOOLEAN :
          Send(r, t, cmd, keep)
    \/ \E t \in Tasks : Touch(t)
    \/ \E c \in Conns : Receive(c) \/ DropReceiver(c)

Spec == Init /\ [][Next]_actorVars

-----------------------------------------------------------------------------
(***************************************************************************)
(* Properties.                                                             *)
(***************************************************************************)

TypeOK ==
    /\ room \in [Rooms -> RoomType]
    /\ members \in [Rooms -> [Players -> Conns \cup {None}]]
    /\ had_members \in [Rooms -> BOOLEAN]
    /\ actor \in [Rooms -> ActorState]
    /\ closed \in [Rooms -> BOOLEAN]
    /\ commands \in [Rooms -> Seq(RoomCommand)]
    /\ holders \in [Rooms -> SUBSET Holder]
    /\ reply \in [Tasks -> Reply]
    /\ sink \in [Conns -> Sink]

\* The two books of a room agree: the aggregate counts as members exactly the
\* players with a registered sink, each sink belongs to its player, and the
\* room is never over capacity (handle_join and handle_leave change the
\* aggregate and the map one after the other, on different branches).
MembersAgree ==
    \A r \in Rooms :
        /\ actor[r] # "stopped" =>
              \A p \in Players : p \in room[r].members <=> members[r][p] # None
        /\ \A p \in Players : members[r][p] # None => PlayerOf[members[r][p]] = p
        /\ member_count(room[r]) <= capacity

\* A task that is about to take a command has an open room, not yet flagged
\* closed, and once somebody has joined it somebody is in it: every command
\* that empties or closes a room also ends the loop.  So RoomClosed is an
\* answer the actor never gives.
OpenWhileRunning ==
    \A r \in Rooms : actor[r] = "running" =>
        /\ ~is_closed(room[r])
        /\ ~closed[r]
        /\ had_members[r] <=> room[r].members # {}

\* Whoever finds the receiver gone, or its oneshot dropped, finds the closed
\* flag up: leave (service.rs:149 and 157) tells a finished room from a
\* failed one by that flag, and an error there would stop leave_all.
FlagBeforeDrop ==
    /\ \A r \in Rooms : actor[r] \in {"breaking", "stopped"} => closed[r]
    /\ \A t \in Tasks : reply[t] # "RoomClosed"

\* Nobody waits for a oneshot whose sender is gone without knowing it: the
\* command that carries it is still in the queue of a room that will take
\* it or drop it (the oneshots are awaited with no timeout in service.rs).
NoLostReply ==
    \A t \in Tasks : reply[t] = "waiting" =>
        \E r \in Rooms : \E i \in DOMAIN commands[r] : commands[r][i].reply = t

\* A client whose sink has not failed can rely on its events alone.  It has
\* seen its own MemberJoined exactly while it is registered in an open room,
\* its roster is then the room's, and it never got an event it cannot place,
\* such as a second Closed: finish runs twice in every closing room.
RosterExact ==
    \A c \in Conns, r \in Rooms : ~sink[c].failed =>
        LET v == sink[c].view[r]
        IN  /\ v.phase # "bad"
            /\ v.phase = "in" <=> members[r][PlayerOf[c]] = c /\ ~closed[r]
            /\ v.phase = "in" => v.roster = room[r].members

\* The life of a room: the flag is up exactly when the aggregate is closed, no
\* command outlives the task, an unborn room is blank and a stopped one has
\* let go of its members, and nobody was told Closed before it was.  With the
\* invariants above this is inductive.
Lifecycle ==
    \A r \in Rooms :
        /\ IsFiniteSet(room[r].members)
        /\ closed[r] <=> is_closed(room[r])
        /\ actor[r] \in {"unborn", "stopped"} =>
              commands[r] = <<>> /\ members[r] = NoMembers
        /\ actor[r] = "unborn" => room[r] = open /\ ~had_members[r]
        /\ \A c \in Conns : ~sink[c].failed /\ sink[c].view[r].phase = "over"
                                => closed[r]

\* The inductive invariant.
IInv ==
    /\ TypeOK
    /\ MembersAgree
    /\ OpenWhileRunning
    /\ FlagBeforeDrop
    /\ NoLostReply
    /\ RosterExact
    /\ Lifecycle

\* A room that nobody can send to any more ends (recv returns None), even
\* one that never had a member and that only its creator knew.
UnheldRoomEnds ==
    \A r \in Rooms :
        actor[r] # "unborn" /\ holders[r] = {} ~> actor[r] = "stopped"
=============================================================================
