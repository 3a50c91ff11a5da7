------------------------------- MODULE Gateway -------------------------------
(***************************************************************************)
(* The life of TCP connections (crates/gateway/src/tcp: handler.rs,        *)
(* handlers.rs, lifecycle.rs, context.rs, connections.rs) and of the       *)
(* process that serves them (server-bin/src/bootstrap.rs), composed with   *)
(* the rooms of module RoomService.                                        *)
(*                                                                         *)
(* A connection has one task: a loop that reads a frame and runs its       *)
(* handler, then a cleanup.  What it calls of RoomService runs in that     *)
(* task, but a dropped call leaves a oneshot behind, so the calls of a     *)
(* connection have a slot each for its handlers, its cleanup, and the      *)
(* cleanup that the guard spawns when the task is aborted.                 *)
(*                                                                         *)
(* Sessions are checked before every request and every event; the check    *)
(* may fail or time out at any time, which here is one of the reasons for  *)
(* which the loop may return, or the translator end, at any time.          *)
(***************************************************************************)
EXTENDS RoomService

CONSTANTS Teardown,   \* the task of graceful_teardown
          MaxFrames,  \* bound: how many frames a connection reads
          MaxSignals  \* bound: whether a stop signal comes, 0 or 1

Slot == {"handler", "cleanup", "guard"}

ASSUME GatewayAssumptions ==
    /\ Tasks = (Conns \X Slot) \cup {Teardown}
    /\ Teardown \notin Conns \X Slot
    /\ MaxFrames \in Nat
    /\ MaxSignals \in {0, 1}

VARIABLES conn,      \* each connection
          shutdown,  \* the watch flag of the stop signal
          teardown   \* where graceful_teardown is

gatewayVars == <<serviceVars, conn, shutdown, teardown>>

\* "handshake": admitted, TLS under way.  "open": the loop waits for a frame.
\* "checking": a frame was read, its session is being checked.  "busy": its
\* handler waits for a call of RoomService.  "cleanup": the loop is over.
\* "leaving": cleanup waits for leave_all.  "draining": waits for translator
\* and writer.
\* "orphaned": the guard of an aborted task has spawned a cleanup, which has
\* not begun.  "reaping": that cleanup waits for leave_all.
Phase == {"new", "handshake", "open", "checking", "busy", "cleanup", "leaving",
          "draining", "orphaned", "reaping", "gone"}

\* target is the room a handler is about.  Two auxiliary fields: frames counts
\* the frames read, late says that a cleanup ran into its deadline.
Conn == [phase: Phase, authed: BOOLEAN, current_room: Rooms \cup {None},
         target: Rooms \cup {None}, frames: 0..MaxFrames, late: BOOLEAN]

NewConn == [phase |-> "new", authed |-> FALSE, current_room |-> None,
            target |-> None, frames |-> 0, late |-> FALSE]

handler(c) == <<c, "handler">>
cleanup(c) == <<c, "cleanup">>
guard(c) == <<c, "guard">>

InFlight(t) == task[t].pc \notin {"idle", "cancelled"}

\* ConnectionRegistry: from split_connection to the drop of the guard.
active == {c \in Conns : conn[c].phase \notin {"new", "handshake", "gone"}}

Become(c, phase) == conn' = [conn EXCEPT ![c].phase = phase]
Outside == UNCHANGED <<shutdown, teardown>>

-----------------------------------------------------------------------------
(***************************************************************************)
(* The loop and the handlers.                                              *)
(***************************************************************************)

\* TcpGateway::run: admitted before the signal is seen, ...
Accept(c) ==
    /\ conn[c].phase = "new"
    /\ ~shutdown
    /\ Become(c, "handshake")
    /\ UNCHANGED serviceVars /\ Outside

\* ... and past the handshake even after it: the select there is not biased.
Register(c) ==
    /\ conn[c].phase = "handshake"
    /\ Become(c, "open")
    /\ UNCHANGED serviceVars /\ Outside

HandshakeEnds(c) ==
    /\ conn[c].phase = "handshake"
    /\ Become(c, "gone")
    /\ UNCHANGED serviceVars /\ Outside

\* The biased select of run_read_loop takes a frame: nothing above it is
\* ready.  The frame is admitted, and its session checked.
ReadFrame(c) ==
    /\ conn[c].phase = "open"
    /\ ~sink[c].failed
    /\ ~shutdown
    /\ conn[c].frames < MaxFrames
    /\ conn' = [conn EXCEPT ![c].phase = "checking", ![c].frames = @ + 1]
    /\ UNCHANGED serviceVars /\ Outside

handle_bind(c) ==
    /\ conn[c].phase = "checking"
    /\ ~conn[c].authed
    /\ conn' = [conn EXCEPT ![c].authed = TRUE, ![c].phase = "open"]
    /\ UNCHANGED serviceVars /\ Outside

\* A frame that is answered without touching a room: a heartbeat, a profile,
\* a rejected bind, a join from inside a room, a chat from outside, an unfit
\* chat.
Answered(c) ==
    /\ conn[c].phase = "checking"
    /\ Become(c, "open")
    /\ UNCHANGED serviceVars /\ Outside

\* The handler of an authenticated frame starts a call about room r.
Request(c, r) ==
    /\ conn[c].phase = "checking"
    /\ conn[c].authed
    /\ conn' = [conn EXCEPT ![c].phase = "busy", ![c].target = r]
    /\ Outside

handle_join_room(c, r) ==
    /\ Request(c, r)
    /\ conn[c].current_room = None
    /\ join(handler(c), c, r) \/ create_and_join(handler(c), c, r)

handle_leave_room(c, r) == Request(c, r) /\ leave(handler(c), c, r)

handle_leave_all(c) == Request(c, None) /\ leave_all(handler(c), c)

handle_room_chat(c, r) ==
    /\ Request(c, r)
    /\ conn[c].current_room = r
    /\ chat(handler(c), c, r)

\* Mutant of HandlerReturns: any leave clears current_room.
HandlerReturnsForgetful(c) ==
    LET k == task[handler(c)]
    IN  /\ conn[c].phase = "busy"
        /\ k.pc = "idle"
        /\ conn' = [conn EXCEPT
              ![c].phase = "open",
              ![c].target = None,
              ![c].current_room =
                  IF k.result = "ok" /\ k.op \in {"join", "create"}
                  THEN conn[c].target
                  ELSE IF k.op \in {"leave", "leave_all"} THEN None ELSE @]
        /\ UNCHANGED serviceVars /\ Outside

\* The rest of a handler after its call has returned, up to the next frame.
HandlerReturns(c) ==
    LET k == task[handler(c)]
        current == conn[c].current_room
        left == \/ k.op = "leave_all"
                \/ k.op = "leave" /\ conn[c].target = current
    IN  /\ conn[c].phase = "busy"
        /\ k.pc = "idle"
        /\ conn' = [conn EXCEPT
              ![c].phase = "open",
              ![c].target = None,
              ![c].current_room =
                  IF k.result = "err" THEN current
                  ELSE IF k.op \in {"join", "create"} THEN conn[c].target
                  ELSE IF left THEN None ELSE current]
        /\ UNCHANGED serviceVars /\ Outside

\* Mutants of LoopReturns: it does not watch the sink, or the stop signal.
LoopReturnsDeaf(c) ==
    /\ conn[c].phase \in {"open", "checking"}
    /\ ~sink[c].failed
    /\ Become(c, "cleanup")
    /\ UNCHANGED serviceVars /\ Outside
LoopReturnsUnstopped(c) ==
    /\ conn[c].phase \in {"open", "checking"}
    /\ ~shutdown
    /\ Become(c, "cleanup")
    /\ UNCHANGED serviceVars /\ Outside

\* The peer closes, a deadline passes, a signal is seen, a frame is refused or
\* its session no longer valid: run_read_loop returns.
LoopReturns(c) ==
    /\ conn[c].phase \in {"open", "checking"}
    /\ Become(c, "cleanup")
    /\ UNCHANGED serviceVars /\ Outside

\* The translator ends with an event it cannot deliver (the session is not
\* valid, the outbound queue is full), or because it was aborted.
TranslatorEnds(c) ==
    /\ \/ c \in active /\ sink[c].queued > 0
       \/ conn[c].phase \in {"draining", "orphaned", "reaping", "gone"}
    /\ DropReceiver(c)
    /\ UNCHANGED <<task, conn>> /\ Outside

\* select drops the loop, with the handler that may be running in it.
TranslatorFirst(c) ==
    /\ conn[c].phase \in {"open", "checking", "busy"}
    /\ ~sink[c].rx
    /\ Become(c, "cleanup")
    /\ IF InFlight(handler(c)) THEN Cancel(handler(c)) ELSE UNCHANGED serviceVars
    /\ Outside

-----------------------------------------------------------------------------
(***************************************************************************)
(* Cleanup.                                                                *)
(***************************************************************************)

\* Mutant of CleanupStarts: a player leaves only when current_room is set.
CleanupStartsByRoom(c) ==
    /\ conn[c].phase = "cleanup"
    /\ IF conn[c].current_room # None
       THEN Become(c, "leaving") /\ leave_all(cleanup(c), c)
       ELSE Become(c, "draining") /\ UNCHANGED serviceVars
    /\ Outside

\* ConnectionGuard::cleanup: an authenticated player leaves every room.
CleanupStarts(c) ==
    /\ conn[c].phase = "cleanup"
    /\ IF conn[c].authed
       THEN Become(c, "leaving") /\ leave_all(cleanup(c), c)
       ELSE Become(c, "draining") /\ UNCHANGED serviceVars
    /\ Outside

CleanupReturns(c) ==
    /\ conn[c].phase = "leaving"
    /\ task[cleanup(c)].pc = "idle"
    /\ Become(c, "draining")
    /\ UNCHANGED serviceVars /\ Outside

\* The deadline of cleanup_room drops leave_all where it is.
CleanupTimesOut(c) ==
    /\ conn[c].phase = "leaving"
    /\ Cancel(cleanup(c))
    /\ conn' = [conn EXCEPT ![c].phase = "draining", ![c].late = TRUE]
    /\ Outside

\* The translator was aborted and the writer is done: the guard is dropped.
Drained(c) ==
    /\ conn[c].phase = "draining"
    /\ ~sink[c].rx
    /\ Become(c, "gone")
    /\ UNCHANGED serviceVars /\ Outside

\* After the deadline of the accept loop the task is aborted, wherever it is.
\* Drop of its guard: unless it was cleaned, a cleanup is spawned.
Abort(c) ==
    LET ph == conn[c].phase
        dropped == {t \in {handler(c), cleanup(c)} : InFlight(t)}
    IN  /\ shutdown
        /\ ph \notin {"new", "orphaned", "reaping", "gone"}
        /\ Become(c, IF ph # "draining" /\ conn[c].authed
                     THEN "orphaned" ELSE "gone")
        /\ IF dropped = {} THEN UNCHANGED serviceVars
                           ELSE \E t \in dropped : Cancel(t)
        /\ Outside

ReaperStarts(c) ==
    /\ conn[c].phase = "orphaned"
    /\ Become(c, "reaping")
    /\ leave_all(guard(c), c)
    /\ Outside

ReaperReturns(c) ==
    /\ conn[c].phase = "reaping"
    /\ task[guard(c)].pc = "idle"
    /\ Become(c, "gone")
    /\ UNCHANGED serviceVars /\ Outside

ReaperTimesOut(c) ==
    /\ conn[c].phase = "reaping"
    /\ Cancel(guard(c))
    /\ conn' = [conn EXCEPT ![c].phase = "gone", ![c].late = TRUE]
    /\ Outside

-----------------------------------------------------------------------------
(***************************************************************************)
(* The stop signal and graceful_teardown.                                  *)
(***************************************************************************)
Signal ==
    /\ ~shutdown
    /\ MaxSignals = 1
    /\ shutdown' = TRUE
    /\ close_all(Teardown)
    /\ teardown' = "closing"
    /\ UNCHANGED conn

RoomsClosed ==
    /\ teardown = "closing"
    /\ task[Teardown].pc = "idle"
    /\ teardown' = "waiting"
    /\ UNCHANGED <<serviceVars, conn, shutdown>>

\* wait_until_drained sees an empty ConnectionRegistry, ...
AllDrained ==
    /\ teardown = "waiting"
    /\ active = {}
    /\ teardown' = "drained"
    /\ UNCHANGED <<serviceVars, conn, shutdown>>

\* ... or gives up.
DrainTimesOut ==
    /\ teardown = "waiting"
    /\ teardown' = "expired"
    /\ UNCHANGED <<serviceVars, conn, shutdown>>

-----------------------------------------------------------------------------
GatewayInit ==
    /\ ServiceInit
    /\ conn = [c \in Conns |-> NewConn]
    /\ shutdown = FALSE
    /\ teardown = "idle"

\* Steps of a connection that its own tasks take without waiting for a peer.
Advance(c) ==
    \/ HandlerReturns(c) \/ TranslatorFirst(c)
    \/ CleanupStarts(c) \/ CleanupReturns(c) \/ Drained(c)
    \/ ReaperStarts(c) \/ ReaperReturns(c)

\* Steps that a peer, the session store, a clock or the signal brings about.
Prompted(c) ==
    \/ Accept(c) \/ Register(c) \/ HandshakeEnds(c)
    \/ ReadFrame(c) \/ handle_bind(c) \/ Answered(c)
    \/ \E r \in Rooms : \/ handle_join_room(c, r) \/ handle_leave_room(c, r)
                        \/ handle_room_chat(c, r)
    \/ handle_leave_all(c)
    \/ LoopReturns(c) \/ TranslatorEnds(c)
    \/ CleanupTimesOut(c) \/ Abort(c) \/ ReaperTimesOut(c)

\* Rooms, translators and calls go on as in RoomService.
Beside == UNCHANGED <<conn, shutdown, teardown>>

RoomStep(r) == ActorStep(r) /\ UNCHANGED task /\ Beside
Translate(c) == sink[c].rx /\ Receive(c) /\ UNCHANGED task /\ Beside
TaskStep(t) == CallStep(t) /\ Beside

GatewayNext ==
    \/ \E r \in Rooms : RoomStep(r)
    \/ \E t \in Tasks : TaskStep(t)
    \/ \E c \in Conns : Translate(c) \/ Advance(c) \/ Prompted(c)
    \/ Signal \/ RoomsClosed \/ AllDrained \/ DrainTimesOut

GatewaySpec == GatewayInit /\ [][GatewayNext]_gatewayVars

(***************************************************************************)
(* What the scheduler owes: tasks that can proceed are polled, and waiting *)
(* for command capacity is first come first served (as in RoomService).    *)
(* A check of a session has a timeout, so a frame that is being checked is *)
(* answered, handled or refused; the loop returns once a signal is up; an  *)
(* aborted translator ends.  Peers owe nothing, no deadline has to pass.   *)
(***************************************************************************)
CheckEnds(c) == conn[c].phase = "checking" /\ Prompted(c)

SignalSeen(c) == (shutdown \/ sink[c].failed) /\ LoopReturns(c)

GatewayFairness ==
    /\ \A r \in Rooms : WF_gatewayVars(RoomStep(r))
    /\ \A t \in Tasks : /\ WF_gatewayVars(TaskStep(t))
                        /\ SF_gatewayVars(Enqueue(t) /\ Beside)
    /\ \A c \in Conns : /\ WF_gatewayVars(Advance(c))
                        /\ WF_gatewayVars(CheckEnds(c))
                        /\ WF_gatewayVars(SignalSeen(c))
                        /\ WF_gatewayVars(shutdown /\ HandshakeEnds(c))
                        /\ WF_gatewayVars(TranslatorEnds(c)
                                             /\ conn[c].phase = "draining")
    /\ WF_gatewayVars(RoomsClosed)

FairGatewaySpec == GatewaySpec /\ GatewayFairness

-----------------------------------------------------------------------------
(***************************************************************************)
(* Properties.                                                             *)
(***************************************************************************)

\* The connection's sink is registered in room r.
Member(c, r) == actor[r] = "running" /\ members[r][PlayerOf[c]] = c

\* Between requests a connection knows where it is: it is registered in its
\* current_room unless that room is over, and in no other room unless a
\* shutdown is about to close it.  handlers.rs sets current_room after the
\* call returns, a state away from what the room did.  This is for players
\* with one connection each: of two, one may leave for the other.
CurrentRoomTrue ==
    \A c \in Conns : conn[c].phase \in {"open", "checking"} =>
        \A r \in Rooms :
            /\ conn[c].current_room = r => Member(c, r) \/ closed[r]
            /\ Member(c, r) => conn[c].current_room = r \/ CloseOnItsWay(r)

\* A connection that is gone has left nothing behind: no room has its sink or
\* a Join of it in its queue, though its handler may have been dropped while
\* a Join was in flight (lifecycle.rs:71).  Two exceptions: the cleanup ran
\* into its deadline, and a shutdown is about to close the room.
NoGhostMember ==
    \A c \in Conns, r \in Rooms :
        conn[c].phase = "gone" /\ ~conn[c].late /\ ~CloseOnItsWay(r) =>
            /\ ~Member(c, r)
            /\ actor[r] = "running" =>
                  \A i \in DOMAIN commands[r] : commands[r][i].sink # c

\* When teardown finds all connections drained no room is left open with a
\* member whose connection cleaned up in time, also when rooms were created
\* after close_all had drained the registry.
DrainedRoomsEmpty ==
    teardown = "drained" =>
        \A c \in Conns, r \in Rooms :
            Member(c, r) => conn[c].late \/ CloseOnItsWay(r)

\* A lost room event ends the session: the sink's failure signal is seen and
\* the connection goes away.
FailureDisconnects ==
    \A c \in Conns : sink[c].failed /\ c \in active ~> conn[c].phase = "gone"

\* After the stop signal every connection goes away, though no deadline has
\* to pass, and teardown comes to its end.
ShutdownEnds ==
    /\ \A c \in Conns : shutdown ~> conn[c].phase \in {"new", "gone"}
    /\ shutdown ~> teardown \notin {"idle", "closing"}

\* handlers.rs:77: the receipt of a join is its MemberJoined broadcast.
JoinIsReceipted ==
    \A c \in Conns, r \in Rooms :
        conn[c].phase = "open" /\ conn[c].current_room = r /\ ~sink[c].failed =>
            sink[c].view[r].phase # "none"

\* README.md:314: when leave returns, the member has been removed.
LeaveIsDone ==
    \A c \in Conns, r \in Rooms :
        conn[c].phase = "open" /\ conn[c].current_room = None => ~Member(c, r)
=============================================================================
