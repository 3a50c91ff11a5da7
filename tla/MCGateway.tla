----------------------------- MODULE MCGateway -----------------------------
(***************************************************************************)
(* Small instances of Gateway.                                             *)
(***************************************************************************)
EXTENDS Gateway, TLC

CONSTANTS p1, p2, c1, c2, c3

MCPlayers == {p1, p2}
MCTasks == (Conns \X Slot) \cup {Teardown}

\* c1 and c2 belong to one player, c3 to the other.
MCPlayerOf == [c \in Conns |-> IF c = c3 THEN p2 ELSE p1]

(***************************************************************************)
(* What a step can still read.  No step reads what the clients make of     *)
(* their events.  After its loop a connection no longer reads its rooms,   *)
(* its frames and the failure of its sink, once it drains it does not take *)
(* events, and of a gone one only late and its dropped calls count.        *)
(***************************************************************************)
Looping(c) == conn[c].phase \in {"new", "handshake", "open", "checking", "busy"}
Draining(c) == conn[c].phase \in {"draining", "orphaned", "reaping", "gone"}

SinkView(c) ==
    <<Looping(c) /\ sink[c].failed,
      IF Draining(c) THEN 0 ELSE sink[c].queued,
      conn[c].phase # "gone" /\ sink[c].rx>>

ConnView(c) ==
    <<conn[c].phase, conn[c].authed, conn[c].late,
      IF Looping(c) THEN <<conn[c].current_room, conn[c].target, conn[c].frames>>
                    ELSE <<>> >>

\* Of a call that is over, the result is read only by the loop.
CallView(t, read) ==
    IF InFlight(t) THEN <<task[t], reply[t]>>
    ELSE IF read /\ task[t].pc = "idle" THEN <<task[t].op, task[t].result>>
    ELSE <<task[t].pc>>

\* Always true: it has TLC evaluate what the view leaves out, before workers
\* share the state.
Evaluated == reply = reply /\ sink = sink /\ task = task /\ conn = conn

LiveView ==
    <<room, members, had_members, actor, closed, commands, holders,
      [c \in Conns |->
          <<SinkView(c), ConnView(c), CallView(handler(c), conn[c].phase = "busy"),
            CallView(cleanup(c), FALSE), CallView(guard(c), FALSE)>>],
      CallView(Teardown, FALSE), shutdown, teardown, Evaluated>>

RoomSymmetry == Permutations(Rooms)
=============================================================================
