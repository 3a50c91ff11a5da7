--------------------------- MODULE MCRoomService ---------------------------
(***************************************************************************)
(* Small instances of RoomService.                                         *)
(***************************************************************************)
EXTENDS RoomService, TLC

CONSTANTS p1, p2, c1, c3, t1, t2

MCPlayers == {p1, p2}
OnePerPlayer == {c1, c3}
MCPlayerOf == [c \in Conns |-> IF c = c3 THEN p2 ELSE p1]

\* Without the sinks: rooms and calls write to them and never read them, so
\* no step depends on what this view leaves out.  The last component is always
\* true: it has TLC evaluate the sinks before workers share the state.
SinklessView ==
    <<room, members, had_members, actor, closed, commands, holders, reply,
      task, sink = sink>>

TaskSymmetry == Permutations(Tasks)
=============================================================================
