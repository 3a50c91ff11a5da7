---------------------------- MODULE MCRoomActor ----------------------------
(***************************************************************************)
(* A small instance of RoomActor: two players that may share a room of two *)
(* and two tasks that send commands.                                       *)
(***************************************************************************)
EXTENDS RoomActor, TLC

CONSTANTS p1, p2, c1, c3, t1, t2

MCPlayers == {p1, p2}
OnePerPlayer == {c1, c3}
MCPlayerOf == [c \in Conns |-> IF c = c3 THEN p2 ELSE p1]
MCTasks == {t1, t2}

\* Tasks are interchangeable.
TaskSymmetry == Permutations(MCTasks)

(***************************************************************************)
(* Who holds a handle matters only as far as somebody does, and an answer  *)
(* only until it is read: Touch leads from any set of holders to any other *)
(* that is not empty, and from any answer to "none".  No guard tells the   *)
(* states apart that this view identifies, except for the handle Send may  *)
(* drop, which Touch can drop right after.  The last component is always   *)
(* true: it has TLC evaluate the variables before workers share the state. *)
(***************************************************************************)
MCView ==
    <<room, members, had_members, actor, closed, commands, sink,
      [r \in Rooms |-> holders[r] = {}],
      [t \in Tasks |->
         IF reply[t] \in {"joined", "left", "absent", "RoomFull", "dropped"}
         THEN "none" ELSE reply[t]],
      holders = holders /\ reply = reply>>
=============================================================================
