-------------------------------- MODULE Room --------------------------------
(***************************************************************************)
(* The room aggregate (crates/domain/src/room/aggregate.rs): who is in a   *)
(* room, and whether it is closed.  A room is a record, and every method   *)
(* that changes it is an operator giving its outcome and the room after    *)
(* it.  The Vec of members is a set here: try_join refuses to push a       *)
(* player that is already in it, and no code reads the order.              *)
(***************************************************************************)
EXTENDS Integers, FiniteSets

CONSTANTS Players,      \* every player id
          max_players   \* APP_MAX_PLAYERS_PER_ROOM, a u32

ASSUME MaxPlayersAssumption == max_players \in Nat

\* The states a room has in this program.  InProgress and Settling exist in
\* the aggregate but no code outside its own tests calls transition_to.
RoomState == {"Waiting", "Closed"}

RoomType == [members: SUBSET Players, state: RoomState]

\* Room::open: at least one player fits, whatever the configuration says.
capacity == IF max_players < 1 THEN 1 ELSE max_players

open == [members |-> {}, state |-> "Waiting"]

member_count(rm) == Cardinality(rm.members)

is_full(rm) == member_count(rm) >= capacity

is_closed(rm) == rm.state = "Closed"

\* Mutant of try_join: the player is added but Ok(false) is returned.
try_joinNeverNew(rm, p) ==
    [outcome |-> IF is_closed(rm) THEN "RoomClosed" ELSE "already",
     room |-> [members |-> IF is_closed(rm) THEN rm.members ELSE rm.members \cup {p},
               state |-> rm.state]]

\* Outcomes: "new" is Ok(true), "already" is Ok(false), the others are errors.
try_join(rm, p) ==
    IF is_closed(rm) THEN [outcome |-> "RoomClosed", room |-> rm]
    ELSE IF p \in rm.members THEN [outcome |-> "already", room |-> rm]
    ELSE IF is_full(rm) THEN [outcome |-> "RoomFull", room |-> rm]
    ELSE [outcome |-> "new",
          room |-> [members |-> rm.members \cup {p}, state |-> rm.state]]

\* Mutant of try_leave: the member stays.
try_leaveKeeps(rm, p) ==
    [outcome |-> IF is_closed(rm) THEN "RoomClosed"
                 ELSE IF p \in rm.members THEN "left" ELSE "absent",
     room |-> rm]

\* Outcomes: "left" is Ok(true), "absent" is Ok(false).
try_leave(rm, p) ==
    IF is_closed(rm) THEN [outcome |-> "RoomClosed", room |-> rm]
    ELSE [outcome |-> IF p \in rm.members THEN "left" ELSE "absent",
          room |-> [members |-> rm.members \ {p}, state |-> rm.state]]

\* The room after close(); close() returns true exactly when it was open.
close(rm) == [members |-> rm.members, state |-> "Closed"]
=============================================================================
