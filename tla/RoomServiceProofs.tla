-------------------------- MODULE RoomServiceProofs --------------------------
(***************************************************************************)
(* For any number of rooms, connections and calls: RoomService uses rooms  *)
(* as RoomActor expects, so ServiceSpec implements Spec and what is proved *)
(* of rooms holds under the service; leave never fails; and the registry   *)
(* loses no room with members, unlists closed rooms and lists an empty one *)
(* only for its creator.                                                   *)
(***************************************************************************)
EXTENDS RoomActorProofs, RegistryLemmas

\* At first no call is under way.
LEMMA ServiceInitInv == ServiceInit => IInv /\ ServiceInv
<1> SUFFICES ASSUME ServiceInit PROVE ServiceInv
  BY InitInv DEF ServiceInit
<1>1. ShapeOf(NoCall) /\ NoCall.pc = "idle" /\ NoCall.rest = {}
  BY DEF ShapeOf, NoCall, call, Call, Pc, Op
<1>2. task \in [Tasks -> Call] /\ \A t \in Tasks : task[t] = NoCall /\ reply[t] = "none"
  BY <1>1, Zenon DEF ServiceInit, Init, ShapeOf
<1>3. UnbornUnheld
  BY DEF ServiceInit, Init, UnbornUnheld
<1>4. \A t \in Tasks : TaskInv(t)
  BY <1>1, <1>2 DEF TaskInv, HoldsOf, OneshotOf
<1> QED
  BY <1>2, <1>3, <1>4 DEF ServiceInv

\* The two invariants hold together.
LEMMA ServiceInvariance == ServiceSpec => [](IInv /\ ServiceInv)
<1>1. IInv /\ ServiceInv /\ [ServiceNext]_serviceVars => (IInv /\ ServiceInv)'
  BY ServiceStep, NextInv
<1> QED
  BY <1>1, ServiceInitInv, PTL DEF ServiceSpec

\* service.rs: whatever calls overlap and are dropped, each step of the service
\* is one that a room expects of those who hold its handles.
THEOREM ServiceRefinesActor == ServiceSpec => Spec
<1>1. ServiceInit => Init
  BY DEF ServiceInit
<1>2. IInv /\ ServiceInv /\ [ServiceNext]_serviceVars => [Next]_actorVars
  BY ServiceStep
<1> QED
  BY <1>1, <1>2, ServiceInvariance, PTL DEF ServiceSpec, Spec

-----------------------------------------------------------------------------
(***************************************************************************)
(* leave.                                                                  *)
(***************************************************************************)

\* At first nobody waits.
LEMMA LeaveInitInv == ServiceInit => IInv /\ ServiceInv /\ LeaveInv
<1>1. ASSUME ServiceInit PROVE LeaveInv
  <2>1. /\ \A r \in Rooms : DOMAIN commands[r] = {}
        /\ \A t \in Tasks : task[t].pc = "idle" /\ task[t].result = "none"
    BY <1>1 DEF ServiceInit, Init, NoCall, call
  <2> QED
    BY <2>1 DEF LeaveInv, LeaveOf, QueuedOf, AnswerOf, ResultOf
<1> QED
  BY <1>1, ServiceInitInv

\* The three invariants are kept together.
LEMMA LeaveKept ==
    IInv /\ ServiceInv /\ LeaveInv /\ [ServiceNext]_serviceVars => (IInv /\ ServiceInv /\ LeaveInv)'
<1>1. IInv /\ ServiceInv /\ [ServiceNext]_serviceVars => IInv' /\ ServiceInv'
  BY ServiceStep, NextInv
<1> QED
  BY <1>1, LeaveStep

\* service.rs, leave and leave_all: neither ever returns an error, so no leave
\* of all rooms stops halfway, however rooms end under it.
THEOREM LeaveCorrect == ServiceSpec => []LeaveNeverFails
<1>1. LeaveInv => LeaveNeverFails
  BY DEF LeaveInv, LeaveOf, ResultOf, LeaveNeverFails, Leaving
<1> QED
  BY <1>1, LeaveInitInv, LeaveKept, PTL DEF ServiceSpec

-----------------------------------------------------------------------------
(***************************************************************************)
(* The registry.                                                           *)
(***************************************************************************)

\* Nobody is in a room that never had a member, so its first Join succeeds.
LEMMA HandleEffects ==
    ASSUME IInv, NEW q \in Rooms, Handle(q)
    PROVE  HandleEffect(q, Head(commands[q]))
<1> DEFINE cmd == Head(commands[q])
<1>0. /\ actor \in [Rooms -> ActorState] /\ closed \in [Rooms -> BOOLEAN]
      /\ had_members \in [Rooms -> BOOLEAN] /\ reply \in [Tasks -> Reply]
      /\ ~closed[q] /\ ~is_closed(room[q]) /\ (~had_members[q] => room[q].members = {})
  BY Zenon DEF IInv, TypeOK, OpenWhileRunning, Handle
<1>1. CASE handle_join(q, cmd)
  <2> DEFINE j == try_join(room[q], cmd.player)
  <2>1. /\ cmd.type = "Join" /\ UNCHANGED closed
        /\ had_members' = [had_members EXCEPT ![q] = had_members[q] \/ j.outcome = "new"]
        /\ \E v \in {"joined", "RoomFull", "RoomClosed"} :
              /\ reply' = Answer(reply, cmd.reply, v)
              /\ j.outcome = "new" => v = "joined"
        /\ \E a \in {"running", "breaking"} : actor' = [actor EXCEPT ![q] = a]
    <3>1. j.outcome \in {"new", "already", "RoomFull", "RoomClosed"}
      BY Zenon DEF try_join
    <3>2. \E stop : Continue(q, stop)
      BY <1>1 DEF handle_join
    <3> QED
      BY <1>1, <3>1, <3>2, Zenon DEF handle_join, Continue
  <2>2. ~had_members[q] => j.outcome = "new"
    <3>1. ~had_members[q] => ~is_full(room[q])
      <4>1. ~had_members[q] => member_count(room[q]) = 0
        BY <1>0, FS_EmptySet, Zenon DEF member_count
      <4> QED
        BY <4>1, CapacityType DEF is_full
    <3> QED
      BY <1>0, <3>1 DEF try_join
  <2> HIDE DEF j
  <2> QED
    BY <1>0, <2>1, <2>2, Zenon DEF HandleEffect, Answer
<1>2. CASE handle_chat(q, cmd)
  <2>1. /\ cmd.type \in {"Chat", "Unfit"} /\ UNCHANGED <<closed, had_members, reply>>
        /\ \E a \in {"running", "breaking"} : actor' = [actor EXCEPT ![q] = a]
    BY <1>2, Zenon DEF handle_chat, Continue
  <2> QED
    BY <1>0, <2>1 DEF HandleEffect
<1>3. CASE handle_leave(q, cmd)
  <2>1. /\ cmd.type = "Leave" /\ UNCHANGED had_members
        /\ \E last \in BOOLEAN : (last => had_members[q]) /\ closed' = [closed EXCEPT ![q] = @ \/ last]
        /\ \E v \in {"left", "absent", "RoomClosed"} : reply' = Answer(reply, cmd.reply, v)
        /\ \E a \in {"running", "breaking"} : actor' = [actor EXCEPT ![q] = a]
    <3> DEFINE l == try_leave(room[q], cmd.player)
               last == l.outcome = "left" /\ Emptied(had_members[q], l.room)
    <3>1. l.outcome \in {"left", "absent", "RoomClosed"}
      BY DEF try_leave
    <3>2. last \in BOOLEAN /\ (last => had_members[q])
      BY DEF Emptied
    <3>3. closed' = [closed EXCEPT ![q] = @ \/ last]
      BY <1>3, Zenon DEF handle_leave
    <3>4. \E stop : Continue(q, stop)
      BY <1>3, Zenon DEF handle_leave
    <3>5. cmd.type = "Leave" /\ UNCHANGED had_members /\ reply' = Answer(reply, cmd.reply, l.outcome)
      BY <1>3, Zenon DEF handle_leave
    <3> HIDE DEF l, last
    <3> QED
      BY <3>1, <3>2, <3>3, <3>4, <3>5, Zenon DEF Continue
  <2> QED
    BY <1>0, <2>1 DEF HandleEffect, Answer
<1>4. CASE handle_close(q, cmd)
  <2>1. /\ cmd.type = "Close" /\ UNCHANGED <<had_members, reply>>
        /\ closed' = [closed EXCEPT ![q] = TRUE] /\ actor' = [actor EXCEPT ![q] = "breaking"]
    BY <1>4 DEF handle_close, Continue
  <2> QED
    BY <1>0, <2>1 DEF HandleEffect
<1> QED
  BY <1>1, <1>2, <1>3, <1>4 DEF Handle

\* The four invariants hold together.
LEMMA RegistryInvariance == ServiceSpec => [](IInv /\ ServiceInv /\ LeaveInv /\ RegistryInv)
<1>1. IInv /\ ServiceInv /\ LeaveInv /\ RegistryInv /\ [ServiceNext]_serviceVars
         => (IInv /\ ServiceInv /\ LeaveInv /\ RegistryInv)'
  BY LeaveKept, RegistryStep, HandleEffects
<1> QED
  BY <1>1, LeaveInitInv, RegistryInit, PTL DEF ServiceSpec

\* service.rs, leave, create_and_join and close_all: they unlist rooms by id, on
\* the strength of what they saw before they took the mutex, and yet no open room
\* with members goes missing, unless a close_all was dropped halfway.
THEOREM NoRoomLost == ServiceSpec => []NoLostRoom
<1>1. IInv /\ RegistryInv => NoLostRoom
  <2> SUFFICES ASSUME IInv, RegistryInv, NEW r \in Rooms, actor[r] = "running", room[r].members # {}
               PROVE  registered(r) \/ CloseOnItsWay(r) \/ CloseCancelled
    BY DEF NoLostRoom
  <2>1. had_members[r] /\ ~closed[r]
    BY DEF IInv, OpenWhileRunning
  <2> QED
    BY <2>1 DEF RegistryInv, RoomOf, ListedOf, Doomed
<1> QED
  BY <1>1, RegistryInvariance, PTL

\* README.md, 314: a closed room that is still listed is about to be unlisted by
\* the leave that emptied it, unless a call about it was dropped.
THEOREM ClosedRoomsUnlisted == ServiceSpec => []ClosedRoomUnlisted
<1>1. RegistryInv => ClosedRoomUnlisted
  BY DEF RegistryInv, RoomOf, ClosedOf, ClosedRoomUnlisted, Visits, WillVisit, Leaving
<1> QED
  BY <1>1, RegistryInvariance, PTL

\* create_and_join: a listed room that never had a member has the call that is
\* creating it, or one that was dropped at it.
THEOREM EmptyRoomsHaveCreators == ServiceSpec => []EmptyRoomHasCreator
<1>1. RegistryInv => EmptyRoomHasCreator
  BY DEF RegistryInv, RoomOf, EmptyOf, EmptyRoomHasCreator, Creator
<1> QED
  BY <1>1, RegistryInvariance, PTL
=============================================================================
