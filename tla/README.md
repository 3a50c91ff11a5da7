# LongshipX in TLA+

TLA+ modules for the concurrent core of the LongshipX game server, TLC
configurations that check them on small instances, and proofs that TLAPS checks
for every instance. Paths are relative to the repository (`src/`).

## The system

| part | code | state | operations |
|---|---|---|---|
| room aggregate | `crates/domain/src/room/aggregate.rs` | members, state | `open`, `try_join`, `try_leave`, `close` |
| room actor | `crates/application/src/room/actor.rs`, `sink.rs` | aggregate, sink per member, `had_members`, command queue, closed flag | Join, Leave, Chat, Close; the end of the loop |
| room service | `crates/application/src/room/service.rs` | registry of handles | `join_or_create`, `join`, `leave`, `leave_all`, `chat`, `close_all` |
| TCP connection | `crates/gateway/src/tcp/{handler,handlers,lifecycle,context}.rs` | auth state, `current_room`, three tasks (loop, translator, writer), guard | frames, events, cleanup, abort |
| admission | `crates/net-kit/src/listener.rs`, `crates/gateway/src/tcp/{server,auth_gate}.rs` | places, per-IP counters, handshake slots, task sets | accept, admit, handshake, bind, end, stop |
| outbound queue | `crates/net-kit/src/{backpressure,connection}.rs` | bounded queue, disconnect flag, writer | `try_send_frame`, `disconnect`, write, drain |
| stop | `crates/server-bin/src/{bootstrap,shutdown}.rs` | signal, progress of teardown | signal, `close_all`, drain, deadline |
| sessions | `crates/application/src/auth`, `crates/infrastructure/src/cache`, `password.rs` | tokens, accounts, permits | register, login, resolve, revoke |
| progression | `crates/application/src/player`, `player_repo.rs` | level, experience | `gain_exp`, `record_login` |
| rate limit, frame codec | `rate_limit.rs`, `codec.rs` | bucket; none | `try_acquire`; read and write a frame |

The interactions that matter: a connection's handler calls the room service,
which sends a command to a room's task and awaits a oneshot; the room writes
events into the connection's sink, which the connection's translator turns into
frames for the outbound queue, which the writer task empties. Cleanup goes the
same way backwards, and may be started by the end of the loop, by the end of
the translator, or by the guard of an aborted task. A stop signal reaches all
of them at different times.

What is hard in it: any future may be dropped at any await; state is read
before an await and acted upon after it (`is_closed`, `current_room`); queues
are full; the closed flag, the receiver and the oneshots of a room go in a
certain order; a deadline gives up on a cleanup. `PROJECT.json` lists each of
these with its line and the properties that cover it.

What makes each part correct:

- a room's two member tables agree, it serves only while open, and a client can
  rebuild its roster from its events alone;
- the service never loses a room that has members, never keeps a closed one,
  and its `leave` never fails;
- a connection knows its room, leaves nothing behind, and goes away when it is
  told to or when it has lost an event;
- limits hold for connections and not just for counters, and every place comes
  back;
- a producer's frames reach the queue without a hole.

## Modules

Each extends the one before it where they interact:

    Room <- RoomActor <- RoomService <- Gateway
               ^
         RoomActorLemmas              Outbound <- OutboundProofs     Admission
               ^
         RoomActorHandlers <- RoomActorProofs

**Room.** The aggregate as a record, with one operator for each method.
`transition_to` has no caller and is left out. The Vec of members is a set.

**RoomActor.** Any number of rooms, each a task (`actor`: unborn, running,
breaking, stopped) with a command queue. `Handle` is one turn of the loop with
the whole handler; `Stop` drops the receiver with the queued commands and their
oneshots, a step after `finish` raised the flag. The environment is as wild as
the types allow: whoever holds a handle may send any command, clone or drop the
handle. `sink` has, for every connection, the queue length, the receiver, the
sticky failure flag, and an auxiliary `view`: what the client can conclude from
the events it was sent.

**RoomService.** Each call is a task that moves from await to await; `Cancel`
drops it at one. The registry is the holder `Registry` in `holders`. The room
variables are those of RoomActor, so the refinement mapping is the identity and
`Spec` of RoomActor is a property of RoomService.

**Gateway.** Connections over RoomService: phases from handshake to gone, and
three tasks each for the calls of handlers, cleanup and guard. A frame is read
(`ReadFrame`), its session is checked (phase `checking`), then it is answered or
becomes a call. Rate limits, decoding errors and failed session checks are
reasons for `LoopReturns`, which may happen at any time. The biased select
appears in `ReadFrame`, which is disabled once a signal is up.

**Outbound.** `try_send_frame` in its three steps (`Check`, `TrySend`,
`Refused`), producers that drop their senders, and the writer with its select:
the flag interrupts a write, the loss of all senders starts the drain.

**Admission.** Accept workers with the tasks they own, and for each client what
its task holds. `Over` is the drop of the task, whatever caused it. A client may
come back any number of times.

The `MC*` modules give the constants values and define views and symmetry.

## Runs

`tlc -config <cfg> <module>`. All complete within minutes.

| run | question | instance |
|---|---|---|
| `room_shared` | Is a room right under every use? | 2 players, room of 2, 2 tasks, queues of 2 |
| `service_two_rooms` | Is the registry right while calls overlap and are dropped? | 2 calls, 2 rooms, 1 drop, command queue of 1 |
| `service_refines_actor` | Does the service use rooms as RoomActor assumes? | 2 players, room of 1, 1 drop |
| `service_live` | Does every call return and every room that is over go? | 1 player, 2 calls, 1 drop |
| `gateway_one_conn` | Does a connection know its room and leave nothing behind, also at a stop? | 1 connection, 2 rooms, 5 frames, 3 drops |
| `gateway_two_players` | The same with two that share a room | 2 connections, 4 frames each, 2 drops |
| `gateway_live` | Does a lost event, and a stop signal, end connections? | 1 connection, 3 frames |
| `outbound` | Are streams without holes, and does the writer end? | 2 producers, 4 frames each, queue of 2 |
| `admission` | Do limits hold, does everything come back, does the accept loop end? | 4 clients (3 on one IP), 2 workers, limits 3, 2 and 1 |
| `same_player_receipt`, `leave_during_close_all`, `overflow_not_final` | Findings, see below | |

Bounds. `CommandCapacity` 2 in `room_shared` lets a join wait behind the last
leave; 1 elsewhere makes callers wait for capacity. `EventCapacity` 2 is what
the last leave of a member needs (MemberLeft and Closed), so with 2 queues
overflow or just fit. `MaxCancels`, `MaxFrames` and `MaxSignals` bound drops,
frames and signals; five frames are enough to bind, create, leave, enter another
room and ask once more. In `admission` each of the three limits is smaller than
what the clients can ask for, and the per-IP limit of 2 has counters go down to
1 as well as to 0. Nothing bounds the number of reconnects.

Views. `MCView` and `SinklessView` leave out what no guard reads (who holds a
handle beyond whether anyone does; the sinks, for properties that do not
mention them). `LiveView` of MCGateway leaves out fields of a connection that no
later step of its phase reads. `MCView` keeps the sinks in full, because
`RosterExact` reads them; `same_player_receipt` uses no view.

Deadlock is checked in the service runs. The others switch it off, since there
everything may have ended: all rooms over, all connections gone.

Fairness. The runtime polls a task that can proceed: weak fairness of a room's
step, of a call's step, of the accept workers, of the connection's own steps.
Waiting for queue capacity is first come first served in tokio, hence strong
fairness of `Enqueue`. Deadlines pass where the property needs them
(`DrainTimesOut`, `TimesOut` and `Abort`), and a session check ends because it
has a timeout. Peers, clients and callers owe nothing.

Every property has a mutant: a definition `XyzSomething` before `Xyz` that
changes it the way a slip in that code would, and with which TLC finds the
property violated.

## Findings

1. **A second connection of a player joins in silence** (`JoinIsReceipted`).
   `handlers.rs:77` says the receipt of a join is its MemberJoined broadcast.
   If another connection of the player is in the room already, the join
   succeeds, the first sink is kept, and the second connection is told nothing.
   For the same reason `current_room` of one connection is wrong after the
   other one leaves.
2. **`leave` returns Ok during `close_all` with the member still there**
   (`LeaveIsDone`). `README.md:314` says the member is removed when it returns.
   `close_all` empties the registry first; `leave` then finds no room.
3. **An overflow is not final at once** (`OverflowIsFinal`). `README.md:384` says
   that a sender that has overflowed is unwritable for good. Between the refusal
   and the flag, another producer's frame may be queued. It holds for each
   producer by itself (`StreamPrefix`, proved).

Two more observations without a run: teardown can log that all connections are
gone while one is between its handshake and its registration; and a request
dropped between `create_and_join`'s insert and its join leaves an empty listed
room until `close_all` (stated as the exception in `EmptyRoomHasCreator`).

## Proofs

`tlapm` on RoomActorLemmas, RoomActorHandlers, RoomActorProofs and
OutboundProofs. The first two hold lemmas only; the proof about the room is
split because the prover slows down on one large module.

**RoomActorProofs** proves `Spec => []P` for `TypeOK`, `MembersAgree`,
`OpenWhileRunning`, `FlagBeforeDrop`, `NoLostReply` and `RosterExact`, for all
sets of rooms, players, connections and tasks, any `max_players` and any queue
capacities, from the assumptions in Room and RoomActor. The inductive invariant
`IInv` is the conjunction of these with `Lifecycle`, which says what the others
need of rooms that do not run: the flag is up exactly when the aggregate is
closed, no command outlives its task, a stopped room has let go of its sinks.
`NoLostReply` needs it because a oneshot may only be dropped together with the
queue; `RosterExact` needs `MembersAgree`, because broadcast goes by the sinks
and the roster by the aggregate. A step of one room disturbs the invariant of
that room only (`ByRoom`, `OtherRooms`); then there is one lemma for each
handler. `room_shared` checks every conjunct of `IInv`.

Since RoomService has `Spec` as a property (checked by `service_refines_actor`),
these hold of rooms under the service too, as far as that run goes.

**OutboundProofs** proves `OutboundTypeOK` and `StreamPrefix` for any producers
and capacity. `StreamPrefix` alone is not inductive; `Contiguous` adds that what
was queued reaches up to the frame in hand for a producer that is about to send,
and for an idle one while nothing has cut the connection.

Only model-checked: all liveness (out of the prover's reach), the refinement,
and the invariants of RoomService, Gateway and Admission.

## Not modelled, and the plan

Left out for good: TLS and sockets, HTTP routing, Protobuf, configuration,
migrations, logging, metrics, domain events (which only reach the log), value
validation. `PROJECT.json` gives the reason for each.

Next, in this order:

1. **Sessions**: token store, login and registration step by step with dropped
   requests, password permits that outlive them, and a connection's check racing
   a new login. At most one live token of a player; a permit is held exactly
   while a computation runs; no half of a registration. An abstract store with
   an atomic replace, which the in-memory one and the Redis script implement.
2. **Progression**: `gain_exp` under a row lock beside `record_login`; the
   closed form of the level as reference; the i64 bound; the retry after
   PostCommit.
3. **TokenBucket** and **FrameCodec**: pure algorithms against a reference
   (frames per window; what `read_frame` returns of what `write_frame` wrote,
   cut anywhere).
4. Proofs: RoomService implements RoomActor (step by step, identity mapping);
   `LeaveNeverFails` and `NoLostRoom` from it; `Limits` and `GivenBack` of
   Admission with cardinalities of what is held; the bucket's window bound.
