------------------------------ MODULE ReadLoop ------------------------------
(***************************************************************************)
(* The inbound side of a TCP connection, from the bytes of its client to   *)
(* the replies: read_frame (net-kit), run_read_loop and admit_frame        *)
(* (gateway/src/tcp/handler.rs) with the rate limit, the order of the      *)
(* checks, the handlers' replies and all deadlines.  What the handlers do  *)
(* to rooms is in Gateway, what sessions are is in Accounts: here a        *)
(* handler or a check has one of its possible outcomes.                    *)
(*                                                                         *)
(* Time is counted in ticks, and the tokens of the bucket in parts of      *)
(* 1/TicksPerSec, so that they stay integers; the code uses f64.           *)
(***************************************************************************)
EXTENDS Protocol, SequencesExt

CONSTANTS Items,             \* what the client may write: [frame, bytes]; frame is
                             \* None if the bytes are not one
          None,
          max_frame_size, unauth_timeout, heartbeat_timeout,
          per_second, burst, \* RateLimitSettings, enabled
          TicksPerSec,
          MaxItems, Chunks,  \* bounds: how much the client writes, and the sizes in
                             \* which it arrives
          Events, AppErrors  \* the room events and failures of use cases that occur

ASSUME ReadLoopAssumptions ==
    /\ per_second \in Nat \ {0} /\ burst \in Nat \ {0} /\ TicksPerSec \in Nat \ {0}
    /\ unauth_timeout \in Nat /\ heartbeat_timeout \in Nat

VARIABLES
    written,   \* the items the client began to write
    unsent,    \* the bytes of the last one that are still with the client
    pipe,      \* bytes that arrived and were not read
    peer,      \* "open", "closed" after its last byte, or "reset"
    at,        \* where the loop is
    got,       \* what the present read_frame has taken from the pipe
    received,  \* auxiliary: the frames that read_frame returned
    now, deadline,
    since,     \* when the frame came that is looked at, 0 while the loop reads
    bucket,    \* tokens and last_refill
    arrivals,  \* auxiliary: when the frames came that were let through
    session,   \* the aggregate: connected_at and last_heartbeat_at
    authed,
    handled,   \* auxiliary: the messages dispatched, and whether each had a reply
    out,       \* frames given to the outbound queue
    end        \* why the loop returned: the name of an error code, "eof", "stop" ...

clientVars == <<written, unsent, pipe, peer>>
timeVars == <<now, deadline, since>>
limitVars == <<bucket, arrivals>>
authVars == <<session, authed, handled>>
readVars == <<clientVars, at, got, received, timeVars, limitVars, authVars, out, end>>

Least(m, n) == IF m < n THEN m ELSE n

frame == received[Len(received)]
message == decode_inbound(frame)

-----------------------------------------------------------------------------
(***************************************************************************)
(* The client and the network.                                             *)
(***************************************************************************)
Write(item) ==
    /\ peer = "open" /\ at # "over"
    /\ unsent = <<>>
    /\ Len(written) < MaxItems
    /\ \A i \in 1..Len(written) : written[i].frame # None
    /\ written' = Append(written, item)
    /\ unsent' = item.bytes
    /\ UNCHANGED <<pipe, peer, at, got, received, timeVars, limitVars, authVars, out,
                   end>>

Deliver(n) ==
    /\ unsent # <<>> /\ at # "over"
    /\ pipe' = pipe \o SubSeq(unsent, 1, Least(n, Len(unsent)))
    /\ unsent' = SubSeq(unsent, n + 1, Len(unsent))
    /\ UNCHANGED <<written, peer, at, got, received, timeVars, limitVars, authVars, out,
                   end>>

\* The client ends, maybe within a frame.  A reset also loses what is not read.
Leave(how) ==
    /\ peer = "open" /\ at # "over"
    /\ peer' = how
    /\ unsent' = <<>>
    /\ pipe' = IF how = "reset" THEN <<>> ELSE pipe
    /\ UNCHANGED <<written, at, got, received, timeVars, limitVars, authVars, out, end>>

\* The clock goes on while the loop waits for it, and a little longer while an
\* authenticated client's handler runs, for which there is no limit.
Tick ==
    /\ CASE at = "reading" -> now < deadline
         [] at = "validating" -> now < since + heartbeat_timeout
         [] at = "handling" -> now < (IF authed THEN since + heartbeat_timeout + 1 ELSE deadline)
         [] at = "over" -> FALSE
    /\ now' = now + 1
    /\ UNCHANGED <<clientVars, at, got, received, deadline, since, limitVars, authVars,
                   out, end>>

-----------------------------------------------------------------------------
(***************************************************************************)
(* read_frame.                                                             *)
(***************************************************************************)

\* How many bytes the present read_exact wants to have in got.
Wanted ==
    IF Len(got) < LENGTH_PREFIX_BYTES THEN LENGTH_PREFIX_BYTES
    ELSE LENGTH_PREFIX_BYTES + from_be_bytes(SubSeq(got, 1, LENGTH_PREFIX_BYTES))

PrefixState ==
    IF Len(got) < LENGTH_PREFIX_BYTES THEN "short"
    ELSE decode_wire_len(SubSeq(got, 1, LENGTH_PREFIX_BYTES), max_frame_size)

read_exact ==
    LET n == Least(Wanted - Len(got), Len(pipe))
    IN  /\ at = "reading"
        /\ PrefixState \in {"short", "fine"}
        /\ n > 0
        /\ got' = got \o SubSeq(pipe, 1, n)
        /\ pipe' = SubSeq(pipe, n + 1, Len(pipe))
        /\ UNCHANGED <<written, unsent, peer, at, received, timeVars, limitVars,
                       authVars, out, end>>

\* try_send: encoded and queued.
Queued(m) == out' = Append(out, encode_outbound(m))

\* The loop returns.
Over(why) == at' = "over" /\ end' = why /\ got' = <<>>

\* The queue was full, which raises its flag, or had been disconnected by another
\* task: the loop sees that at once.
QueueRefuses == Over("closed") /\ UNCHANGED out

\* A last message; whether it can be queued does not matter any more.
OverWith(code) == Over(code) /\ (UNCHANGED out \/ Queued(error_notification(ERR[code])))

Ended == UNCHANGED <<clientVars, received, timeVars, limitVars, authVars>>

\* End of file within the prefix counts as a clean end; later it is an error,
\* but one that says the client has gone.
ReadEnds ==
    /\ at = "reading"
    /\ \/ /\ peer = "closed" /\ pipe = <<>>
          /\ PrefixState = "short" \/ Len(got) < Wanted
          /\ Over(IF PrefixState = "short" THEN "eof" ELSE "cut")
       \/ peer = "reset" /\ is_disconnect("ConnectionReset") /\ Over("cut")
    /\ UNCHANGED out
    /\ Ended

ReadFails ==
    /\ at = "reading"
    /\ PrefixState \in {"Malformed", "FrameTooLarge"}
    /\ OverWith(IF PrefixState = "FrameTooLarge" THEN "FRAME_TOO_LARGE" ELSE "PROTOCOL")
    /\ Ended

-----------------------------------------------------------------------------
(***************************************************************************)
(* TokenBucket.                                                            *)
(***************************************************************************)
Capped(n) == Least(n, burst * TicksPerSec)

\* Mutant of refilled: the time since the last frame is counted from the start.
refilledFromStart == Capped(bucket.tokens + (now - session.connected_at) * per_second)

refilled == Capped(bucket.tokens + (now - bucket.last_refill) * per_second)

Acquirable == refilled >= TicksPerSec

try_acquire ==
    bucket' = [tokens |-> IF Acquirable THEN refilled - TicksPerSec ELSE refilled,
               last_refill |-> now]

-----------------------------------------------------------------------------
(***************************************************************************)
(* run_read_loop and admit_frame.                                          *)
(***************************************************************************)

\* Mutant of Turn: the deadline of an unauthenticated client moves on.
TurnAfresh(isAuthed) ==
    /\ at' = "reading"
    /\ got' = <<>> /\ since' = 0
    /\ deadline' = now + (IF isAuthed THEN heartbeat_timeout ELSE unauth_timeout)

\* The loop's head: an unauthenticated client has one deadline for all it does.
Turn(isAuthed) ==
    /\ at' = "reading"
    /\ got' = <<>> /\ since' = 0
    /\ deadline' = IF isAuthed THEN now + heartbeat_timeout
                   ELSE session.connected_at + unauth_timeout

\* The checks up to the first await; late is asked first, the limit before the
\* decoder.
Verdict(f) ==
    CASE now >= deadline -> "TIMEOUT"
      [] ~Acquirable -> "RATE_LIMITED"
      [] ~decodes(f) -> "PROTOCOL"
      [] ~authed /\ decode_inbound(f).type # "Bind" -> "AUTH_REQUIRED_FIRST"
      [] OTHER -> "fine"

admit_frame ==
    LET body == SubSeq(got, LENGTH_PREFIX_BYTES + 1, Len(got))
        f == [opcode |-> from_be_bytes(SubSeq(body, 1, OPCODE_BYTES)),
              payload |-> SubSeq(body, OPCODE_BYTES + 1, Len(body))]
        v == Verdict(f)
    IN  /\ at = "reading"
        /\ PrefixState = "fine" /\ Len(got) = Wanted
        /\ received' = Append(received, f)
        /\ session' = [session EXCEPT !.last_heartbeat_at = now]
        /\ IF v = "TIMEOUT" THEN UNCHANGED bucket ELSE try_acquire
        /\ arrivals' = IF v \in {"TIMEOUT", "RATE_LIMITED"} THEN arrivals
                       ELSE Append(arrivals, now)
        /\ IF v # "fine" THEN OverWith(v) /\ UNCHANGED since
           ELSE /\ at' = IF authed THEN "validating" ELSE "handling"
                /\ since' = now
                /\ got' = <<>>
                /\ UNCHANGED <<out, end>>
        /\ UNCHANGED <<clientVars, now, deadline, authed, handled>>

\* Mutant of Validated: BIND goes to its handler.
ValidatedAll ==
    /\ at = "validating"
    /\ at' = "handling"
    /\ UNCHANGED <<clientVars, got, received, timeVars, limitVars, authVars, out, end>>

\* validate_session said yes; a second BIND is refused and the loop goes on.
Validated ==
    /\ at = "validating"
    /\ IF message.type # "Bind"
       THEN at' = "handling" /\ UNCHANGED <<got, deadline, since, out, end>>
       ELSE \/ Turn(TRUE) /\ Queued(error_notification(ERR.ALREADY_BOUND)) /\ UNCHANGED end
            \/ QueueRefuses /\ UNCHANGED <<deadline, since>>
    /\ UNCHANGED <<clientVars, received, now, limitVars, session, authed, handled>>

\* Another player's token, none, an error, or no answer in time.
Invalid ==
    /\ at = "validating"
    /\ OverWith("NOT_AUTHENTICATED")
    /\ Ended

ValidationTimesOut == now >= since + heartbeat_timeout /\ Invalid

\* Router::dispatch: what the handler of m may return.  A message of another
\* kind has no handler; an error of a handler is told as Internal.
Errors(errors) == {app_error_notification(e) : e \in errors \cap AppErrors}

NoReply == Message("None", <<>>)

handle_bind(m) ==
    (IF m.body = <<1>> THEN {bind_ok} ELSE {bind_rejected})
        \cup (IF m.body = <<>> THEN {} ELSE Errors({"Internal"}))

handle_heartbeat == {Message("HeartbeatAck", <<>>)}

handle_get_profile == {Message("Profile", <<>>)} \cup Errors({"NotFound", "Storage"})

\* The requests that are answered by a room event, or by an error.
handle_room_request == {NoReply} \cup Errors({"Validation", "NotFound", "Conflict", "Busy"})

Outcomes(m) ==
    IF ~has_route(m) THEN Errors({"Internal"})
    ELSE CASE routes[m.type] = "handle_bind" -> handle_bind(m)
           [] routes[m.type] = "handle_heartbeat" -> handle_heartbeat
           [] routes[m.type] = "handle_get_profile" -> handle_get_profile
           [] OTHER -> handle_room_request

\* set_authed.
Dispatched(reply) == authed' = (authed \/ reply = bind_ok)

Handle(reply) ==
    /\ handled' = Append(handled, [type |-> message.type, replied |-> reply # NoReply,
                                    bound |-> reply = bind_ok])
    /\ Dispatched(reply)
    /\ \/ /\ Turn(authed')
          /\ IF reply = NoReply THEN UNCHANGED out ELSE Queued(reply)
          /\ UNCHANGED end
       \/ reply # NoReply /\ QueueRefuses /\ UNCHANGED <<deadline, since>>
    /\ UNCHANGED <<clientVars, received, now, limitVars, session>>

dispatch == at = "handling" /\ \E reply \in Outcomes(message) : Handle(reply)

\* Mutant of BindTimesOut: the handler is waited for.
BindTimesOutNever == at = "none" /\ UNCHANGED readVars

\* Before the BIND a handler has until the deadline.
BindTimesOut ==
    /\ at = "handling" /\ ~authed
    /\ now >= deadline
    /\ OverWith("TIMEOUT")
    /\ Ended

\* Mutant of SleepEnds: reading goes on, but from the start of a frame.
SleepEndsRetrying ==
    /\ at = "reading" /\ got # <<>>
    /\ now >= deadline
    /\ Turn(TRUE)
    /\ UNCHANGED <<clientVars, received, now, limitVars, authVars, out, end>>

SleepEnds ==
    /\ at = "reading"
    /\ now >= deadline
    /\ OverWith("TIMEOUT")
    /\ Ended

\* The flag of the queue, a failure of the sink of room events, or the shutdown
\* signal, each of which may come at any time.
SeeSignal ==
    /\ at = "reading"
    /\ \/ QueueRefuses
       \/ Over("stop") /\ (UNCHANGED out \/ Queued(Message("Shutdown", <<>>)))
    /\ Ended

\* room_event_translator: an event of the room that the client joined.  If the
\* session is not valid any more the connection ends, whatever the loop does.
Translate(event) ==
    /\ at # "over"
    /\ \E i \in 1..Len(handled) : handled[i].type = "JoinRoom" /\ ~handled[i].replied
    /\ \A i \in 1..Len(out) : decode_outbound(out[i]).type # "RoomEvent"
    /\ \/ Queued(room_event_to_notification(event)) /\ UNCHANGED <<at, got, end>>
       \/ QueueRefuses
       \/ OverWith("NOT_AUTHENTICATED")
    /\ UNCHANGED <<clientVars, received, timeVars, limitVars, authVars>>

-----------------------------------------------------------------------------
ReadLoopIdle ==
    /\ written = <<>> /\ unsent = <<>> /\ pipe = <<>> /\ peer = "open"
    /\ got = <<>> /\ received = <<>>
    /\ now = 0 /\ deadline = unauth_timeout /\ since = 0
    /\ bucket = [tokens |-> burst * TicksPerSec, last_refill |-> 0]
    /\ arrivals = <<>>
    /\ session = [connected_at |-> 0, last_heartbeat_at |-> 0]
    /\ authed = FALSE /\ handled = <<>> /\ out = <<>> /\ end = "none"

ReadLoopInit == ReadLoopIdle /\ at = "reading"

\* What the loop does without an answer from elsewhere.
Loop ==
    \/ read_exact \/ ReadEnds \/ ReadFails \/ admit_frame
    \/ ValidationTimesOut \/ BindTimesOut \/ SleepEnds

ReadLoopNext ==
    \/ \E item \in Items : Write(item)
    \/ \E n \in Chunks : Deliver(n)
    \/ \E how \in {"closed", "reset"} : Leave(how)
    \/ Tick
    \/ Loop \/ SeeSignal \/ Validated \/ Invalid \/ dispatch
    \/ \E event \in Events : Translate(event)

ReadLoopSpec == ReadLoopInit /\ [][ReadLoopNext]_readVars

\* Timers fire, and a handler of an authenticated client returns (RoomService:
\* CallsReturn).  Nobody has to answer a BIND or a validation.
ReadLoopFairness ==
    /\ WF_readVars(Tick)
    /\ WF_readVars(Loop)
    /\ WF_readVars(authed /\ dispatch)

FairReadLoopSpec == ReadLoopSpec /\ ReadLoopFairness

-----------------------------------------------------------------------------
(***************************************************************************)
(* Properties.                                                             *)
(***************************************************************************)

\* codec.rs: however the bytes are cut on their way, what read_frame returns are
\* the frames that the client wrote, in order and without a gap; after a clean
\* end none is missing but one that was cut short.
FramesPrefix ==
    /\ \A i \in 1..Len(received) : received[i] = written[i].frame
    /\ end = "eof" =>
          \/ Len(received) = Len(written)
          \/ Len(received) = Len(written) - 1

\* rate_limit.rs, in both directions.  In no window do more frames pass than
\* burst and the refill of its time; and a frame is refused only if with it
\* some window would hold more.
RateExact ==
    LET n == Len(arrivals)
        Allowed(count, time) == count * TicksPerSec <= burst * TicksPerSec + time * per_second
    IN  /\ \A i, j \in 1..n : i <= j => Allowed(j - i + 1, arrivals[j] - arrivals[i])
        /\ end = "RATE_LIMITED" =>
              \E i \in 1..n : ~Allowed(n - i + 2, bucket.last_refill - arrivals[i])

\* handler.rs: up to one that succeeds, every message that is dispatched is a
\* BIND, and after it none is.
BindOnceFirst ==
    \A i \in 1..Len(handled) :
        handled[i].type = "Bind" <=> ~\E j \in 1..i - 1 : handled[j].bound

\* No reply is mistaken for another.  Room events and the notice that ends the
\* connection aside, the client can give each frame to the request it belongs to.
Fits(type, m) ==
    \/ m.type = "Error"
    \/ type = "Bind" /\ m.type = "BindResult"
    \/ type = "Heartbeat" /\ m.type = "HeartbeatAck"
    \/ type = "GetProfile" /\ m.type = "Profile"

RepliesPaired ==
    LET heard == [i \in 1..Len(out) |-> decode_outbound(out[i])]
        replies == SelectSeq(heard, LAMBDA m :
                      m.type \notin {"RoomEvent", "Shutdown"}
                         /\ m # error_notification(ERR.ALREADY_BOUND))
        requests == SelectSeq(handled, LAMBDA h : h.replied)
    IN  \A i \in 1..Len(requests) : i <= Len(replies) => Fits(requests[i].type, replies[i])

\* handler.rs, admission.deadline: until it is authenticated no message of a client
\* is dispatched that came after the deadline, however many it sent before.
ServedInTime ==
    [][handled' # handled /\ ~authed => since < session.connected_at + unauth_timeout]_readVars

\* The loop ends in the end: also with a silent client, one that sends forever
\* wrong tokens, a token store that never answers, or a peer that is gone.
LoopEnds == <>(at = "over")
=============================================================================
