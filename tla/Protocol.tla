------------------------------ MODULE Protocol ------------------------------
(***************************************************************************)
(* Frames on the wire (crates/net-kit/src/codec.rs), the messages they     *)
(* carry and the table that routes them (crates/protocol).                 *)
(*                                                                         *)
(* A byte is a number below 256 and a frame is bytes, so lengths and their *)
(* order on the wire are those of the code.  The fields of a Protobuf      *)
(* message are abstracted to at most one byte; prost refuses BadPayload.   *)
(***************************************************************************)
EXTENDS Naturals, Sequences

LENGTH_PREFIX_BYTES == 4
OPCODE_BYTES == 2
MIN_FRAME_LEN == OPCODE_BYTES
BadPayload == <<255>>

to_be_bytes(n, width) == [i \in 1..width |-> (n \div 256^(width - i)) % 256]

\* Mutant of from_be_bytes: the bytes are read in the other order.
from_be_bytesSwapped(bytes) ==
    LET sum[i \in 0..Len(bytes)] ==
          IF i = 0 THEN 0 ELSE sum[i - 1] + bytes[i] * 256^(i - 1)
    IN  sum[Len(bytes)]

from_be_bytes(bytes) ==
    LET sum[i \in 0..Len(bytes)] == IF i = 0 THEN 0 ELSE sum[i - 1] * 256 + bytes[i]
    IN  sum[Len(bytes)]

wire_len(frame) == OPCODE_BYTES + Len(frame.payload)

\* The bytes of a frame that is not too large.
encode_frame(frame) ==
    to_be_bytes(wire_len(frame), LENGTH_PREFIX_BYTES)
        \o to_be_bytes(frame.opcode, OPCODE_BYTES) \o frame.payload

\* What is wrong with a length prefix, or "fine".
decode_wire_len(prefix, max_frame_size) ==
    LET declared == from_be_bytes(prefix)
    IN  IF declared < MIN_FRAME_LEN THEN "Malformed"
        ELSE IF declared > max_frame_size THEN "FrameTooLarge"
        ELSE "fine"

\* Whether the reader takes an error for the end of the connection.
is_disconnect(error) == error \in {"UnexpectedEof", "ConnectionReset", "Closed", "Tls"}

-----------------------------------------------------------------------------
OP_C2S == [Bind |-> 1, Heartbeat |-> 2, JoinRoom |-> 16, LeaveRoom |-> 17,
           RoomChat |-> 18, GetProfile |-> 19]

OP_S2C == [BindResult |-> 32769, HeartbeatAck |-> 32770, Profile |-> 32771,
           RoomEvent |-> 32784, Error |-> 32785, Shutdown |-> 32786]

ERR == [PROTOCOL |-> 1000, FRAME_TOO_LARGE |-> 1001, RATE_LIMITED |-> 1002,
        TIMEOUT |-> 1003, NOT_AUTHENTICATED |-> 1004, AUTH_REQUIRED_FIRST |-> 1005,
        ALREADY_BOUND |-> 1006, SERVER_BUSY |-> 2001, SERVER_SHUTDOWN |-> 2002,
        INVALID_INPUT |-> 2003, CONFLICT |-> 2004, NOT_FOUND |-> 2005, FORBIDDEN |-> 2006]

\* The message with this opcode in a table; none is not an error for the server.
TypeWith(table, opcode) == {type \in DOMAIN table : table[type] = opcode}

Message(type, body) == [type |-> type, body |-> body]
Unknown(opcode) == Message("Unknown", <<opcode>>)

decodes(frame) == TypeWith(OP_C2S, frame.opcode) # {} => frame.payload # BadPayload

decode_inbound(frame) ==
    LET types == TypeWith(OP_C2S, frame.opcode)
    IN  IF types = {} THEN Unknown(frame.opcode)
        ELSE Message(CHOOSE type \in types : TRUE, frame.payload)

\* ClientCodec::encode; a client cannot encode Unknown.
encode_inbound(message) == [opcode |-> OP_C2S[message.type], payload |-> message.body]

\* Mutant of encode_outbound: two opcodes are confused.
encode_outboundConfused(message) ==
    [opcode |-> IF message.type = "HeartbeatAck" THEN OP_S2C["Profile"]
                ELSE OP_S2C[message.type],
     payload |-> message.body]

encode_outbound(message) == [opcode |-> OP_S2C[message.type], payload |-> message.body]

\* ClientCodec::decode of what the server sends.
decode_outbound(frame) ==
    LET types == TypeWith(OP_S2C, frame.opcode)
    IN  Message(CHOOSE type \in types : TRUE, frame.payload)

error_notification(code) == Message("Error", <<code>>)
bind_ok == Message("BindResult", <<1>>)
bind_rejected == Message("BindResult", <<0>>)

\* The variants of a RoomEventNotification.
RoomEvents == [MemberJoined |-> 1, MemberLeft |-> 2, Chat |-> 3, Closed |-> 4]
room_event_to_notification(event) == Message("RoomEvent", <<RoomEvents[event]>>)

\* build_router: one handler for every message of a client.
routes == [Bind |-> "handle_bind", Heartbeat |-> "handle_heartbeat",
           JoinRoom |-> "handle_join_room", LeaveRoom |-> "handle_leave_room",
           RoomChat |-> "handle_room_chat", GetProfile |-> "handle_get_profile"]

has_route(message) == message.type \in DOMAIN routes

\* What a client is told of an AppError.
app_error_notification(error) ==
    error_notification(
        CASE error = "Validation" -> ERR.INVALID_INPUT
          [] error = "Unauthorized" -> ERR.NOT_AUTHENTICATED
          [] error = "Forbidden" -> ERR.FORBIDDEN
          [] error = "NotFound" -> ERR.NOT_FOUND
          [] error = "Conflict" -> ERR.CONFLICT
          [] error = "Busy" -> ERR.SERVER_BUSY
          [] error = "RateLimited" -> ERR.RATE_LIMITED
          [] error \in {"PostCommit", "Storage", "Internal"} -> ERR.PROTOCOL)
=============================================================================
