---------------------------- MODULE MCConnection ----------------------------
(***************************************************************************)
(* The two directions of a connection, each at work while the other is     *)
(* over.                                                                   *)
(***************************************************************************)
EXTENDS ReadLoop, Outbound

Whole(f) == [frame |-> f, bytes |-> encode_frame(f)]
Of(type, body) == Whole(encode_inbound(Message(type, body)))

\* BIND with a good, a wrong and an unreadable token, two requests, an opcode
\* nobody knows, and prefixes that are too small and too large.
MCItems ==
    {Of("Bind", <<1>>), Of("Bind", <<2>>), Of("Bind", BadPayload),
     Of("Heartbeat", <<>>), Of("JoinRoom", <<7>>),
     Whole([opcode |-> 1911, payload |-> <<>>]),
     [frame |-> None, bytes |-> <<0, 0, 0, 1>>],
     [frame |-> None, bytes |-> <<0, 1, 0, 0>>]}

\* Either the loop is at work, with the other direction gone, or it has returned.
ConnectionInit ==
    \/ ReadLoopInit /\ OutboundIdle /\ writer = "done" /\ senders = {}
    \/ ReadLoopIdle /\ at = "over" /\ OutboundInit

ConnectionNext ==
    \/ ReadLoopNext /\ UNCHANGED outboundVars
    \/ OutboundNext /\ UNCHANGED readVars

ConnectionSpec ==
    /\ ConnectionInit
    /\ [][ConnectionNext]_<<readVars, outboundVars>>
    /\ ReadLoopFairness /\ OutboundFairness
=============================================================================
