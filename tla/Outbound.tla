------------------------------ MODULE Outbound ------------------------------
(***************************************************************************)
(* The outbound queue of a connection: OutboundSender                      *)
(* (crates/net-kit/src/backpressure.rs) and the writer task of             *)
(* split_connection (connection.rs).                                       *)
(*                                                                         *)
(* Several tasks hold a clone of the sender: the connection's handlers,    *)
(* its room event translator, the registry that broadcasts.  Each offers   *)
(* its frames one after the other with try_send_frame, which looks at the  *)
(* disconnect flag, tries the bounded queue, and raises the flag if that   *)
(* failed: three steps, between which the others run.                      *)
(***************************************************************************)
EXTENDS Integers, Sequences, FiniteSets

CONSTANTS Producers,   \* tasks that hold a sender at first
          Capacity,    \* send_queue_capacity
          MaxOffers    \* bound: how many frames a producer offers

ASSUME OutboundAssumptions ==
    /\ Capacity \in Nat \ {0}
    /\ MaxOffers \in Nat

VARIABLES
    queue,         \* the frames in the channel, as <<producer, number>>
    disconnected,  \* the watch flag
    writer,        \* where the writer task is; its receiver goes with it
    writing,       \* whether a frame is being written to the socket
    senders,       \* producers that have not dropped their sender
    pc,            \* where a producer is in try_send_frame
    offered,       \* how many frames each producer has offered
    accepted,      \* auxiliary: the numbers of its frames that were queued
    overflow       \* auxiliary: "none"; "lost" once a frame found the queue
                   \* full; "resumed" if another frame was queued after it

outboundVars == <<queue, disconnected, writer, writing, senders, pc, offered,
                  accepted, overflow>>

-----------------------------------------------------------------------------
(***************************************************************************)
(* try_send_frame.                                                         *)
(***************************************************************************)
Goto(p, l) == pc' = [pc EXCEPT ![p] = l]

\* The frame of p is the next one; is_closed is asked first.
Check(p) ==
    /\ p \in senders
    /\ pc[p] = "idle"
    /\ offered[p] < MaxOffers
    /\ offered' = [offered EXCEPT ![p] = @ + 1]
    /\ Goto(p, IF disconnected \/ writer = "done" THEN "idle" ELSE "checked")
    /\ UNCHANGED <<queue, disconnected, writer, writing, senders, accepted, overflow>>

\* tx.try_send: into the queue, or Full, or Closed.
TrySend(p) ==
    LET fits == writer # "done" /\ Len(queue) < Capacity
    IN  /\ pc[p] = "checked"
        /\ Goto(p, IF fits THEN "idle" ELSE "refused")
        /\ IF fits
           THEN /\ queue' = Append(queue, <<p, offered[p]>>)
                /\ accepted' = [accepted EXCEPT ![p] = @ \cup {offered[p]}]
                /\ overflow' = IF overflow = "lost" THEN "resumed" ELSE overflow
           ELSE /\ overflow' = IF overflow = "none" /\ writer # "done"
                               THEN "lost" ELSE overflow
                /\ UNCHANGED <<queue, accepted>>
        /\ UNCHANGED <<disconnected, writer, writing, senders, offered>>

\* Mutant of Refused: the error is returned, the flag is not raised.
RefusedMildly(p) ==
    /\ pc[p] = "refused"
    /\ Goto(p, "idle")
    /\ UNCHANGED <<queue, disconnected, writer, writing, senders, offered,
                   accepted, overflow>>

\* The frame was refused: disconnect.
Refused(p) ==
    /\ pc[p] = "refused"
    /\ disconnected' = TRUE
    /\ Goto(p, "idle")
    /\ UNCHANGED <<queue, writer, writing, senders, offered, accepted, overflow>>

\* disconnect is also called when a room event was lost or cannot be encoded.
Disconnect(p) ==
    /\ p \in senders
    /\ pc[p] = "idle"
    /\ disconnected' = TRUE
    /\ UNCHANGED <<queue, writer, writing, senders, pc, offered, accepted, overflow>>

\* A producer ends, and its sender with it.
DropSender(p) ==
    /\ p \in senders
    /\ pc[p] = "idle"
    /\ senders' = senders \ {p}
    /\ UNCHANGED <<queue, disconnected, writer, writing, pc, offered, accepted,
                   overflow>>

-----------------------------------------------------------------------------
(***************************************************************************)
(* The writer.                                                             *)
(***************************************************************************)

\* The task ends and the receiver is dropped with what is still queued.
End ==
    /\ writer' = "done"
    /\ writing' = FALSE
    /\ queue' = <<>>
    /\ UNCHANGED <<disconnected, senders, pc, offered, accepted, overflow>>

\* All senders were dropped with the flag down: from now on the rest of the
\* queue is written against a deadline.
SendersGone ==
    /\ writer = "working"
    /\ ~disconnected
    /\ senders = {}
    /\ writer' = "draining"
    /\ UNCHANGED <<queue, disconnected, writing, senders, pc, offered, accepted,
                   overflow>>

\* Mutant of FlagSeen: the flag is looked at between two frames only.
FlagSeenLate == writer = "working" /\ disconnected /\ ~writing /\ End

\* The biased select sees the flag first, also in the middle of a frame.
FlagSeen == writer = "working" /\ disconnected /\ End

\* write_task takes a frame; one that cannot be encoded is skipped.
Take ==
    /\ \/ writer = "working" /\ ~disconnected
       \/ writer = "draining"
    /\ ~writing
    /\ queue # <<>>
    /\ queue' = Tail(queue)
    /\ writing' \in BOOLEAN
    /\ UNCHANGED <<disconnected, writer, senders, pc, offered, accepted, overflow>>

\* The socket took the frame; a peer that does not read stalls this step.
Written ==
    /\ writing
    /\ writing' = FALSE
    /\ UNCHANGED <<queue, disconnected, writer, senders, pc, offered, accepted,
                   overflow>>

WriteFails == writing /\ End

\* recv returns None; the writer may see this before it sees the senders gone.
QueueClosed ==
    /\ writer # "done"
    /\ senders = {}
    /\ ~writing
    /\ queue = <<>>
    /\ End

\* write_drain_timeout.
DrainTimesOut == writer = "draining" /\ End

\* The connection's guard aborts the task.
Abort == writer # "done" /\ End

-----------------------------------------------------------------------------
OutboundIdle ==
    /\ queue = <<>>
    /\ disconnected = FALSE
    /\ writing = FALSE
    /\ pc = [p \in Producers |-> "idle"]
    /\ offered = [p \in Producers |-> 0]
    /\ accepted = [p \in Producers |-> {}]
    /\ overflow = "none"

OutboundInit == OutboundIdle /\ writer = "working" /\ senders = Producers

Writer ==
    SendersGone \/ FlagSeen \/ Take \/ Written \/ WriteFails \/ QueueClosed
        \/ DrainTimesOut \/ Abort

OutboundNext ==
    \/ \E p \in Producers : \/ Check(p) \/ TrySend(p) \/ Refused(p)
                            \/ Disconnect(p) \/ DropSender(p)
    \/ Writer

OutboundSpec == OutboundInit /\ [][OutboundNext]_outboundVars

\* The writer is polled when the flag or the last sender wakes it, and its
\* deadline passes.  A peer need not read, nobody need offer or drop.
OutboundFairness ==
    /\ WF_outboundVars(SendersGone)
    /\ WF_outboundVars(FlagSeen)
    /\ WF_outboundVars(DrainTimesOut)
    /\ \A p \in Producers : WF_outboundVars(TrySend(p)) /\ WF_outboundVars(Refused(p))

FairOutboundSpec == OutboundSpec /\ OutboundFairness

-----------------------------------------------------------------------------
(***************************************************************************)
(* Properties.                                                             *)
(***************************************************************************)
Frame == Producers \X Nat

OutboundTypeOK ==
    /\ queue \in Seq(Frame)
    /\ Len(queue) <= Capacity
    /\ disconnected \in BOOLEAN
    /\ writer \in {"working", "draining", "done"}
    /\ writing \in BOOLEAN
    /\ senders \in SUBSET Producers
    /\ pc \in [Producers -> {"idle", "checked", "refused"}]
    /\ offered \in [Producers -> Nat]
    /\ accepted \in [Producers -> SUBSET Nat]
    /\ overflow \in {"none", "lost", "resumed"}

\* Of what one producer offers, the queue takes a prefix: once a frame was
\* refused no later one of the same producer is taken, though the queue may
\* have room again and the flag is raised only after the refusal.  The room
\* events of a connection, all sent by its translator, have no hole.
StreamPrefix ==
    \A p \in Producers : \A i \in accepted[p] : 1..i \subseteq accepted[p]

\* A writer whose connection is over ends, even when its peer does not read:
\* the flag interrupts a write in progress, and without the flag the deadline
\* does once all senders are gone.
WriterEnds == disconnected \/ senders = {} ~> writer = "done"

\* README.md:384: an OutboundSender that has overflowed can never be written
\* to again, even when older frames are consumed afterwards.
OverflowIsFinal == overflow # "resumed"
=============================================================================
