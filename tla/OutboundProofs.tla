--------------------------- MODULE OutboundProofs ---------------------------
(***************************************************************************)
(* Outbound is type correct and cuts every producer's stream at one point  *)
(* only, for any producers, capacity and number of offers.                 *)
(***************************************************************************)
EXTENDS Outbound, TLAPS

\* Nothing may be queued any more by a producer that starts to look.
Cut == disconnected \/ writer = "done"

(***************************************************************************)
(* StreamPrefix is not inductive: it does not say that what was queued     *)
(* reaches up to the frame in hand.  It does, for a producer that is about *)
(* to send, and for one that is idle as long as nothing has cut the        *)
(* connection.  A refusal breaks it, but the producer leaves "refused"     *)
(* only by raising the flag, and neither the flag nor the end of the       *)
(* writer is ever taken back.                                              *)
(***************************************************************************)
Contiguous ==
    \A p \in Producers :
        /\ pc[p] = "checked" => accepted[p] = 1..(offered[p] - 1) /\ offered[p] > 0
        /\ pc[p] = "idle" /\ ~Cut => accepted[p] = 1..offered[p]

StreamInv == OutboundTypeOK /\ StreamPrefix /\ Contiguous

\* The initial state satisfies the type invariant: split_connection's state.
LEMMA TypeInit == OutboundInit => OutboundTypeOK
<1> SUFFICES ASSUME OutboundInit PROVE OutboundTypeOK
    OBVIOUS
<1>1. queue \in Seq(Frame) /\ Len(queue) <= Capacity
    BY OutboundAssumptions DEF OutboundAssumptions, OutboundInit, OutboundIdle
<1>2. disconnected \in BOOLEAN /\ writing \in BOOLEAN
    BY Zenon DEF OutboundInit, OutboundIdle
<1>3. /\ pc \in [Producers -> {"idle", "checked", "refused"}]
      /\ offered \in [Producers -> Nat]
      /\ accepted \in [Producers -> SUBSET Nat]
      /\ senders \in SUBSET Producers
    BY DEF OutboundInit, OutboundIdle
<1> QED BY <1>1, <1>2, <1>3, Zenon DEF OutboundInit, OutboundIdle, OutboundTypeOK

\* Ending the writer is well typed, whatever ended it.
LEMMA EndType == OutboundTypeOK /\ End => OutboundTypeOK'
<1> SUFFICES ASSUME OutboundTypeOK, End PROVE OutboundTypeOK'
    OBVIOUS
<1>1. queue' \in Seq(Frame) /\ Len(queue') <= Capacity
    BY OutboundAssumptions DEF OutboundAssumptions, End
<1>2. Frame' = Frame
    BY DEF Frame
<1> QED BY <1>1, <1>2, Zenon DEF End, OutboundTypeOK

\* Every step of a producer or the writer keeps the types and the bound.
LEMMA TypeStep == OutboundTypeOK /\ [OutboundNext]_outboundVars => OutboundTypeOK'
<1> SUFFICES ASSUME OutboundTypeOK, [OutboundNext]_outboundVars
             PROVE  OutboundTypeOK'
    OBVIOUS
<1>1. CASE UNCHANGED outboundVars
    BY <1>1 DEF OutboundTypeOK, outboundVars, Frame
<1>2. ASSUME NEW p \in Producers, Check(p) PROVE OutboundTypeOK'
    BY <1>2 DEF Check, Goto, OutboundTypeOK, Frame
<1>3. ASSUME NEW p \in Producers, TrySend(p) PROVE OutboundTypeOK'
    <2>1. CASE writer # "done" /\ Len(queue) < Capacity
        <3>1. queue' = Append(queue, <<p, offered[p]>>) /\ <<p, offered[p]>> \in Frame
            BY <1>3, <2>1 DEF TrySend, OutboundTypeOK, Frame
        <3>2. queue' \in Seq(Frame) /\ Len(queue') <= Capacity
            BY <3>1, <2>1, OutboundAssumptions DEF OutboundAssumptions, OutboundTypeOK
        <3>3. pc' \in [Producers -> {"idle", "checked", "refused"}]
            BY <1>3, <2>1 DEF TrySend, Goto, OutboundTypeOK
        <3>4. accepted' \in [Producers -> SUBSET Nat]
            <4>1. accepted' = [accepted EXCEPT ![p] = accepted[p] \cup {offered[p]}]
                BY <1>3, <2>1 DEF TrySend
            <4>2. accepted[p] \cup {offered[p]} \in SUBSET Nat
                BY DEF OutboundTypeOK
            <4> QED BY <4>1, <4>2 DEF OutboundTypeOK
        <3>5. overflow' \in {"none", "lost", "resumed"}
            BY <1>3, <2>1 DEF TrySend, OutboundTypeOK
        <3> QED BY <1>3, <3>2, <3>3, <3>4, <3>5 DEF TrySend, OutboundTypeOK
    <2>2. CASE ~(writer # "done" /\ Len(queue) < Capacity)
        BY <1>3, <2>2 DEF TrySend, Goto, OutboundTypeOK, Frame
    <2> QED BY <2>1, <2>2
<1>4. ASSUME NEW p \in Producers, Refused(p) \/ Disconnect(p) \/ DropSender(p)
      PROVE  OutboundTypeOK'
    BY <1>4, Zenon DEF Refused, Disconnect, DropSender, Goto, OutboundTypeOK, Frame
<1>5. CASE SendersGone \/ Written
    BY <1>5, Zenon DEF SendersGone, Written, OutboundTypeOK, Frame
<1>6. CASE Take
    <2>1. queue' \in Seq(Frame) /\ Len(queue') <= Capacity
        BY <1>6, OutboundAssumptions DEF OutboundAssumptions, Take, OutboundTypeOK
    <2> QED BY <1>6, <2>1 DEF Take, OutboundTypeOK, Frame
<1>7. CASE FlagSeen \/ WriteFails \/ QueueClosed \/ DrainTimesOut \/ Abort
    BY <1>7, EndType DEF FlagSeen, WriteFails, QueueClosed, DrainTimesOut, Abort
<1> QED
    BY <1>1, <1>2, <1>3, <1>4, <1>5, <1>6, <1>7 DEF OutboundNext, Writer

\* The outbound queue never exceeds send_queue_capacity, and the state of the
\* connection's senders and writer stays well typed.
THEOREM OutboundTypeCorrect == OutboundSpec => []OutboundTypeOK
BY TypeInit, TypeStep, PTL DEF OutboundSpec

-----------------------------------------------------------------------------
\* A step that touches no producer and does not mend a cut keeps the streams.
LEMMA OthersKeepStreams ==
    ASSUME StreamInv, UNCHANGED <<pc, offered, accepted>>, Cut => Cut'
    PROVE  StreamPrefix' /\ Contiguous'
BY DEF StreamInv, StreamPrefix, Contiguous

\* One producer's step keeps the streams if it does so for that producer.
LEMMA OneKeepsStreams ==
    ASSUME StreamInv, Cut => Cut', NEW p \in Producers,
           \A q \in Producers \ {p} :
              pc'[q] = pc[q] /\ offered'[q] = offered[q] /\ accepted'[q] = accepted[q],
           \A i \in accepted'[p] : 1..i \subseteq accepted'[p],
           pc'[p] = "checked" => accepted'[p] = 1..(offered'[p] - 1) /\ offered'[p] > 0,
           pc'[p] = "idle" /\ ~Cut' => accepted'[p] = 1..offered'[p]
    PROVE  StreamPrefix' /\ Contiguous'
BY DEF StreamInv, StreamPrefix, Contiguous

\* Every step of a producer or the writer keeps the stream invariant.
LEMMA StreamStep == StreamInv /\ [OutboundNext]_outboundVars => StreamInv'
<1> SUFFICES ASSUME StreamInv, [OutboundNext]_outboundVars
             PROVE  StreamPrefix' /\ Contiguous'
    BY TypeStep DEF StreamInv
<1>1. CASE UNCHANGED outboundVars
    BY <1>1, OthersKeepStreams DEF outboundVars, Cut
<1>2. ASSUME NEW p \in Producers, Check(p) PROVE StreamPrefix' /\ Contiguous'
    <2>1. /\ accepted' = accepted
          /\ offered'[p] = offered[p] + 1 /\ offered[p] \in Nat
          /\ pc'[p] = IF Cut THEN "idle" ELSE "checked"
          /\ \A q \in Producers \ {p} : pc'[q] = pc[q] /\ offered'[q] = offered[q]
          /\ Cut' = Cut
        BY <1>2 DEF Check, Goto, Cut, StreamInv, OutboundTypeOK
    <2>2. ~Cut => accepted[p] = 1..offered[p]
        BY <1>2 DEF Check, StreamInv, Contiguous
    <2>3. \A i \in accepted'[p] : 1..i \subseteq accepted'[p]
        BY <2>1 DEF StreamInv, StreamPrefix
    <2>4. pc'[p] = "checked" => accepted'[p] = 1..(offered'[p] - 1) /\ offered'[p] > 0
        BY <2>1, <2>2
    <2>5. ~(pc'[p] = "idle" /\ ~Cut')
        BY <2>1
    <2> QED BY <2>1, <2>3, <2>4, <2>5, OneKeepsStreams
<1>3. ASSUME NEW p \in Producers, TrySend(p) PROVE StreamPrefix' /\ Contiguous'
    <2>1. /\ accepted[p] = 1..(offered[p] - 1) /\ offered[p] > 0 /\ offered[p] \in Nat
          /\ offered' = offered /\ Cut' = Cut
          /\ \A q \in Producers \ {p} : pc'[q] = pc[q] /\ accepted'[q] = accepted[q]
        BY <1>3 DEF TrySend, Goto, Cut, StreamInv, Contiguous, OutboundTypeOK
    <2>2. CASE writer # "done" /\ Len(queue) < Capacity
        <3>1. pc'[p] = "idle" /\ accepted'[p] = accepted[p] \cup {offered[p]}
            BY <1>3, <2>2 DEF TrySend, Goto, StreamInv, OutboundTypeOK
        <3>2. accepted'[p] = 1..offered'[p]
            BY <3>1, <2>1
        <3>3. \A i \in accepted'[p] : 1..i \subseteq accepted'[p]
            BY <3>2, <2>1
        <3> QED BY <2>1, <3>1, <3>2, <3>3, OneKeepsStreams
    <2>3. CASE ~(writer # "done" /\ Len(queue) < Capacity)
        <3>1. pc'[p] = "refused" /\ accepted' = accepted
            BY <1>3, <2>3 DEF TrySend, Goto, StreamInv, OutboundTypeOK
        <3>2. \A i \in accepted'[p] : 1..i \subseteq accepted'[p]
            BY <3>1 DEF StreamInv, StreamPrefix
        <3> QED BY <2>1, <3>1, <3>2, OneKeepsStreams
    <2> QED BY <2>2, <2>3
<1>4. ASSUME NEW p \in Producers, Refused(p) PROVE StreamPrefix' /\ Contiguous'
    <2>1. /\ accepted' = accepted /\ offered' = offered /\ Cut'
          /\ pc'[p] = "idle"
          /\ \A q \in Producers \ {p} : pc'[q] = pc[q]
        BY <1>4 DEF Refused, Goto, Cut, StreamInv, OutboundTypeOK
    <2>2. \A i \in accepted'[p] : 1..i \subseteq accepted'[p]
        BY <2>1 DEF StreamInv, StreamPrefix
    <2> QED BY <2>1, <2>2, OneKeepsStreams
<1>5. ASSUME NEW p \in Producers, Disconnect(p) \/ DropSender(p)
      PROVE  StreamPrefix' /\ Contiguous'
    BY <1>5, OthersKeepStreams DEF Disconnect, DropSender, Cut
<1>6. CASE SendersGone \/ Take \/ Written
    BY <1>6, OthersKeepStreams DEF SendersGone, Take, Written, Cut
<1>7. CASE FlagSeen \/ WriteFails \/ QueueClosed \/ DrainTimesOut \/ Abort
    BY <1>7, OthersKeepStreams
    DEF FlagSeen, WriteFails, QueueClosed, DrainTimesOut, Abort, End, Cut
<1> QED
    BY <1>1, <1>2, <1>3, <1>4, <1>5, <1>6, <1>7 DEF OutboundNext, Writer

\* What the queue takes of one producer's frames is a prefix of them: the
\* disconnect that follows a refusal is in time for the producer's next frame.
THEOREM StreamCorrect == OutboundSpec => []StreamPrefix
<1>1. OutboundInit => StreamInv
    BY TypeInit DEF OutboundInit, OutboundIdle, StreamInv, StreamPrefix, Contiguous
<1>2. StreamInv => StreamPrefix
    BY DEF StreamInv
<1> QED BY <1>1, <1>2, StreamStep, PTL DEF OutboundSpec
=============================================================================
