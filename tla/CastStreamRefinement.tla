------------------------ MODULE CastStreamRefinement ------------------------
(* CastStream implements AckWindow, and under a fair network it releases the  *)
(* frames the receiver has heard of.                                          *)
EXTENDS CastStream

\* The abstract state: finished and released frames are read off the
\* receiver's and the sender's records.
Window == INSTANCE AckWindow WITH
  WINDOW   <- MAX_UNACKED_FRAMES,
  accepted <- stream.next_frame_id,
  finished <- {f \in 0 .. stream.next_frame_id - 1 : Finished(f)},
  released <- {f \in 0 .. stream.next_frame_id - 1 : ~is_pending(stream, f)}

\* A stream behaves as the abstract window: frames are accepted in order within
\* the window, and released only after the receiver finished them.
ImplementsAckWindow == Window!Spec
-----------------------------------------------------------------------------
\* What the receiver misses, in some order.
AllMissing == CHOOSE nacks \in [1 .. Cardinality(Missing) -> Missing] : IsInjective(nacks)

\* The feedback a receiver sends periodically: all it has and all it misses.
FullFeedback == SendFeedback(AllMissing, TRUE)

\* The latest complete feedback is delivered.
LatestFeedbackArrives ==
  \E m \in rtcp, n \in Budget :
    /\ m.id = receiver.checkpoint
    /\ m.nacks = [i \in 1 .. Cardinality(Missing) |->
                    LET nack == AllMissing[i]
                    IN  [frame |-> truncate(nack.frame_id), packet_id |-> nack.packet_id, id |-> nack.frame_id]]
    /\ m.bits = {f - (receiver.checkpoint + 2) : f \in receiver.done \ {receiver.checkpoint + 1}}
    /\ ReceiveFeedback(m, n)

PacketArrives(frame_id, packet_id) ==
  \E p \in rtp : p.id = frame_id /\ p.packet_id = packet_id /\ DeliverPacket(p)

\* The burst timer keeps ticking and its budget is never zero for good; the
\* receiver keeps reporting and moving its checkpoint; the network empties, and
\* what is sent again and again arrives.  The producer need not be fair.
Fairness ==
  /\ WF_vars(\E n \in Budget : BurstTick(n))
  /\ WF_vars(AdvanceCheckpoint)
  /\ SF_vars(FullFeedback)
  /\ WF_vars(\E m \in rtcp : LoseFeedback(m))
  /\ SF_vars(LatestFeedbackArrives)
  /\ \A f \in 0 .. MaxFrames - 1, i \in 0 .. Max(PacketCounts) - 1 : SF_vars(PacketArrives(f, i))

FairSpec == Spec /\ Fairness

\* A frame in flight, once the receiver has seen a packet of it or of a later
\* frame, is eventually acknowledged.  The receiver has to have heard of it:
\* the sender repeats nothing that is not NACKed, so a lost last frame stays.
HeardFramesAreReleased ==
  \A f \in 0 .. MaxFrames - 1 :
    (is_pending(stream, f) /\ receiver.seen >= f) ~> ~is_pending(stream, f)
=============================================================================
