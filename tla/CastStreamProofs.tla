-------------------------- MODULE CastStreamProofs --------------------------
(* The safety of one media stream for every window, every range of wire ids,  *)
(* every number of frames, packets and datagrams: CastStream's invariants and *)
(* action property, and that it implements AckWindow.                         *)
EXTENDS CastStreamRefinement, StreamStateProofs

\* The receiver knows only frames that were accepted, and keeps as finished
\* only those above its checkpoint.
ReceiverIsSound ==
  /\ -1 <= receiver.checkpoint /\ receiver.checkpoint < stream.next_frame_id
  /\ receiver.seen < stream.next_frame_id
  /\ \A f \in receiver.done : receiver.checkpoint < f /\ f < stream.next_frame_id

\* A packet in the network carries its frame's wire id and is not too old.
PacketIsSound(p) ==
  /\ p.frame = truncate(p.id)
  /\ p.id < stream.next_frame_id
  /\ 2 * (stream.next_frame_id - p.id) <= FRAME_ID_MODULUS

\* A feedback in the network reports a checkpoint the receiver had and frames it
\* had finished, names frames within a window of that checkpoint, and is not
\* too old.
FeedbackIsSound(m) ==
  /\ m.checkpoint = truncate(m.id)
  /\ -1 <= m.id /\ m.id <= receiver.checkpoint
  /\ stream.next_frame_id - m.id <= FRAME_ID_MODULUS
  /\ \A k \in m.bits : Finished(m.id + 2 + k)
  /\ \A i \in 1 .. Len(m.nacks) :
       /\ m.nacks[i].frame = truncate(m.nacks[i].id)
       /\ m.nacks[i].id - m.id \in 1 .. MAX_UNACKED_FRAMES

MessagesAreSound ==
  /\ \A p \in rtp : PacketIsSound(p)
  /\ \A m \in rtcp : FeedbackIsSound(m)

\* The inductive invariant.
IInv ==
  /\ TypeOK
  /\ stream_inv(stream)
  /\ ReleasedFramesAreFinished
  /\ ReceiverIsSound
  /\ MessagesAreSound
-----------------------------------------------------------------------------
\* The facts of IInv that most steps use.
LEMMA Facts ==
  ASSUME IInv
  PROVE  /\ stream.next_frame_id \in Nat /\ stream.checkpoint \in Int
         /\ stream.next_frame_id - (stream.checkpoint + 1) \in 0 .. MAX_UNACKED_FRAMES
         /\ -1 <= stream.checkpoint /\ stream.checkpoint <= receiver.checkpoint
         /\ receiver.checkpoint \in Int /\ receiver.seen \in Int /\ receiver.done \in SUBSET Nat
         /\ receiver.got \in SUBSET (Nat \X Nat)
         /\ -1 <= receiver.checkpoint /\ receiver.checkpoint < stream.next_frame_id
         /\ receiver.seen < stream.next_frame_id
         /\ \A f \in receiver.done : receiver.checkpoint < f /\ f < stream.next_frame_id
         /\ MAX_UNACKED_FRAMES \in Nat \ {0} /\ 2 * MAX_UNACKED_FRAMES < FRAME_ID_MODULUS
         /\ FRAME_ID_MODULUS \in Nat \ {0}
         /\ FRAME_ID_MODULUS = 2 * (FRAME_ID_MODULUS \div 2) /\ FRAME_ID_MODULUS \div 2 \in Nat
  <1>1. /\ stream.next_frame_id \in Nat /\ stream.checkpoint \in Int
        /\ stream.next_frame_id - (stream.checkpoint + 1) \in 0 .. MAX_UNACKED_FRAMES
        /\ -1 <= stream.checkpoint
    BY Zenon DEF IInv, stream_inv, Streams, window_is_sound, in_flight_id_span
  <1>2. stream.checkpoint <= receiver.checkpoint
    BY Zenon DEF IInv, ReleasedFramesAreFinished
  <1>3. /\ receiver.checkpoint \in Int /\ receiver.seen \in Int /\ receiver.done \in SUBSET Nat
        /\ receiver.got \in SUBSET (Nat \X Nat)
    BY Zenon DEF IInv, TypeOK, Receivers
  <1>4. /\ -1 <= receiver.checkpoint /\ receiver.checkpoint < stream.next_frame_id
        /\ receiver.seen < stream.next_frame_id
        /\ \A f \in receiver.done : receiver.checkpoint < f /\ f < stream.next_frame_id
    BY Zenon DEF IInv, ReceiverIsSound
  <1>5. /\ FRAME_ID_MODULUS \in Nat \ {0}
        /\ FRAME_ID_MODULUS = 2 * (FRAME_ID_MODULUS \div 2) /\ FRAME_ID_MODULUS \div 2 \in Nat
    BY FrameIdModulusAssumption, DivMod, SMT
  <1> QED
    BY <1>1, <1>2, <1>3, <1>4, <1>5, WindowAssumption, Zenon

\* A packet's wire id, expanded by the receiver, is the packet's frame.
LEMMA PacketExpands ==
  ASSUME IInv, NEW p \in rtp
  PROVE  /\ expand(p.frame, receiver.checkpoint) = p.id
         /\ p.id \in Nat /\ p.id < stream.next_frame_id
         /\ p.packet_id \in Nat
  <1>1. p.id \in Nat /\ p.packet_id \in Nat
    BY Zenon DEF IInv, TypeOK, WirePackets
  <1>2. PacketIsSound(p)
    BY Zenon DEF IInv, MessagesAreSound
  <1> DEFINE c == receiver.checkpoint
             f == p.id
             h == FRAME_ID_MODULUS \div 2
  <1>3. c \in Int /\ f \in Int /\ -h <= f - c /\ f - c < h
    BY <1>1, <1>2, Facts DEF PacketIsSound
  <1>4. p.frame = truncate(f) /\ f < stream.next_frame_id
    BY <1>2, Zenon DEF PacketIsSound
  <1> HIDE DEF c, f
  <1>5. expand(truncate(f), c) = f
    BY <1>3, ExpandExact, Zenon
  <1> QED
    BY <1>1, <1>4, <1>5, Zenon DEF c, f

\* The sender reads a feedback as it was meant.
LEMMA FeedbackExpands ==
  ASSUME IInv, NEW m \in rtcp
  PROVE  /\ any_feedback(m)
         /\ m.id \in Int /\ -1 <= m.id /\ m.id <= receiver.checkpoint
         /\ feedback_checkpoint(stream, m) = m.id
         /\ \A i \in 1 .. Len(m.nacks) : feedback_nacks(stream, m)[i].frame_id = m.nacks[i].id
  <1>1. m \in Feedbacks
    BY Zenon DEF IInv, TypeOK
  <1>2. any_feedback(m) /\ m.id \in Int /\ m.nacks \in Seq(WireNacks)
    <2>1. /\ m.checkpoint \in Nat /\ m.bits \in SUBSET Nat /\ m.nacks \in Seq(WireNacks)
          /\ m.id \in Int
      BY <1>1, Zenon DEF Feedbacks
    <2>2. \A ns \in Seq(WireNacks) : Len(ns) \in Nat /\ \A i \in 1 .. Len(ns) : ns[i] \in WireNacks
      OBVIOUS
    <2>3. \A n \in WireNacks : n.frame \in Nat /\ n.packet_id \in Nat
      BY Zenon DEF WireNacks
    <2> QED
      BY <2>1, <2>2, <2>3, Zenon DEF any_feedback
  <1>3. FeedbackIsSound(m)
    BY Zenon DEF IInv, MessagesAreSound
  <1> DEFINE c == m.id
             r == stream.next_frame_id - 1
  <1>4. c \in Int /\ r \in Int /\ c <= r /\ r - c < FRAME_ID_MODULUS
    <2>1. c <= receiver.checkpoint /\ stream.next_frame_id - c <= FRAME_ID_MODULUS
      BY <1>3, Zenon DEF FeedbackIsSound
    <2>2. /\ stream.next_frame_id \in Nat /\ receiver.checkpoint \in Int
          /\ receiver.checkpoint < stream.next_frame_id /\ FRAME_ID_MODULUS \in Nat
      BY Facts, Zenon
    <2>3. c \in Int
      BY <1>2, Zenon
    <2> HIDE DEF c
    <2> QED
      BY <2>1, <2>2, <2>3
  <1>5. expand_lte(truncate(c), r) = c
    <2> HIDE DEF c, r
    <2> QED
      BY <1>4, ExpandLteExact, Zenon
  <1>6. feedback_checkpoint(stream, m) = c
    BY <1>3, <1>5, Zenon DEF feedback_checkpoint, FeedbackIsSound
  <1>7. ASSUME NEW i \in 1 .. Len(m.nacks)
        PROVE  feedback_nacks(stream, m)[i].frame_id = m.nacks[i].id
    <2> DEFINE f == m.nacks[i].id
    <2>1. m.nacks[i] \in WireNacks
      BY <1>2
    <2>2. f \in Int
      BY <2>1 DEF WireNacks
    <2>3. m.nacks[i].frame = truncate(f) /\ f - c \in 1 .. MAX_UNACKED_FRAMES
      BY <1>3, Zenon DEF FeedbackIsSound
    <2>4. -(FRAME_ID_MODULUS \div 2) <= f - c /\ f - c < FRAME_ID_MODULUS \div 2
      <3>1. /\ MAX_UNACKED_FRAMES \in Nat /\ 2 * MAX_UNACKED_FRAMES < FRAME_ID_MODULUS
            /\ FRAME_ID_MODULUS = 2 * (FRAME_ID_MODULUS \div 2) /\ FRAME_ID_MODULUS \div 2 \in Nat
        BY Facts, Zenon
      <3> HIDE DEF c, f
      <3> QED
        BY <1>4, <2>2, <2>3, <3>1
    <2>5. feedback_nacks(stream, m)[i].frame_id = expand(m.nacks[i].frame, c)
      BY <1>6, Zenon DEF feedback_nacks
    <2> HIDE DEF c, f
    <2>6. expand(truncate(f), c) = f
      BY <1>4, <2>2, <2>4, ExpandExact, Zenon
    <2> QED
      BY <2>3, <2>5, <2>6, Zenon DEF f
  <1> QED
    BY <1>2, <1>3, <1>6, <1>7, Zenon DEF FeedbackIsSound

\* Every id on the wire is read as it was meant.
LEMMA WireIds == IInv => WireIdsAreUnambiguous
  BY PacketExpands, FeedbackExpands, Zenon DEF WireIdsAreUnambiguous
-----------------------------------------------------------------------------
\* The invariant holds before anything is sent.
LEMMA InitIInv == Init => IInv
  <1>1. SUFFICES ASSUME Init PROVE IInv
    OBVIOUS
  <1>2. stream_inv(stream) /\ stream \in Streams
    BY <1>1, NewStreamInv, Zenon DEF Init, stream_inv
  <1>3. stream.next_frame_id = 0 /\ stream.checkpoint = -1
    BY <1>1 DEF Init, new_stream, FIRST_FRAME_ID
  <1>4. receiver.checkpoint = -1 /\ receiver.seen = -1 /\ receiver.done = {} /\ receiver \in Receivers
    BY <1>1 DEF Init, Receivers
  <1>5. TypeOK
    BY <1>1, <1>2, <1>4, Zenon DEF Init, TypeOK
  <1>6. ReceiverIsSound
    BY <1>3, <1>4 DEF ReceiverIsSound
  <1>7. ReleasedFramesAreFinished
    BY <1>3, <1>4 DEF ReleasedFramesAreFinished
  <1>8. MessagesAreSound
    BY <1>1, Zenon DEF Init, MessagesAreSound
  <1> QED
    BY <1>2, <1>5, <1>6, <1>7, <1>8, Zenon DEF IInv

\* What a flush leaves: the stream it was given, less the packets sent; on the
\* wire, packets and feedback the network still carries.
LEMMA FlushStep ==
  ASSUME IInv, NEW STATE s, stream_inv(s), stream.next_frame_id <= s.next_frame_id,
         NEW n \in Nat, Flush(s, n)
  PROVE  /\ stream_inv(stream')
         /\ stream'.next_frame_id = s.next_frame_id
         /\ stream'.checkpoint = s.checkpoint
         /\ stream'.pending = s.pending
         /\ rtp' \subseteq WirePackets
         /\ \A p \in rtp' : PacketIsSound(p)'
         /\ rtcp' \subseteq rtcp
         /\ \A m \in rtcp' : stream'.next_frame_id - m.id <= FRAME_ID_MODULUS
  <1>1. n <= Len(queued(s)) /\ stream' = pop_packets(s, n)
    BY Zenon DEF Flush
  <1>2. /\ stream_inv(stream')
        /\ stream'.next_frame_id = s.next_frame_id
        /\ stream'.checkpoint = s.checkpoint
        /\ stream'.pending = s.pending
    BY <1>1, PopPacketsInv, Zenon
  <1>3. /\ s.retransmit_queue \in Seq(Packets) /\ s.send_queue \in Seq(Packets)
        /\ s.next_frame_id \in Nat
    BY Zenon DEF stream_inv, Streams
  <1>4. ASSUME NEW i \in 1 .. n
        PROVE  queued(s)[i] \in Packets /\ queued(s)[i].frame_id < s.next_frame_id
    <2> DEFINE u == s.retransmit_queue
               w == s.send_queue
    <2>1. u \in Seq(Packets) /\ w \in Seq(Packets)
      BY <1>3, Zenon
    <2>2. queue_is_in_flight(s, u) /\ queue_is_in_flight(s, w)
      BY Zenon DEF stream_inv
    <2>3. queued(s) = u \o w
      BY Zenon DEF queued
    <2> HIDE DEF u, w
    <2>4. i \in 1 .. Len(u \o w)
      <3>1. Len(u \o w) \in Nat
        BY <2>1
      <3> QED
        BY <1>1, <2>3, <3>1
    <2>5. \/ \E j \in 1 .. Len(u) : (u \o w)[i] = u[j]
          \/ \E j \in 1 .. Len(w) : (u \o w)[i] = w[j]
      BY <2>1, <2>4, ConcatElements
    <2> DEFINE p == (u \o w)[i]
    <2> HIDE DEF p
    <2>6. p \in Packets /\ is_pending(s, p.frame_id)
      <3>1. CASE \E j \in 1 .. Len(u) : p = u[j]
        BY <2>1, <2>2, <3>1 DEF queue_is_in_flight
      <3>2. CASE \E j \in 1 .. Len(w) : p = w[j]
        BY <2>1, <2>2, <3>2 DEF queue_is_in_flight
      <3> QED
        BY <2>5, <3>1, <3>2, Zenon DEF p
    <2>7. p.frame_id \in Int
      BY <2>6 DEF Packets
    <2>8. p.frame_id < s.next_frame_id
      BY <2>6, <2>7, PendingInWindow, Zenon
    <2> QED
      BY <2>3, <2>6, <2>8, Zenon DEF p
  <1>5. rtp' = Carried(rtp \cup {OnWire(queued(s)[i]) : i \in 1 .. n}, s.next_frame_id, RTP_LIFETIME)
    BY Zenon DEF Flush
  <1>6. ASSUME NEW p \in rtp'
        PROVE  p \in WirePackets /\ PacketIsSound(p)'
    <2>1. s.next_frame_id - p.id <= RTP_LIFETIME
      BY <1>5, Zenon DEF Carried
    <2>2. p \in WirePackets /\ p.frame = truncate(p.id) /\ p.id < s.next_frame_id
      <3>1. CASE p \in rtp
        <4>1. p \in WirePackets /\ p.frame = truncate(p.id) /\ p.id < stream.next_frame_id
          BY <3>1, Zenon DEF IInv, TypeOK, MessagesAreSound, PacketIsSound
        <4>2. p.id \in Nat /\ stream.next_frame_id \in Nat
          BY <4>1, Facts, Zenon DEF WirePackets
        <4> QED
          BY <1>3, <4>1, <4>2
      <3>2. CASE p \notin rtp
        <4>1. PICK i \in 1 .. n : p = OnWire(queued(s)[i])
          BY <1>5, <3>2, Zenon DEF Carried
        <4> DEFINE q == queued(s)[i]
        <4>2. q \in Packets /\ q.frame_id < s.next_frame_id
          BY <1>4, Zenon
        <4>3. p = OnWire(q)
          BY <4>1, Zenon
        <4> HIDE DEF q
        <4>4. truncate(q.frame_id) \in Nat
          <5>1. q.frame_id \in Int
            BY <4>2 DEF Packets
          <5>2. truncate(q.frame_id) \in 0 .. FRAME_ID_MODULUS - 1
            BY <5>1, TruncateType, Zenon
          <5> QED
            BY <5>2, FrameIdModulusAssumption
        <4> QED
          BY <4>2, <4>3, <4>4, Zenon DEF OnWire, Packets, WirePackets
      <3> QED
        BY <3>1, <3>2, Zenon
    <2>3. p.id \in Nat
      BY <2>2, Zenon DEF WirePackets
    <2>4. 2 * (s.next_frame_id - p.id) <= FRAME_ID_MODULUS
      BY <1>3, <2>1, <2>3, LifetimeAssumption, FrameIdModulusAssumption
    <2> QED
      BY <1>2, <2>2, <2>4, Zenon DEF PacketIsSound
  <1>7. rtcp' = Carried(rtcp, s.next_frame_id, RTCP_LIFETIME)
    BY Zenon DEF Flush
  <1>8. ASSUME NEW m \in rtcp'
        PROVE  m \in rtcp /\ s.next_frame_id - m.id <= FRAME_ID_MODULUS
    <2>1. m \in rtcp /\ s.next_frame_id - m.id <= RTCP_LIFETIME
      BY <1>7, Zenon DEF Carried
    <2>2. m.id \in Int
      BY <2>1, FeedbackExpands, Zenon
    <2> QED
      BY <1>3, <2>1, <2>2, LifetimeAssumption, FrameIdModulusAssumption
  <1> QED
    BY <1>2, <1>6, <1>8, Zenon

\* A sender step that turned its stream into s, and flushed it, keeps IInv.
LEMMA SenderStep ==
  ASSUME IInv, NEW STATE s, stream_inv(s), stream.next_frame_id <= s.next_frame_id,
         s.checkpoint <= receiver.checkpoint,
         \A f \in 0 .. s.next_frame_id - 1 : is_pending(s, f) \/ Finished(f),
         NEW n \in Nat, Flush(s, n), UNCHANGED receiver
  PROVE  IInv'
  <1>1. /\ stream_inv(stream')
        /\ stream'.next_frame_id = s.next_frame_id
        /\ stream'.checkpoint = s.checkpoint
        /\ stream'.pending = s.pending
        /\ rtp' \subseteq WirePackets
        /\ \A p \in rtp' : PacketIsSound(p)'
        /\ rtcp' \subseteq rtcp
        /\ \A m \in rtcp' : stream'.next_frame_id - m.id <= FRAME_ID_MODULUS
    BY FlushStep, Zenon
  <1>2. s.next_frame_id \in Nat
    BY Zenon DEF stream_inv, Streams
  <1>3. TypeOK'
    BY <1>1, Zenon DEF IInv, TypeOK, stream_inv
  <1>4. ReleasedFramesAreFinished'
    BY <1>1, Zenon DEF ReleasedFramesAreFinished, is_pending, Finished
  <1>5. ReceiverIsSound'
    BY <1>1, <1>2, Facts DEF ReceiverIsSound
  <1>6. ASSUME NEW m \in rtcp'
        PROVE  FeedbackIsSound(m)'
    <2>1. FeedbackIsSound(m)
      BY <1>1, Zenon DEF IInv, MessagesAreSound
    <2> QED
      BY <1>1, <2>1, Zenon DEF FeedbackIsSound, Finished
  <1> QED
    BY <1>1, <1>3, <1>4, <1>5, <1>6, Zenon DEF IInv, MessagesAreSound

\* What NoRegression says of one step.
StreamStep ==
  /\ stream'.checkpoint >= stream.checkpoint
  /\ \A f \in 0 .. stream.next_frame_id - 1 : is_pending(stream', f) => is_pending(stream, f)

\* How the steps look to AckWindow: one frame is accepted, ...
Accepts ==
  /\ UNCHANGED receiver
  /\ ~(in_flight_id_span(stream) >= MAX_UNACKED_FRAMES)
  /\ stream'.next_frame_id = stream.next_frame_id + 1
  /\ \A f \in Int : is_pending(stream', f) <=> is_pending(stream, f) \/ f = stream.next_frame_id

\* ... finished frames are released, ...
Releases ==
  /\ UNCHANGED receiver
  /\ stream'.next_frame_id = stream.next_frame_id

\* ... or the receiver finishes at most one frame.
Finishes ==
  /\ UNCHANGED stream
  /\ \/ \A g \in Int : Finished(g)' <=> Finished(g)
     \/ \E f \in 0 .. stream.next_frame_id - 1 :
          \A g \in Int : Finished(g)' <=> Finished(g) \/ g = f

\* What the producer submits has the type of a frame.
LEMMA SubmittedFramesType == SubmittedFrames \subseteq AnyFrames
  <1>1. SUFFICES ASSUME NEW frame \in SubmittedFrames PROVE frame \in AnyFrames
    OBVIOUS
  <1> DEFINE times == {stream.next_frame_id - 1, stream.next_frame_id} \cap Nat
             durations == {1}
             kinds == {"KeyFrame", "Delta"}
  <1>2. PacketCounts \subseteq Nat /\ times \subseteq Nat /\ durations \subseteq Nat
    BY BoundsAssumption, PacketIdAssumption
  <1>3. frame \in [packets : PacketCounts, dependency : kinds, media_timestamp : times, duration : durations]
    BY Zenon DEF SubmittedFrames
  <1> HIDE DEF times, durations, kinds
  <1>4. frame \in [packets : Nat, dependency : kinds, media_timestamp : Nat, duration : Nat]
    BY <1>2, <1>3, Zenon
  <1> QED
    BY <1>4, Zenon DEF AnyFrames, kinds

\* An accepted frame gets an id above the window and a free slot, so the sender
\* stays sound and datagrams in the network stay recognisable.
LEMMA EnqueueFrameStep ==
  ASSUME IInv, NEW frame \in SubmittedFrames, NEW n \in Nat, EnqueueFrame(frame, n)
  PROVE  IInv' /\ StreamStep /\ Accepts
  <1> DEFINE s == accept_frame(stream, frame)
  <1>1. enqueue_error(stream, frame) = None /\ Flush(s, n) /\ UNCHANGED receiver
    BY Zenon DEF EnqueueFrame
  <1>2. frame \in AnyFrames
    BY SubmittedFramesType, Zenon
  <1>3. stream_inv(stream)
    BY Zenon DEF IInv
  <1>4. /\ stream_inv(s)
        /\ s.next_frame_id = stream.next_frame_id + 1
        /\ s.checkpoint = stream.checkpoint
        /\ \A f \in Int : is_pending(s, f) <=> is_pending(stream, f) \/ f = stream.next_frame_id
    BY <1>1, <1>2, <1>3, AcceptFrameInv, Zenon
  <1> HIDE DEF s
  <1>5. \A f \in 0 .. s.next_frame_id - 1 : is_pending(s, f) \/ Finished(f)
    BY <1>4, Facts DEF IInv, ReleasedFramesAreFinished
  <1>6. s.checkpoint <= receiver.checkpoint /\ stream.next_frame_id <= s.next_frame_id
    BY <1>4, Facts
  <1>7. IInv'
    BY <1>1, <1>4, <1>5, <1>6, SenderStep, Zenon
  <1>8. stream'.checkpoint = s.checkpoint /\ stream'.pending = s.pending
    BY <1>1, <1>4, <1>6, FlushStep, Zenon
  <1>9. \A f \in Int : is_pending(stream', f) <=> is_pending(s, f)
    BY <1>8, Zenon DEF is_pending
  <1>10. StreamStep
    BY <1>4, <1>8, <1>9, Facts DEF StreamStep
  <1>11. stream'.next_frame_id = s.next_frame_id
    BY <1>1, <1>4, <1>6, FlushStep, Zenon
  <1>12. ~(in_flight_id_span(stream) >= MAX_UNACKED_FRAMES)
    BY <1>1, <1>2, EnqueueChecks, Zenon
  <1>13. Accepts
    BY <1>1, <1>4, <1>9, <1>11, <1>12, Zenon DEF Accepts
  <1> QED
    BY <1>7, <1>10, <1>13, Zenon

\* Feedback, however late, names its checkpoint and frames correctly, so only
\* finished frames are released.
LEMMA ReceiveFeedbackStep ==
  ASSUME IInv, NEW m \in rtcp, NEW n \in Nat, ReceiveFeedback(m, n)
  PROVE  IInv' /\ StreamStep /\ Releases
  <1> DEFINE s == process_feedback(stream, m)
  <1>1. Flush(s, n) /\ UNCHANGED receiver
    BY Zenon DEF ReceiveFeedback
  <1>2. /\ any_feedback(m)
        /\ m.id \in Int /\ -1 <= m.id /\ m.id <= receiver.checkpoint
        /\ feedback_checkpoint(stream, m) = m.id
    BY FeedbackExpands, Zenon
  <1>3. stream_inv(stream)
    BY Zenon DEF IInv
  <1>4. /\ stream_inv(s)
        /\ s.next_frame_id = stream.next_frame_id
        /\ s.checkpoint = IF m.id < stream.checkpoint + 1 THEN stream.checkpoint ELSE m.id
        /\ \A f \in Int : is_pending(s, f)
             <=> is_pending(stream, f) /\ m.id < f /\ \A k \in m.bits : f # m.id + 2 + k
    BY <1>2, <1>3, ProcessFeedbackInv
  <1> HIDE DEF s
  <1>5. \A k \in m.bits : Finished(m.id + 2 + k)
    BY Zenon DEF IInv, MessagesAreSound, FeedbackIsSound
  <1>6. ASSUME NEW f \in 0 .. s.next_frame_id - 1, ~is_pending(s, f)
        PROVE  Finished(f)
    <2>1. f \in Int /\ f \in 0 .. stream.next_frame_id - 1
      BY <1>4
    <2>2. CASE ~is_pending(stream, f)
      BY <2>1, <2>2, Zenon DEF IInv, ReleasedFramesAreFinished
    <2>3. CASE f <= m.id
      BY <1>2, <2>1, <2>3, Facts DEF Finished
    <2>4. CASE \E k \in m.bits : f = m.id + 2 + k
      BY <1>5, <2>4, Zenon
    <2> QED
      BY <1>2, <1>4, <1>6, <2>1, <2>2, <2>3, <2>4
  <1>7. /\ s.checkpoint <= receiver.checkpoint
        /\ stream.next_frame_id <= s.next_frame_id
        /\ stream.checkpoint <= s.checkpoint
    BY <1>2, <1>4, Facts
  <1>8. IInv'
    BY <1>1, <1>4, <1>6, <1>7, SenderStep, Zenon
  <1>9. stream'.checkpoint = s.checkpoint /\ stream'.pending = s.pending
    BY <1>1, <1>4, <1>7, FlushStep, Zenon
  <1>10. \A f \in Int : is_pending(stream', f) <=> is_pending(s, f)
    BY <1>9, Zenon DEF is_pending
  <1>11. StreamStep
    BY <1>4, <1>7, <1>9, <1>10, Facts DEF StreamStep
  <1>12. Releases
    BY <1>1, <1>4, <1>7, FlushStep, Zenon DEF Releases
  <1> QED
    BY <1>8, <1>11, <1>12, Zenon

\* The burst timer puts queued packets on the wire with the ids of their frames.
LEMMA BurstTickStep ==
  ASSUME IInv, NEW n \in Nat, BurstTick(n)
  PROVE  IInv' /\ StreamStep /\ Releases
  <1>1. Flush(stream, n) /\ UNCHANGED receiver
    BY Zenon DEF BurstTick
  <1>2. stream_inv(stream) /\ stream.next_frame_id <= stream.next_frame_id
    BY Facts DEF IInv
  <1>3. /\ stream.checkpoint <= receiver.checkpoint
        /\ \A f \in 0 .. stream.next_frame_id - 1 : is_pending(stream, f) \/ Finished(f)
    BY Zenon DEF IInv, ReleasedFramesAreFinished
  <1>4. IInv'
    BY <1>1, <1>2, <1>3, SenderStep, Zenon
  <1>5. stream'.checkpoint = stream.checkpoint /\ stream'.pending = stream.pending
    BY <1>1, <1>2, FlushStep, Zenon
  <1>6. StreamStep
    BY <1>5, Facts DEF StreamStep, is_pending
  <1>7. Releases
    BY <1>1, <1>2, FlushStep, Zenon DEF Releases
  <1> QED
    BY <1>4, <1>6, <1>7, Zenon
-----------------------------------------------------------------------------
\* A step of the receiver that neither forgets a finished frame nor moves its
\* checkpoint back keeps IInv.
LEMMA ReceiverStep ==
  ASSUME IInv, UNCHANGED <<stream, rtp, rtcp>>,
         (receiver \in Receivers)', ReceiverIsSound',
         receiver.checkpoint <= receiver'.checkpoint,
         \A f \in Int : Finished(f) => Finished(f)'
  PROVE  IInv' /\ StreamStep
  <1>1. TypeOK'
    BY Zenon DEF IInv, TypeOK
  <1>2. stream_inv(stream')
    BY Zenon DEF IInv
  <1>3. receiver'.checkpoint \in Int
    BY Zenon DEF Receivers
  <1>4. ReleasedFramesAreFinished'
    <2>1. stream'.checkpoint <= receiver'.checkpoint
      BY <1>3, Facts
    <2>2. \A f \in 0 .. stream.next_frame_id - 1 : f \in Int /\ (is_pending(stream, f) \/ Finished(f))
      BY DEF IInv, ReleasedFramesAreFinished
    <2> QED
      BY <2>1, <2>2, Zenon DEF ReleasedFramesAreFinished
  <1>5. ASSUME NEW m \in rtcp
        PROVE  FeedbackIsSound(m)'
    <2>1. FeedbackIsSound(m)
      BY Zenon DEF IInv, MessagesAreSound
    <2>2. m \in Feedbacks
      BY Zenon DEF IInv, TypeOK
    <2>3. m.id \in Int /\ m.bits \in SUBSET Nat
      BY <2>2, Zenon DEF Feedbacks
    <2>4. \A k \in m.bits : m.id + 2 + k \in Int
      BY <2>3
    <2>5. \A k \in m.bits : Finished(m.id + 2 + k)'
      BY <2>1, <2>4, Zenon DEF FeedbackIsSound
    <2>6. m.id <= receiver'.checkpoint
      <3>1. m.id <= receiver.checkpoint
        BY <2>1, Zenon DEF FeedbackIsSound
      <3>2. receiver.checkpoint \in Int
        BY Facts, Zenon
      <3> QED
        BY <1>3, <2>3, <3>1, <3>2
    <2> QED
      BY <2>1, <2>5, <2>6, Zenon DEF FeedbackIsSound
  <1>6. MessagesAreSound'
    BY <1>5, Zenon DEF IInv, MessagesAreSound, PacketIsSound
  <1>7. StreamStep
    BY Facts DEF StreamStep
  <1> QED
    BY <1>1, <1>2, <1>4, <1>6, <1>7, Zenon DEF IInv

\* A packet is filed under the frame it was sent for.
LEMMA DeliverPacketStep ==
  ASSUME IInv, NEW p \in rtp, DeliverPacket(p)
  PROVE  IInv' /\ StreamStep /\ Finishes
  <1> DEFINE got      == receiver.got \cup {<<p.id, p.packet_id>>}
             complete == \A i \in 0 .. p.max_packet_id : <<p.id, i>> \in got
             done2    == IF complete THEN receiver.done \cup {p.id} ELSE receiver.done
             got2     == IF complete THEN {g \in got : g[1] # p.id} ELSE got
             seen2    == IF p.id > receiver.seen THEN p.id ELSE receiver.seen
  <1>1. /\ expand(p.frame, receiver.checkpoint) = p.id
        /\ p.id \in Nat /\ p.id < stream.next_frame_id
        /\ p.packet_id \in Nat
    BY PacketExpands, Zenon
  <1>2. /\ receiver' = [receiver EXCEPT !.done = done2, !.got = got2, !.seen = seen2]
        /\ UNCHANGED <<stream, rtp, rtcp>>
    BY <1>1, Zenon DEF DeliverPacket
  <1>10. receiver.checkpoint < p.id
    BY <1>1, Zenon DEF DeliverPacket, Open
  <1>11. done2 = receiver.done \/ done2 = receiver.done \cup {p.id}
    OBVIOUS
  <1>3. got \in SUBSET (Nat \X Nat)
    BY <1>1, Facts
  <1> HIDE DEF got
  <1>4. /\ got2 \in SUBSET (Nat \X Nat)
        /\ done2 \in SUBSET Nat /\ receiver.done \subseteq done2
        /\ \A f \in done2 : receiver.checkpoint < f /\ f < stream.next_frame_id
        /\ seen2 \in Int /\ seen2 < stream.next_frame_id
    BY <1>1, <1>3, <1>10, Facts
  <1> HIDE DEF done2, got2, seen2
  <1>5. receiver \in Receivers
    BY Zenon DEF IInv, TypeOK
  <1>6. /\ receiver' \in Receivers
        /\ receiver'.checkpoint = receiver.checkpoint
        /\ receiver'.done = done2 /\ receiver'.seen = seen2
    BY <1>2, <1>4, <1>5, Zenon DEF Receivers
  <1>7. ReceiverIsSound'
    BY <1>2, <1>4, <1>6, Facts, Zenon DEF ReceiverIsSound
  <1>8. \A f \in Int : Finished(f) => Finished(f)'
    BY <1>4, <1>6, Zenon DEF Finished
  <1>9. receiver.checkpoint <= receiver'.checkpoint
    BY <1>6, Facts
  <1>12. Finishes
    <2>1. CASE done2 = receiver.done
      BY <1>2, <1>6, <2>1, Zenon DEF Finishes, Finished
    <2>2. CASE done2 = receiver.done \cup {p.id}
      <3>1. p.id \in 0 .. stream.next_frame_id - 1
        BY <1>1, Facts
      <3>2. \A g \in Int : Finished(g)' <=> Finished(g) \/ g = p.id
        BY <1>6, <2>2, Zenon DEF Finished
      <3> QED
        BY <1>2, <3>1, <3>2, Zenon DEF Finishes
    <2> QED
      BY <1>11, <2>1, <2>2, Zenon
  <1> QED
    BY <1>2, <1>6, <1>7, <1>8, <1>9, <1>12, ReceiverStep, Zenon

\* A receiver that gives a frame up finishes one the sender has sent.
LEMMA GiveUpFrameStep ==
  ASSUME IInv, GiveUpFrame
  PROVE  IInv' /\ StreamStep /\ Finishes
  <1> DEFINE id    == receiver.checkpoint + 1
             done2 == receiver.done \cup {id}
             got2  == {g \in receiver.got : g[1] # id}
  <1>1. /\ id <= receiver.seen
        /\ receiver' = [receiver EXCEPT !.done = done2, !.got = got2]
        /\ UNCHANGED <<stream, rtp, rtcp>>
    BY Zenon DEF GiveUpFrame
  <1>2. /\ id \in Nat
        /\ done2 \in SUBSET Nat /\ receiver.done \subseteq done2
        /\ \A f \in done2 : receiver.checkpoint < f /\ f < stream.next_frame_id
        /\ got2 \in SUBSET (Nat \X Nat)
    BY <1>1, Facts
  <1> HIDE DEF done2, got2, id
  <1>3. receiver \in Receivers
    BY Zenon DEF IInv, TypeOK
  <1>4. /\ receiver' \in Receivers
        /\ receiver'.checkpoint = receiver.checkpoint
        /\ receiver'.done = done2 /\ receiver'.seen = receiver.seen
    BY <1>1, <1>2, <1>3, Zenon DEF Receivers
  <1>5. ReceiverIsSound'
    BY <1>1, <1>2, <1>4, Facts, Zenon DEF ReceiverIsSound
  <1>6. \A f \in Int : Finished(f) => Finished(f)'
    BY <1>2, <1>4, Zenon DEF Finished
  <1>7. receiver.checkpoint <= receiver'.checkpoint
    BY <1>4, Facts
  <1>8. Finishes
    <2>1. id \in 0 .. stream.next_frame_id - 1
      <3>1. id \in Nat /\ id < stream.next_frame_id /\ stream.next_frame_id \in Nat
        BY <1>2, Facts, Zenon DEF done2
      <3> QED
        BY <3>1
    <2>2. \A g \in Int : Finished(g)' <=> Finished(g) \/ g = id
      BY <1>4, Zenon DEF Finished, done2
    <2> QED
      BY <1>1, <2>1, <2>2, Zenon DEF Finishes
  <1> QED
    BY <1>1, <1>4, <1>5, <1>6, <1>7, <1>8, ReceiverStep, Zenon

\* The receiver moves its checkpoint over finished frames only.
LEMMA AdvanceCheckpointStep ==
  ASSUME IInv, AdvanceCheckpoint
  PROVE  IInv' /\ StreamStep /\ Finishes
  <1> DEFINE id    == receiver.checkpoint + 1
             done2 == receiver.done \ {id}
  <1>1. /\ id \in receiver.done
        /\ receiver' = [receiver EXCEPT !.checkpoint = id, !.done = done2]
        /\ UNCHANGED <<stream, rtp, rtcp>>
    BY Zenon DEF AdvanceCheckpoint
  <1>2. /\ id \in Nat /\ id < stream.next_frame_id
        /\ done2 \in SUBSET Nat /\ \A f \in done2 : id < f /\ f < stream.next_frame_id
        /\ \A f \in receiver.done : f = id \/ f \in done2
        /\ receiver.checkpoint <= id
    BY <1>1, Facts
  <1>3. receiver \in Receivers
    BY Zenon DEF IInv, TypeOK
  <1>4. /\ receiver' \in Receivers
        /\ receiver'.checkpoint = id
        /\ receiver'.done = done2 /\ receiver'.seen = receiver.seen
    <2>1. id \in Int /\ done2 \in SUBSET Nat
      BY <1>2
    <2>2. receiver' = [receiver EXCEPT !.checkpoint = id, !.done = done2]
      BY <1>1, Zenon
    <2> HIDE DEF id, done2
    <2> QED
      BY <1>3, <2>1, <2>2, Zenon DEF Receivers
  <1>5. ReceiverIsSound'
    BY <1>1, <1>2, <1>4, Facts DEF ReceiverIsSound
  <1>6. \A f \in Int : Finished(f) => Finished(f)'
    BY <1>2, <1>4, Facts DEF Finished
  <1>7. receiver.checkpoint <= receiver'.checkpoint
    BY <1>2, <1>4, Zenon
  <1>8. Finishes
    <2>1. \A g \in Int : Finished(g)' <=> Finished(g)
      BY <1>1, <1>4, Facts DEF Finished
    <2> QED
      BY <1>1, <2>1, Zenon DEF Finishes
  <1> QED
    BY <1>1, <1>4, <1>5, <1>6, <1>7, <1>8, ReceiverStep, Zenon

\* A feedback the receiver sends is sound.
LEMMA SendFeedbackStep ==
  ASSUME IInv, NEW nacks \in ShortSeqs(Missing, MaxNacks), NEW with_bits \in BOOLEAN,
         SendFeedback(nacks, with_bits)
  PROVE  IInv' /\ StreamStep /\ Releases
  <1> DEFINE c     == receiver.checkpoint
             wire(i) == [frame |-> truncate(nacks[i].frame_id), packet_id |-> nacks[i].packet_id,
                         id |-> nacks[i].frame_id]
             named == [i \in 1 .. Len(nacks) |-> wire(i)]
             bits  == IF with_bits THEN {f - (c + 2) : f \in receiver.done \ {c + 1}} ELSE {}
             m     == [checkpoint |-> truncate(c), bits |-> bits, nacks |-> named, id |-> c]
  <1>1. rtcp' = rtcp \cup {m} /\ UNCHANGED <<stream, rtp, receiver>>
    BY Zenon DEF SendFeedback
  <1>2. nacks \in Seq(Missing) /\ Len(nacks) \in Nat
    <2>1. PICK l \in 0 .. MaxNacks : nacks \in [1 .. l -> Missing]
      BY Zenon DEF ShortSeqs
    <2> QED
      BY <2>1, BoundsAssumption
  <1>3. ASSUME NEW i \in 1 .. Len(nacks)
        PROVE  /\ wire(i) \in WireNacks
               /\ wire(i).frame = truncate(wire(i).id)
               /\ wire(i).id - c \in 1 .. MAX_UNACKED_FRAMES
    <2>1. nacks[i] \in Missing
      BY <1>2
    <2>2. nacks[i].frame_id \in c + 1 .. receiver.seen /\ nacks[i].packet_id \in 0 .. ALL_PACKETS_LOST
      BY <2>1, Zenon DEF Missing
    <2>3. nacks[i].packet_id \in Nat
      BY <2>2, PacketIdAssumption
    <2>4. nacks[i].frame_id \in Nat /\ nacks[i].frame_id - c \in 1 .. MAX_UNACKED_FRAMES
      <3> DEFINE f == nacks[i].frame_id
      <3>1. f \in c + 1 .. receiver.seen
        BY <2>2, Zenon
      <3>2. /\ c \in Int /\ -1 <= c /\ receiver.seen \in Int /\ receiver.seen < stream.next_frame_id
            /\ stream.next_frame_id \in Nat /\ stream.checkpoint \in Int /\ stream.checkpoint <= c
            /\ stream.next_frame_id - (stream.checkpoint + 1) \in 0 .. MAX_UNACKED_FRAMES
            /\ MAX_UNACKED_FRAMES \in Nat
        BY Facts, Zenon
      <3> HIDE DEF c, f
      <3>3. f \in Nat /\ f - c \in 1 .. MAX_UNACKED_FRAMES
        BY <3>1, <3>2
      <3> QED
        BY <3>3, Zenon DEF f
    <2>5. truncate(nacks[i].frame_id) \in Nat
      <3> DEFINE f == nacks[i].frame_id
      <3>1. f \in Int
        BY <2>4
      <3> HIDE DEF f
      <3>2. truncate(f) \in 0 .. FRAME_ID_MODULUS - 1
        BY <3>1, TruncateType, Zenon
      <3> QED
        BY <3>2, FrameIdModulusAssumption DEF f
    <2> QED
      BY <2>3, <2>4, <2>5, Zenon DEF WireNacks
  <1>4. bits \in SUBSET Nat /\ \A k \in bits : Finished(c + 2 + k)
    <2>1. SUFFICES ASSUME NEW k \in bits PROVE k \in Nat /\ Finished(c + 2 + k)
      OBVIOUS
    <2>2. PICK f \in receiver.done \ {c + 1} : k = f - (c + 2)
      BY <2>1, Zenon
    <2>3. f \in Nat /\ c < f /\ c \in Int /\ f # c + 1
      BY <2>2, Facts, Zenon
    <2>4. k \in Nat /\ c + 2 + k = f
      BY <2>2, <2>3
    <2> QED
      BY <2>2, <2>4, Zenon DEF Finished
  <1>5. named \in Seq(WireNacks) /\ Len(named) = Len(nacks) /\ \A i \in 1 .. Len(nacks) : named[i] = wire(i)
    <2> HIDE DEF wire
    <2> QED
      BY <1>2, <1>3
  <1>6. truncate(c) \in Nat /\ c \in Int
    <2>1. c \in Int
      BY Facts, Zenon
    <2> HIDE DEF c
    <2>2. truncate(c) \in 0 .. FRAME_ID_MODULUS - 1
      BY <2>1, TruncateType, Zenon
    <2> QED
      BY <2>1, <2>2, FrameIdModulusAssumption
  <1>7. m \in Feedbacks
    <2> HIDE DEF c, bits, named
    <2> QED
      BY <1>4, <1>5, <1>6, Zenon DEF Feedbacks
  <1>8. FeedbackIsSound(m)
    <2>1. -1 <= c /\ c <= receiver.checkpoint /\ stream.next_frame_id - c <= FRAME_ID_MODULUS
      BY Facts
    <2>2. m.checkpoint = truncate(m.id) /\ m.id = c /\ m.bits = bits /\ m.nacks = named
      OBVIOUS
    <2>3. \A i \in 1 .. Len(named) : /\ named[i].frame = truncate(named[i].id)
                                     /\ named[i].id - c \in 1 .. MAX_UNACKED_FRAMES
      <3> HIDE DEF wire, named
      <3> QED
        BY <1>3, <1>5, Zenon
    <2> HIDE DEF m, c, bits, named
    <2> QED
      BY <1>4, <2>1, <2>2, <2>3, Zenon DEF FeedbackIsSound
  <1> HIDE DEF m
  <1>9. MessagesAreSound'
    BY <1>1, <1>8, Zenon DEF IInv, MessagesAreSound, FeedbackIsSound, PacketIsSound, Finished
  <1>10. TypeOK' /\ stream_inv(stream') /\ ReleasedFramesAreFinished' /\ ReceiverIsSound'
    BY <1>1, <1>7, Zenon DEF IInv, TypeOK, ReleasedFramesAreFinished, ReceiverIsSound, Finished
  <1>11. StreamStep
    BY <1>1, Facts DEF StreamStep
  <1> QED
    BY <1>1, <1>9, <1>10, <1>11, Zenon DEF IInv, Releases

\* Losing datagrams changes neither side.
LEMMA LoseStep ==
  ASSUME IInv, rtp' \subseteq rtp, rtcp' \subseteq rtcp, UNCHANGED <<stream, receiver>>
  PROVE  IInv' /\ StreamStep /\ Releases
  <1>1. TypeOK' /\ stream_inv(stream') /\ ReleasedFramesAreFinished' /\ ReceiverIsSound'
    BY Zenon DEF IInv, TypeOK, ReleasedFramesAreFinished, ReceiverIsSound, Finished
  <1>2. MessagesAreSound'
    BY Zenon DEF IInv, MessagesAreSound, FeedbackIsSound, PacketIsSound, Finished
  <1>3. StreamStep
    BY Facts DEF StreamStep
  <1> QED
    BY <1>1, <1>2, <1>3, Zenon DEF IInv, Releases

\* Every step keeps the inductive invariant and never goes back.
LEMMA NextIInv ==
  ASSUME IInv, [Next]_vars
  PROVE  IInv' /\ StreamStep /\ (Accepts \/ Releases \/ Finishes)
  <1>1. Budget \subseteq Nat
    BY DEF Budget
  <1>2. ASSUME NEW n \in Budget, NEW frame \in SubmittedFrames, EnqueueFrame(frame, n)
        PROVE  IInv' /\ StreamStep /\ (Accepts \/ Releases \/ Finishes)
    BY <1>1, <1>2, EnqueueFrameStep, Zenon
  <1>3. ASSUME NEW n \in Budget, NEW m \in rtcp, ReceiveFeedback(m, n)
        PROVE  IInv' /\ StreamStep /\ (Accepts \/ Releases \/ Finishes)
    BY <1>1, <1>3, ReceiveFeedbackStep, Zenon
  <1>4. ASSUME NEW n \in Budget, BurstTick(n)
        PROVE  IInv' /\ StreamStep /\ (Accepts \/ Releases \/ Finishes)
    BY <1>1, <1>4, BurstTickStep, Zenon
  <1>5. ASSUME NEW p \in rtp, DeliverPacket(p)
        PROVE  IInv' /\ StreamStep /\ (Accepts \/ Releases \/ Finishes)
    BY <1>5, DeliverPacketStep, Zenon
  <1>6. CASE GiveUpFrame
    BY <1>6, GiveUpFrameStep, Zenon
  <1>7. CASE AdvanceCheckpoint
    BY <1>7, AdvanceCheckpointStep, Zenon
  <1>8. ASSUME NEW with_bits \in BOOLEAN, NEW nacks \in ShortSeqs(Missing, MaxNacks),
               SendFeedback(nacks, with_bits)
        PROVE  IInv' /\ StreamStep /\ (Accepts \/ Releases \/ Finishes)
    BY <1>8, SendFeedbackStep, Zenon
  <1>9. ASSUME NEW p \in rtp, LosePacket(p)
        PROVE  IInv' /\ StreamStep /\ (Accepts \/ Releases \/ Finishes)
    BY <1>9, LoseStep, Zenon DEF LosePacket
  <1>10. ASSUME NEW m \in rtcp, LoseFeedback(m)
         PROVE  IInv' /\ StreamStep /\ (Accepts \/ Releases \/ Finishes)
    BY <1>10, LoseStep, Zenon DEF LoseFeedback
  <1>11. CASE UNCHANGED vars
    BY <1>11, LoseStep, Zenon DEF vars
  <1> QED
    BY <1>2, <1>3, <1>4, <1>5, <1>6, <1>7, <1>8, <1>9, <1>10, <1>11, Zenon
       DEF Next, Sender, Receiver, Network
-----------------------------------------------------------------------------
\* The inductive invariant holds in every reachable state.
THEOREM Inductive == Spec => []IInv
  BY InitIInv, NextIInv, PTL DEF Spec

\* Every variable keeps its type.
THEOREM TypeCorrect == Spec => []TypeOK
  <1>1. IInv => TypeOK
    BY Zenon DEF IInv
  <1> QED
    BY <1>1, Inductive, PTL

\* The window of enqueue_frame is sound for every window size below half of the
\* wire ids: no frame is put in the slot of one still in flight, and nothing is
\* sent of a frame that is no longer in flight.
THEOREM WindowSafe == Spec => []WindowIsSound
  <1>1. IInv => WindowIsSound
    BY Zenon DEF IInv, stream_inv, WindowIsSound
  <1> QED
    BY <1>1, Inductive, PTL

\* A frame is released only when the receiver is finished with it, whatever the
\* network loses, repeats and reorders within its lifetime.
THEOREM ReleaseSafe == Spec => []ReleasedFramesAreFinished
  <1>1. IInv => ReleasedFramesAreFinished
    BY Zenon DEF IInv
  <1> QED
    BY <1>1, Inductive, PTL

\* Truncated ids are never misread: datagrams that live at most half of the wire
\* ids (RTP) or all of them (RTCP) expand to the id that was meant.
THEOREM WireIdsSafe == Spec => []WireIdsAreUnambiguous
  BY WireIds, Inductive, PTL

\* The checkpoint never moves back and a released frame is never in flight again.
THEOREM Monotone == Spec => NoRegression
  <1>1. IInv /\ [Next]_vars => [StreamStep]_vars
    BY NextIInv, Zenon
  <1>2. [StreamStep]_vars =>
          [ /\ stream'.checkpoint >= stream.checkpoint
            /\ \A f \in 0 .. stream.next_frame_id - 1 :
                 is_pending(stream', f) => is_pending(stream, f) ]_vars
    BY Zenon DEF StreamStep
  <1> QED
    BY <1>1, <1>2, Inductive, PTL DEF Spec, NoRegression

\* Every sender step keeps the account, and no other step touches the stream.
LEMMA StepAccounts ==
  ASSUME IInv, accounted(stream), [Next]_vars
  PROVE  accounted(stream)'
  <1>1. stream_inv(stream)
    BY Zenon DEF IInv
  <1>2. ASSUME NEW STATE s, stream_inv(s), accounted(s), NEW n, Flush(s, n)
        PROVE  accounted(stream')
    BY <1>2, PopPacketsAccounts, Zenon DEF Flush
  <1>3. ASSUME NEW n \in Budget, NEW frame \in SubmittedFrames, EnqueueFrame(frame, n)
        PROVE  accounted(stream')
    <2>1. frame \in AnyFrames /\ enqueue_error(stream, frame) = None /\ Flush(accept_frame(stream, frame), n)
      BY <1>3, SubmittedFramesType, Zenon DEF EnqueueFrame
    <2>2. stream_inv(accept_frame(stream, frame)) /\ accounted(accept_frame(stream, frame))
      BY <1>1, <2>1, AcceptFrameInv, AcceptFrameAccounts, Zenon
    <2> QED
      BY <1>2, <2>1, <2>2, Zenon
  <1>4. ASSUME NEW n \in Budget, NEW m \in rtcp, ReceiveFeedback(m, n)
        PROVE  accounted(stream')
    <2>1. any_feedback(m) /\ Flush(process_feedback(stream, m), n)
      BY <1>4, FeedbackExpands, Zenon DEF ReceiveFeedback
    <2>2. stream_inv(process_feedback(stream, m)) /\ accounted(process_feedback(stream, m))
      BY <1>1, <2>1, ProcessFeedbackInv, ProcessFeedbackAccounts, Zenon
    <2> QED
      BY <1>2, <2>1, <2>2, Zenon
  <1>5. ASSUME NEW n \in Budget, BurstTick(n)
        PROVE  accounted(stream')
    BY <1>1, <1>2, <1>5, Zenon DEF BurstTick
  <1>6. CASE Receiver \/ Network \/ UNCHANGED vars
    <2>1. stream' = stream
      BY <1>6, Zenon DEF Receiver, Network, vars, DeliverPacket, GiveUpFrame, AdvanceCheckpoint,
            SendFeedback, LosePacket, LoseFeedback
    <2> QED
      BY <2>1, Zenon
  <1>7. accounted(stream')
    BY <1>3, <1>4, <1>5, <1>6, Zenon DEF Next, Sender
  <1> QED
    BY <1>7, Zenon DEF accounted, in_flight_count, in_flight

\* Every accepted frame is counted acknowledged exactly once or is in flight,
\* whatever feedback is repeated, delayed or overlaps with another.
THEOREM AccountedSafe == Spec => []FramesAreAccountedFor
  <1>1. Init => accounted(stream)
    BY NewStreamAccounts, Zenon DEF Init
  <1>2. IInv /\ accounted(stream) /\ [Next]_vars => accounted(stream)'
    BY StepAccounts, Zenon
  <1>3. accounted(stream) => FramesAreAccountedFor
    BY Zenon DEF accounted, FramesAreAccountedFor
  <1> QED
    BY <1>1, <1>2, <1>3, Inductive, PTL DEF Spec
-----------------------------------------------------------------------------
\* The sets AckWindow is instantiated with.
finished_frames == {f \in 0 .. stream.next_frame_id - 1 : Finished(f)}
released_frames == {f \in 0 .. stream.next_frame_id - 1 : ~is_pending(stream, f)}

\* An accepted frame is an Accept of the abstract window.
LEMMA AcceptsRefines ==
  ASSUME IInv, Accepts
  PROVE  Window!Accept
  <1> DEFINE next == stream.next_frame_id
  <1>1. next \in Nat /\ next - (stream.checkpoint + 1) < MAX_UNACKED_FRAMES
        /\ stream.checkpoint \in Int /\ MAX_UNACKED_FRAMES \in Nat \ {0}
    BY Facts DEF Accepts, in_flight_id_span
  <1>2. stream'.next_frame_id = next + 1
    BY Zenon DEF Accepts
  <1>3. stream_inv(stream)
    BY Zenon DEF IInv
  <1>4. ASSUME NEW f \in 0 .. next, f \notin released_frames
        PROVE  next - f < MAX_UNACKED_FRAMES
    <2>1. CASE f = next
      BY <1>1, <2>1
    <2>2. CASE f # next
      <3>1. f \in Int /\ is_pending(stream, f)
        BY <1>1, <1>4, <2>2 DEF released_frames
      <3>2. stream.checkpoint < f
        BY <1>3, <3>1, PendingInWindow, Zenon
      <3> QED
        BY <1>1, <3>1, <3>2
    <2> QED
      BY <2>1, <2>2, Zenon
  <1>5. finished_frames' = finished_frames
    <2>1. ~Finished(next)
      BY Facts DEF Finished
    <2>2. \A f : Finished(f)' <=> Finished(f)
      BY Zenon DEF Accepts, Finished
    <2>3. \A f : f \in 0 .. next + 1 - 1 <=> f \in 0 .. next - 1 \/ f = next
      BY <1>1
    <2> QED
      BY <1>2, <2>1, <2>2, <2>3 DEF finished_frames
  <1>6. released_frames' = released_frames
    <2>1. \A f : f \in 0 .. next + 1 - 1 <=> f \in 0 .. next - 1 \/ f = next
      BY <1>1
    <2>2. \A f \in 0 .. next : is_pending(stream', f) <=> is_pending(stream, f) \/ f = next
      BY <1>1 DEF Accepts
    <2>3. \A f \in 0 .. next - 1 : f # next /\ f \in 0 .. next
      BY <1>1
    <2>4. next \in 0 .. next
      BY <1>1
    <2> QED
      BY <1>2, <2>1, <2>2, <2>3, <2>4 DEF released_frames
  <1> QED
    BY <1>2, <1>4, <1>5, <1>6, Zenon DEF Window!Accept, finished_frames, released_frames

\* Frames that leave the window are a Release of finished frames.
LEMMA ReleasesRefines ==
  ASSUME IInv, IInv', StreamStep, Releases
  PROVE  Window!Release(released_frames') /\ released_frames' \in SUBSET (0 .. stream.next_frame_id - 1)
  <1>1. stream'.next_frame_id = stream.next_frame_id /\ receiver' = receiver
    BY Zenon DEF Releases
  <1>2. finished_frames' = finished_frames
    BY <1>1, Zenon DEF finished_frames, Finished
  <1>3. released_frames' \subseteq finished_frames
    BY <1>1, Zenon DEF IInv, ReleasedFramesAreFinished, released_frames, finished_frames, Finished
  <1>4. released_frames' = released_frames \cup released_frames'
    BY <1>1, Zenon DEF StreamStep, released_frames
  <1>5. released_frames' \in SUBSET (0 .. stream.next_frame_id - 1)
    BY <1>1, Zenon DEF released_frames
  <1> QED
    BY <1>1, <1>2, <1>3, <1>4, <1>5, Zenon DEF Window!Release, finished_frames, released_frames

\* A frame the receiver finishes is a Finish of the abstract window.
LEMMA FinishesRefines ==
  ASSUME IInv, Finishes
  PROVE  \/ UNCHANGED Window!vars
         \/ \E f \in 0 .. stream.next_frame_id - 1 : Window!Finish(f)
  <1>1. stream' = stream /\ released_frames' = released_frames
    BY Zenon DEF Finishes, released_frames
  <1>2. CASE \A g \in Int : Finished(g)' <=> Finished(g)
    <2>1. finished_frames' = finished_frames
      BY <1>1, <1>2 DEF finished_frames
    <2> QED
      BY <1>1, <2>1, Zenon DEF Window!vars, finished_frames, released_frames
  <1>3. ASSUME NEW f \in 0 .. stream.next_frame_id - 1,
               \A g \in Int : Finished(g)' <=> Finished(g) \/ g = f
        PROVE  Window!Finish(f)
    <2>1. finished_frames' = finished_frames \cup {f}
      BY <1>1, <1>3 DEF finished_frames
    <2> QED
      BY <1>1, <2>1, Zenon DEF Window!Finish, finished_frames, released_frames
  <1> QED
    BY <1>2, <1>3, Zenon DEF Finishes

\* CastStream implements AckWindow: behind truncated ids, queues and a lossy
\* network, frames are accepted in order within one window and released only
\* after the receiver finished them.
THEOREM Refinement == Spec => ImplementsAckWindow
  <1>1. Init => Window!Init
    <2>1. SUFFICES ASSUME Init PROVE Window!Init
      OBVIOUS
    <2>2. stream.next_frame_id = 0
      BY <2>1, Zenon DEF Init, new_stream, FIRST_FRAME_ID
    <2> QED
      BY <2>2 DEF Window!Init
  <1>2. IInv /\ IInv' /\ [Next]_vars => [Window!Next]_(Window!vars)
    <2>1. SUFFICES ASSUME IInv, IInv', [Next]_vars PROVE [Window!Next]_(Window!vars)
      OBVIOUS
    <2>2. StreamStep /\ (Accepts \/ Releases \/ Finishes)
      BY <2>1, NextIInv, Zenon
    <2>3. CASE Accepts
      BY <2>1, <2>3, AcceptsRefines, Zenon DEF Window!Next
    <2>4. CASE Releases
      BY <2>1, <2>2, <2>4, ReleasesRefines, Zenon DEF Window!Next
    <2>5. CASE Finishes
      BY <2>1, <2>5, FinishesRefines, Zenon DEF Window!Next
    <2> QED
      BY <2>2, <2>3, <2>4, <2>5, Zenon
  <1> QED
    BY <1>1, <1>2, Inductive, PTL DEF Spec, ImplementsAckWindow, Window!Spec
=============================================================================
