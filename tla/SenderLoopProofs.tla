-------------------------- MODULE SenderLoopProofs --------------------------
(* The safety properties of SenderLoop, for any streams, timeouts, channel    *)
(* size and receiver, and those of the BurstBudget that paces what the loop   *)
(* sends, for any rate, capacity, packet size and timing.                     *)
EXTENDS SenderLoop, BurstBudget, StreamStateProofs

Watchdogs == [waiting : Nat \cup {None}, has_acknowledged : BOOLEAN]

\* What the watchdog of a stream knows: it is armed exactly while a transmitted
\* frame is in flight, it has waited at least as long as the silence, at most as
\* long as the frames were unanswered, and it will be polled in time.
WatchdogInv(t) ==
  /\ watchdog[t].waiting # None => in_flight(streams[t]) # {}
  /\ Running /\ transmitted(streams[t]) => watchdog[t].waiting # None
  /\ watchdog[t].waiting = None => silent[t] = 0
  /\ watchdog[t].waiting # None =>
       /\ silent[t] <= watchdog[t].waiting
       /\ watchdog[t].waiting <= unanswered[t] \/ INITIAL_RECEIVER_ACKNOWLEDGEMENT_TIMEOUT <= unanswered[t]
       /\ Running => watchdog[t].waiting + timers.poll <= timeout(watchdog[t]) + RECEIVER_TIMEOUT_POLL_INTERVAL

\* A change not yet announced has been scheduled, and no time was lost since.
ChangesAreScheduled ==
  Running /\ ~statistics.pending => published = session_feedback_state(streams, measured)

StatisticsInv ==
  /\ statistics.pending => stale + statistics.due <= STATISTICS_DEBOUNCE_INTERVAL
  /\ ~statistics.pending => stale = 0
  /\ ChangesAreScheduled

\* The reserved slots are free until the terminal event takes one.
EventsInv ==
  /\ events.waiting <= EVENT_CAPACITY - RESERVED_TERMINAL_EVENT_SLOTS
  /\ TerminalEventDelivered

IInv ==
  /\ LoopTypeOK
  /\ \A t \in Kinds : stream_inv(streams[t])
  /\ EventsInv
  /\ StatisticsInv
  /\ \A t \in Kinds : WatchdogInv(t)
  /\ TimeoutIsJustified
-----------------------------------------------------------------------------
\* Flattening singletons gives the sequence back.
LEMMA FlattenSingletons ==
  ASSUME NEW S, NEW q \in Seq(S)
  PROVE  flatten([i \in 1 .. Len(q) |-> <<q[i]>>]) = q
  <1> DEFINE ps == [i \in 1 .. Len(q) |-> <<q[i]>>]
             n == Len(q)
             Of(s, m) == Len(s) = m /\ \A i \in 1 .. m : s[i] = q[i]
  <1>1. n \in Nat /\ ps \in Seq(Seq(S)) /\ Len(ps) = n /\ \A i \in 1 .. n : ps[i] = <<q[i]>> /\ q[i] \in S
    OBVIOUS
  <1> HIDE DEF ps
  <1>2. PICK k : Flat(ps, n, k) /\ flatten(ps) = k[n]
    BY <1>1, FlattenIs, Zenon
  <1> DEFINE T == {m \in Nat : m <= n /\ ~(k[m] \in Seq(S) /\ Of(k[m], m))}
  <1>3. T = {}
    <2>1. SUFFICES ASSUME T # {} PROVE FALSE
      OBVIOUS
    <2>2. PICK m \in T : \A x \in T : ~(x < m)
      BY <2>1, NatMin, Zenon
    <2>3. m \in Nat /\ m \in 0 .. n /\ k[m] = IF m = 0 THEN << >> ELSE k[m - 1] \o ps[m]
      <3>1. m \in Nat /\ m <= n
        BY <2>2, Zenon
      <3>2. m \in 0 .. n
        BY <1>1, <3>1
      <3> QED
        BY <1>2, <3>1, <3>2, Zenon DEF Flat
    <2>4. CASE m = 0
      <3>1. k[m] = << >> /\ Len(<< >>) = 0 /\ << >> \in Seq(S)
        BY <2>3, <2>4
      <3>2. Of(k[m], m)
        BY <2>4, <3>1
      <3> QED
        BY <2>2, <3>1, <3>2, Zenon
    <2>5. CASE m # 0
      <3> DEFINE u == k[m - 1]
      <3>1. m - 1 \in Nat /\ m - 1 < m /\ m - 1 <= n /\ m \in 1 .. n
        BY <1>1, <2>3, <2>5
      <3>2. u \in Seq(S) /\ Of(u, m - 1) /\ q[m] \in S /\ k[m] = u \o <<q[m]>>
        BY <1>1, <2>2, <2>3, <2>5, <3>1, Zenon
      <3> HIDE DEF T, u
      <3>3. u \o <<q[m]>> \in Seq(S) /\ Of(u \o <<q[m]>>, m)
        <4>1. Len(u) = m - 1 /\ \A i \in 1 .. Len(u) : u[i] = q[i]
          BY <3>2, Zenon
        <4>2. /\ u \o <<q[m]>> \in Seq(S) /\ Len(u \o <<q[m]>>) = Len(u) + 1
              /\ (u \o <<q[m]>>)[Len(u) + 1] = q[m] /\ \A i \in 1 .. Len(u) : (u \o <<q[m]>>)[i] = u[i]
          <5>1. ASSUME NEW s \in Seq(S), NEW e \in S
                PROVE  /\ s \o <<e>> \in Seq(S) /\ Len(s \o <<e>>) = Len(s) + 1
                       /\ (s \o <<e>>)[Len(s) + 1] = e /\ \A i \in 1 .. Len(s) : (s \o <<e>>)[i] = s[i]
            OBVIOUS
          <5> QED
            BY <3>2, <5>1, Zenon
        <4> HIDE DEF Of
        <4> DEFINE w == u \o <<q[m]>>
        <4> HIDE DEF w
        <4>3. Len(w) = Len(u) + 1 /\ w[Len(u) + 1] = q[m] /\ \A i \in 1 .. Len(u) : w[i] = u[i]
          BY <4>2, Zenon DEF w
        <4>4. Len(w) = m /\ \A i \in 1 .. m : w[i] = q[i]
          BY <4>1, <4>3, <3>1
        <4> QED
          BY <4>2, <4>4, Zenon DEF Of, w
      <3> QED
        BY <2>2, <3>2, <3>3, Zenon DEF T
    <2> QED
      BY <2>4, <2>5, Zenon
  <1>4. k[n] \in Seq(S) /\ Of(k[n], n)
    BY <1>1, <1>3
  <1>5. k[n] = q
    BY <1>4
  <1>6. flatten(ps) = q
    BY <1>2, <1>5, Zenon
  <1> QED
    BY <1>6, Zenon DEF ps

\* A release of nothing leaves the stream as it is.
LEMMA ReleaseNothing ==
  ASSUME NEW s, s \in Streams
  PROVE  release(s, {}).pending = s.pending /\ release(s, {}).send_queue = s.send_queue
  <1>1. /\ s.pending \in [Slots -> PendingFrames \cup {None}]
        /\ s.send_queue \in Seq(Packets)
    BY Zenon DEF Streams
  <1>2. retain_others(s.send_queue, {}) = s.send_queue
    <2> DEFINE q == s.send_queue
    <2>1. [i \in 1 .. Len(q) |-> IF q[i].frame_id \in {} THEN << >> ELSE <<q[i]>>]
            = [i \in 1 .. Len(q) |-> <<q[i]>>]
      OBVIOUS
    <2>2. q \in Seq(Packets)
      BY <1>1, Zenon
    <2> HIDE DEF q
    <2> QED
      BY <2>1, <2>2, FlattenSingletons, Zenon DEF q, retain_others
  <1> DEFINE window == [i \in Slots |-> IF \E f \in {} : slot(f) = i THEN None ELSE s.pending[i]]
  <1>3. window = s.pending
    BY <1>1, Zenon
  <1>4. release(s, {}) = [s EXCEPT !.pending = window, !.send_queue = retain_others(@, {}),
                                   !.retransmit_queue = retain_others(@, {}),
                                   !.frames_acked = @ + Cardinality({})]
    BY Zenon DEF release
  <1> HIDE DEF window
  <1> QED
    BY <1>2, <1>3, <1>4, Zenon DEF Streams
\* `transmitted` looks at the window and the send queue only.
LEMMA TransmittedDepends ==
  ASSUME NEW s, NEW r, r.pending = s.pending, r.send_queue = s.send_queue
  PROVE  in_flight(r) = in_flight(s) /\ (transmitted(r) <=> transmitted(s))
  BY Zenon DEF in_flight, transmitted

\* So do the feedback state and the window.
LEMMA FeedbackStateDepends ==
  ASSUME NEW s, NEW r, NEW m, r.pending = s.pending
  PROVE  stream_feedback_state(r, m) = stream_feedback_state(s, m)
  <1>1. in_flight(r) = in_flight(s)
    BY Zenon DEF in_flight
  <1>2. in_flight_media_duration(r) = in_flight_media_duration(s)
    BY <1>1, Zenon DEF in_flight_media_duration
  <1> QED
    BY <1>2, Zenon DEF stream_feedback_state

\* A frame that is pending is in flight.
LEMMA PendingIsInFlight ==
  ASSUME NEW s, NEW f \in Int, is_pending(s, f)
  PROVE  in_flight(s) # {}
  BY SlotType, Zenon DEF is_pending, in_flight

\* in_flight_count counts.
LEMMA CountZero ==
  ASSUME NEW s
  PROVE  in_flight_count(s) # 0 <=> in_flight(s) # {}
  <1>1. IsFiniteSet(Slots)
    BY FS_Interval, WindowAssumption DEF Slots
  <1>2. IsFiniteSet(in_flight(s))
    BY <1>1, FS_Subset, Zenon DEF in_flight
  <1> QED
    BY <1>2, FS_EmptySet, Zenon DEF in_flight_count

\* Taking no packets changes nothing, and packets are only taken from a stream
\* with frames in flight.
LEMMA PopStep ==
  ASSUME NEW s, stream_inv(s), NEW n \in Nat, n <= Len(queued(s))
  PROVE  /\ n = 0 => pop_packets(s, n) = s
         /\ n > 0 => in_flight(s) # {}
  <1> DEFINE q == s.retransmit_queue
             p == s.send_queue
  <1>1. s \in Streams /\ q \in Seq(Packets) /\ p \in Seq(Packets) /\ Len(q) \in Nat /\ Len(p) \in Nat
    BY DEF stream_inv, Streams
  <1>2. ASSUME n = 0
        PROVE  pop_packets(s, n) = s
    <2>1. Min({0, Len(q)}) = 0
      <3>1. \E x \in {0, Len(q)} : \A y \in {0, Len(q)} : x <= y
        BY <1>1
      <3>2. Min({0, Len(q)}) \in {0, Len(q)} /\ \A y \in {0, Len(q)} : Min({0, Len(q)}) <= y
        BY <3>1, Zenon DEF Min
      <3> QED
        BY <1>1, <3>2
    <2>2. SubSeq(q, 1, Len(q)) = q /\ SubSeq(p, 1, Len(p)) = p
      BY <1>1
    <2>3. pop_packets(s, 0) = [s EXCEPT !.retransmit_queue = SubSeq(q, 1, Len(q)), !.send_queue = SubSeq(p, 1, Len(p))]
      <3> DEFINE k == Min({0, Len(q)})
      <3>1. pop_packets(s, 0) = [s EXCEPT !.retransmit_queue = SubSeq(q, k + 1, Len(q)),
                                          !.send_queue = SubSeq(p, 0 - k + 1, Len(p))]
        BY Zenon DEF pop_packets
      <3>2. k + 1 = 1 /\ 0 - k + 1 = 1
        BY <2>1
      <3> HIDE DEF k
      <3> QED
        BY <3>1, <3>2, Zenon
    <2>4. pop_packets(s, 0) = [s EXCEPT !.retransmit_queue = q, !.send_queue = p]
      BY <2>2, <2>3, Zenon
    <2> QED
      BY <1>1, <1>2, <2>4, Zenon DEF Streams
  <1>3. ASSUME n > 0
        PROVE  in_flight(s) # {}
    <2>1. Len(queued(s)) = Len(q) + Len(p)
      BY <1>1 DEF queued
    <2>2. Len(q) > 0 \/ Len(p) > 0
      <3>1. Len(q) \in Nat /\ Len(p) \in Nat /\ 0 < n /\ n <= Len(q) + Len(p)
        BY <1>1, <1>3, <2>1, Zenon
      <3> HIDE DEF q, p
      <3> QED
        BY <3>1
    <2>3. ASSUME NEW w \in Seq(Packets), Len(w) > 0, queue_is_in_flight(s, w)
          PROVE  in_flight(s) # {}
      <3>1. 1 \in 1 .. Len(w) /\ w[1] \in Packets
        BY <2>3
      <3>2. is_pending(s, w[1].frame_id) /\ w[1].frame_id \in Int
        BY <2>3, <3>1 DEF queue_is_in_flight, Packets
      <3> QED
        BY <3>2, PendingIsInFlight, Zenon
    <2> QED
      BY <1>1, <2>2, <2>3, Zenon DEF stream_inv
  <1> QED
    BY <1>2, <1>3, Zenon

\* A new frame has not been transmitted, and hides none that has.
LEMMA AcceptStep ==
  ASSUME NEW s, stream_inv(s), NEW frame \in AnyFrames, enqueue_error(s, frame) = None
  PROVE  /\ in_flight(s) # {} => in_flight(accept_frame(s, frame)) # {}
         /\ transmitted(accept_frame(s, frame)) => transmitted(s)
  <1> DEFINE id == s.next_frame_id
             packets == packetize(id, frame.packets, s.pending_playout_delay)
             new == [frame_id |-> id, media_timestamp |-> frame.media_timestamp,
                     duration |-> frame.duration, packets |-> packets]
             r == accept_frame(s, frame)
             q == s.send_queue
  <1>1. /\ s \in Streams /\ id \in Nat /\ q \in Seq(Packets) /\ s.pending_playout_delay \in Nat \cup {None}
        /\ s.pending \in [Slots -> PendingFrames \cup {None}] /\ frame.packets \in Nat
    BY Zenon DEF stream_inv, Streams, AnyFrames
  <1>2. packets \in Seq(Packets)
    BY <1>1, PacketizeElements, Zenon
  <1>3. r.pending = [s.pending EXCEPT ![slot(id)] = new] /\ r.send_queue = q \o packets
    BY <1>1, Zenon DEF accept_frame, Streams
  <1>4. slot(id) \in Slots /\ new # None
    <2>1. slot(id) \in Slots
      BY <1>1, SlotType
    <2>2. new \in PendingFrames
      BY <1>1, <1>2, Zenon DEF PendingFrames, AnyFrames
    <2> QED
      BY <2>1, <2>2, NoneAssumption, Zenon
  <1> HIDE DEF r, packets, new
  <1>5. ASSUME NEW i \in Slots
        PROVE  r.pending[i] = IF i = slot(id) THEN new ELSE s.pending[i]
    BY <1>1, <1>3, <1>4, Zenon
  <1>6. Range(q) \subseteq Range(r.send_queue) /\ Range(packets) \subseteq Range(r.send_queue)
    <2>1. /\ Len(q \o packets) = Len(q) + Len(packets) /\ Len(q) \in Nat /\ Len(packets) \in Nat
          /\ \A i \in 1 .. Len(q) : (q \o packets)[i] = q[i]
          /\ \A i \in 1 .. Len(packets) : (q \o packets)[Len(q) + i] = packets[i]
          /\ DOMAIN q = 1 .. Len(q) /\ DOMAIN packets = 1 .. Len(packets)
          /\ DOMAIN (q \o packets) = 1 .. Len(q) + Len(packets)
      BY <1>1, <1>2
    <2>2. \A i \in 1 .. Len(q) : i \in DOMAIN (q \o packets)
      BY <2>1
    <2>3. \A i \in 1 .. Len(packets) : Len(q) + i \in DOMAIN (q \o packets)
      BY <2>1
    <2> QED
      BY <1>3, <2>1, <2>2, <2>3, ZenonT(40) DEF Range
  <1>7. in_flight(r) # {}
    BY <1>4, <1>5, Zenon DEF in_flight
  <1>8. ASSUME transmitted(r)
        PROVE  transmitted(s)
    <2>1. PICK i \in in_flight(r) : ~(Range(r.pending[i].packets) \subseteq Range(r.send_queue))
      BY <1>8, Zenon DEF transmitted
    <2>2. i \in Slots
      BY Zenon DEF in_flight
    <2>3. i # slot(id)
      BY <1>5, <1>6, <2>1, <2>2 DEF new
    <2>4. r.pending[i] = s.pending[i] /\ i \in in_flight(s)
      BY <1>5, <2>2, <2>3, Zenon DEF in_flight
    <2> QED
      BY <1>6, <2>1, <2>4, Zenon DEF transmitted
  <1> QED
    BY <1>7, <1>8, Zenon DEF r
-----------------------------------------------------------------------------
\* What a compound packet holds for a stream is a feedback of StreamStateProofs.
LEMMA FeedbackType ==
  ASSUME NEW m \in Feedbacks
  PROVE  any_feedback(m)
  <1> DEFINE Entries == [frame : 0 .. FRAME_ID_MODULUS - 1, packet_id : NackIds]
  <1>1. /\ Checkpoints \subseteq Nat /\ AckBits \subseteq Nat /\ NackIds \subseteq Nat /\ MaxNacks \in Nat
        /\ FRAME_ID_MODULUS \in Nat
    BY InputsAssumption, FrameIdModulusAssumption, Zenon
  <1>2. /\ m.checkpoint \in Nat /\ m.bits \in SUBSET Nat
        /\ m.nacks \in ShortSeqs(Entries, MaxNacks)
    BY <1>1, Zenon DEF Feedbacks
  <1>3. PICK l \in 0 .. MaxNacks : m.nacks \in [1 .. l -> Entries]
    BY <1>2, Zenon DEF ShortSeqs
  <1>4. Len(m.nacks) = l /\ l \in Nat
    BY <1>1, <1>3
  <1>5. \A i \in 1 .. l : m.nacks[i].frame \in Nat /\ m.nacks[i].packet_id \in Nat
    <2>1. \A i \in 1 .. l : m.nacks[i] \in Entries
      BY <1>3, Zenon
    <2>2. \A e \in Entries : e.frame \in Nat /\ e.packet_id \in Nat
      <3>1. 0 .. FRAME_ID_MODULUS - 1 \subseteq Nat
        BY <1>1
      <3> QED
        BY <1>1, <3>1, Zenon
    <2> QED
      BY <2>1, <2>2, Zenon
  <1> QED
    BY <1>2, <1>4, <1>5, Zenon DEF any_feedback

\* Feedback that acknowledges nothing leaves the window and the send queue
\* alone, whatever it NACKs; what feedback acknowledges are finitely many frames.
LEMMA FeedbackProgress ==
  ASSUME NEW s, stream_inv(s), NEW m, any_feedback(m)
  PROVE  /\ IsFiniteSet(acknowledged_by(s, m))
         /\ acknowledged_by(s, m) = {} =>
              /\ process_feedback(s, m).pending = s.pending
              /\ process_feedback(s, m).send_queue = s.send_queue
  <1> DEFINE c == feedback_checkpoint(s, m)
             up == acknowledged_up_to(s, c)
             a == acknowledge_up_to(s, c)
             by == acknowledged_by_bits(a, c, m.bits)
             b == acknowledge_bitvector(a, c, m.bits)
  <1>1. acknowledged_by(s, m) = up \cup by
    BY Zenon DEF acknowledged_by
  <1>2. c \in Int /\ c <= s.next_frame_id - 1
    <2>1. s.next_frame_id - 1 \in Int /\ m.checkpoint \in Int
      BY DEF stream_inv, Streams, any_feedback
    <2> QED
      BY <2>1, ExpandLteBound, Zenon DEF feedback_checkpoint, stream_inv, Streams
  <1> HIDE DEF c
  <1>3. stream_inv(a) /\ \A f \in Int : is_pending(a, f) <=> is_pending(s, f) /\ c < f
    BY <1>2, AcknowledgeUpToInv, Zenon
  <1>4. /\ up \in SUBSET Int /\ \A f \in up : is_pending(s, f)
        /\ by \in SUBSET Int /\ \A f \in by : is_pending(a, f)
    <2>1. s.checkpoint \in Int /\ m.bits \in SUBSET Nat
      BY Zenon DEF stream_inv, Streams, any_feedback
    <2> HIDE DEF a
    <2> QED
      BY <1>2, <2>1 DEF acknowledged_up_to, acknowledged_by_bits
  <1>5. IsFiniteSet(up \cup by)
    <2> HIDE DEF up, by, a
    <2>1. IsFiniteSet(up) /\ IsFiniteSet(by)
      BY <1>3, <1>4, PendingFinite, Zenon
    <2> QED
      BY <2>1, FS_Union, Zenon
  <1>6. ASSUME up \cup by = {}
        PROVE  /\ process_feedback(s, m).pending = s.pending
               /\ process_feedback(s, m).send_queue = s.send_queue
    <2>1. up = {} /\ by = {}
      BY <1>6, Zenon
    <2>2. a.pending = s.pending /\ a.send_queue = s.send_queue
      <3>1. a = s \/ a = [release(s, {}) EXCEPT !.checkpoint = c]
        BY <2>1, Zenon DEF acknowledge_up_to
      <3>2. release(s, {}).pending = s.pending /\ release(s, {}).send_queue = s.send_queue
        BY ReleaseNothing, Zenon DEF stream_inv
      <3> DEFINE r == release(s, {})
      <3> HIDE DEF r, a
      <3>3. CASE a = [r EXCEPT !.checkpoint = c]
        BY <3>2, <3>3 DEF r
      <3> QED
        BY <3>1, <3>3, Zenon DEF r
    <2>3. b.pending = a.pending /\ b.send_queue = a.send_queue
      <3>1. b = release(a, {})
        BY <2>1, Zenon DEF acknowledge_bitvector
      <3>2. a \in Streams
        BY <1>3, Zenon DEF stream_inv
      <3> HIDE DEF a, b
      <3> QED
        BY <3>1, <3>2, ReleaseNothing, Zenon
    <2>4. process_feedback(s, m).pending = b.pending /\ process_feedback(s, m).send_queue = b.send_queue
      <3>1. process_feedback(s, m) = handle_nacks(b, feedback_nacks(s, m))
        BY Zenon DEF process_feedback, c
      <3> HIDE DEF b
      <3> QED
        BY <3>1 DEF handle_nacks
    <2> QED
      BY <2>2, <2>3, <2>4, Zenon
  <1> QED
    BY <1>1, <1>5, <1>6, Zenon

\* One stream's part of a compound packet.
LEMMA FeedbackStep ==
  ASSUME NEW s, stream_inv(s), NEW part \in Parts
  PROVE  /\ stream_inv(feedback_applied(s, part))
         /\ feedback_events(s, part) \in Nat
         /\ acknowledged(s, part) = {} =>
              /\ feedback_applied(s, part).pending = s.pending
              /\ feedback_applied(s, part).send_queue = s.send_queue
  <1>1. CASE part.feedback = None
    <2>1. acknowledged(s, part) = {} /\ feedback_applied(s, part) = s
      BY <1>1, Zenon DEF acknowledged, feedback_applied
    <2>2. Cardinality({}) = 0
      BY FS_EmptySet, Zenon
    <2>3. feedback_events(s, part) \in Nat
      BY <1>1, <2>1, <2>2 DEF feedback_events
    <2> QED
      BY <2>1, <2>3, Zenon
  <1>2. CASE part.feedback # None
    <2> DEFINE m == part.feedback
    <2>1. m \in Feedbacks
      BY <1>2, Zenon DEF Parts
    <2>2. any_feedback(m)
      BY <2>1, FeedbackType, Zenon
    <2>3. acknowledged(s, part) = acknowledged_by(s, m) /\ feedback_applied(s, part) = process_feedback(s, m)
      BY <1>2, Zenon DEF acknowledged, feedback_applied
    <2> HIDE DEF m
    <2>4. stream_inv(process_feedback(s, m))
      BY <2>2, ProcessFeedbackInv, Zenon
    <2>5. /\ IsFiniteSet(acknowledged_by(s, m))
          /\ acknowledged_by(s, m) = {} =>
               /\ process_feedback(s, m).pending = s.pending
               /\ process_feedback(s, m).send_queue = s.send_queue
      BY <2>2, FeedbackProgress, Zenon
    <2>6. feedback_events(s, part) \in Nat
      <3>1. Cardinality(acknowledged(s, part)) \in Nat
        BY <2>3, <2>5, FS_CardinalityType, Zenon
      <3>2. Len(m.nacks) \in Nat
        BY <2>2, Zenon DEF any_feedback
      <3>3. feedback_events(s, part) = Cardinality(acknowledged(s, part)) + Len(m.nacks)
                                        + (IF part.picture_loss THEN 2 ELSE 0)
        BY <1>2, Zenon DEF feedback_events, m
      <3> QED
        BY <3>1, <3>2, <3>3
    <2> QED
      BY <2>3, <2>4, <2>5, <2>6, Zenon
  <1> QED
    BY <1>1, <1>2, Zenon
-----------------------------------------------------------------------------
EventChannels ==
  [waiting : 0 .. EVENT_CAPACITY, terminal : {None, "FatalError", "ReceiverTimedOut"}, open : BOOLEAN]

\* The free slots of a channel in which no ordinary event takes a reserved one.
Reserved(e) == e \in EventChannels /\ e.waiting <= EVENT_CAPACITY - RESERVED_TERMINAL_EVENT_SLOTS

\* Ordinary events leave the reserved slots free.
LEMMA EmitNonterminal ==
  ASSUME NEW e, Reserved(e), NEW n \in Nat
  PROVE  /\ Reserved(emit_nonterminal(e, n))
         /\ emit_nonterminal(e, n).open = e.open
         /\ emit_nonterminal(e, n).terminal = e.terminal
  <1> DEFINE limit == EVENT_CAPACITY - RESERVED_TERMINAL_EVENT_SLOTS
             w == IF e.waiting + n < limit THEN e.waiting + n ELSE limit
  <1>1. limit \in Nat /\ EVENT_CAPACITY \in Nat /\ limit <= EVENT_CAPACITY
    BY EventsAssumption
  <1>2. e \in EventChannels /\ e.waiting \in Nat /\ e.waiting <= limit
    BY <1>1 DEF Reserved, EventChannels
  <1>3. w \in 0 .. EVENT_CAPACITY /\ w <= limit
    BY <1>1, <1>2
  <1>4. emit_nonterminal(e, n) = e \/ emit_nonterminal(e, n) = [e EXCEPT !.waiting = w]
    BY Zenon DEF emit_nonterminal
  <1> DEFINE r == emit_nonterminal(e, n)
  <1> HIDE DEF w, limit
  <1>5. ASSUME NEW x, x = [e EXCEPT !.waiting = w]
        PROVE  Reserved(x) /\ x.open = e.open /\ x.terminal = e.terminal
    BY <1>2, <1>3, <1>5, Zenon DEF Reserved, EventChannels, limit
  <1> HIDE DEF r
  <1>6. Reserved(r) /\ r.open = e.open /\ r.terminal = e.terminal
    BY <1>4, <1>5, Zenon DEF r
  <1> QED
    BY <1>6, Zenon DEF r

\* The terminal event finds room.
LEMMA EmitTerminal ==
  ASSUME NEW e, Reserved(e), NEW event \in {"FatalError", "ReceiverTimedOut"}
  PROVE  /\ Reserved(emit_terminal(e, event))
         /\ emit_terminal(e, event).open => emit_terminal(e, event).terminal # None
  <1>1. e.waiting \in Int /\ e.waiting < EVENT_CAPACITY /\ e \in EventChannels
    BY EventsAssumption DEF Reserved, EventChannels
  <1>2. CASE e.open
    <2>1. emit_terminal(e, event) = [e EXCEPT !.terminal = event]
      BY <1>1, <1>2, Zenon DEF emit_terminal
    <2> DEFINE r == emit_terminal(e, event)
    <2> HIDE DEF r
    <2>2. r \in EventChannels /\ r.waiting = e.waiting /\ r.terminal = event
      BY <1>1, <2>1, Zenon DEF EventChannels, r
    <2> QED
      BY <2>2, EventsAssumption, Zenon DEF Reserved, r
  <1>3. CASE ~e.open
    BY <1>3, Zenon DEF emit_terminal
  <1> QED
    BY <1>2, <1>3, Zenon

\* Every measurement keeps its type.
LEMMA MeasuredTypes ==
  ASSUME NEW m \in Measurements
  PROVE  /\ reject_frame(m) \in Measurements
         /\ \A d \in TargetDelays : target_delay(m, d) \in Measurements
         /\ record_sender_report(m) \in Measurements
         /\ age_sender_reports(m) \in Measurements
         /\ \A s : stream_feedback_state(s, record_sender_report(m)) = stream_feedback_state(s, m)
         /\ \A s : stream_feedback_state(s, age_sender_reports(m)) = stream_feedback_state(s, m)
  <1> DEFINE sent == m.sender_reports
             kept == IF Len(sent) = SENDER_REPORT_HISTORY THEN Tail(sent) ELSE sent
             more == Append(kept, 0)
             aged == [i \in 1 .. Len(sent) |-> sent[i] + 1]
  <1>1. sent \in Seq(Nat) /\ SENDER_REPORT_HISTORY \in Nat \ {0}
    BY MeasurementsAssumption, Zenon DEF Measurements
  <1>2. more \in Seq(Nat) /\ aged \in Seq(Nat)
    <2>1. Len(sent) = SENDER_REPORT_HISTORY => sent # << >>
      BY <1>1, Zenon
    <2>2. kept \in Seq(Nat)
      BY <1>1, <2>1
    <2>3. Len(sent) \in Nat /\ \A i \in 1 .. Len(sent) : sent[i] + 1 \in Nat
      BY <1>1
    <2> QED
      BY <2>2, <2>3
  <1>3. /\ record_sender_report(m) = [m EXCEPT !.sender_reports = more]
        /\ age_sender_reports(m) = [m EXCEPT !.sender_reports = aged]
    BY Zenon DEF record_sender_report, age_sender_reports
  <1> HIDE DEF more, aged
  <1>4. ASSUME NEW x \in Seq(Nat)
        PROVE  /\ [m EXCEPT !.sender_reports = x] \in Measurements
               /\ \A s : stream_feedback_state(s, [m EXCEPT !.sender_reports = x]) = stream_feedback_state(s, m)
    <2> DEFINE r == [m EXCEPT !.sender_reports = x]
    <2>1. /\ r \in Measurements /\ r.current_rtt = m.current_rtt
          /\ r.receiver_playout_delay = m.receiver_playout_delay
          /\ r.target_playout_delay = m.target_playout_delay /\ r.nack_count = m.nack_count
          /\ r.frames_dropped_or_skipped = m.frames_dropped_or_skipped
          /\ r.fraction_lost = m.fraction_lost
      BY Zenon DEF Measurements
    <2> HIDE DEF r
    <2>2. max_acceptable_in_flight_duration(r) = max_acceptable_in_flight_duration(m)
      BY <2>1, Zenon DEF max_acceptable_in_flight_duration
    <2>3. \A s : stream_feedback_state(s, r) = stream_feedback_state(s, m)
      BY <2>1, <2>2, Zenon DEF stream_feedback_state
    <2> QED
      BY <2>1, <2>3, Zenon DEF r
  <1>5. /\ reject_frame(m) \in Measurements
        /\ \A d \in TargetDelays : target_delay(m, d) \in Measurements
    BY SMTT(30) DEF reject_frame, target_delay, Measurements
  <1> QED
    BY <1>2, <1>3, <1>4, <1>5, Zenon

\* Feedback about reports that were sent is measured within the types.
LEMMA FeedbackMeasured ==
  ASSUME NEW m \in Measurements, NEW part \in Parts,
         part.report # None => part.report.last_sr <= Len(m.sender_reports)
  PROVE  feedback_measured(m, part) \in Measurements
  <1> DEFINE reported == IF part.report = None THEN m ELSE update_receiver_report(m, part.report)
  <1>1. reported \in Measurements
    <2>1. CASE part.report # None
      <3> DEFINE report == part.report
                 elapsed == m.sender_reports[report.last_sr]
                 rtt == IF report.last_sr = 0 THEN m.current_rtt
                        ELSE IF elapsed >= report.delay THEN elapsed - report.delay ELSE None
      <3>1. report \in Reports
        BY <2>1, Zenon DEF Parts
      <3>2. /\ report.fraction_lost \in LossFractions /\ report.last_sr \in 0 .. SENDER_REPORT_HISTORY
            /\ report.delay \in Nat
        BY <3>1, InputsAssumption, Zenon DEF Reports
      <3>3. m.current_rtt \in Nat \cup {None} /\ m.sender_reports \in Seq(Nat)
        BY Zenon DEF Measurements
      <3>4. report.last_sr # 0 => elapsed \in Nat
        BY <2>1, <3>2, <3>3, MeasurementsAssumption, SMTT(30)
      <3>5. rtt \in Nat \cup {None}
        <4>1. CASE report.last_sr = 0
          BY <3>3, <4>1, Zenon
        <4>2. CASE report.last_sr # 0
          <5>1. elapsed \in Nat /\ report.delay \in Nat
            BY <3>2, <3>4, <4>2, Zenon
          <5> HIDE DEF elapsed, report
          <5> QED
            BY <4>2, <5>1
        <4> QED
          BY <4>1, <4>2, Zenon
      <3>6. reported = [m EXCEPT !.fraction_lost = report.fraction_lost, !.current_rtt = rtt]
        BY <2>1, Zenon DEF update_receiver_report
      <3> HIDE DEF rtt, reported, report
      <3> QED
        BY <3>2, <3>5, <3>6, Zenon DEF Measurements
    <2> QED
      BY <2>1, Zenon
  <1>2. CASE part.feedback = None
    BY <1>1, <1>2, Zenon DEF feedback_measured
  <1>3. CASE part.feedback # None
    <2> DEFINE f == part.feedback
               d == update_playout_delay(reported, f.playout_delay)
    <2>1. f \in Feedbacks
      BY <1>3, Zenon DEF Parts
    <2>2. f.playout_delay \in ReceiverDelays /\ Len(f.nacks) \in Nat
      <3>1. f.playout_delay \in ReceiverDelays
        BY <2>1, Zenon DEF Feedbacks
      <3>2. any_feedback(f)
        BY <2>1, FeedbackType, Zenon
      <3> QED
        BY <3>1, <3>2, Zenon DEF any_feedback
    <2>3. feedback_measured(m, part) = count_nacks(d, f.nacks)
      BY <1>3, Zenon DEF feedback_measured
    <2> HIDE DEF reported, f
    <2>4. d \in Measurements
      BY <1>1, <2>2, Zenon DEF update_playout_delay, Measurements
    <2> HIDE DEF d
    <2>5. count_nacks(d, f.nacks) \in Measurements
      <3> DEFINE total == d.nack_count + Len(f.nacks)
      <3>1. total \in Nat
        BY <2>2, <2>4 DEF Measurements
      <3>2. count_nacks(d, f.nacks) = [d EXCEPT !.nack_count = total]
        BY Zenon DEF count_nacks
      <3> HIDE DEF total
      <3> QED
        BY <2>4, <3>1, <3>2, Zenon DEF Measurements
    <2> QED
      BY <2>3, <2>5, Zenon
  <1> QED
    BY <1>2, <1>3, Zenon
-----------------------------------------------------------------------------
\* The end of an arm.  What is sent arms the watchdog of its stream, and only a
\* stream with frames in flight has something to send.
LEMMA FlushStep ==
  ASSUME IInv, Running, NEW STATE ss, NEW STATE wd, NEW STATE count, NEW STATE changed,
         \A t \in Kinds : stream_inv(ss[t]), wd \in [Kinds -> Watchdogs], count \in Nat,
         flush_queued_packets(ss, wd, count, changed)
  PROVE  /\ streams' \in [Kinds -> Streams] /\ watchdog' \in [Kinds -> Watchdogs]
         /\ \A t \in Kinds :
              /\ stream_inv(streams'[t])
              /\ streams'[t].pending = ss[t].pending
              /\ watchdog'[t].has_acknowledged = wd[t].has_acknowledged
              /\ \/ watchdog'[t].waiting = wd[t].waiting
                 \/ wd[t].waiting = None /\ watchdog'[t].waiting = 0 /\ in_flight(ss[t]) # {}
              /\ Running' => streams'[t].send_queue = ss[t].send_queue \/ watchdog'[t].waiting # None
         /\ Reserved(events') /\ TerminalEventDelivered'
         /\ \/ result' = "Running" /\ schedule(changed)
            \/ result' = "Transport" /\ UNCHANGED statistics
  <1>1. Reserved(events)
    BY Zenon DEF IInv, LoopTypeOK, EventsInv, Reserved, EventChannels
  <1>2. ASSUME NEW sent \in payable(ss), NEW t \in Kinds
        PROVE  /\ sent[t] \in Nat
               /\ stream_inv(pop_packets(ss[t], sent[t]))
               /\ pop_packets(ss[t], sent[t]).pending = ss[t].pending
               /\ sent[t] = 0 => pop_packets(ss[t], sent[t]) = ss[t]
               /\ sent[t] > 0 => in_flight(ss[t]) # {}
    <2>1. sent[t] \in Nat /\ sent[t] <= Len(queued(ss[t]))
      <3> DEFINE M == Max({Len(queued(ss[k])) : k \in Kinds})
      <3>1. sent \in [Kinds -> 0 .. M] /\ sent[t] <= Len(queued(ss[t]))
        BY Zenon DEF payable
      <3> HIDE DEF M
      <3>2. sent[t] \in 0 .. M
        BY <3>1, Zenon
      <3>3. sent[t] \in Nat
        BY <3>2
      <3> QED
        BY <3>1, <3>3, Zenon
    <2> QED
      BY <2>1, PopPacketsInv, PopStep, Zenon
  <1>3. ASSUME NEW w \in Watchdogs
        PROVE  /\ packet_sent(w) \in Watchdogs
               /\ packet_sent(w).has_acknowledged = w.has_acknowledged
               /\ packet_sent(w).waiting = IF w.waiting = None THEN 0 ELSE w.waiting
               /\ packet_sent(w).waiting # None
    BY NoneAssumption DEF packet_sent, Watchdogs
  <1>4. ASSUME NEW sent \in payable(ss), NEW armed \in SUBSET Kinds,
               \A t \in armed : sent[t] > 0,
               streams' = [t \in Kinds |-> pop_packets(ss[t], sent[t])],
               watchdog' = [t \in Kinds |-> IF t \in armed THEN packet_sent(wd[t]) ELSE wd[t]],
               Running' => \A t \in Kinds : sent[t] > 0 => t \in armed
        PROVE  /\ streams' \in [Kinds -> Streams] /\ watchdog' \in [Kinds -> Watchdogs]
               /\ \A t \in Kinds :
                    /\ stream_inv(streams'[t])
                    /\ streams'[t].pending = ss[t].pending
                    /\ watchdog'[t].has_acknowledged = wd[t].has_acknowledged
                    /\ \/ watchdog'[t].waiting = wd[t].waiting
                       \/ wd[t].waiting = None /\ watchdog'[t].waiting = 0 /\ in_flight(ss[t]) # {}
                    /\ Running' => streams'[t].send_queue = ss[t].send_queue \/ watchdog'[t].waiting # None
    <2>1. ASSUME NEW t \in Kinds
          PROVE  /\ stream_inv(streams'[t]) /\ streams'[t] \in Streams
                 /\ streams'[t].pending = ss[t].pending
                 /\ watchdog'[t] \in Watchdogs
                 /\ watchdog'[t].has_acknowledged = wd[t].has_acknowledged
                 /\ \/ watchdog'[t].waiting = wd[t].waiting
                    \/ wd[t].waiting = None /\ watchdog'[t].waiting = 0 /\ in_flight(ss[t]) # {}
                 /\ Running' => streams'[t].send_queue = ss[t].send_queue \/ watchdog'[t].waiting # None
      <3>1. /\ streams'[t] = pop_packets(ss[t], sent[t])
            /\ watchdog'[t] = IF t \in armed THEN packet_sent(wd[t]) ELSE wd[t]
            /\ wd[t] \in Watchdogs
        BY <1>4, Zenon
      <3>2. /\ sent[t] \in Nat /\ stream_inv(streams'[t]) /\ streams'[t].pending = ss[t].pending
            /\ sent[t] = 0 => streams'[t] = ss[t]
            /\ sent[t] > 0 => in_flight(ss[t]) # {}
        BY <1>2, <3>1, Zenon
      <3>3. streams'[t] \in Streams
        BY <3>2, Zenon DEF stream_inv
      <3>4. CASE t \in armed
        BY <1>3, <1>4, <3>1, <3>2, <3>3, <3>4, Zenon
      <3>5. CASE t \notin armed
        <4>1. Running' => sent[t] = 0
          BY <1>4, <3>2, <3>5, SMTT(30)
        <4> QED
          BY <3>1, <3>2, <3>3, <3>5, <4>1, Zenon
      <3> QED
        BY <3>4, <3>5, Zenon
    <2>2. streams' \in [Kinds -> Streams] /\ watchdog' \in [Kinds -> Watchdogs]
      BY <1>4, <2>1, Zenon
    <2> QED
      BY <2>1, <2>2, Zenon
  <1>5. CASE \E sent \in payable(ss) :
               /\ streams' = [t \in Kinds |-> pop_packets(ss[t], sent[t])]
               /\ watchdog' = [t \in Kinds |-> IF sent[t] > 0 THEN packet_sent(wd[t]) ELSE wd[t]]
               /\ events' = emit_nonterminal(events, count)
               /\ schedule(changed)
               /\ UNCHANGED result
    <2>1. PICK sent \in payable(ss) :
               /\ streams' = [t \in Kinds |-> pop_packets(ss[t], sent[t])]
               /\ watchdog' = [t \in Kinds |-> IF sent[t] > 0 THEN packet_sent(wd[t]) ELSE wd[t]]
               /\ events' = emit_nonterminal(events, count)
               /\ schedule(changed)
               /\ UNCHANGED result
      BY <1>5, Zenon
    <2> DEFINE armed == {t \in Kinds : sent[t] > 0}
    <2>2. watchdog' = [t \in Kinds |-> IF t \in armed THEN packet_sent(wd[t]) ELSE wd[t]]
      BY <2>1, Zenon
    <2>3. result' = "Running" /\ TerminalEventDelivered'
      BY <2>1, Zenon DEF Running, TerminalEventDelivered
    <2>4. Reserved(events')
      BY <1>1, <2>1, EmitNonterminal, Zenon
    <2>5. armed \in SUBSET Kinds /\ (\A t \in armed : sent[t] > 0) /\ \A t \in Kinds : sent[t] > 0 => t \in armed
      OBVIOUS
    <2> HIDE DEF armed
    <2> QED
      BY <1>4, <2>1, <2>2, <2>3, <2>4, <2>5, Zenon
  <1>6. CASE \E sent \in payable(ss) :
               /\ sent[failing(sent)] > 0
               /\ streams' = [t \in Kinds |-> pop_packets(ss[t], sent[t])]
               /\ watchdog' = [t \in Kinds |-> IF sent[t] > (IF t = failing(sent) THEN 1 ELSE 0)
                                               THEN packet_sent(wd[t]) ELSE wd[t]]
               /\ events' = emit_terminal(emit_nonterminal(events, count), "FatalError")
               /\ result' = "Transport"
               /\ UNCHANGED statistics
    <2>1. PICK sent \in payable(ss) :
               /\ streams' = [t \in Kinds |-> pop_packets(ss[t], sent[t])]
               /\ watchdog' = [t \in Kinds |-> IF sent[t] > (IF t = failing(sent) THEN 1 ELSE 0)
                                               THEN packet_sent(wd[t]) ELSE wd[t]]
               /\ events' = emit_terminal(emit_nonterminal(events, count), "FatalError")
               /\ result' = "Transport"
               /\ UNCHANGED statistics
      BY <1>6, Zenon
    <2> DEFINE armed == {t \in Kinds : sent[t] > (IF t = failing(sent) THEN 1 ELSE 0)}
    <2>2. watchdog' = [t \in Kinds |-> IF t \in armed THEN packet_sent(wd[t]) ELSE wd[t]]
      BY <2>1, Zenon
    <2>3. Reserved(events') /\ (events'.open => events'.terminal # None)
      <3>1. Reserved(emit_nonterminal(events, count))
        BY <1>1, EmitNonterminal, Zenon
      <3> QED
        BY <2>1, <3>1, EmitTerminal, Zenon
    <2>4. TerminalEventDelivered' /\ ~Running'
      BY <2>1, <2>3, Zenon DEF Running, TerminalEventDelivered
    <2>5. armed \in SUBSET Kinds /\ \A t \in armed : sent[t] > 0
      BY <1>2
    <2> HIDE DEF armed
    <2> QED
      BY <1>4, <2>1, <2>2, <2>3, <2>4, <2>5, ZenonT(40)
  <1> QED
    BY <1>5, <1>6, Zenon DEF flush_queued_packets

\* A step that schedules a notification when it changes the feedback state.
LEMMA StatisticsStep ==
  ASSUME IInv, Running' => Running, UNCHANGED <<published, stale>>,
         \/ /\ ~statistics.pending
            /\ statistics' = [pending |-> TRUE, due |-> STATISTICS_DEBOUNCE_INTERVAL]
         \/ /\ UNCHANGED statistics
            /\ \/ statistics.pending
               \/ ~Running'
               \/ session_feedback_state(streams, measured)' = session_feedback_state(streams, measured)
  PROVE  /\ StatisticsInv'
         /\ statistics' \in [pending : BOOLEAN, due : 0 .. STATISTICS_DEBOUNCE_INTERVAL]
  <1>1. /\ statistics \in [pending : BOOLEAN, due : 0 .. STATISTICS_DEBOUNCE_INTERVAL] /\ stale \in Nat
        /\ STATISTICS_DEBOUNCE_INTERVAL \in Nat
    BY TimersAssumption, Zenon DEF IInv, LoopTypeOK
  <1>2. StatisticsInv
    BY Zenon DEF IInv
  <1>3. CASE /\ ~statistics.pending
             /\ statistics' = [pending |-> TRUE, due |-> STATISTICS_DEBOUNCE_INTERVAL]
    BY <1>1, <1>2, <1>3 DEF StatisticsInv, ChangesAreScheduled
  <1>4. CASE UNCHANGED statistics
    <2>1. /\ statistics'.pending => stale' + statistics'.due <= STATISTICS_DEBOUNCE_INTERVAL
          /\ ~statistics'.pending => stale' = 0
      BY <1>2, <1>4, Zenon DEF StatisticsInv
    <2>2. Running' /\ ~statistics'.pending => published' = session_feedback_state(streams, measured)'
      BY <1>2, <1>4 DEF StatisticsInv, ChangesAreScheduled
    <2> QED
      BY <1>1, <1>4, <2>1, <2>2, Zenon DEF StatisticsInv, ChangesAreScheduled
  <1> QED
    BY <1>3, <1>4, Zenon

\* The timeouts are counted in units.
LEMMA TimeoutType ==
  ASSUME NEW w
  PROVE  timeout(w) \in Nat \ {0} /\ timeout(w) <= INITIAL_RECEIVER_ACKNOWLEDGEMENT_TIMEOUT
  BY TimersAssumption, TimeoutsAssumption DEF timeout

\* An arm that ends with a flush, from the streams ss and watchdogs wd it made.
LEMMA ArmInv ==
  ASSUME IInv, Running, NEW STATE ss, NEW STATE wd, NEW STATE count, NEW STATE changed,
         \A t \in Kinds : stream_inv(ss[t]), wd \in [Kinds -> Watchdogs], count \in Nat,
         flush_queued_packets(ss, wd, count, changed),
         \A t \in Kinds :
           /\ wd[t].waiting # None => in_flight(ss[t]) # {}
           /\ transmitted(ss[t]) => wd[t].waiting # None
           /\ \/ wd[t] = watchdog[t] /\ silent'[t] = silent[t] /\ unanswered'[t] = unanswered[t]
              \/ wd[t].waiting \in {0, None} /\ silent'[t] = 0,
         measured' \in [Kinds -> Measurements],
         unanswered' \in [Kinds -> Nat] /\ silent' \in [Kinds -> Nat],
         UNCHANGED <<timers, published, stale>>,
         ~changed => [t \in Kinds |-> stream_feedback_state(ss[t], measured'[t])]
                       = session_feedback_state(streams, measured)
  PROVE  IInv'
  <1>1. /\ streams' \in [Kinds -> Streams] /\ watchdog' \in [Kinds -> Watchdogs]
        /\ \A t \in Kinds :
             /\ stream_inv(streams'[t])
             /\ streams'[t].pending = ss[t].pending
             /\ watchdog'[t].has_acknowledged = wd[t].has_acknowledged
             /\ \/ watchdog'[t].waiting = wd[t].waiting
                \/ wd[t].waiting = None /\ watchdog'[t].waiting = 0 /\ in_flight(ss[t]) # {}
             /\ Running' => streams'[t].send_queue = ss[t].send_queue \/ watchdog'[t].waiting # None
        /\ Reserved(events') /\ TerminalEventDelivered'
        /\ \/ result' = "Running" /\ schedule(changed)
           \/ result' = "Transport" /\ UNCHANGED statistics
    BY FlushStep, Zenon
  <1>2. session_feedback_state(streams, measured)'
          = [t \in Kinds |-> stream_feedback_state(ss[t], measured'[t])]
    <2>1. ASSUME NEW t \in Kinds
          PROVE  stream_feedback_state(streams'[t], measured'[t]) = stream_feedback_state(ss[t], measured'[t])
      <3>1. streams'[t].pending = ss[t].pending
        BY <1>1, ZenonT(40)
      <3> QED
        BY <3>1, FeedbackStateDepends, ZenonT(40)
    <2> QED
      BY <2>1, Zenon DEF session_feedback_state
  <1>3. StatisticsInv' /\ statistics' \in [pending : BOOLEAN, due : 0 .. STATISTICS_DEBOUNCE_INTERVAL]
    <2>1. \/ /\ ~statistics.pending
             /\ statistics' = [pending |-> TRUE, due |-> STATISTICS_DEBOUNCE_INTERVAL]
          \/ /\ UNCHANGED statistics
             /\ \/ statistics.pending
                \/ ~Running'
                \/ session_feedback_state(streams, measured)' = session_feedback_state(streams, measured)
      <3>1. CASE result' = "Running" /\ schedule(changed)
        BY <1>2, <3>1, ZenonT(40) DEF schedule
      <3>2. CASE result' = "Transport" /\ UNCHANGED statistics
        BY <3>2, Zenon DEF Running
      <3> QED
        BY <1>1, <3>1, <3>2, Zenon
    <2> QED
      BY <2>1, StatisticsStep, Zenon
  <1>4. ASSUME NEW t \in Kinds
        PROVE  WatchdogInv(t)'
    <2>1. in_flight(streams'[t]) = in_flight(ss[t])
      BY <1>1, Zenon DEF in_flight
    <2>2. streams'[t].send_queue = ss[t].send_queue => (transmitted(streams'[t]) <=> transmitted(ss[t]))
      BY <1>1, TransmittedDepends, ZenonT(40)
    <2>3. /\ WatchdogInv(t) /\ unanswered'[t] \in Nat /\ silent'[t] \in Nat /\ unanswered[t] \in Nat
          /\ timers'.poll \in 0 .. RECEIVER_TIMEOUT_POLL_INTERVAL /\ timers'.poll = timers.poll
          /\ RECEIVER_TIMEOUT_POLL_INTERVAL \in Nat
      BY TimersAssumption, Zenon DEF IInv, LoopTypeOK
    <2>4. timeout(watchdog'[t]) = timeout(wd[t]) /\ timeout(wd[t]) \in Nat
      BY <1>1, TimeoutType, Zenon DEF timeout
    <2>5. /\ watchdog'[t].waiting # None => in_flight(streams'[t]) # {}
          /\ Running' /\ transmitted(streams'[t]) => watchdog'[t].waiting # None
          /\ watchdog'[t].waiting = None => silent'[t] = 0
      BY <1>1, <2>1, <2>2, <2>3, NoneAssumption, Zenon DEF WatchdogInv
    <2>6. ASSUME watchdog'[t].waiting # None
          PROVE  /\ silent'[t] <= watchdog'[t].waiting
                 /\ watchdog'[t].waiting <= unanswered'[t] \/ INITIAL_RECEIVER_ACKNOWLEDGEMENT_TIMEOUT <= unanswered'[t]
                 /\ watchdog'[t].waiting + timers'.poll <= timeout(watchdog'[t]) + RECEIVER_TIMEOUT_POLL_INTERVAL
      <3>1. CASE watchdog'[t].waiting = 0 /\ silent'[t] = 0
        BY <2>3, <2>4, <3>1
      <3>2. CASE wd[t] = watchdog[t] /\ watchdog'[t].waiting = wd[t].waiting /\ silent'[t] = silent[t] /\ unanswered'[t] = unanswered[t]
        BY <2>3, <2>4, <2>6, <3>2, Zenon DEF WatchdogInv
      <3>3. \/ watchdog'[t].waiting = 0 /\ silent'[t] = 0
            \/ wd[t] = watchdog[t] /\ watchdog'[t].waiting = wd[t].waiting /\ silent'[t] = silent[t] /\ unanswered'[t] = unanswered[t]
        BY <1>1, <2>3, <2>6, Zenon DEF WatchdogInv
      <3> QED
        BY <3>1, <3>2, <3>3, ZenonT(40)
    <2> QED
      BY <2>5, <2>6, ZenonT(40) DEF WatchdogInv
  <1>5. LoopTypeOK'
    <2>1. timers' \in [poll : 0 .. RECEIVER_TIMEOUT_POLL_INTERVAL, report : 0 .. RTCP_REPORT_INTERVAL] /\ stale' \in Nat
      BY Zenon DEF IInv, LoopTypeOK
    <2> QED
      BY <1>1, <1>3, <2>1, ZenonT(40) DEF LoopTypeOK, Watchdogs, Reserved, EventChannels
  <1>6. EventsInv' /\ TimeoutIsJustified'
    BY <1>1, Zenon DEF EventsInv, Reserved, TimeoutIsJustified
  <1> QED
    BY <1>1, <1>3, <1>4, <1>5, <1>6, Zenon DEF IInv
-----------------------------------------------------------------------------
\* Facts about the state before a step.
LEMMA Facts ==
  ASSUME IInv
  PROVE  /\ streams \in [Kinds -> Streams] /\ measured \in [Kinds -> Measurements]
         /\ watchdog \in [Kinds -> Watchdogs]
         /\ unanswered \in [Kinds -> Nat] /\ silent \in [Kinds -> Nat] /\ stale \in Nat
         /\ timers \in [poll : 0 .. RECEIVER_TIMEOUT_POLL_INTERVAL, report : 0 .. RTCP_REPORT_INTERVAL]
         /\ Reserved(events)
         /\ \A t \in Kinds :
              /\ stream_inv(streams[t]) /\ measured[t] \in Measurements /\ watchdog[t] \in Watchdogs
              /\ WatchdogInv(t)
  BY Zenon DEF IInv, LoopTypeOK, Watchdogs, Reserved, EventChannels, EventsInv

\* An accepted frame.
LEMMA EnqueueFrameStep ==
  ASSUME IInv, NEW t \in Kinds, NEW frame \in SubmittedFrames(t), EnqueueFrame(t, frame)
  PROVE  IInv'
  <1> DEFINE ss == [streams EXCEPT ![t] = accept_frame(@, frame)]
             changed == session_feedback_state(ss, measured) # session_feedback_state(streams, measured)
  <1>1. /\ Running /\ enqueue_error(streams[t], frame) = None
        /\ flush_queued_packets(ss, watchdog, 0, changed)
        /\ UNCHANGED <<measured, timers, unanswered, silent, published, stale>>
    BY Zenon DEF EnqueueFrame, observed
  <1>2. frame \in AnyFrames
    <2> DEFINE times == {streams[t].next_frame_id - 1, streams[t].next_frame_id} \cap Nat
               durations == {1}
    <2>1. PacketCounts \subseteq Nat /\ times \subseteq Nat /\ durations \subseteq Nat
      BY InputsAssumption
    <2>2. frame \in [packets : PacketCounts, dependency : {"KeyFrame", "Delta"},
                     media_timestamp : times, duration : durations]
      BY Zenon DEF SubmittedFrames
    <2> HIDE DEF times, durations
    <2> QED
      BY <2>1, <2>2, Zenon DEF AnyFrames
  <1>3. ASSUME NEW k \in Kinds
        PROVE  /\ stream_inv(ss[k])
               /\ in_flight(streams[k]) # {} => in_flight(ss[k]) # {}
               /\ transmitted(ss[k]) => transmitted(streams[k])
    <2>1. ss[k] = IF k = t THEN accept_frame(streams[t], frame) ELSE streams[k]
      BY Facts, Zenon
    <2> HIDE DEF ss
    <2>2. stream_inv(streams[k])
      BY Facts, Zenon
    <2>3. CASE k = t
      <3>1. stream_inv(streams[t]) /\ enqueue_error(streams[t], frame) = None
        BY <1>1, <2>2, <2>3, Zenon
      <3>2. stream_inv(accept_frame(streams[t], frame))
        BY <1>2, <3>1, AcceptFrameInv, Zenon
      <3>3. /\ in_flight(streams[t]) # {} => in_flight(accept_frame(streams[t], frame)) # {}
            /\ transmitted(accept_frame(streams[t], frame)) => transmitted(streams[t])
        BY <1>2, <3>1, AcceptStep, Zenon
      <3>4. ss[k] = accept_frame(streams[t], frame)
        BY <2>1, <2>3, Zenon
      <3> QED
        BY <2>3, <3>2, <3>3, <3>4, Zenon
    <2>4. CASE k # t
      BY <2>1, <2>2, <2>4, Zenon
    <2> QED
      BY <2>3, <2>4, Zenon
  <1>4. ~changed => [k \in Kinds |-> stream_feedback_state(ss[k], measured'[k])]
                      = session_feedback_state(streams, measured)
    <2> HIDE DEF ss
    <2> QED
      BY <1>1, Zenon DEF session_feedback_state
  <1>5. \A k \in Kinds :
          /\ watchdog[k].waiting # None => in_flight(ss[k]) # {}
          /\ transmitted(ss[k]) => watchdog[k].waiting # None
          /\ watchdog[k] = watchdog[k] /\ silent'[k] = silent[k] /\ unanswered'[k] = unanswered[k]
    <2> HIDE DEF ss
    <2> QED
      BY <1>1, <1>3, Facts, Zenon DEF WatchdogInv
  <1>6. /\ measured' \in [Kinds -> Measurements]
        /\ unanswered' \in [Kinds -> Nat] /\ silent' \in [Kinds -> Nat] /\ watchdog \in [Kinds -> Watchdogs]
    BY <1>1, Facts, Zenon
  <1> HIDE DEF ss, changed
  <1> QED
    BY <1>1, <1>3, <1>4, <1>5, <1>6, ArmInv, ZenonT(40)

\* The burst timer.
LEMMA BurstTickStep ==
  ASSUME IInv, BurstTick
  PROVE  IInv'
  <1>1. /\ Running /\ flush_queued_packets(streams, watchdog, 0, FALSE)
        /\ UNCHANGED <<measured, timers, unanswered, silent, published, stale>>
    BY Zenon DEF BurstTick, observed
  <1>2. [k \in Kinds |-> stream_feedback_state(streams[k], measured'[k])]
          = session_feedback_state(streams, measured)
    BY <1>1, Zenon DEF session_feedback_state
  <1>3. \A k \in Kinds :
          /\ watchdog[k].waiting # None => in_flight(streams[k]) # {}
          /\ transmitted(streams[k]) => watchdog[k].waiting # None
          /\ watchdog[k] = watchdog[k] /\ silent'[k] = silent[k] /\ unanswered'[k] = unanswered[k]
          /\ stream_inv(streams[k])
    BY <1>1, Facts, Zenon DEF WatchdogInv
  <1>4. /\ measured' \in [Kinds -> Measurements] /\ watchdog \in [Kinds -> Watchdogs]
        /\ unanswered' \in [Kinds -> Nat] /\ silent' \in [Kinds -> Nat]
    BY <1>1, Facts, Zenon
  <1> QED
    BY <1>1, <1>2, <1>3, <1>4, ArmInv, Zenon

\* Receiver feedback, whatever it says.
LEMMA ReceiveCompoundStep ==
  ASSUME IInv, NEW compound \in Compounds, ReceiveCompound(compound)
  PROVE  IInv'
  <1> DEFINE ss == [t \in Kinds |-> feedback_applied(streams[t], compound[t])]
             ms == [t \in Kinds |-> feedback_measured(measured[t], compound[t])]
             wd == [t \in Kinds |-> IF t \in progress(compound)
                                    THEN acknowledgement_advanced(watchdog[t], in_flight_count(ss[t]) # 0)
                                    ELSE watchdog[t]]
             made == [t \in Kinds |-> feedback_events(streams[t], compound[t])]
             count == over_kinds(made)
             changed == session_feedback_state(ss, ms) # session_feedback_state(streams, measured)
  <1>1. /\ Running /\ measured' = ms
        /\ \A t \in Kinds : compound[t].report # None =>
                              compound[t].report.last_sr <= Len(measured[t].sender_reports)
        /\ flush_queued_packets(ss, wd, count, changed)
        /\ unanswered' = [t \in Kinds |-> IF acknowledged(streams[t], compound[t]) # {} THEN 0 ELSE unanswered[t]]
        /\ silent' = [t \in Kinds |-> IF acknowledged(streams[t], compound[t]) # {} THEN 0 ELSE silent[t]]
        /\ UNCHANGED <<timers, published, stale>>
    BY Zenon DEF ReceiveCompound
  <1>2. \A t \in Kinds : compound[t] \in Parts
    BY Zenon DEF Compounds
  <1>3. ASSUME NEW t \in Kinds
        PROVE  /\ stream_inv(ss[t]) /\ made[t] \in Nat /\ ms[t] \in Measurements
               /\ acknowledged(streams[t], compound[t]) = {} =>
                    in_flight(ss[t]) = in_flight(streams[t]) /\ (transmitted(ss[t]) <=> transmitted(streams[t]))
    <2> DEFINE s == streams[t]
               part == compound[t]
    <2>1. stream_inv(s) /\ part \in Parts /\ measured[t] \in Measurements
      BY <1>2, Facts, Zenon
    <2>2. ss[t] = feedback_applied(s, part) /\ made[t] = feedback_events(s, part) /\ ms[t] = feedback_measured(measured[t], part)
      OBVIOUS
    <2>3. feedback_measured(measured[t], part) \in Measurements
      BY <1>1, <2>1, FeedbackMeasured, Zenon
    <2> HIDE DEF s, part, ss, made, ms
    <2>4. /\ stream_inv(ss[t]) /\ made[t] \in Nat
          /\ acknowledged(s, part) = {} => ss[t].pending = s.pending /\ ss[t].send_queue = s.send_queue
      BY <2>1, <2>2, FeedbackStep, SMTT(30)
    <2>5. acknowledged(s, part) = {} =>
            in_flight(ss[t]) = in_flight(s) /\ (transmitted(ss[t]) <=> transmitted(s))
      BY <2>4, TransmittedDepends, Zenon
    <2> QED
      BY <2>2, <2>3, <2>4, <2>5, Zenon DEF s, part
  <1>4. count \in Nat
    <2> HIDE DEF made
    <2> QED
      BY <1>3, SMTT(30) DEF over_kinds
  <1>5. ASSUME NEW t \in Kinds
        PROVE  /\ wd[t] \in Watchdogs
               /\ wd[t].waiting # None => in_flight(ss[t]) # {}
               /\ transmitted(ss[t]) => wd[t].waiting # None
               /\ \/ wd[t] = watchdog[t] /\ silent'[t] = silent[t] /\ unanswered'[t] = unanswered[t]
                  \/ wd[t].waiting \in {0, None} /\ silent'[t] = 0
    <2> HIDE DEF ss
    <2>1. /\ wd[t] = IF t \in progress(compound)
                     THEN acknowledgement_advanced(watchdog[t], in_flight_count(ss[t]) # 0)
                     ELSE watchdog[t]
          /\ t \in progress(compound) <=> acknowledged(streams[t], compound[t]) # {}
      BY Zenon DEF progress
    <2>2. in_flight_count(ss[t]) # 0 <=> in_flight(ss[t]) # {}
      BY CountZero, Zenon
    <2>3. transmitted(ss[t]) => in_flight(ss[t]) # {}
      BY Zenon DEF transmitted
    <2> HIDE DEF wd
    <2>4. CASE t \in progress(compound)
      <3>1. /\ wd[t] = [waiting |-> IF in_flight(ss[t]) # {} THEN 0 ELSE None, has_acknowledged |-> TRUE]
            /\ silent'[t] = 0
        BY <1>1, <2>1, <2>2, <2>4, Zenon DEF acknowledgement_advanced
      <3> QED
        BY <2>3, <3>1, NoneAssumption DEF Watchdogs
    <2>5. CASE t \notin progress(compound)
      <3>1. wd[t] = watchdog[t] /\ silent'[t] = silent[t] /\ unanswered'[t] = unanswered[t]
        BY <1>1, <2>1, <2>5, ZenonT(40)
      <3>2. /\ watchdog[t] \in Watchdogs /\ WatchdogInv(t)
            /\ in_flight(ss[t]) = in_flight(streams[t]) /\ (transmitted(ss[t]) <=> transmitted(streams[t]))
        BY <1>3, <2>1, <2>5, Facts, Zenon
      <3> QED
        BY <1>1, <3>1, <3>2, Zenon DEF WatchdogInv
    <2> QED
      BY <2>4, <2>5, Zenon
  <1>6. /\ measured' \in [Kinds -> Measurements] /\ wd \in [Kinds -> Watchdogs]
        /\ unanswered' \in [Kinds -> Nat] /\ silent' \in [Kinds -> Nat]
    BY <1>1, <1>3, <1>5, Facts, Zenon
  <1>7. ~changed => [k \in Kinds |-> stream_feedback_state(ss[k], measured'[k])]
                      = session_feedback_state(streams, measured)
    <2> HIDE DEF ss, ms
    <2> QED
      BY <1>1, Zenon DEF session_feedback_state
  <1> HIDE DEF ss, ms, wd, made, count, changed
  <1> QED
    BY <1>1, <1>3, <1>4, <1>5, <1>6, <1>7, ArmInv, Zenon
-----------------------------------------------------------------------------
\* A step that leaves the window, the send queue and the watchdog of each
\* stream alone.
LEMMA WatchdogKept ==
  ASSUME IInv, Running' => Running, UNCHANGED <<watchdog, unanswered, silent>>,
         timers'.poll = timers.poll,
         \A t \in Kinds : /\ streams'[t].pending = streams[t].pending
                          /\ streams'[t].send_queue = streams[t].send_queue
  PROVE  \A t \in Kinds : WatchdogInv(t)'
  <1> SUFFICES ASSUME NEW t \in Kinds PROVE WatchdogInv(t)'
    BY Zenon
  <1>1. in_flight(streams'[t]) = in_flight(streams[t]) /\ (transmitted(streams'[t]) <=> transmitted(streams[t]))
    BY TransmittedDepends, Zenon
  <1>2. WatchdogInv(t)
    BY Facts, Zenon
  <1> QED
    BY <1>1, <1>2, Zenon DEF WatchdogInv

\* A step that leaves the streams, the watchdogs and the clocks alone.
LEMMA QuietStep ==
  ASSUME IInv, Running' => Running, UNCHANGED <<streams, watchdog, unanswered, silent, published, stale>>,
         timers' \in [poll : 0 .. RECEIVER_TIMEOUT_POLL_INTERVAL, report : 0 .. RTCP_REPORT_INTERVAL],
         timers'.poll = timers.poll,
         measured' \in [Kinds -> Measurements],
         Reserved(events'), TerminalEventDelivered',
         result' \in {result, "Ok", "Transport"},
         \/ /\ ~statistics.pending
            /\ statistics' = [pending |-> TRUE, due |-> STATISTICS_DEBOUNCE_INTERVAL]
         \/ /\ UNCHANGED statistics
            /\ \/ statistics.pending
               \/ ~Running'
               \/ session_feedback_state(streams, measured)' = session_feedback_state(streams, measured)
  PROVE  IInv'
  <1>1. \A t \in Kinds : WatchdogInv(t)'
    BY WatchdogKept, Zenon
  <1>2. /\ StatisticsInv'
        /\ statistics' \in [pending : BOOLEAN, due : 0 .. STATISTICS_DEBOUNCE_INTERVAL]
    BY StatisticsStep, Zenon
  <1>3. EventsInv' /\ TimeoutIsJustified'
    BY Zenon DEF IInv, EventsInv, Reserved, TimeoutIsJustified
  <1>4. LoopTypeOK'
    BY <1>2, Zenon DEF IInv, LoopTypeOK, Reserved, EventChannels
  <1>5. \A t \in Kinds : stream_inv(streams'[t])
    BY Facts, Zenon
  <1> QED
    BY <1>1, <1>2, <1>3, <1>4, <1>5, Zenon DEF IInv

\* A refused frame is announced.
LEMMA RefuseFrameStep ==
  ASSUME IInv, NEW t \in Kinds, NEW frame, RefuseFrame(t, frame)
  PROVE  IInv'
  <1>1. /\ Running /\ measured' = [measured EXCEPT ![t] = reject_frame(@)] /\ schedule(TRUE)
        /\ UNCHANGED <<streams, watchdog, timers, events, result, unanswered, silent, published, stale>>
    BY Zenon DEF RefuseFrame, observed
  <1>2. measured' \in [Kinds -> Measurements]
    BY <1>1, Facts, MeasuredTypes, Zenon
  <1>3. Reserved(events') /\ TerminalEventDelivered'
    BY <1>1, Facts, Zenon DEF IInv, EventsInv, TerminalEventDelivered
  <1>4. \/ /\ ~statistics.pending
           /\ statistics' = [pending |-> TRUE, due |-> STATISTICS_DEBOUNCE_INTERVAL]
        \/ UNCHANGED statistics /\ statistics.pending
    BY <1>1, Zenon DEF schedule
  <1>5. /\ Running' => Running
        /\ timers' \in [poll : 0 .. RECEIVER_TIMEOUT_POLL_INTERVAL, report : 0 .. RTCP_REPORT_INTERVAL]
        /\ timers'.poll = timers.poll /\ result' \in {result, "Ok", "Transport"}
    BY <1>1, Facts, Zenon
  <1> QED
    BY <1>1, <1>2, <1>3, <1>4, <1>5, QuietStep, Zenon

\* A new target delay leaves the window and the queues alone.
LEMMA SetTargetPlayoutDelayStep ==
  ASSUME IInv, NEW delay \in TargetDelays, SetTargetPlayoutDelay(delay)
  PROVE  IInv'
  <1>1. /\ Running
        /\ streams' = [t \in Kinds |-> set_target_playout_delay(streams[t], delay)]
        /\ measured' = [t \in Kinds |-> target_delay(measured[t], delay)]
        /\ schedule(session_feedback_state(streams', measured') # session_feedback_state(streams, measured))
        /\ UNCHANGED <<watchdog, timers, events, result, unanswered, silent, published, stale>>
    BY Zenon DEF SetTargetPlayoutDelay, observed
  <1>2. ASSUME NEW t \in Kinds
        PROVE  /\ stream_inv(streams'[t]) /\ streams'[t] \in Streams
               /\ streams'[t].pending = streams[t].pending /\ streams'[t].send_queue = streams[t].send_queue
    <2> DEFINE s == streams[t]
               r == streams'[t]
    <2>1. stream_inv(s) /\ delay \in Nat
      BY Facts, InputsAssumption, Zenon
    <2>2. r = [s EXCEPT !.pending_playout_delay = delay]
      BY <1>1, Zenon DEF set_target_playout_delay
    <2> HIDE DEF s, r
    <2>3. /\ r \in Streams /\ r.next_frame_id = s.next_frame_id /\ r.checkpoint = s.checkpoint
          /\ r.pending = s.pending /\ r.send_queue = s.send_queue /\ r.retransmit_queue = s.retransmit_queue
      BY <2>1, <2>2, ZenonT(40) DEF stream_inv, Streams
    <2>4. window_is_sound(r) /\ packets_are_own(r)
      BY <2>1, <2>3, SMTT(30) DEF stream_inv, window_is_sound, packets_are_own, in_flight_id_span, in_flight
    <2>5. queue_is_in_flight(r, r.send_queue) /\ queue_is_in_flight(r, r.retransmit_queue)
      BY <2>1, <2>3, Zenon DEF stream_inv, queue_is_in_flight, is_pending
    <2> QED
      BY <2>3, <2>4, <2>5, Zenon DEF stream_inv, s, r
  <1>3. streams' \in [Kinds -> Streams]
    BY <1>1, <1>2, Zenon
  <1>4. measured' \in [Kinds -> Measurements]
    BY <1>1, Facts, MeasuredTypes, Zenon
  <1>5. /\ StatisticsInv'
        /\ statistics' \in [pending : BOOLEAN, due : 0 .. STATISTICS_DEBOUNCE_INTERVAL]
    <2>1. \/ /\ ~statistics.pending
             /\ statistics' = [pending |-> TRUE, due |-> STATISTICS_DEBOUNCE_INTERVAL]
          \/ /\ UNCHANGED statistics
             /\ \/ statistics.pending
                \/ session_feedback_state(streams', measured') = session_feedback_state(streams, measured)
      BY <1>1, Zenon DEF schedule
    <2>2. session_feedback_state(streams, measured)' = session_feedback_state(streams', measured')
      BY Zenon DEF session_feedback_state
    <2> QED
      BY <1>1, <2>1, <2>2, StatisticsStep, Zenon
  <1>6. \A t \in Kinds : WatchdogInv(t)'
    BY <1>1, <1>2, WatchdogKept, Zenon
  <1>7. EventsInv' /\ TimeoutIsJustified'
    BY <1>1, Zenon DEF IInv, EventsInv, TerminalEventDelivered, TimeoutIsJustified, Running
  <1>8. LoopTypeOK'
    BY <1>1, <1>3, <1>4, <1>5, Zenon DEF IInv, LoopTypeOK
  <1> QED
    BY <1>2, <1>5, <1>6, <1>7, <1>8, Zenon DEF IInv

\* The session ends, or a datagram does not parse, or the application takes or
\* drops events: only the channel and the result change.
LEMMA ChannelStep ==
  ASSUME IInv, Shutdown \/ ReceiveMalformed \/ ReceiveError \/ TakeEvent \/ DropEvents \/ UNCHANGED vars
  PROVE  IInv'
  <1>1. UNCHANGED <<streams, measured, watchdog, statistics, timers, unanswered, silent, published, stale>>
    BY Zenon DEF Shutdown, ReceiveMalformed, ReceiveError, TakeEvent, DropEvents, vars, core, observed
  <1>2. Reserved(events) /\ TerminalEventDelivered
    BY Facts, Zenon DEF IInv, EventsInv
  <1>3. /\ Running' => Running
        /\ Reserved(events') /\ TerminalEventDelivered' /\ result' \in {result, "Ok", "Transport"}
    <2>1. CASE Shutdown
      BY <1>2, <2>1, Zenon DEF Shutdown, Running, TerminalEventDelivered
    <2>2. CASE ReceiveMalformed
      BY <1>2, <2>2, EmitNonterminal, Zenon DEF ReceiveMalformed, Running, TerminalEventDelivered
    <2>3. CASE ReceiveError
      BY <1>2, <2>3, EmitTerminal, Zenon DEF ReceiveError, Running, TerminalEventDelivered
    <2>4. CASE TakeEvent
      <3>1. events' = [events EXCEPT !.waiting = @ - 1] /\ events.waiting > 0 /\ UNCHANGED result
        BY <2>4, Zenon DEF TakeEvent
      <3>2. events \in EventChannels /\ EVENT_CAPACITY \in Nat /\ RESERVED_TERMINAL_EVENT_SLOTS \in Nat
        BY <1>2, EventsAssumption, Zenon DEF Reserved
      <3>3. Reserved(events') /\ events'.open = events.open /\ events'.terminal = events.terminal
        BY <1>2, <3>1, <3>2 DEF Reserved, EventChannels
      <3> QED
        BY <1>2, <3>1, <3>3, Zenon DEF TerminalEventDelivered, Running
    <2>5. CASE DropEvents
      <3>1. events' = [events EXCEPT !.open = FALSE, !.waiting = 0] /\ UNCHANGED result
        BY <2>5, Zenon DEF DropEvents
      <3>2. Reserved(events') /\ events'.open = FALSE
        <4>1. 0 \in 0 .. EVENT_CAPACITY /\ 0 <= EVENT_CAPACITY - RESERVED_TERMINAL_EVENT_SLOTS
          BY EventsAssumption
        <4>2. events' \in EventChannels /\ events'.waiting = 0 /\ events'.open = FALSE
          BY <1>2, <3>1, <4>1, Zenon DEF Reserved, EventChannels
        <4> QED
          BY <4>1, <4>2, Zenon DEF Reserved
      <3> QED
        BY <3>1, <3>2, Zenon DEF TerminalEventDelivered, Running
    <2>6. CASE UNCHANGED vars
      BY <1>2, <2>6, Zenon DEF vars, TerminalEventDelivered, Running
    <2> QED
      BY <2>1, <2>2, <2>3, <2>4, <2>5, <2>6, Zenon
  <1>4. session_feedback_state(streams, measured)' = session_feedback_state(streams, measured)
    BY <1>1, Zenon DEF session_feedback_state
  <1>5. /\ timers' \in [poll : 0 .. RECEIVER_TIMEOUT_POLL_INTERVAL, report : 0 .. RTCP_REPORT_INTERVAL]
        /\ timers'.poll = timers.poll /\ measured' \in [Kinds -> Measurements]
    BY <1>1, Facts, Zenon
  <1> QED
    BY <1>1, <1>3, <1>4, <1>5, QuietStep, Zenon

\* Sender reports are not part of the feedback state.
LEMMA ReportTickStep ==
  ASSUME IInv, NEW reported \in SUBSET Kinds, ReportTick(reported)
  PROVE  IInv'
  <1>1. /\ Running
        /\ measured' = [t \in Kinds |-> IF t \in reported THEN record_sender_report(measured[t]) ELSE measured[t]]
        /\ timers' = [timers EXCEPT !.report = RTCP_REPORT_INTERVAL]
        /\ \/ UNCHANGED <<result, events>>
           \/ result' = "Transport" /\ events' = emit_terminal(events, "FatalError")
        /\ UNCHANGED <<streams, watchdog, statistics, unanswered, silent, published, stale>>
    BY Zenon DEF ReportTick, observed
  <1>2. /\ measured' \in [Kinds -> Measurements]
        /\ session_feedback_state(streams, measured)' = session_feedback_state(streams, measured)
    <2>1. ASSUME NEW t \in Kinds
          PROVE  /\ measured'[t] \in Measurements
                 /\ stream_feedback_state(streams[t], measured'[t]) = stream_feedback_state(streams[t], measured[t])
      <3>1. measured[t] \in Measurements
        BY Facts, Zenon
      <3>2. measured'[t] = measured[t] \/ measured'[t] = record_sender_report(measured[t])
        BY <1>1, Zenon
      <3> QED
        BY <3>1, <3>2, MeasuredTypes, Zenon
    <2>2. streams' = streams
      BY <1>1, Zenon
    <2>3. session_feedback_state(streams, measured)' = session_feedback_state(streams, measured)
      BY <2>1, <2>2, Zenon DEF session_feedback_state
    <2> QED
      BY <1>1, <2>1, <2>3, Zenon
  <1>3. /\ timers' \in [poll : 0 .. RECEIVER_TIMEOUT_POLL_INTERVAL, report : 0 .. RTCP_REPORT_INTERVAL]
        /\ timers'.poll = timers.poll
    BY <1>1, Facts, TimersAssumption
  <1>4. Reserved(events') /\ TerminalEventDelivered' /\ result' \in {result, "Ok", "Transport"} /\ (Running' => Running)
    <2>1. Reserved(events)
      BY Facts, Zenon
    <2> QED
      BY <1>1, <2>1, EmitTerminal, Zenon DEF TerminalEventDelivered, Running
  <1> QED
    BY <1>1, <1>2, <1>3, <1>4, QuietStep, Zenon

\* A notification tells the current state.
LEMMA StatisticsTickStep ==
  ASSUME IInv, StatisticsTick
  PROVE  IInv'
  <1>1. /\ Running /\ statistics' = [pending |-> FALSE, due |-> 0]
        /\ events' = emit_nonterminal(events, 1)
        /\ published' = session_feedback_state(streams, measured) /\ stale' = 0
        /\ UNCHANGED <<streams, measured, watchdog, timers, result, unanswered, silent>>
    BY Zenon DEF StatisticsTick, core
  <1>2. Reserved(events') /\ TerminalEventDelivered'
    <2>1. Reserved(events)
      BY Facts, Zenon
    <2>2. Reserved(events')
      BY <1>1, <2>1, EmitNonterminal, Zenon
    <2> QED
      BY <1>1, <2>2, Zenon DEF TerminalEventDelivered, Running
  <1>3. \A t \in Kinds : WatchdogInv(t)'
    BY <1>1, WatchdogKept, Zenon
  <1>4. StatisticsInv' /\ statistics' \in [pending : BOOLEAN, due : 0 .. STATISTICS_DEBOUNCE_INTERVAL]
    <2>1. 0 \in 0 .. STATISTICS_DEBOUNCE_INTERVAL
      BY TimersAssumption, SMTT(30)
    <2>2. published' = session_feedback_state(streams, measured)'
      BY <1>1, Zenon DEF session_feedback_state
    <2> QED
      BY <1>1, <2>1, <2>2, Zenon DEF StatisticsInv, ChangesAreScheduled
  <1>5. EventsInv' /\ TimeoutIsJustified'
    BY <1>1, <1>2, Zenon DEF EventsInv, Reserved, TimeoutIsJustified, Running
  <1>6. LoopTypeOK'
    BY <1>1, <1>2, <1>4, Zenon DEF IInv, LoopTypeOK, Reserved, EventChannels
  <1>7. \A t \in Kinds : stream_inv(streams'[t])
    BY <1>1, Facts, Zenon
  <1> QED
    BY <1>3, <1>4, <1>5, <1>6, <1>7, Zenon DEF IInv

\* The poll ends the session when a watchdog has waited long enough, and no
\* watchdog has when it does not.  A watchdog it would disarm is not armed.
LEMMA TimeoutTickStep ==
  ASSUME IInv, TimeoutTick
  PROVE  IInv'
  <1> DEFINE frames_in_flight(t) == in_flight_count(streams[t]) # 0
             expired == \E t \in Kinds : timed_out(watchdog[t], frames_in_flight(t))
  <1>1. /\ Running /\ timers' = [timers EXCEPT !.poll = RECEIVER_TIMEOUT_POLL_INTERVAL]
        /\ watchdog' = [t \in Kinds |-> disarm_idle(watchdog[t], frames_in_flight(t))]
        /\ expired => result' = "ReceiverTimedOut" /\ events' = emit_terminal(events, "ReceiverTimedOut")
        /\ ~expired => UNCHANGED <<result, events>>
        /\ UNCHANGED <<streams, measured, statistics, unanswered, silent, published, stale>>
    BY Zenon DEF TimeoutTick, observed
  <1>2. \A t \in Kinds : frames_in_flight(t) <=> in_flight(streams[t]) # {}
    BY CountZero, Zenon
  <1> HIDE DEF frames_in_flight
  <1>3. watchdog' = watchdog
    <2>1. ASSUME NEW t \in Kinds
          PROVE  disarm_idle(watchdog[t], frames_in_flight(t)) = watchdog[t]
      <3>1. watchdog[t] \in Watchdogs /\ WatchdogInv(t)
        BY Facts, Zenon
      <3>2. CASE ~frames_in_flight(t)
        <4>1. watchdog[t].waiting = None
          BY <1>2, <3>1, <3>2, Zenon DEF WatchdogInv
        <4> QED
          BY <3>1, <3>2, <4>1, Zenon DEF disarm_idle, Watchdogs
      <3> QED
        BY <3>2, Zenon DEF disarm_idle
    <2> QED
      BY <1>1, <2>1, Facts, Zenon
  <1>4. /\ Reserved(events') /\ TerminalEventDelivered'
    <2>1. Reserved(events)
      BY Facts, Zenon
    <2>2. CASE expired
      BY <1>1, <2>1, <2>2, EmitTerminal, Zenon DEF TerminalEventDelivered
    <2>3. CASE ~expired
      BY <1>1, <2>1, <2>3, Zenon DEF TerminalEventDelivered, Running
    <2> QED
      BY <2>2, <2>3, Zenon
  <1>5. TimeoutIsJustified'
    <2>1. CASE expired
      <3>1. PICK t \in Kinds : timed_out(watchdog[t], frames_in_flight(t))
        BY <2>1, Zenon
      <3>2. /\ watchdog[t].waiting \in Nat /\ watchdog[t].waiting >= timeout(watchdog[t])
            /\ watchdog[t].waiting <= unanswered[t] \/ INITIAL_RECEIVER_ACKNOWLEDGEMENT_TIMEOUT <= unanswered[t]
            /\ unanswered[t] \in Nat
        BY <3>1, Facts, Zenon DEF timed_out, WatchdogInv, Watchdogs
      <3>3. unanswered[t] >= timeout(watchdog[t])
        BY <3>2, TimeoutType, TimersAssumption, SMTT(30)
      <3>4. timeout(watchdog[t])' = timeout(watchdog[t])
        BY <1>3, Zenon DEF timeout
      <3> QED
        BY <1>1, <1>3, <3>3, <3>4, Zenon DEF TimeoutIsJustified
    <2>2. CASE ~expired
      BY <1>1, <2>2, Zenon DEF TimeoutIsJustified, Running
    <2> QED
      BY <2>1, <2>2, Zenon
  <1>6. timers'.poll = RECEIVER_TIMEOUT_POLL_INTERVAL
        /\ timers' \in [poll : 0 .. RECEIVER_TIMEOUT_POLL_INTERVAL, report : 0 .. RTCP_REPORT_INTERVAL]
    BY <1>1, Facts, TimersAssumption
  <1>7. ASSUME NEW t \in Kinds
        PROVE  WatchdogInv(t)'
    <2>1. WatchdogInv(t) /\ watchdog[t] \in Watchdogs
      BY Facts, Zenon
    <2>2. Running' /\ watchdog[t].waiting # None => watchdog[t].waiting < timeout(watchdog[t])
      <3>1. SUFFICES ASSUME Running', watchdog[t].waiting # None
                     PROVE  watchdog[t].waiting < timeout(watchdog[t])
        OBVIOUS
      <3>2. ~timed_out(watchdog[t], frames_in_flight(t)) /\ frames_in_flight(t)
        BY <1>1, <1>2, <2>1, <3>1, Zenon DEF Running, WatchdogInv
      <3>3. watchdog[t].waiting \in Nat
        BY <2>1, <3>1, Zenon DEF Watchdogs
      <3> QED
        BY <3>1, <3>2, <3>3, TimeoutType, SMTT(30) DEF timed_out
    <2>3. Running' /\ watchdog[t].waiting # None =>
            watchdog[t].waiting + RECEIVER_TIMEOUT_POLL_INTERVAL <= timeout(watchdog[t]) + RECEIVER_TIMEOUT_POLL_INTERVAL
      BY <2>1, <2>2, TimeoutType, TimersAssumption, SMTT(30) DEF Watchdogs
    <2>4. timeout(watchdog[t])' = timeout(watchdog[t]) /\ streams' = streams /\ silent' = silent /\ unanswered' = unanswered
      BY <1>1, <1>3, Zenon DEF timeout
    <2> QED
      BY <1>1, <1>3, <1>6, <2>1, <2>3, <2>4, Zenon DEF WatchdogInv, Running
  <1>8. StatisticsInv' /\ statistics' \in [pending : BOOLEAN, due : 0 .. STATISTICS_DEBOUNCE_INTERVAL]
    <2>1. session_feedback_state(streams, measured)' = session_feedback_state(streams, measured)
      BY <1>1, Zenon DEF session_feedback_state
    <2> QED
      BY <1>1, <2>1, StatisticsStep, Zenon
  <1>9. LoopTypeOK'
    <2>1. result' \in {"Running", "Ok", "Transport", "ReceiverTimedOut"}
      BY <1>1, Zenon DEF Running
    <2> QED
      BY <1>1, <1>3, <1>4, <1>6, <1>8, <2>1, Zenon DEF IInv, LoopTypeOK, Reserved, EventChannels
  <1>10. EventsInv' /\ \A t \in Kinds : stream_inv(streams'[t])
    BY <1>1, <1>4, Facts, Zenon DEF EventsInv, Reserved
  <1> QED
    BY <1>5, <1>7, <1>8, <1>9, <1>10, Zenon DEF IInv

\* Time passes only when no timer is due.
LEMMA TickStep ==
  ASSUME IInv, Tick
  PROVE  IInv'
  <1>1. /\ Running /\ timers.poll > 0 /\ timers.report > 0
        /\ statistics.pending => statistics.due > 0
        /\ timers' = [poll |-> timers.poll - 1, report |-> timers.report - 1]
        /\ statistics' = [statistics EXCEPT !.due = IF @ > 0 THEN @ - 1 ELSE 0]
        /\ watchdog' = [t \in Kinds |-> [watchdog[t] EXCEPT !.waiting = IF @ = None THEN None ELSE @ + 1]]
        /\ measured' = [t \in Kinds |-> age_sender_reports(measured[t])]
        /\ unanswered' = [t \in Kinds |-> IF in_flight(streams[t]) = {} THEN 0
                                          ELSE IF unanswered[t] < INITIAL_RECEIVER_ACKNOWLEDGEMENT_TIMEOUT
                                          THEN unanswered[t] + 1 ELSE unanswered[t]]
        /\ silent' = [t \in Kinds |-> IF ~transmitted(streams[t]) THEN 0
                                      ELSE IF silent[t] < LongestSilence THEN silent[t] + 1 ELSE silent[t]]
        /\ stale' = IF published # session_feedback_state(streams, measured) THEN stale + 1 ELSE 0
        /\ UNCHANGED <<streams, events, result, published>>
    BY Zenon DEF Tick
  <1>2. /\ measured' \in [Kinds -> Measurements]
        /\ session_feedback_state(streams, measured)' = session_feedback_state(streams, measured)
    <2>1. ASSUME NEW t \in Kinds
          PROVE  /\ measured'[t] \in Measurements
                 /\ stream_feedback_state(streams[t], measured'[t]) = stream_feedback_state(streams[t], measured[t])
      BY <1>1, Facts, MeasuredTypes, Zenon
    <2>2. streams' = streams
      BY <1>1, Zenon
    <2>3. session_feedback_state(streams, measured)' = session_feedback_state(streams, measured)
      BY <2>1, <2>2, Zenon DEF session_feedback_state
    <2> QED
      BY <1>1, <2>1, <2>3, Zenon
  <1>3. /\ StatisticsInv' /\ stale' \in Nat
        /\ statistics' \in [pending : BOOLEAN, due : 0 .. STATISTICS_DEBOUNCE_INTERVAL]
    <2> DEFINE due == IF statistics.due > 0 THEN statistics.due - 1 ELSE 0
    <2>1. /\ statistics \in [pending : BOOLEAN, due : 0 .. STATISTICS_DEBOUNCE_INTERVAL]
          /\ STATISTICS_DEBOUNCE_INTERVAL \in Nat /\ stale \in Nat
          /\ StatisticsInv
      BY TimersAssumption, Zenon DEF IInv, LoopTypeOK
    <2>2. statistics.due \in Nat /\ due \in 0 .. STATISTICS_DEBOUNCE_INTERVAL
      BY <2>1
    <2>3. statistics' = [statistics EXCEPT !.due = due]
      BY <1>1, Zenon
    <2> HIDE DEF due
    <2>4. /\ statistics' \in [pending : BOOLEAN, due : 0 .. STATISTICS_DEBOUNCE_INTERVAL]
          /\ statistics'.pending = statistics.pending /\ statistics'.due = due
      BY <2>1, <2>2, <2>3, Zenon
    <2>5. CASE statistics.pending
      <3>1. due = statistics.due - 1 /\ stale' <= stale + 1 /\ stale' \in Nat
        BY <1>1, <2>1, <2>2, <2>5, SMTT(30) DEF due
      <3>2. stale' + statistics'.due <= STATISTICS_DEBOUNCE_INTERVAL
        BY <2>1, <2>2, <2>4, <2>5, <3>1, SMTT(30) DEF StatisticsInv
      <3> QED
        BY <2>4, <2>5, <3>1, <3>2, Zenon DEF StatisticsInv, ChangesAreScheduled
    <2>6. CASE ~statistics.pending
      <3>1. published = session_feedback_state(streams, measured)
        BY <1>1, <2>1, <2>6, Zenon DEF StatisticsInv, ChangesAreScheduled
      <3>2. stale' = 0 /\ published' = session_feedback_state(streams, measured)'
        BY <1>1, <1>2, <3>1, Zenon
      <3> QED
        BY <2>4, <2>6, <3>2, Zenon DEF StatisticsInv, ChangesAreScheduled
    <2> QED
      BY <2>4, <2>5, <2>6, Zenon
  <1>4. /\ timers' \in [poll : 0 .. RECEIVER_TIMEOUT_POLL_INTERVAL, report : 0 .. RTCP_REPORT_INTERVAL]
        /\ timers'.poll = timers.poll - 1 /\ timers.poll \in Nat
    BY <1>1, Facts, TimersAssumption, SMTT(30)
  <1>5. ASSUME NEW t \in Kinds
        PROVE  /\ WatchdogInv(t)' /\ watchdog'[t] \in Watchdogs
               /\ unanswered'[t] \in Nat /\ silent'[t] \in Nat
    <2> DEFINE w == watchdog[t].waiting
    <2>1. /\ watchdog[t] \in Watchdogs /\ WatchdogInv(t) /\ unanswered[t] \in Nat /\ silent[t] \in Nat
          /\ INITIAL_RECEIVER_ACKNOWLEDGEMENT_TIMEOUT \in Nat
      BY Facts, TimersAssumption, Zenon
    <2>2. /\ watchdog'[t] = [watchdog[t] EXCEPT !.waiting = IF w = None THEN None ELSE w + 1]
          /\ unanswered'[t] = IF in_flight(streams[t]) = {} THEN 0
                              ELSE IF unanswered[t] < INITIAL_RECEIVER_ACKNOWLEDGEMENT_TIMEOUT
                              THEN unanswered[t] + 1 ELSE unanswered[t]
          /\ silent'[t] = 0 \/ (transmitted(streams[t]) /\ silent'[t] \in {silent[t], silent[t] + 1})
          /\ streams'[t] = streams[t]
      BY <1>1, Zenon
    <2>3. unanswered'[t] \in Nat /\ silent'[t] \in Nat /\ (w # None => w \in Nat)
      BY <2>1, <2>2 DEF Watchdogs
    <2>4. CASE w = None
      <3>1. watchdog'[t] = watchdog[t]
        BY <2>1, <2>2, <2>4, SMTT(30) DEF Watchdogs
      <3>2. silent'[t] = 0
        BY <1>1, <2>1, <2>2, <2>4, Zenon DEF WatchdogInv
      <3> QED
        BY <1>1, <2>1, <2>2, <2>3, <2>4, <3>1, <3>2, Zenon DEF WatchdogInv
    <2>5. CASE w # None
      <3>1. /\ watchdog'[t] \in Watchdogs /\ watchdog'[t].waiting = w + 1
            /\ watchdog'[t].has_acknowledged = watchdog[t].has_acknowledged /\ w + 1 # None
        BY <2>1, <2>2, <2>3, <2>5, NoneAssumption, SMTT(30) DEF Watchdogs
      <3>2. in_flight(streams[t]) # {}
        BY <2>1, <2>5, Zenon DEF WatchdogInv
      <3>3. silent'[t] <= w + 1
        BY <2>1, <2>2, <2>3, <2>5, SMTT(30) DEF WatchdogInv
      <3>4. w + 1 <= unanswered'[t] \/ INITIAL_RECEIVER_ACKNOWLEDGEMENT_TIMEOUT <= unanswered'[t]
        BY <2>1, <2>2, <2>3, <2>5, <3>2, SMTT(30) DEF WatchdogInv
      <3>5. timeout(watchdog[t])' = timeout(watchdog[t]) /\ timeout(watchdog[t]) \in Nat
        BY <3>1, TimeoutType, Zenon DEF timeout
      <3>6. w + 1 + timers'.poll <= timeout(watchdog[t])' + RECEIVER_TIMEOUT_POLL_INTERVAL
        <4>1. w + timers.poll <= timeout(watchdog[t]) + RECEIVER_TIMEOUT_POLL_INTERVAL
          BY <1>1, <2>1, <2>5, Zenon DEF WatchdogInv
        <4> QED
          BY <1>4, <2>3, <2>5, <3>5, <4>1, TimersAssumption, SMTT(30)
      <3> QED
        BY <2>2, <2>3, <3>1, <3>2, <3>3, <3>4, <3>6, Zenon DEF WatchdogInv
    <2> QED
      BY <2>4, <2>5, Zenon
  <1>6. /\ watchdog' \in [Kinds -> Watchdogs] /\ unanswered' \in [Kinds -> Nat] /\ silent' \in [Kinds -> Nat]
    BY <1>1, <1>5, Zenon
  <1>7. LoopTypeOK'
    BY <1>1, <1>2, <1>3, <1>4, <1>6, Zenon DEF IInv, LoopTypeOK, Watchdogs
  <1>8. EventsInv' /\ TimeoutIsJustified' /\ \A t \in Kinds : stream_inv(streams'[t])
    BY <1>1, Facts, Zenon DEF IInv, EventsInv, TerminalEventDelivered, TimeoutIsJustified, Running
  <1> QED
    BY <1>3, <1>5, <1>7, <1>8, Zenon DEF IInv
-----------------------------------------------------------------------------
\* A session starts with nothing sent and nothing to announce.
LEMMA InitIInv == Init => IInv
  <1>1. stream_inv(new_stream) /\ new_stream \in Streams /\ in_flight(new_stream) = {}
    <2>1. stream_inv(new_stream)
      BY NewStreamInv, Zenon
    <2> QED
      BY <2>1, Zenon DEF stream_inv, new_stream, in_flight
  <1>2. ~transmitted(new_stream)
    BY <1>1, Zenon DEF transmitted
  <1>3. new_measurements(OFFERED_PLAYOUT_DELAY) \in Measurements
    BY DEF new_measurements, Measurements
  <1>4. /\ RECEIVER_TIMEOUT_POLL_INTERVAL \in 0 .. RECEIVER_TIMEOUT_POLL_INTERVAL
        /\ RTCP_REPORT_INTERVAL \in 0 .. RTCP_REPORT_INTERVAL
        /\ 0 \in 0 .. STATISTICS_DEBOUNCE_INTERVAL /\ 0 \in 0 .. EVENT_CAPACITY
    BY TimersAssumption, EventsAssumption
  <1> SUFFICES ASSUME Init PROVE IInv
    BY Zenon
  <1>5. LoopTypeOK
    <2>1. streams \in [Kinds -> Streams] /\ measured \in [Kinds -> Measurements]
      BY <1>1, <1>3, Zenon DEF Init
    <2> QED
      BY <1>4, <2>1, Zenon DEF Init, LoopTypeOK
  <1>6. EventsInv /\ TimeoutIsJustified
    BY EventsAssumption, SMTT(30) DEF Init, EventsInv, TerminalEventDelivered, TimeoutIsJustified
  <1>7. StatisticsInv
    BY Zenon DEF Init, StatisticsInv, ChangesAreScheduled
  <1>8. \A t \in Kinds : WatchdogInv(t) /\ stream_inv(streams[t])
    BY <1>1, <1>2, Zenon DEF Init, WatchdogInv
  <1> QED
    BY <1>5, <1>6, <1>7, <1>8, Zenon DEF IInv

\* Every step keeps the invariant.
LEMMA NextIInv == IInv /\ [Next]_vars => IInv'
  <1> SUFFICES ASSUME IInv, [Next]_vars PROVE IInv'
    OBVIOUS
  <1>1. ASSUME NEW t \in Kinds, NEW frame \in SubmittedFrames(t), EnqueueFrame(t, frame) \/ RefuseFrame(t, frame)
        PROVE  IInv'
    BY <1>1, EnqueueFrameStep, RefuseFrameStep, Zenon
  <1>2. ASSUME NEW delay \in TargetDelays, SetTargetPlayoutDelay(delay)
        PROVE  IInv'
    BY <1>2, SetTargetPlayoutDelayStep, Zenon
  <1>3. ASSUME NEW compound \in Compounds, ReceiveCompound(compound)
        PROVE  IInv'
    BY <1>3, ReceiveCompoundStep, Zenon
  <1>4. ASSUME NEW reported \in SUBSET Kinds, ReportTick(reported)
        PROVE  IInv'
    BY <1>4, ReportTickStep, Zenon
  <1>5. CASE Shutdown \/ ReceiveMalformed \/ ReceiveError \/ TakeEvent \/ DropEvents \/ UNCHANGED vars
    BY <1>5, ChannelStep, Zenon
  <1>6. CASE BurstTick
    BY <1>6, BurstTickStep, Zenon
  <1>7. CASE StatisticsTick
    BY <1>7, StatisticsTickStep, Zenon
  <1>8. CASE TimeoutTick
    BY <1>8, TimeoutTickStep, Zenon
  <1>9. CASE Tick
    BY <1>9, TickStep, Zenon
  <1> QED
    BY <1>1, <1>2, <1>3, <1>4, <1>5, <1>6, <1>7, <1>8, <1>9, Zenon DEF Next, Command, Receive, Timers

\* The invariant holds in every session.
THEOREM LoopInductive == Spec => []IInv
  BY InitIInv, NextIInv, PTL DEF Spec

\* Every variable keeps its type.
THEOREM LoopTypeCorrect == Spec => []LoopTypeOK
  <1>1. IInv => LoopTypeOK
    BY Zenon DEF IInv
  <1> QED
    BY <1>1, LoopInductive, PTL

\* However many events wait in the channel, the one that ends a failed session
\* is sent.
THEOREM TerminalEventSafe == Spec => []TerminalEventDelivered
  <1>1. IInv => TerminalEventDelivered
    BY Zenon DEF IInv, EventsInv
  <1> QED
    BY <1>1, LoopInductive, PTL

\* The watchdog agrees with the window and the queues, for any feedback.
THEOREM WatchdogSafe == Spec => []WatchdogFollowsStream
  <1>1. IInv => WatchdogFollowsStream
    BY Zenon DEF IInv, WatchdogInv, WatchdogFollowsStream
  <1> QED
    BY <1>1, LoopInductive, PTL

\* No session is given up while the receiver acknowledges in time.
THEOREM TimeoutSafe == Spec => []TimeoutIsJustified
  <1>1. IInv => TimeoutIsJustified
    BY Zenon DEF IInv
  <1> QED
    BY <1>1, LoopInductive, PTL

\* No session outlives the timeout and one poll without an acknowledgement.
THEOREM SilenceSafe == Spec => []SilenceIsDetected
  <1>1. IInv => SilenceIsDetected
    <2> SUFFICES ASSUME IInv, Running, NEW t \in Kinds
                 PROVE  silent[t] <= timeout(watchdog[t]) + RECEIVER_TIMEOUT_POLL_INTERVAL
      BY Zenon DEF SilenceIsDetected
    <2>1. /\ WatchdogInv(t) /\ watchdog[t] \in Watchdogs /\ silent[t] \in Nat
          /\ timers.poll \in Nat /\ timeout(watchdog[t]) \in Nat /\ RECEIVER_TIMEOUT_POLL_INTERVAL \in Nat
      BY Facts, TimeoutType, TimersAssumption, SMTT(30)
    <2>2. CASE watchdog[t].waiting = None
      BY <2>1, <2>2, SMTT(30) DEF WatchdogInv
    <2>3. CASE watchdog[t].waiting # None
      BY <2>1, <2>3 DEF WatchdogInv, Watchdogs
    <2> QED
      BY <2>2, <2>3, Zenon
  <1> QED
    BY <1>1, LoopInductive, PTL

\* Nothing changes in the feedback state that is not announced or scheduled, and
\* a change waits no longer than the debounce interval, however many follow.
THEOREM StatisticsSafe == Spec => []StatisticsAreCurrent
  <1>1. IInv => StatisticsAreCurrent
    <2> SUFFICES ASSUME IInv PROVE StatisticsAreCurrent
      BY Zenon
    <2>1. /\ statistics \in [pending : BOOLEAN, due : 0 .. STATISTICS_DEBOUNCE_INTERVAL]
          /\ stale \in Nat /\ STATISTICS_DEBOUNCE_INTERVAL \in Nat /\ StatisticsInv
      BY TimersAssumption, Zenon DEF IInv, LoopTypeOK
    <2>2. stale <= STATISTICS_DEBOUNCE_INTERVAL
      BY <2>1 DEF StatisticsInv
    <2> QED
      BY <2>1, <2>2, Zenon DEF StatisticsInv, ChangesAreScheduled, StatisticsAreCurrent
  <1> QED
    BY <1>1, LoopInductive, PTL
-----------------------------------------------------------------------------
\* The pacing of the packets.

\* The overrun is less than a packet for each flush, and a flush that still has
\* credit has not overrun it.
OverrunIsBounded ==
  /\ overrun <= flushes * (MAX_PACKET_SIZE - 1)
  /\ flush = "Sending" /\ has_credit => overrun <= (flushes - 1) * (MAX_PACKET_SIZE - 1)

\* The inductive invariant.
BudgetInv ==
  /\ BudgetTypeOK
  /\ unrefilled <= since_full
  /\ RefillIsExact
  /\ OverrunIsBounded

\* The capacity is at least one byte.
LEMMA Capacity == capacity_bytes \in Nat \ {0}
<1> DEFINE bytes == (BYTES_PER_SECOND * BURST_INTERVAL) \div SECOND
<1>1. bytes \in Int
  <2> DEFINE product == BYTES_PER_SECOND * BURST_INTERVAL
  <2>1. product \in Int
    BY RateAssumption
  <2> HIDE DEF product
  <2>2. product \div SECOND \in Int
    BY <2>1, RateAssumption
  <2> QED BY <2>2 DEF product
<1> HIDE DEF bytes
<1>2. capacity_bytes = IF bytes < 1 THEN 1 ELSE bytes
  BY DEF capacity_bytes, bytes
<1> QED BY <1>1, <1>2

\* Euclidean division, as refill uses it.
LEMMA Division ==
  ASSUME NEW a \in Nat
  PROVE  /\ a \div SECOND \in Nat
         /\ a % SECOND \in 0 .. SECOND - 1
         /\ a = SECOND * (a \div SECOND) + (a % SECOND)
<1> DEFINE s == SECOND
<1>1. s \in Nat \ {0}
  BY RateAssumption
<1> HIDE DEF s
<1>2. a = s * (a \div s) + (a % s) /\ a % s \in 0 .. s - 1 /\ a \div s \in Int
  BY <1>1
<1>3. a \div s \in Nat
  BY <1>1
<1> QED BY <1>2, <1>3 DEF s

\* What a refill grants is the time since the last one at the full rate.
LEMMA Granted ==
  ASSUME BudgetTypeOK
  PROVE  /\ scaled_bytes \in Nat
         /\ scaled_bytes \div SECOND \in Nat
         /\ scaled_bytes % SECOND \in 0 .. SECOND - 1
         /\ unrefilled * BYTES_PER_SECOND + fractional_byte_nanos
              = SECOND * (scaled_bytes \div SECOND) + (scaled_bytes % SECOND)
<1>1. scaled_bytes \in Nat
  <2>1. unrefilled * BYTES_PER_SECOND \in Nat
    BY RateAssumption DEF BudgetTypeOK
  <2> QED BY <2>1, RateAssumption DEF BudgetTypeOK, scaled_bytes
<1>2. scaled_bytes = unrefilled * BYTES_PER_SECOND + fractional_byte_nanos
  BY DEF scaled_bytes
<1> HIDE DEF scaled_bytes
<1> QED BY <1>1, <1>2, Division

\* The invariant holds in the initial state.
LEMMA BudgetInitInv == BudgetInit => BudgetInv
<1> SUFFICES ASSUME BudgetInit PROVE BudgetInv
  OBVIOUS
<1>1. capacity_bytes \in Nat \ {0}
  BY Capacity
<1> QED
  BY <1>1, RateAssumption
  DEF BudgetInit, BudgetInv, BudgetTypeOK, RefillIsExact, OverrunIsBounded, has_credit

\* A refill that does not fill the budget grants exactly the time's credit; one
\* that does starts the observation anew.
LEMMA BeginFlushStep == BudgetInv /\ BeginFlush => BudgetInv'
<1> SUFFICES ASSUME BudgetInv, BeginFlush PROVE BudgetInv'
  OBVIOUS
<1> USE RateAssumption
<1> DEFINE added == scaled_bytes \div SECOND
           rest == scaled_bytes % SECOND
<1>1. /\ added \in Nat
      /\ rest \in 0 .. SECOND - 1
      /\ unrefilled * BYTES_PER_SECOND + fractional_byte_nanos = SECOND * added + rest
  BY Granted DEF BudgetInv, added, rest
<1>2. capacity_bytes \in Nat \ {0}
  BY Capacity
<1>3. /\ unrefilled' = 0
      /\ fractional_byte_nanos' = IF fills THEN 0 ELSE rest
      /\ available_bytes' = IF fills THEN capacity_bytes ELSE available_bytes + added
      /\ fills <=> available_bytes = capacity_bytes \/ available_bytes + added >= capacity_bytes
  BY DEF BeginFlush, refill, fills
<1> HIDE DEF added, rest
<1>4. CASE fills
  <2>1. /\ available_bytes' = capacity_bytes /\ fractional_byte_nanos' = 0 /\ unrefilled' = 0
        /\ since_full' = 0 /\ sent_bytes' = 0 /\ overrun' = 0 /\ flushes' = 0 /\ flush' = "Refilled"
    BY <1>3, <1>4, SMTT(30) DEF BeginFlush
  <2> QED
    BY <1>2, <2>1, SMTT(30)
    DEF BudgetInv, BudgetTypeOK, RefillIsExact, OverrunIsBounded, capacity_bytes
<1>5. CASE ~fills
  <2>1. /\ available_bytes' = available_bytes + added
        /\ available_bytes' < capacity_bytes
        /\ fractional_byte_nanos' = rest
        /\ unrefilled' = 0 /\ flush' = "Refilled"
        /\ UNCHANGED ledger
    BY <1>1, <1>2, <1>3, <1>5, SMTT(30) DEF BeginFlush, BudgetInv, BudgetTypeOK
  <2>2. capacity_bytes' = capacity_bytes
    BY DEF capacity_bytes
  <2>3. BudgetTypeOK'
    BY <1>1, <1>2, <2>1, <2>2, SMTT(30) DEF BudgetInv, BudgetTypeOK, ledger
  <2>4. RefillIsExact'
    <3>1. /\ {available_bytes, fractional_byte_nanos, unrefilled, since_full, sent_bytes, overrun} \subseteq Nat
          /\ SECOND * (available_bytes + sent_bytes - overrun) + fractional_byte_nanos
               = SECOND * capacity_bytes + BYTES_PER_SECOND * (since_full - unrefilled)
      BY <1>2 DEF BudgetInv, BudgetTypeOK, RefillIsExact
    <3>2. SECOND * (available_bytes + added + sent_bytes - overrun) + rest
            = SECOND * capacity_bytes + BYTES_PER_SECOND * (since_full - 0)
      BY <1>1, <1>2, <3>1, SMTT(30)
    <3> QED BY <2>1, <2>2, <3>2, SMTT(30) DEF RefillIsExact, ledger
  <2>5. OverrunIsBounded' /\ (unrefilled <= since_full)'
    BY <2>1 DEF BudgetInv, BudgetTypeOK, OverrunIsBounded, ledger
  <2> QED BY <2>3, <2>4, <2>5, SMTT(30) DEF BudgetInv
<1> QED BY <1>4, <1>5

\* A packet takes its bytes from the budget, or all of it and overruns.
LEMMA SendPacketStep ==
  ASSUME NEW bytes \in 1 .. MAX_PACKET_SIZE, BudgetInv, SendPacket(bytes)
  PROVE  BudgetInv'
<1> USE RateAssumption
<1>1. capacity_bytes \in Nat \ {0} /\ capacity_bytes' = capacity_bytes
  BY Capacity DEF capacity_bytes
<1> DEFINE excess == IF bytes > available_bytes THEN bytes - available_bytes ELSE 0
<1>2. /\ available_bytes \in 0 .. capacity_bytes /\ available_bytes # 0
      /\ bytes \in Nat \ {0}
      /\ {fractional_byte_nanos, unrefilled, since_full, sent_bytes, overrun, flushes} \subseteq Nat
  BY <1>1, SMTT(30) DEF BudgetInv, BudgetTypeOK, SendPacket, has_credit
<1>3. excess \in 0 .. MAX_PACKET_SIZE - 1
  BY <1>1, <1>2, SMTT(30)
<1>4. /\ available_bytes' = available_bytes - bytes + excess
      /\ sent_bytes' = sent_bytes + bytes
      /\ overrun' = overrun + excess
      /\ UNCHANGED <<fractional_byte_nanos, unrefilled, since_full>>
  BY <1>1, <1>2, SMTT(30) DEF SendPacket, consume
<1>5. excess # 0 => available_bytes' = 0
  BY <1>1, <1>2, SMTT(30) DEF SendPacket, consume
<1>6. available_bytes' \in 0 .. capacity_bytes
  BY <1>1, <1>2, SMTT(30) DEF SendPacket, consume
<1>7. /\ flush' = "Sending" /\ flush # "Idle"
      /\ flushes' = IF flush = "Refilled" THEN flushes + 1 ELSE flushes
  BY DEF SendPacket
<1> HIDE DEF excess
<1>8. BudgetTypeOK'
  BY <1>1, <1>2, <1>3, <1>4, <1>6, <1>7, SMTT(30) DEF BudgetInv, BudgetTypeOK
<1>9. RefillIsExact'
  <2>1. available_bytes' + sent_bytes' - overrun' = available_bytes + sent_bytes - overrun
    BY <1>1, <1>2, <1>3, <1>4, SMTT(30)
  <2> QED BY <1>1, <1>4, <2>1, SMTT(30) DEF BudgetInv, RefillIsExact
<1>10. OverrunIsBounded'
  <2> DEFINE q == MAX_PACKET_SIZE - 1
  <2>1. q \in Nat /\ excess \in 0 .. q
    BY <1>3
  <2> HIDE DEF q
  <2>2. overrun <= flushes * q /\ (flush = "Sending" => overrun <= (flushes - 1) * q)
    BY <1>2 DEF BudgetInv, OverrunIsBounded, has_credit, q
  <2>3. flush \in {"Refilled", "Sending"}
    BY <1>7 DEF BudgetInv, BudgetTypeOK
  <2>4. overrun <= (flushes' - 1) * q
    BY <1>2, <1>7, <2>1, <2>2, <2>3, SMTT(30)
  <2>5. overrun' <= flushes' * q
    BY <1>2, <1>4, <1>7, <2>1, <2>3, <2>4, SMTT(30)
  <2>6. available_bytes' # 0 => overrun' = overrun
    BY <1>2, <1>3, <1>4, <1>5, SMTT(30)
  <2> QED BY <2>4, <2>5, <2>6, SMTT(30) DEF OverrunIsBounded, has_credit, q
<1> QED BY <1>4, <1>2, <1>8, <1>9, <1>10, SMTT(30) DEF BudgetInv

\* Time passes: nothing is granted before the next refill.
LEMMA PassStep ==
  ASSUME NEW time \in 1 .. MaxPass, BudgetInv, Pass(time)
  PROVE  BudgetInv'
<1>1. capacity_bytes' = capacity_bytes
  BY DEF capacity_bytes
<1>2. time \in Nat /\ unrefilled \in Nat /\ since_full \in Nat
  BY TimeBoundsAssumption DEF BudgetInv, BudgetTypeOK
<1>3. /\ since_full' = since_full + time /\ unrefilled' = unrefilled + time
      /\ UNCHANGED <<available_bytes, fractional_byte_nanos, flush, sent_bytes, overrun, flushes>>
  BY DEF Pass
<1>4. BudgetTypeOK' /\ (unrefilled <= since_full)'
  BY <1>1, <1>2, <1>3, SMTT(30) DEF BudgetInv, BudgetTypeOK
<1>5. RefillIsExact'
  <2>1. since_full' - unrefilled' = since_full - unrefilled
    BY <1>2, <1>3
  <2> QED BY <1>1, <1>3, <2>1, SMTT(30) DEF BudgetInv, RefillIsExact
<1> QED BY <1>3, <1>4, <1>5, SMTT(30) DEF BudgetInv, OverrunIsBounded, has_credit

\* Every step keeps the invariant.
LEMMA BudgetNextInv == BudgetInv /\ [BudgetNext]_budget_vars => BudgetInv'
<1> SUFFICES ASSUME BudgetInv, [BudgetNext]_budget_vars PROVE BudgetInv'
  OBVIOUS
<1>1. CASE BeginFlush
  BY <1>1, BeginFlushStep
<1>2. CASE \E bytes \in 1 .. MAX_PACKET_SIZE : SendPacket(bytes)
  BY <1>2, SendPacketStep, SMTT(30)
<1>3. CASE EndFlush
  BY <1>3 DEF EndFlush, budget, ledger, BudgetInv, BudgetTypeOK, RefillIsExact, OverrunIsBounded,
              has_credit, capacity_bytes
<1>4. CASE \E time \in 1 .. MaxPass : Pass(time)
  BY <1>4, PassStep, SMTT(30)
<1>5. CASE UNCHANGED budget_vars
  BY <1>5 DEF budget_vars, budget, ledger, BudgetInv, BudgetTypeOK, RefillIsExact, OverrunIsBounded,
              has_credit, capacity_bytes
<1> QED BY <1>1, <1>2, <1>3, <1>4, <1>5, SMTT(30) DEF BudgetNext

\* The accounting of the budget holds at every moment.
THEOREM BudgetInductive == BudgetSpec => []BudgetInv
BY BudgetInitInv, BudgetNextInv, PTL DEF BudgetSpec

\* The budget and its remainder stay in their ranges: consume never goes below
\* zero and refill never above the capacity.
THEOREM BudgetTypeCorrect == BudgetSpec => []BudgetTypeOK
<1>1. BudgetInv => BudgetTypeOK
  BY DEF BudgetInv
<1> QED BY <1>1, BudgetInductive, PTL

\* BurstBudget::refill loses and invents no credit, however often it is called.
THEOREM RefillsExact == BudgetSpec => []RefillIsExact
<1>1. BudgetInv => RefillIsExact
  BY DEF BudgetInv
<1> QED BY <1>1, BudgetInductive, PTL

\* The bytes sent since the budget was full, bounded by rate, capacity and one
\* overrun for each flush: the bound flush_stream_packets keeps.
THEOREM SentBounded == BudgetSpec => []SentWithinBudget
<1>1. BudgetInv => SentWithinBudget
  <2> SUFFICES ASSUME BudgetInv PROVE SentWithinBudget
    OBVIOUS
  <2> DEFINE extra == flushes * (MAX_PACKET_SIZE - 1)
  <2>1. /\ {fractional_byte_nanos, available_bytes, unrefilled, since_full, sent_bytes, overrun} \subseteq Nat
        /\ unrefilled <= since_full /\ capacity_bytes \in Nat
    BY Capacity DEF BudgetInv, BudgetTypeOK
  <2>2. extra \in Nat /\ overrun <= extra
    BY RateAssumption DEF BudgetInv, BudgetTypeOK, OverrunIsBounded
  <2> HIDE DEF extra
  <2>3. SECOND * (available_bytes + sent_bytes - overrun) + fractional_byte_nanos
          = SECOND * capacity_bytes + BYTES_PER_SECOND * (since_full - unrefilled)
    BY DEF BudgetInv, RefillIsExact
  <2>4. SECOND * sent_bytes = SECOND * (sent_bytes - overrun) + SECOND * overrun
    BY <2>1, RateAssumption
  <2>5. SECOND * overrun <= SECOND * extra
    BY <2>1, <2>2, RateAssumption
  <2>6. SECOND * (sent_bytes - overrun) <= SECOND * capacity_bytes + BYTES_PER_SECOND * since_full
    <3>1. /\ SECOND * (available_bytes + sent_bytes - overrun)
               = SECOND * available_bytes + SECOND * (sent_bytes - overrun)
          /\ SECOND * available_bytes \in Nat
          /\ BYTES_PER_SECOND * (since_full - unrefilled)
               = BYTES_PER_SECOND * since_full - BYTES_PER_SECOND * unrefilled
          /\ BYTES_PER_SECOND * unrefilled \in Nat
      BY <2>1, RateAssumption
    <3> QED BY <2>1, <2>3, <3>1, RateAssumption
  <2>7. SECOND * sent_bytes <= SECOND * capacity_bytes + SECOND * extra + BYTES_PER_SECOND * since_full
    BY <2>1, <2>2, <2>4, <2>5, <2>6, RateAssumption
  <2>8. SECOND * (capacity_bytes + extra) = SECOND * capacity_bytes + SECOND * extra
    BY <2>1, <2>2, RateAssumption
  <2> QED BY <2>1, <2>2, <2>7, <2>8, RateAssumption, SMTT(30) DEF SentWithinBudget, extra
<1> QED BY <1>1, BudgetInductive, PTL
=============================================================================
