----------------------------- MODULE StreamState -----------------------------
(* The sender's state of one media stream (src/src/sender/stream.rs): frame   *)
(* ids, the window of unacknowledged frames, the two packet queues and the    *)
(* pending playout-delay change.  The struct is a record, each method an      *)
(* operator from records to records, so that a stream can be composed with a  *)
(* network (CastStream) and with the event loop (SenderLoop).                 *)
(*                                                                            *)
(* Left out: payload bytes, encryption, RTP timestamps and sequence numbers;  *)
(* the measurements a receiver reports are in StreamMeasurements.             *)
EXTENDS FrameIds, Sequences, FiniteSetsExt, TLC

CONSTANTS
  MAX_UNACKED_FRAMES,   \* size of the window: 120 in the code
  ALL_PACKETS_LOST,     \* the packet id that NACKs a whole frame: 0xFFFF
  None                  \* Option::None

\* 120 < 256 / 2: from a checkpoint, every id of the window is nearest.
ASSUME WindowAssumption ==
  /\ MAX_UNACKED_FRAMES \in Nat \ {0}
  /\ 2 * MAX_UNACKED_FRAMES < FRAME_ID_MODULUS

ASSUME PacketIdAssumption == ALL_PACKETS_LOST \in Nat \ {0}

FIRST_FRAME_ID == 0
Slots == 0 .. MAX_UNACKED_FRAMES - 1

\* The sequences over S of at most n elements: inputs.
ShortSeqs(S, n) == UNION {[1 .. l -> S] : l \in 0 .. n}

\* An expanded id below zero is in another slot in the code (`as usize`), but
\* no slot holds it, so every lookup of it fails in either case.
slot(frame_id) == frame_id % MAX_UNACKED_FRAMES

\* QueuedPacket with the header fields of its RtpPacket; PendingFrame, where no
\* duration is a duration of zero.
Packets ==
  [frame_id : Nat, packet_id : Nat, max_packet_id : Nat, playout_delay : Nat \cup {None}]
PendingFrames ==
  [frame_id : Nat, media_timestamp : Nat, duration : Nat, packets : Seq(Packets)]

\* Why enqueue_frame refuses a frame.
EnqueueErrors ==
  {"EmptyFrame", "FirstFrameMustBeKeyFrame", "NonMonotonicMediaTimestamp", "ReachedIdSpanLimit"}

ASSUME NoneAssumption ==
  None \notin Int /\ None \notin PendingFrames /\ None \notin EnqueueErrors
-----------------------------------------------------------------------------
\* StreamState::new.
new_stream ==
  [next_frame_id         |-> FIRST_FRAME_ID,
   checkpoint            |-> FIRST_FRAME_ID - 1,
   pending               |-> [i \in Slots |-> None],
   last_media_timestamp  |-> None,
   pending_playout_delay |-> None,
   frames_acked          |-> 0,
   send_queue            |-> << >>,
   retransmit_queue      |-> << >>]

\* `pending[slot]` holds this very frame.
is_pending(s, frame_id) ==
  /\ s.pending[slot(frame_id)] # None
  /\ s.pending[slot(frame_id)].frame_id = frame_id

in_flight(s) == {i \in Slots : s.pending[i] # None}
in_flight_count(s) == Cardinality(in_flight(s))
in_flight_id_span(s) == s.next_frame_id - (s.checkpoint + 1)

\* In-flight media time: from the oldest start to the newest end.
in_flight_media_duration(s) ==
  LET starts == {s.pending[i].media_timestamp : i \in in_flight(s)}
      ends   == {s.pending[i].media_timestamp + s.pending[i].duration : i \in in_flight(s)}
  IN  IF in_flight(s) = {} THEN 0 ELSE Max(ends) - Min(starts)
-----------------------------------------------------------------------------
\* RtpPacketizer::packetize: `count` packets, ids from zero; the playout delay
\* extension is on the first one only.
packetize(frame_id, count, new_playout_delay) ==
  [i \in 1 .. count |->
     [frame_id      |-> frame_id,
      packet_id     |-> i - 1,
      max_packet_id |-> count - 1,
      playout_delay |-> IF i = 1 THEN new_playout_delay ELSE None]]

\* An id span check that lets one frame too many in.
id_span_exhausted_late(s) == in_flight_id_span(s) > MAX_UNACKED_FRAMES

\* The window is full.
id_span_exhausted(s) == in_flight_id_span(s) >= MAX_UNACKED_FRAMES

\* The checks of enqueue_frame in the order the code makes them.  A frame is
\* [packets, dependency, media_timestamp, duration]; no data means no packets.
enqueue_error(s, frame) ==
  IF frame.packets = 0 THEN "EmptyFrame"
  ELSE IF s.next_frame_id = FIRST_FRAME_ID /\ frame.dependency # "KeyFrame"
  THEN "FirstFrameMustBeKeyFrame"
  ELSE IF s.last_media_timestamp # None /\ frame.media_timestamp <= s.last_media_timestamp
  THEN "NonMonotonicMediaTimestamp"
  ELSE IF id_span_exhausted(s) THEN "ReachedIdSpanLimit"
  ELSE None

\* The rest of enqueue_frame, for a frame that passed the checks.  The pending
\* playout delay is taken: this frame, and no later one, carries it.
accept_frame(s, frame) ==
  LET frame_id == s.next_frame_id
      packets  == packetize(frame_id, frame.packets, s.pending_playout_delay)
  IN  [s EXCEPT
         !.send_queue = @ \o packets,
         !.pending[slot(frame_id)] =
             [frame_id        |-> frame_id,
              media_timestamp |-> frame.media_timestamp,
              duration        |-> frame.duration,
              packets         |-> packets],
         !.pending_playout_delay = None,
         !.last_media_timestamp = frame.media_timestamp,
         !.next_frame_id = frame_id + 1]

\* StreamState::set_target_playout_delay: a second call before the next frame
\* replaces the delay of the first.
set_target_playout_delay(s, delay) == [s EXCEPT !.pending_playout_delay = delay]
-----------------------------------------------------------------------------
\* The sequences `parts` holds, one after the other.
flatten(parts) ==
  LET upto[n \in 0 .. Len(parts)] == IF n = 0 THEN << >> ELSE upto[n - 1] \o parts[n]
  IN  upto[Len(parts)]

\* VecDeque::retain, dropping the packets of the given frames.
retain_others(queue, frame_ids) ==
  flatten([i \in 1 .. Len(queue) |->
             IF queue[i].frame_id \in frame_ids THEN << >> ELSE <<queue[i]>>])

\* A release that forgets cancel_queued_frame.
release_without_cancel(s, frame_ids) ==
  [s EXCEPT
     !.pending = [i \in Slots |->
                    IF \E f \in frame_ids : slot(f) = i THEN None ELSE s.pending[i]],
     !.frames_acked = @ + Cardinality(frame_ids)]

\* Clear the slots of acknowledged frames and cancel_queued_frame for each.
release(s, frame_ids) ==
  [s EXCEPT
     !.pending = [i \in Slots |->
                    IF \E f \in frame_ids : slot(f) = i THEN None ELSE s.pending[i]],
     !.send_queue = retain_others(@, frame_ids),
     !.retransmit_queue = retain_others(@, frame_ids),
     !.frames_acked = @ + Cardinality(frame_ids)]

\* An acknowledge_up_to that does not ask whether a slot still holds the frame.
acknowledged_up_to_unchecked(s, frame_id) == s.checkpoint + 1 .. frame_id

\* acknowledge_up_to: the frames it returns, and the state it leaves.
acknowledged_up_to(s, frame_id) ==
  {f \in s.checkpoint + 1 .. frame_id : is_pending(s, f)}

\* Without the early return for an old checkpoint.
acknowledge_up_to_any(s, frame_id) ==
  [release(s, acknowledged_up_to(s, frame_id)) EXCEPT !.checkpoint = frame_id]

acknowledge_up_to(s, frame_id) ==
  IF frame_id < s.checkpoint + 1
  THEN s
  ELSE [release(s, acknowledged_up_to(s, frame_id)) EXCEPT !.checkpoint = frame_id]

\* Bits that would count from checkpoint + 1.
acknowledged_by_shifted_bits(s, checkpoint, bits) ==
  {f \in {checkpoint + 1 + k : k \in bits} : f < s.next_frame_id /\ is_pending(s, f)}

\* acknowledge_bitvector: bit k set reports frame checkpoint + 2 + k complete.
\* The checkpoint is the one of the same feedback, which may be an old one.
acknowledged_by_bits(s, checkpoint, bits) ==
  {f \in {checkpoint + 2 + k : k \in bits} : f < s.next_frame_id /\ is_pending(s, f)}

acknowledge_bitvector(s, checkpoint, bits) ==
  release(s, acknowledged_by_bits(s, checkpoint, bits))

\* A handle_nack that answers for one packet with the one after it.
nacked_packets_shifted(s, frame_id, packet_id) ==
  LET packets == s.pending[slot(frame_id)].packets
  IN  IF ~is_pending(s, frame_id) THEN << >>
      ELSE IF packet_id = ALL_PACKETS_LOST THEN packets
      ELSE IF packet_id + 1 < Len(packets) THEN <<packets[packet_id + 2]>>
      ELSE << >>

\* handle_nack: the packets one NACK puts on the retransmit queue.
nacked_packets(s, frame_id, packet_id) ==
  LET packets == s.pending[slot(frame_id)].packets
  IN  IF ~is_pending(s, frame_id) THEN << >>
      ELSE IF packet_id = ALL_PACKETS_LOST THEN packets
      ELSE IF packet_id < Len(packets) THEN <<packets[packet_id + 1]>>
      ELSE << >>

\* handle_nack for each entry of a feedback, in its order, without removing
\* duplicates; `nacks` holds expanded frame ids.
handle_nacks(s, nacks) ==
  [s EXCEPT !.retransmit_queue =
     @ \o flatten([i \in 1 .. Len(nacks) |->
                     nacked_packets(s, nacks[i].frame_id, nacks[i].packet_id)])]
-----------------------------------------------------------------------------
\* One CastFeedback of process_feedback (src/src/sender/event_loop.rs) applied
\* to its stream.  A feedback is [checkpoint, bits, nacks] as read from the
\* wire: frame ids truncated.
feedback_checkpoint(s, feedback) == expand_lte(feedback.checkpoint, s.next_frame_id - 1)

feedback_nacks(s, feedback) ==
  [i \in 1 .. Len(feedback.nacks) |->
     [frame_id  |-> expand(feedback.nacks[i].frame, feedback_checkpoint(s, feedback)),
      packet_id |-> feedback.nacks[i].packet_id]]

process_feedback(s, feedback) ==
  LET checkpoint == feedback_checkpoint(s, feedback)
      advanced   == acknowledge_up_to(s, checkpoint)
  IN  handle_nacks(acknowledge_bitvector(advanced, checkpoint, feedback.bits),
                   feedback_nacks(s, feedback))

\* The frames it acknowledges: progress for the watchdog, one FrameAcked each.
acknowledged_by(s, feedback) ==
  LET checkpoint == feedback_checkpoint(s, feedback)
  IN  acknowledged_up_to(s, checkpoint)
      \cup acknowledged_by_bits(acknowledge_up_to(s, checkpoint), checkpoint, feedback.bits)
-----------------------------------------------------------------------------
\* The order next_packet takes them in: retransmissions first.
queued(s) == s.retransmit_queue \o s.send_queue

\* The state after next_packet has been called n times.
pop_packets(s, n) ==
  LET retransmitted == Min({n, Len(s.retransmit_queue)})
  IN  [s EXCEPT
         !.retransmit_queue = SubSeq(@, retransmitted + 1, Len(@)),
         !.send_queue = SubSeq(@, n - retransmitted + 1, Len(@))]
-----------------------------------------------------------------------------
\* The type of a stream.
Streams ==
  [next_frame_id : Nat, checkpoint : Int, pending : [Slots -> PendingFrames \cup {None}],
   last_media_timestamp : Nat \cup {None}, pending_playout_delay : Nat \cup {None},
   frames_acked : Nat, send_queue : Seq(Packets), retransmit_queue : Seq(Packets)]

\* The ids between the checkpoint and the next id fit in the slots, and every
\* occupied slot holds a frame of that range whose id maps to it.
window_is_sound(s) ==
  /\ s.checkpoint >= -1
  /\ in_flight_id_span(s) \in 0 .. MAX_UNACKED_FRAMES
  /\ \A i \in in_flight(s) :
       /\ slot(s.pending[i].frame_id) = i
       /\ s.checkpoint < s.pending[i].frame_id
       /\ s.pending[i].frame_id < s.next_frame_id

\* Every packet waiting in a queue belongs to a frame in flight.
queue_is_in_flight(s, queue) == \A i \in 1 .. Len(queue) : is_pending(s, queue[i].frame_id)

\* A pending frame keeps its own packets for retransmission.
packets_are_own(s) ==
  \A i \in in_flight(s) : \A j \in 1 .. Len(s.pending[i].packets) :
    s.pending[i].packets[j].frame_id = s.pending[i].frame_id
=============================================================================
