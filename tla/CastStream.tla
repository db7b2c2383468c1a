----------------------------- MODULE CastStream -----------------------------
(* One media stream end to end: the sender's StreamState as the event loop    *)
(* drives it (src/src/sender/event_loop.rs), a datagram network that loses,   *)
(* duplicates and reorders, and a Cast receiver.  The receiver and the        *)
(* network are not in the repository: they are modelled by what the sender    *)
(* expects of them.  The receiver collects packets, finishes a frame when it  *)
(* has all of them or gives the frame up, and reports its checkpoint, the     *)
(* finished frames above it and the packets it misses, at any time.           *)
EXTENDS StreamState

CONSTANTS
  PacketCounts,    \* how many packets a submitted frame may need (0: no data)
  MaxFrames,       \* bound: frames accepted in one behaviour
  MaxFragmented,   \* bound: of these, how many from the first may have several packets
  MaxReports,      \* bound: feedback datagrams in the network at a time
  MaxNacks,        \* bound: NACK entries of one feedback
  MaxRetransmits,  \* bound: packets on the retransmit queue
  RTP_LIFETIME,    \* how far ids may advance past a packet in the network
  RTCP_LIFETIME    \* how far ids may advance past a checkpoint in the network

\* What the 8-bit ids ask of the network.  A packet must not arrive more than
\* 128 frames after its own frame, a feedback not more than 256 frames after
\* the checkpoint it reports.
ASSUME LifetimeAssumption ==
  /\ RTP_LIFETIME \in Nat /\ 2 * RTP_LIFETIME <= FRAME_ID_MODULUS
  /\ RTCP_LIFETIME \in Nat /\ RTCP_LIFETIME <= FRAME_ID_MODULUS

ASSUME BoundsAssumption ==
  /\ PacketCounts \subseteq 0 .. ALL_PACKETS_LOST
  /\ {MaxFrames, MaxFragmented, MaxReports, MaxNacks, MaxRetransmits} \subseteq Nat

VARIABLES
  stream,     \* the sender's StreamState
  rtp,        \* RTP packets in the network
  rtcp,       \* feedback datagrams in the network
  receiver    \* [checkpoint, done, got, seen]

vars == <<stream, rtp, rtcp, receiver>>

\* The datagrams the network still carries once ids have advanced to next.
\* `id` is a datagram's full frame id, which the wire omits: only the network's
\* lifetime and the properties look at it.
Carried(network, next, lifetime) == {m \in network : next - m.id <= lifetime}

\* An RTP packet as it travels.
OnWire(packet) ==
  [frame         |-> truncate(packet.frame_id),
   packet_id     |-> packet.packet_id,
   max_packet_id |-> packet.max_packet_id,
   id            |-> packet.frame_id]

\* flush_queued_packets: the burst budget pays for n of the queued packets.
Flush(s, n) ==
  /\ n <= Len(queued(s))
  /\ stream' = pop_packets(s, n)
  /\ rtp' = Carried(rtp \cup {OnWire(queued(s)[i]) : i \in 1 .. n}, s.next_frame_id, RTP_LIFETIME)
  /\ rtcp' = Carried(rtcp, s.next_frame_id, RTCP_LIFETIME)

\* Packets one flush may send: the queues hold no more than this.
Budget == 0 .. MaxRetransmits + MAX_UNACKED_FRAMES * ALL_PACKETS_LOST

\* What the producer may submit next: its media clock moves on or stands still.
SubmittedFrames ==
  [packets : PacketCounts, dependency : {"KeyFrame", "Delta"},
   media_timestamp : {stream.next_frame_id - 1, stream.next_frame_id} \cap Nat, duration : {1}]
-----------------------------------------------------------------------------
Init ==
  /\ stream = new_stream
  /\ rtp = {}
  /\ rtcp = {}
  /\ receiver = [checkpoint |-> -1, done |-> {}, got |-> {}, seen |-> -1]

\* EnqueueFrame command: a refused frame changes nothing here (the count of
\* refused frames is in StreamMeasurements), an accepted one is flushed.
EnqueueFrame(frame, n) ==
  /\ stream.next_frame_id < MaxFrames
  /\ frame.packets > 1 => stream.next_frame_id < MaxFragmented
  /\ enqueue_error(stream, frame) = None
  /\ Flush(accept_frame(stream, frame), n)
  /\ UNCHANGED receiver

\* A feedback datagram arrives.  The network may keep a copy of it.
ReceiveFeedback(m, n) ==
  /\ Len(process_feedback(stream, m).retransmit_queue) <= MaxRetransmits
  /\ Flush(process_feedback(stream, m), n)
  /\ UNCHANGED receiver

\* The burst timer.
BurstTick(n) ==
  /\ n > 0
  /\ Flush(stream, n)
  /\ UNCHANGED receiver
-----------------------------------------------------------------------------
\* The receiver (external).  A packet arrives: its frame id is expanded near
\* the receiver's checkpoint, and the packet is kept if the frame is open.
Open(frame_id) == frame_id > receiver.checkpoint /\ frame_id \notin receiver.done

DeliverPacket(p) ==
  LET frame_id == expand(p.frame, receiver.checkpoint)
      got      == receiver.got \cup {<<frame_id, p.packet_id>>}
      complete == \A i \in 0 .. p.max_packet_id : <<frame_id, i>> \in got
  IN  /\ Open(frame_id)
      /\ receiver' =
           [receiver EXCEPT
              !.done = IF complete THEN @ \cup {frame_id} ELSE @,
              !.got  = IF complete THEN {g \in got : g[1] # frame_id} ELSE got,
              !.seen = IF frame_id > @ THEN frame_id ELSE @]
      /\ UNCHANGED <<stream, rtp, rtcp>>

\* The receiver gives up its oldest open frame, one it knows to exist.
GiveUpFrame ==
  LET frame_id == receiver.checkpoint + 1
  IN  /\ Open(frame_id) /\ frame_id <= receiver.seen
      /\ receiver' = [receiver EXCEPT !.done = @ \cup {frame_id},
                                      !.got = {g \in @ : g[1] # frame_id}]
      /\ UNCHANGED <<stream, rtp, rtcp>>

\* The receiver's checkpoint moves over a finished frame.
AdvanceCheckpoint ==
  /\ receiver.checkpoint + 1 \in receiver.done
  /\ receiver' = [receiver EXCEPT !.checkpoint = @ + 1, !.done = @ \ {receiver.checkpoint + 1}]
  /\ UNCHANGED <<stream, rtp, rtcp>>

\* What the receiver may ask for again: a packet of an open frame below the
\* newest one it has seen, or the whole frame when it has nothing of it.
Missing ==
  {nack \in [frame_id : receiver.checkpoint + 1 .. receiver.seen,
             packet_id : 0 .. ALL_PACKETS_LOST] :
     /\ Open(nack.frame_id)
     /\ <<nack.frame_id, nack.packet_id>> \notin receiver.got
     /\ (nack.packet_id = ALL_PACKETS_LOST) <=> (\A g \in receiver.got : g[1] # nack.frame_id)}

\* A feedback datagram; the ACK bitvector is optional.
SendFeedback(nacks, with_bits) ==
  /\ Cardinality(rtcp) < MaxReports
  /\ rtcp' = rtcp \cup
       {[checkpoint |-> truncate(receiver.checkpoint),
         bits       |-> IF with_bits THEN {f - (receiver.checkpoint + 2) : f \in receiver.done \ {receiver.checkpoint + 1}} ELSE {},
         nacks      |-> [i \in 1 .. Len(nacks) |->
                           [frame |-> truncate(nacks[i].frame_id), packet_id |-> nacks[i].packet_id, id |-> nacks[i].frame_id]],
         id         |-> receiver.checkpoint]}
  /\ UNCHANGED <<stream, rtp, receiver>>

LosePacket(p) ==
  /\ rtp' = rtp \ {p}
  /\ UNCHANGED <<stream, rtcp, receiver>>

LoseFeedback(m) ==
  /\ rtcp' = rtcp \ {m}
  /\ UNCHANGED <<stream, rtp, receiver>>
-----------------------------------------------------------------------------
Sender ==
  \E n \in Budget :
    \/ \E frame \in SubmittedFrames : EnqueueFrame(frame, n)
    \/ \E m \in rtcp : ReceiveFeedback(m, n)
    \/ BurstTick(n)

Receiver ==
  \/ \E p \in rtp : DeliverPacket(p)
  \/ GiveUpFrame
  \/ AdvanceCheckpoint
  \/ \E with_bits \in BOOLEAN, nacks \in ShortSeqs(Missing, MaxNacks) : SendFeedback(nacks, with_bits)

Network ==
  \/ \E p \in rtp : LosePacket(p)
  \/ \E m \in rtcp : LoseFeedback(m)

Next == Sender \/ Receiver \/ Network

Spec == Init /\ [][Next]_vars
-----------------------------------------------------------------------------
\* Type of every variable.
WirePackets == [frame : Nat, packet_id : Nat, max_packet_id : Nat, id : Nat]
WireNacks == [frame : Nat, packet_id : Nat, id : Nat]
Feedbacks == [checkpoint : Nat, bits : SUBSET Nat, nacks : Seq(WireNacks), id : Int]
Receivers == [checkpoint : Int, done : SUBSET Nat, got : SUBSET (Nat \X Nat), seen : Int]

TypeOK ==
  /\ stream \in Streams
  /\ rtp \subseteq WirePackets
  /\ rtcp \subseteq Feedbacks
  /\ receiver \in Receivers

\* The window of enqueue_frame: the ids between the checkpoint and the next id
\* fit in the slots, and every occupied slot holds a frame of that range whose
\* id maps to it, so no frame is put in the slot of one still in flight.  Every
\* queued packet belongs to a frame in flight: once a frame is acknowledged,
\* cancel_queued_frame leaves nothing of it to send, and a NACK for it queues
\* nothing.
WindowIsSound ==
  /\ window_is_sound(stream)
  /\ queue_is_in_flight(stream, stream.send_queue)
  /\ queue_is_in_flight(stream, stream.retransmit_queue)

Finished(frame_id) == frame_id <= receiver.checkpoint \/ frame_id \in receiver.done

\* A frame leaves the window only when the receiver is finished with it, in
\* spite of truncated ids and of late, repeated and reordered feedback.
ReleasedFramesAreFinished ==
  /\ stream.checkpoint <= receiver.checkpoint
  /\ \A f \in 0 .. stream.next_frame_id - 1 : is_pending(stream, f) \/ Finished(f)

\* Every id read from the wire expands to the id that was meant: a packet's by
\* the receiver, a feedback's checkpoint and NACKs by the sender.
WireIdsAreUnambiguous ==
  /\ \A p \in rtp : expand(p.frame, receiver.checkpoint) = p.id
  /\ \A m \in rtcp :
       /\ feedback_checkpoint(stream, m) = m.id
       /\ \A i \in 1 .. Len(m.nacks) : feedback_nacks(stream, m)[i].frame_id = m.nacks[i].id

\* Every accepted frame is counted acknowledged once or is in flight.
FramesAreAccountedFor ==
  stream.frames_acked + in_flight_count(stream) = stream.next_frame_id

\* The checkpoint never moves back and a frame that left the window never
\* comes back into it.
NoRegression ==
  [][ /\ stream'.checkpoint >= stream.checkpoint
      /\ \A f \in 0 .. stream.next_frame_id - 1 :
           is_pending(stream', f) => is_pending(stream, f) ]_vars
=============================================================================
