---------------------------- MODULE VarintReader ----------------------------
(* The reader of the Android TV connections                                   *)
(* (src/src/android_tv/framing.rs): a protobuf varint for the length, read    *)
(* byte by byte, then the body.                                               *)
EXTENDS FramedStream

CONSTANTS
  GROUP,          \* values of the part of the length in a byte: 2^7 in the code
  LENGTH_GROUPS   \* bytes of the longest varint: 10, the last for one bit of u64

VARIABLES
  length,          \* the length as far as it is read
  length_shift,    \* groups of it read
  body,            \* the bytes of the body read so far
  body_expected    \* the length, 0 until it is known

reader == <<length, length_shift, body, body_expected>>
vars == <<stream, caller, reader>>

\* encode_varint: groups, lowest first, until nothing is left, all but the last
\* with the continuation bit, which is GROUP here.
encode_varint(n) ==
  LET rest == shifted(n, GROUP, LENGTH_GROUPS)
      size == Min({k \in 1 .. LENGTH_GROUPS : rest[k] = 0})
  IN  [i \in 1 .. size |-> (rest[i - 1] % GROUP) + (IF i < size THEN GROUP ELSE 0)]

\* What a 1 of a group is worth, by the groups below it.
weight[k \in 0 .. LENGTH_GROUPS] == IF k = 0 THEN 1 ELSE GROUP * weight[k - 1]

Init == StreamInit /\ length = 0 /\ length_shift = 0 /\ body = << >> /\ body_expected = 0

\* One byte of the length.  The last group has room for one bit and nothing
\* after it.
ReadLength ==
  LET value  == wire[1].value
      joined == length + (value % GROUP) * weight[length_shift]
  IN  /\ body_expected = 0 /\ wire # << >>
      /\ Take(1, 1)
      /\ UNCHANGED body
      /\ IF length_shift = LENGTH_GROUPS - 1 /\ value > 1
         THEN Fail("InvalidData") /\ UNCHANGED <<length, length_shift, body_expected>>
         ELSE /\ length' = joined
              /\ IF value >= GROUP
                 THEN length_shift' = length_shift + 1 /\ UNCHANGED <<body_expected, caller>>
                 ELSE /\ UNCHANGED length_shift
                      /\ body_expected' = joined
                      /\ IF joined \in 1 .. MAX_FRAME_SIZE THEN UNCHANGED caller ELSE Fail("InvalidData")

\* Bytes of the body; the frame returned resets the reader.
ReadBody(count) ==
  LET filled == body \o SubSeq(wire, 1, count)
  IN  /\ body_expected > 0
      /\ Take(count, body_expected - Len(body))
      /\ IF Len(filled) < body_expected
         THEN body' = filled /\ UNCHANGED <<length, length_shift, body_expected, caller>>
         ELSE /\ Return(filled)
              /\ length' = 0 /\ length_shift' = 0 /\ body' = << >> /\ body_expected' = 0

\* A bug: the state of a read is local to the call.
read_frame_restarting ==
  Call /\ length' = 0 /\ length_shift' = 0 /\ body' = << >> /\ body_expected' = 0

\* read_frame is called: everything it needs is in the reader.
read_frame == Call /\ UNCHANGED reader

Read == ReadLength \/ \E count \in 1 .. Len(wire) : ReadBody(count)

Next ==
  \/ (\E n \in Lengths : PeerSends(n, 1, encode_varint(n))) /\ UNCHANGED reader
  \/ PeerCloses /\ UNCHANGED reader
  \/ read_frame
  \/ Cancel /\ UNCHANGED reader
  \/ Read
  \/ ReadEof /\ UNCHANGED reader
=============================================================================
