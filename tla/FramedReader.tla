---------------------------- MODULE FramedReader ----------------------------
(* The reader of the control connection (src/src/control/framing.rs): a       *)
(* big-endian length of fixed size, then the body.                            *)
EXTENDS FramedStream

CONSTANTS
  LENGTH_SIZE,   \* bytes of a length: 4 in the code
  BYTE           \* values of a byte: 256 in the code

\* Every length fits in its bytes.
ASSUME FramedReaderAssumption ==
  /\ LENGTH_SIZE \in Nat \ {0} /\ BYTE \in Nat \ {0, 1}
  /\ \A n \in Lengths : shifted(n, BYTE, LENGTH_SIZE)[LENGTH_SIZE] = 0

VARIABLES
  len_buf,         \* the bytes of the length read so far
  body_buf,        \* the bytes of the body read so far
  body_expected    \* the length, 0 until it is known

reader == <<len_buf, body_buf, body_expected>>
vars == <<stream, caller, reader>>

to_be_bytes(n) ==
  [i \in 1 .. LENGTH_SIZE |-> shifted(n, BYTE, LENGTH_SIZE)[LENGTH_SIZE - i] % BYTE]

from_be_bytes(bytes) ==
  LET value[k \in 0 .. LENGTH_SIZE] ==
        IF k = 0 THEN 0 ELSE BYTE * value[k - 1] + bytes[k].value
  IN  value[LENGTH_SIZE]

Init == StreamInit /\ len_buf = << >> /\ body_buf = << >> /\ body_expected = 0

\* A read completes in the first loop.  The length that is complete is looked at
\* before anything else is awaited.
ReadLength(count) ==
  LET filled   == len_buf \o SubSeq(wire, 1, count)
      expected == from_be_bytes(filled)
  IN  /\ Take(count, LENGTH_SIZE - Len(len_buf))
      /\ len_buf' = filled
      /\ UNCHANGED body_buf
      /\ IF Len(filled) < LENGTH_SIZE
         THEN UNCHANGED <<body_expected, caller>>
         ELSE /\ body_expected' = expected
              /\ IF expected \in 1 .. MAX_FRAME_SIZE THEN UNCHANGED caller ELSE Fail("InvalidData")

\* A bug: the length is kept for the next message.
ReadBodyKeepingLength(count) ==
  LET filled == body_buf \o SubSeq(wire, 1, count)
  IN  /\ body_expected > 0
      /\ Take(count, body_expected - Len(body_buf))
      /\ IF Len(filled) < body_expected
         THEN body_buf' = filled /\ UNCHANGED <<len_buf, body_expected, caller>>
         ELSE Return(filled) /\ body_buf' = << >> /\ UNCHANGED <<len_buf, body_expected>>

\* A read completes in the second loop; a message that decodes is returned and
\* resets the reader.
ReadBody(count) ==
  LET filled == body_buf \o SubSeq(wire, 1, count)
  IN  /\ body_expected > 0
      /\ Take(count, body_expected - Len(body_buf))
      /\ IF Len(filled) = body_expected /\ decodes(filled)
         THEN /\ Return(filled)
              /\ len_buf' = << >> /\ body_buf' = << >> /\ body_expected' = 0
         ELSE /\ body_buf' = filled /\ UNCHANGED <<len_buf, body_expected>>
              /\ IF Len(filled) < body_expected THEN UNCHANGED caller ELSE Fail("InvalidData")

\* read_message is called: everything it needs is in the reader.
read_message == Call /\ UNCHANGED reader

Read == \E count \in 1 .. Len(wire) : ReadLength(count) \/ ReadBody(count)

Next ==
  \/ (\E n \in Lengths, value \in {0, 1} : PeerSends(n, value, to_be_bytes(n))) /\ UNCHANGED reader
  \/ PeerCloses /\ UNCHANGED reader
  \/ read_message
  \/ Cancel /\ UNCHANGED reader
  \/ Read
  \/ ReadEof /\ UNCHANGED reader
=============================================================================
