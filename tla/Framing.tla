------------------------------- MODULE Framing -------------------------------
(* Both framed readers over the same streams of messages: the reader of the   *)
(* control connection and the reader of the Android TV connections, which     *)
(* share nothing but the way their callers use them.  A behaviour has one of  *)
(* them.                                                                      *)
EXTENDS FramedReader

CONSTANTS GROUP, LENGTH_GROUPS

VARIABLES
  coding,                       \* which reader it is: "fixed" or "varint"
  length, length_shift, body    \* of the varint reader

varint == INSTANCE VarintReader

\* Every length fits in its groups, and no length that is accepted reaches the
\* bits for which the last group has no room.
ASSUME VarintReaderAssumption ==
  /\ GROUP \in Nat \ {0, 1} /\ LENGTH_GROUPS \in Nat \ {0}
  /\ \A n \in Lengths : shifted(n, GROUP, LENGTH_GROUPS)[LENGTH_GROUPS] = 0
  /\ MAX_FRAME_SIZE < 2 * varint!weight[LENGTH_GROUPS - 1]

framing_vars == <<vars, coding, length, length_shift, body>>

FramingInit == coding \in {"fixed", "varint"} /\ Init /\ varint!Init

Fixed(A) == coding = "fixed" /\ A /\ UNCHANGED <<coding, length, length_shift, body>>
Varint(A) == coding = "varint" /\ A /\ UNCHANGED <<coding, len_buf, body_buf>>

FramingNext == Fixed(Next) \/ Varint(varint!Next)

FramingSafety == FramingInit /\ [][FramingNext]_framing_vars

\* The select! is entered again and again, and its read arm is not passed over
\* for ever when there are bytes.
FramingSpec ==
  /\ FramingSafety
  /\ WF_framing_vars(Fixed(read_message)) /\ SF_framing_vars(Fixed(Read))
  /\ WF_framing_vars(Varint(varint!read_frame)) /\ SF_framing_vars(Varint(varint!Read))
=============================================================================
