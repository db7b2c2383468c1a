---------------------------- MODULE FramedStream ----------------------------
(* What the two framed readers have in common: a TLS stream of messages, each *)
(* a length and that many bytes, and a caller that polls the reader in a      *)
(* select!.  When another arm of the select! is chosen the future of the read *)
(* is dropped where it awaits bytes, and the next read starts from its top,   *)
(* with what it kept in the reader and nothing else.                          *)
(*                                                                            *)
(* A byte on the stream is its value and, for the properties, the message and *)
(* the place in it that it came from.                                         *)
EXTENDS Sequences, FiniteSetsExt

CONSTANTS
  Lengths,          \* lengths the peer may announce
  MAX_FRAME_SIZE,   \* the longest body accepted
  MaxMessages       \* messages the peer sends

ASSUME StreamAssumption == Lengths \subseteq Nat /\ MAX_FRAME_SIZE \in Nat

VARIABLES
  sent,        \* the bodies sent
  wire,        \* bytes sent and not read
  ended,       \* whether the peer has closed the stream
  reading,     \* whether a read is under way
  delivered,   \* the bodies returned
  failed       \* None, "InvalidData" or "UnexpectedEof": what the read returned

stream == <<sent, wire, ended>>
caller == <<reading, delivered, failed>>

\* The body of message k: `value` in all its bytes tells whether it decodes.
Bytes(k, n, value) == [i \in 1 .. n |-> [value |-> value, of |-> <<k, i>>]]

\* What is left of n when its lowest k digits to the base are shifted out, for
\* k up to `digits`.
shifted(n, base, digits) ==
  LET rest[k \in 0 .. digits] == IF k = 0 THEN n ELSE rest[k - 1] \div base
  IN  rest

decodes(body) == \A i \in DOMAIN body : body[i].value = 1

StreamInit ==
  /\ sent = << >> /\ wire = << >> /\ ended = FALSE
  /\ reading = FALSE /\ delivered = << >> /\ failed = "None"

\* The peer (external) sends a message, with the bytes `prefix` for its length,
\* or closes the stream.
PeerSends(n, value, prefix) ==
  /\ Len(sent) < MaxMessages /\ ~ended
  /\ sent' = Append(sent, Bytes(Len(sent) + 1, n, value))
  /\ wire' = wire \o [i \in DOMAIN prefix |-> [value |-> prefix[i], of |-> <<Len(sent) + 1, 0>>]]
                  \o Bytes(Len(sent) + 1, n, value)
  /\ UNCHANGED <<ended, caller>>

PeerCloses ==
  /\ ~ended
  /\ ended' = TRUE
  /\ UNCHANGED <<sent, wire, caller>>

\* The select! is entered; another arm of it is chosen.
Call ==
  /\ ~reading /\ failed = "None"
  /\ reading' = TRUE
  /\ UNCHANGED <<stream, delivered, failed>>

Cancel ==
  /\ reading
  /\ reading' = FALSE
  /\ UNCHANGED <<stream, delivered, failed>>

\* AsyncReadExt::read into `room` bytes: at least one and at most those there
\* are.  No bytes at the end of the stream is an error of both readers.
Take(count, room) ==
  /\ reading
  /\ count <= room /\ count <= Len(wire)
  /\ wire' = SubSeq(wire, count + 1, Len(wire))
  /\ UNCHANGED <<sent, ended>>

Fail(error) ==
  /\ failed' = error /\ reading' = FALSE
  /\ UNCHANGED delivered

Return(body) ==
  /\ delivered' = Append(delivered, body)
  /\ reading' = FALSE
  /\ UNCHANGED failed

ReadEof ==
  /\ reading /\ wire = << >> /\ ended
  /\ Fail("UnexpectedEof")
  /\ UNCHANGED stream
-----------------------------------------------------------------------------
\* Messages are returned in order, whole and as they were sent, wherever reads
\* return and are cancelled.  A read fails only with cause: the length of the
\* very next message is not acceptable or its body does not decode, or the peer
\* has closed the stream.
MessagesAreWhole ==
  /\ Len(delivered) <= Len(sent) /\ delivered = SubSeq(sent, 1, Len(delivered))
  /\ failed = "InvalidData" =>
       /\ Len(delivered) < Len(sent)
       /\ LET body == sent[Len(delivered) + 1]
          IN  Len(body) \notin 1 .. MAX_FRAME_SIZE \/ ~decodes(body)
  /\ failed = "UnexpectedEof" => ended

\* Cancelling loses no progress: however often other arms are chosen, a message
\* that was sent is returned, or the read fails.
MessagesArrive ==
  \A k \in 1 .. MaxMessages : Len(sent) >= k ~> (Len(delivered) >= k \/ failed # "None")
=============================================================================
