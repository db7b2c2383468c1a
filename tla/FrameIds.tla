------------------------------ MODULE FrameIds ------------------------------
(* Frame ids (src/src/frame.rs).  A stream numbers its frames 0, 1, 2, ...    *)
(* in an i64, but RTP and RTCP carry only the low 8 bits.  Whoever reads an   *)
(* id from the wire has to recover the full one from a reference id of its    *)
(* own.  The i64 cannot overflow in the life of a session and is an integer.  *)
EXTENDS Integers

CONSTANT FRAME_ID_MODULUS   \* the number of wire ids: 256 in the code

ASSUME FrameIdModulusAssumption ==
  /\ FRAME_ID_MODULUS \in Nat \ {0}
  /\ FRAME_ID_MODULUS % 2 = 0

\* FrameId::truncate: `self.0 as u8`.
truncate(frame_id) == frame_id % FRAME_ID_MODULUS

\* The wrapping_sub of two u8 read as an i8: the signed distance.
signed_delta(truncated, reference) ==
  LET delta == (truncated - truncate(reference)) % FRAME_ID_MODULUS
  IN  IF delta < FRAME_ID_MODULUS \div 2 THEN delta ELSE delta - FRAME_ID_MODULUS

\* FrameId::expand: the id nearest to the reference that has this wire value.
expand(truncated, reference) == reference + signed_delta(truncated, reference)

\* The form `expand_lte` would have without its correction.
expand_lte_uncorrected(truncated, reference) == expand(truncated, reference)

\* FrameId::expand_lte: the greatest id not above the reference.
expand_lte(truncated, reference) ==
  LET expanded == expand(truncated, reference)
  IN  IF expanded > reference THEN expanded - FRAME_ID_MODULUS ELSE expanded
=============================================================================
