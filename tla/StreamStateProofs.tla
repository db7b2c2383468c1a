-------------------------- MODULE StreamStateProofs --------------------------
(* When a truncated frame id can be told apart, and that every method of      *)
(* StreamState preserves the soundness of the window and of the queues, for   *)
(* every window size and every wire id range.                                 *)
EXTENDS StreamState, SequenceTheorems, WellFoundedInduction, FiniteSetTheorems, TLAPS

\* Remainder and quotient by a positive number.
LEMMA DivMod ==
  ASSUME NEW m \in Nat \ {0}, NEW a \in Int
  PROVE  /\ a % m \in 0 .. m - 1
         /\ a \div m \in Int
         /\ a = m * (a \div m) + (a % m)
  BY SMT

\* A multiple of m strictly between -m and m is zero.
LEMMA SmallMultiple ==
  ASSUME NEW m \in Nat \ {0}, NEW k \in Int, -m < m * k, m * k < m
  PROVE  k = 0
  BY SMT

\* Numbers less than m apart have the same remainder only when they are equal.
LEMMA EqualRemainders ==
  ASSUME NEW m \in Nat \ {0}, NEW a \in Int, NEW b \in Int,
         -m < a - b, a - b < m, a % m = b % m
  PROVE  a = b
  <1> DEFINE p == a \div m
             q == b \div m
             k == p - q
  <1>1. /\ p \in Int /\ a = m * p + (a % m) /\ a % m \in Int
        /\ q \in Int /\ b = m * q + (b % m) /\ b % m \in Int
    BY DivMod
  <1>2. k \in Int /\ a - b = m * k
    <2> HIDE DEF p, q
    <2>1. m * k = m * p - m * q
      BY <1>1, SMT
    <2> QED
      BY <1>1, <2>1, SMT
  <1>3. k = 0
    <2> HIDE DEF k
    <2> QED
      BY <1>2, SmallMultiple
  <1> QED
    BY <1>2, <1>3, SMT

\* A remainder is determined by being in range and congruent.
LEMMA RemainderUnique ==
  ASSUME NEW m \in Nat \ {0}, NEW a \in Int, NEW r \in 0 .. m - 1, NEW q \in Int,
         a = m * q + r
  PROVE  a % m = r
  <1> DEFINE p == a \div m
             e == a % m
             k == p - q
  <1>1. p \in Int /\ e \in 0 .. m - 1 /\ a = m * p + e
    BY DivMod
  <1> HIDE DEF p, e
  <1>2. k \in Int /\ m * k = m * p - m * q
    BY <1>1, SMT
  <1>3. m * k = r - e
    BY <1>1, <1>2, SMT
  <1>4. -m < m * k /\ m * k < m
    BY <1>1, <1>3, SMT
  <1>5. k = 0
    <2> HIDE DEF k
    <2> QED
      BY <1>2, <1>4, SmallMultiple
  <1>6. e = r
    BY <1>1, <1>3, <1>5, SMT
  <1> QED
    BY <1>6 DEF e

\* truncate() yields a wire id.
LEMMA TruncateType ==
  ASSUME NEW f \in Int
  PROVE  truncate(f) \in 0 .. FRAME_ID_MODULUS - 1
  BY DivMod, FrameIdModulusAssumption DEF truncate

\* The signed distance of two wire ids is the distance of the ids themselves
\* when that fits in an i8.
LEMMA SignedDeltaExact ==
  ASSUME NEW f \in Int, NEW r \in Int,
         -(FRAME_ID_MODULUS \div 2) <= f - r, f - r < FRAME_ID_MODULUS \div 2
  PROVE  signed_delta(truncate(f), r) = f - r
  <1> DEFINE m == FRAME_ID_MODULUS
             h == FRAME_ID_MODULUS \div 2
             d == f - r
             t == truncate(f) - truncate(r)
             k == (r \div m) - (f \div m)
  <1>1. m \in Nat \ {0} /\ m = 2 * h /\ h \in Nat
    BY FrameIdModulusAssumption, DivMod, SMT
  <1>2. k \in Int /\ t \in Int /\ d \in Int
    BY <1>1, DivMod, TruncateType
  <1>3. t = d + m * k
    BY <1>1, DivMod, SMT DEF truncate
  <1>4. CASE d >= 0
    <2>1. t % m = d
      <3>1. d \in 0 .. m - 1 /\ t = m * k + d
        BY <1>1, <1>2, <1>3, <1>4
      <3> HIDE DEF m, h, d, t, k
      <3> QED
        BY <3>1, <1>1, <1>2, RemainderUnique
    <2> QED
      BY <2>1, <1>1, <1>4 DEF signed_delta
  <1>5. CASE d < 0
    <2>1. t % m = d + m
      <3>1. d + m \in 0 .. m - 1
        BY <1>1, <1>2, <1>5
      <3>2. t = m * (k - 1) + (d + m) /\ k - 1 \in Int
        BY <1>1, <1>2, <1>3, SMT
      <3> HIDE DEF m, h, d, t, k
      <3> QED
        BY <3>1, <3>2, <1>1, <1>2, RemainderUnique
    <2> QED
      BY <2>1, <1>1, <1>2, <1>5 DEF signed_delta
  <1> QED
    BY <1>2, <1>4, <1>5

\* expand() recovers an id from its wire value and any reference at most half
\* of the wire ids above it, or less than half below it.
THEOREM ExpandExact ==
  ASSUME NEW f \in Int, NEW r \in Int,
         -(FRAME_ID_MODULUS \div 2) <= f - r, f - r < FRAME_ID_MODULUS \div 2
  PROVE  expand(truncate(f), r) = f
  BY SignedDeltaExact DEF expand

\* expand() and expand_lte() are integers, and expand_lte() never exceeds its
\* reference, whatever arrives.
THEOREM ExpandLteBound ==
  ASSUME NEW t \in Int, NEW r \in Int
  PROVE  /\ expand(t, r) \in Int
         /\ expand_lte(t, r) \in Int
         /\ expand_lte(t, r) <= r
  <1>1. FRAME_ID_MODULUS \in Nat \ {0} /\ FRAME_ID_MODULUS \div 2 \in Int
        /\ 2 * (FRAME_ID_MODULUS \div 2) <= FRAME_ID_MODULUS
    BY FrameIdModulusAssumption, DivMod, SMT
  <1>2. (t - truncate(r)) % FRAME_ID_MODULUS \in 0 .. FRAME_ID_MODULUS - 1
    <2>1. t - truncate(r) \in Int
      BY TruncateType, <1>1
    <2> QED
      BY <1>1, <2>1, DivMod, Zenon
  <1>3. signed_delta(t, r) \in Int /\ signed_delta(t, r) < FRAME_ID_MODULUS
    BY <1>1, <1>2 DEF signed_delta
  <1> QED
    BY <1>1, <1>3 DEF expand, expand_lte

\* expand_lte() recovers any id that is not above the reference and less than
\* the whole range of wire ids below it.
THEOREM ExpandLteExact ==
  ASSUME NEW f \in Int, NEW r \in Int, f <= r, r - f < FRAME_ID_MODULUS
  PROVE  expand_lte(truncate(f), r) = f
  <1> DEFINE m == FRAME_ID_MODULUS
             h == FRAME_ID_MODULUS \div 2
  <1>1. m \in Nat \ {0} /\ m = 2 * h /\ h \in Nat \ {0}
    BY FrameIdModulusAssumption, DivMod, SMT
  <1>2. CASE r - f <= h
    BY <1>1, <1>2, ExpandExact DEF expand_lte
  <1>3. CASE r - f > h
    <2>1. f + m \in Int /\ -h <= f + m - r /\ f + m - r < h /\ f + m > r
      BY <1>1, <1>3
    <2>2. truncate(f + m) = truncate(f)
      <3>1. f + m = m * (f \div m + 1) + (f % m) /\ f \div m + 1 \in Int
        BY <1>1, DivMod, SMT
      <3>2. (f + m) % m = f % m
        BY <3>1, <1>1, <2>1, DivMod, RemainderUnique, Zenon
      <3> QED
        BY <3>2 DEF truncate
    <2>3. expand(truncate(f), r) = f + m
      <3> DEFINE g == f + m
      <3>1. g \in Int /\ -h <= g - r /\ g - r < h
        BY <2>1, <1>1
      <3>2. expand(truncate(g), r) = g
        <4> HIDE DEF g
        <4> QED
          BY <3>1, ExpandExact
      <3> QED
        BY <2>2, <3>2
    <2> QED
      BY <2>1, <2>3, <1>1 DEF expand_lte
  <1> QED
    BY <1>1, <1>2, <1>3
-----------------------------------------------------------------------------
\* A non-empty set of naturals has a least element.
LEMMA NatMin == ASSUME NEW T \in SUBSET Nat, T # {}
   PROVE \E n \in T : \A m \in T : ~(m < n)
  <1>1. PICK x \in T : \A y \in T : ~ (<<y, x>> \in OpToRel(<, Nat))
    BY NatLessThanWellFounded, WFMin, Zenon
  <1> WITNESS x \in T
  <1> QED BY <1>1, Zenon DEF OpToRel

\* Every element of a concatenation is an element of one of its halves.
LEMMA ConcatElements ==
  ASSUME NEW S, NEW u \in Seq(S), NEW w \in Seq(S)
  PROVE  /\ u \o w \in Seq(S)
         /\ \A j \in 1 .. Len(u \o w) :
              \/ \E i \in 1 .. Len(u) : (u \o w)[j] = u[i]
              \/ \E i \in 1 .. Len(w) : (u \o w)[j] = w[i]
  <1>1. u \o w \in Seq(S) /\ Len(u \o w) = Len(u) + Len(w)
    OBVIOUS
  <1>2. Len(u) \in Nat /\ Len(w) \in Nat
    OBVIOUS
  <1>3. SUFFICES ASSUME NEW j \in 1 .. Len(u) + Len(w)
                 PROVE  \/ \E i \in 1 .. Len(u) : (u \o w)[j] = u[i]
                        \/ \E i \in 1 .. Len(w) : (u \o w)[j] = w[i]
    BY <1>1, Zenon
  <1>4. CASE j <= Len(u)
    BY <1>2, <1>4
  <1>5. CASE j > Len(u)
    <2>1. j - Len(u) \in 1 .. Len(w) /\ (u \o w)[j] = w[j - Len(u)]
      BY <1>2, <1>5
    <2> QED
      BY <2>1, Zenon
  <1> QED
    BY <1>2, <1>4, <1>5

\* k[i] is the concatenation of the first i sequences: the recursive function
\* inside flatten, up to n.
Flat(ps, n, k) == k = [i \in 0 .. n |-> IF i = 0 THEN << >> ELSE k[i - 1] \o ps[i]]

\* That recursive function exists, by minimal counterexample.
LEMMA FlatExists ==
  ASSUME NEW S, NEW ps \in Seq(Seq(S)), NEW n \in Nat, n <= Len(ps)
  PROVE  \E k \in [0 .. n -> Seq(S)] : Flat(ps, n, k)
  <1> DEFINE Good(m) == \E k \in [0 .. m -> Seq(S)] : Flat(ps, m, k)
             T == {m \in Nat : m <= Len(ps) /\ ~Good(m)}
  <1>1. SUFFICES ASSUME T # {} PROVE FALSE
    OBVIOUS
  <1>2. PICK m \in T : \A x \in T : ~(x < m)
    BY <1>1, NatMin, Zenon
  <1>3. Good(0)
    <2> DEFINE k == [i \in 0 .. 0 |-> << >>]
    <2>1. k \in [0 .. 0 -> Seq(S)]
      OBVIOUS
    <2>2. Flat(ps, 0, k)
      BY DEF Flat
    <2> QED
      BY <2>1, <2>2, Zenon
  <1> HIDE DEF Good
  <1>4. m \in Nat /\ m # 0 /\ m - 1 \in Nat /\ m - 1 < m /\ m - 1 <= Len(ps) /\ m \in 1 .. Len(ps)
    <2>1. m \in Nat /\ m <= Len(ps) /\ m # 0 /\ Len(ps) \in Nat
      BY <1>2, <1>3
    <2> QED
      BY <2>1
  <1>5. PICK k \in [0 .. m - 1 -> Seq(S)] : Flat(ps, m - 1, k)
    BY <1>2, <1>4, Zenon DEF Good
  <1> DEFINE v == k[m - 1] \o ps[m]
             h == [i \in 0 .. m |-> IF i = m THEN v ELSE k[i]]
  <1>6. v \in Seq(S)
    <2>1. k[m - 1] \in Seq(S) /\ ps[m] \in Seq(S)
      BY <1>4
    <2> QED
      BY <2>1, ConcatProperties, Zenon
  <1>7. \A i \in 0 .. m : i # m => i \in 0 .. m - 1
    BY <1>4
  <1> HIDE DEF v
  <1>8. h \in [0 .. m -> Seq(S)]
    BY <1>6, <1>7, Zenon
  <1>9. ASSUME NEW i \in 0 .. m
        PROVE  h[i] = IF i = 0 THEN << >> ELSE h[i - 1] \o ps[i]
    <2>1. i # 0 => i - 1 \in 0 .. m /\ i - 1 # m /\ h[i - 1] = k[i - 1]
      BY <1>4
    <2>2. CASE i = m
      BY <1>4, <2>1, <2>2, Zenon DEF v
    <2>3. CASE i # m
      <3>1. k[i] = IF i = 0 THEN << >> ELSE k[i - 1] \o ps[i]
        BY <1>5, <1>7, <2>3, Zenon DEF Flat
      <3> QED
        BY <2>1, <2>3, <3>1, Zenon
    <2> QED
      BY <2>2, <2>3, Zenon
  <1>10. Flat(ps, m, h)
    BY <1>9, Zenon DEF Flat
  <1>11. Good(m)
    BY <1>8, <1>10, Zenon DEF Good
  <1> QED
    BY <1>2, <1>11, Zenon

\* Its last value is what flatten returns.
LEMMA FlattenIs ==
  ASSUME NEW S, NEW ps \in Seq(Seq(S))
  PROVE  \E k : Flat(ps, Len(ps), k) /\ flatten(ps) = k[Len(ps)]
  <1>1. \E k : Flat(ps, Len(ps), k)
    <2>1. Len(ps) \in Nat /\ Len(ps) <= Len(ps)
      OBVIOUS
    <2> QED
      BY <2>1, FlatExists, Zenon
  <1> QED
    BY <1>1, Zenon DEF Flat, flatten

\* Every element of u is in one of the first m parts.
FromParts(u, ps, m) == \A j \in 1 .. Len(u) : \E i \in 1 .. m : \E l \in 1 .. Len(ps[i]) : u[j] = ps[i][l]

\* Every element of the flattening of one more part is of one of the parts.
LEMMA AppendPart ==
  ASSUME NEW S, NEW ps, NEW m \in Nat, NEW u \in Seq(S), ps[m + 1] \in Seq(S), FromParts(u, ps, m)
  PROVE  u \o ps[m + 1] \in Seq(S) /\ FromParts(u \o ps[m + 1], ps, m + 1)
  <1>1. /\ u \o ps[m + 1] \in Seq(S)
        /\ \A j \in 1 .. Len(u \o ps[m + 1]) :
             \/ \E i \in 1 .. Len(u) : (u \o ps[m + 1])[j] = u[i]
             \/ \E i \in 1 .. Len(ps[m + 1]) : (u \o ps[m + 1])[j] = ps[m + 1][i]
    BY ConcatElements
  <1>2. ASSUME NEW j \in 1 .. Len(u \o ps[m + 1])
        PROVE  \E i \in 1 .. m + 1 : \E l \in 1 .. Len(ps[i]) : (u \o ps[m + 1])[j] = ps[i][l]
    <2>1. CASE \E i \in 1 .. Len(u) : (u \o ps[m + 1])[j] = u[i]
      <3>1. PICK x \in 1 .. Len(u) : (u \o ps[m + 1])[j] = u[x]
        BY <2>1, Zenon
      <3>2. PICK i \in 1 .. m : \E l \in 1 .. Len(ps[i]) : u[x] = ps[i][l]
        BY <3>1, Zenon DEF FromParts
      <3>3. i \in 1 .. m + 1
        OBVIOUS
      <3> QED
        BY <3>1, <3>2, <3>3, Zenon
    <2>2. CASE \E i \in 1 .. Len(ps[m + 1]) : (u \o ps[m + 1])[j] = ps[m + 1][i]
      <3>1. m + 1 \in 1 .. m + 1
        OBVIOUS
      <3> QED
        BY <2>2, <3>1, Zenon
    <2> QED
      BY <1>1, <2>1, <2>2, Zenon
  <1> QED
    BY <1>1, <1>2, Zenon DEF FromParts

\* flatten gives a sequence, and each of its elements is one of its parts.
LEMMA FlattenElements ==
  ASSUME NEW S, NEW ps \in Seq(Seq(S))
  PROVE  /\ flatten(ps) \in Seq(S)
         /\ \A j \in 1 .. Len(flatten(ps)) :
              \E i \in 1 .. Len(ps) : \E l \in 1 .. Len(ps[i]) : flatten(ps)[j] = ps[i][l]
  <1> DEFINE n == Len(ps)
  <1>1. PICK k : Flat(ps, n, k) /\ flatten(ps) = k[n]
    BY FlattenIs, Zenon
  <1> DEFINE Good(m) == k[m] \in Seq(S) /\ FromParts(k[m], ps, m)
             T == {m \in Nat : m <= n /\ ~Good(m)}
  <1>2. Good(0)
    <2>1. n \in Nat /\ 0 \in 0 .. n
      OBVIOUS
    <2>2. k[0] = << >>
      BY <1>1, <2>1, Zenon DEF Flat
    <2> QED
      BY <2>2 DEF FromParts
  <1>3. ASSUME NEW m \in Nat, m + 1 <= n, Good(m)
        PROVE  Good(m + 1)
    <2>1. ps[m + 1] \in Seq(S)
      BY <1>3
    <2>2. m + 1 \in 0 .. n /\ m + 1 # 0 /\ m + 1 - 1 = m
      BY <1>3
    <2>3. k[m + 1] = k[m] \o ps[m + 1]
      <3>1. PICK j \in 0 .. n : j # 0 /\ j - 1 = m /\ j = m + 1
        BY <2>2
      <3>2. k[j] = IF j = 0 THEN << >> ELSE k[j - 1] \o ps[j]
        BY <1>1, Zenon DEF Flat
      <3>3. k[j] = k[m] \o ps[j]
        BY <3>1, <3>2, Zenon
      <3> QED
        BY <3>1, <3>3, Zenon
    <2> QED
      BY <1>3, <2>1, <2>3, AppendPart, Zenon
  <1> HIDE DEF Good
  <1>4. T = {}
    <2>1. SUFFICES ASSUME T # {} PROVE FALSE
      OBVIOUS
    <2>2. PICK m \in T : \A x \in T : ~(x < m)
      BY <2>1, NatMin, Zenon
    <2>3. m \in Nat /\ m <= n /\ m # 0 /\ ~Good(m)
      BY <1>2, <2>2, Zenon
    <2>4. m - 1 \in Nat /\ m - 1 < m /\ m - 1 <= n /\ m - 1 + 1 = m /\ n \in Nat
      BY <2>3
    <2>5. Good(m - 1)
      BY <2>2, <2>4, Zenon
    <2> QED
      BY <1>3, <2>3, <2>4, <2>5, Zenon
  <1>5. Good(n)
    <2>1. n \in Nat /\ n <= n
      OBVIOUS
    <2> QED
      BY <1>4, <2>1, Zenon
  <1> QED
    BY <1>1, <1>5 DEF Good, FromParts
-----------------------------------------------------------------------------
\* What every method preserves.
stream_inv(s) ==
  /\ s \in Streams
  /\ window_is_sound(s)
  /\ packets_are_own(s)
  /\ queue_is_in_flight(s, s.send_queue)
  /\ queue_is_in_flight(s, s.retransmit_queue)

\* A slot is an index of `pending`.
LEMMA SlotType ==
  ASSUME NEW f \in Int
  PROVE  slot(f) \in Slots
  BY DivMod, WindowAssumption, Zenon DEF slot, Slots

\* Two frame ids of one window never share a slot.
LEMMA SlotInjective ==
  ASSUME NEW f \in Int, NEW g \in Int, slot(f) = slot(g),
         -MAX_UNACKED_FRAMES < f - g, f - g < MAX_UNACKED_FRAMES
  PROVE  f = g
  BY EqualRemainders, WindowAssumption, Zenon DEF slot

\* A pending frame lies in the window.
LEMMA PendingInWindow ==
  ASSUME NEW s, stream_inv(s), NEW f \in Int, is_pending(s, f)
  PROVE  /\ f \in Nat
         /\ s.checkpoint < f
         /\ f < s.next_frame_id
         /\ s.next_frame_id - (s.checkpoint + 1) \in 0 .. MAX_UNACKED_FRAMES
         /\ s.checkpoint \in Int /\ s.next_frame_id \in Nat
         /\ s.pending[slot(f)] \in PendingFrames
  <1>1. slot(f) \in Slots
    BY SlotType, Zenon
  <1>2. slot(f) \in in_flight(s)
    BY <1>1, Zenon DEF is_pending, in_flight
  <1>3. s \in Streams /\ s.pending \in [Slots -> PendingFrames \cup {None}]
    BY Zenon DEF stream_inv, Streams
  <1>4. s.pending[slot(f)] \in PendingFrames
    BY <1>1, <1>3, Zenon DEF is_pending
  <1>5. s.checkpoint < f /\ f < s.next_frame_id
    BY <1>2, Zenon DEF stream_inv, window_is_sound, is_pending
  <1>6. s.checkpoint \in Int /\ s.next_frame_id \in Nat
    BY <1>3, Zenon DEF Streams
  <1>7. in_flight_id_span(s) \in 0 .. MAX_UNACKED_FRAMES
    BY Zenon DEF stream_inv, window_is_sound
  <1>8. f \in Nat
    BY <1>4, Zenon DEF is_pending, PendingFrames
  <1> QED
    BY <1>4, <1>5, <1>6, <1>7, <1>8, Zenon DEF in_flight_id_span

\* Two pending frames in one slot are the same frame.
LEMMA PendingSlotsDiffer ==
  ASSUME NEW s, stream_inv(s), NEW f \in Int, NEW g \in Int,
         is_pending(s, f), is_pending(s, g), slot(f) = slot(g)
  PROVE  f = g
  BY Zenon DEF is_pending

\* VecDeque::retain keeps packets of the queue, none of them of those frames.
LEMMA RetainElements ==
  ASSUME NEW q \in Seq(Packets), NEW ids
  PROVE  /\ retain_others(q, ids) \in Seq(Packets)
         /\ \A j \in 1 .. Len(retain_others(q, ids)) : \E i \in 1 .. Len(q) :
              retain_others(q, ids)[j] = q[i] /\ q[i].frame_id \notin ids
  <1> DEFINE ps == [i \in 1 .. Len(q) |-> IF q[i].frame_id \in ids THEN << >> ELSE <<q[i]>>]
  <1>1. ps \in Seq(Seq(Packets)) /\ Len(ps) = Len(q)
    <2>1. \A i \in 1 .. Len(q) : q[i] \in Packets
      OBVIOUS
    <2>2. \A i \in 1 .. Len(q) : ps[i] \in Seq(Packets)
      BY <2>1
    <2>3. Len(q) \in Nat
      OBVIOUS
    <2> QED
      BY <2>2, <2>3
  <1>2. \A i \in 1 .. Len(q) : \A l \in 1 .. Len(ps[i]) : ps[i][l] = q[i] /\ q[i].frame_id \notin ids
    OBVIOUS
  <1>3. retain_others(q, ids) = flatten(ps)
    BY Zenon DEF retain_others
  <1> HIDE DEF ps
  <1>4. /\ flatten(ps) \in Seq(Packets)
        /\ \A j \in 1 .. Len(flatten(ps)) : \E i \in 1 .. Len(ps) : \E l \in 1 .. Len(ps[i]) :
             flatten(ps)[j] = ps[i][l]
    BY <1>1, FlattenElements, Zenon
  <1>5. ASSUME NEW j \in 1 .. Len(flatten(ps))
        PROVE  \E i \in 1 .. Len(q) : flatten(ps)[j] = q[i] /\ q[i].frame_id \notin ids
    <2>1. PICK i \in 1 .. Len(ps) : \E l \in 1 .. Len(ps[i]) : flatten(ps)[j] = ps[i][l]
      BY <1>4, Zenon
    <2>2. PICK l \in 1 .. Len(ps[i]) : flatten(ps)[j] = ps[i][l]
      BY <2>1, Zenon
    <2> QED
      BY <2>2, <1>1, <1>2, Zenon
  <1> QED
    BY <1>3, <1>4, <1>5, Zenon
-----------------------------------------------------------------------------
\* StreamState::new.
LEMMA NewStreamInv == stream_inv(new_stream)
  <1>1. new_stream \in Streams
    BY DEF new_stream, Streams, FIRST_FRAME_ID
  <1>2. in_flight(new_stream) = {}
    BY Zenon DEF new_stream, in_flight
  <1>3. /\ new_stream.checkpoint = -1 /\ new_stream.next_frame_id = 0
        /\ new_stream.send_queue = << >> /\ new_stream.retransmit_queue = << >>
    BY DEF new_stream, FIRST_FRAME_ID
  <1>4. window_is_sound(new_stream)
    BY <1>2, <1>3, WindowAssumption DEF window_is_sound, in_flight_id_span
  <1> QED
    BY <1>1, <1>2, <1>3, <1>4 DEF stream_inv, packets_are_own, queue_is_in_flight

\* Acknowledging pending frames: exactly they leave the window, and nothing of
\* them stays in a queue.
LEMMA ReleaseInv ==
  ASSUME NEW s, stream_inv(s), NEW ids \in SUBSET Int, IsFiniteSet(ids),
         \A f \in ids : is_pending(s, f)
  PROVE  /\ stream_inv(release(s, ids))
         /\ release(s, ids).next_frame_id = s.next_frame_id
         /\ release(s, ids).checkpoint = s.checkpoint
         /\ \A f \in Int : is_pending(release(s, ids), f) <=> is_pending(s, f) /\ f \notin ids
  <1> DEFINE r == release(s, ids)
  <1>1. /\ s \in Streams
        /\ s.pending \in [Slots -> PendingFrames \cup {None}]
        /\ s.send_queue \in Seq(Packets) /\ s.retransmit_queue \in Seq(Packets)
        /\ s.frames_acked \in Nat
    BY Zenon DEF stream_inv, Streams
  <1>2. /\ r.next_frame_id = s.next_frame_id
        /\ r.checkpoint = s.checkpoint
        /\ r.last_media_timestamp = s.last_media_timestamp
        /\ r.pending_playout_delay = s.pending_playout_delay
        /\ r.pending = [i \in Slots |-> IF \E f \in ids : slot(f) = i THEN None ELSE s.pending[i]]
        /\ r.send_queue = retain_others(s.send_queue, ids)
        /\ r.retransmit_queue = retain_others(s.retransmit_queue, ids)
        /\ r.frames_acked = s.frames_acked + Cardinality(ids)
        /\ DOMAIN r = DOMAIN s
    BY <1>1, Zenon DEF release, Streams
  <1>3. r \in Streams
    <2>1. r.pending \in [Slots -> PendingFrames \cup {None}]
      BY <1>1, <1>2
    <2>2. r.send_queue \in Seq(Packets) /\ r.retransmit_queue \in Seq(Packets)
      BY <1>1, <1>2, RetainElements
    <2>3. r.frames_acked \in Nat
      BY <1>1, <1>2, FS_CardinalityType
    <2> QED
      BY <1>1, <2>1, <2>2, <2>3, Zenon DEF release, Streams
  <1> HIDE DEF r
  <1>4. \A f \in Int : is_pending(r, f) <=> is_pending(s, f) /\ f \notin ids
    <2>1. SUFFICES ASSUME NEW f \in Int
                   PROVE  is_pending(r, f) <=> is_pending(s, f) /\ f \notin ids
      OBVIOUS
    <2>2. slot(f) \in Slots
      BY SlotType, Zenon
    <2>3. CASE \E g \in ids : slot(g) = slot(f)
      <3>1. PICK g \in ids : slot(g) = slot(f)
        BY <2>3, Zenon
      <3>2. r.pending[slot(f)] = None
        BY <2>2, <2>3, <1>2, Zenon
      <3>3. is_pending(s, f) => f = g
        BY <3>1, PendingSlotsDiffer, Zenon
      <3> QED
        BY <3>1, <3>2, <3>3, Zenon DEF is_pending
    <2>4. CASE ~ \E g \in ids : slot(g) = slot(f)
      <3>1. r.pending[slot(f)] = s.pending[slot(f)]
        BY <2>2, <2>4, <1>2, Zenon
      <3> QED
        BY <2>4, <3>1, Zenon DEF is_pending
    <2> QED
      BY <2>3, <2>4, Zenon
  <1>5. \A i \in in_flight(r) : i \in in_flight(s) /\ r.pending[i] = s.pending[i]
    BY <1>2, Zenon DEF in_flight
  <1>6. window_is_sound(r) /\ packets_are_own(r)
    <2>1. window_is_sound(s) /\ packets_are_own(s)
      BY Zenon DEF stream_inv
    <2>2. window_is_sound(r)
      BY <1>2, <1>5, <2>1, Zenon DEF window_is_sound, in_flight_id_span
    <2>3. packets_are_own(r)
      BY <1>5, <2>1, Zenon DEF packets_are_own
    <2> QED
      BY <2>2, <2>3, Zenon
  <1>7. ASSUME NEW q \in Seq(Packets), queue_is_in_flight(s, q)
        PROVE  queue_is_in_flight(r, retain_others(q, ids))
    <2>1. SUFFICES ASSUME NEW j \in 1 .. Len(retain_others(q, ids))
                   PROVE  is_pending(r, retain_others(q, ids)[j].frame_id)
      BY Zenon DEF queue_is_in_flight
    <2>2. PICK i \in 1 .. Len(q) : retain_others(q, ids)[j] = q[i] /\ q[i].frame_id \notin ids
      BY RetainElements
    <2>3. q[i] \in Packets /\ is_pending(s, q[i].frame_id)
      BY <1>7 DEF queue_is_in_flight
    <2>4. q[i].frame_id \in Int
      BY <2>3 DEF Packets
    <2> QED
      BY <2>2, <2>3, <2>4, <1>4, Zenon
  <1>8. queue_is_in_flight(r, r.send_queue) /\ queue_is_in_flight(r, r.retransmit_queue)
    BY <1>1, <1>2, <1>7, Zenon DEF stream_inv
  <1>9. stream_inv(r)
    BY <1>3, <1>6, <1>8, Zenon DEF stream_inv
  <1> QED
    BY <1>2, <1>4, <1>9, Zenon DEF r

\* Pending frames are finitely many.
LEMMA PendingFinite ==
  ASSUME NEW s, stream_inv(s), NEW ids \in SUBSET Int, \A f \in ids : is_pending(s, f)
  PROVE  IsFiniteSet(ids)
  <1>1. s.next_frame_id \in Nat
    BY Zenon DEF stream_inv, Streams
  <1>2. ids \subseteq 0 .. s.next_frame_id
    BY <1>1, PendingInWindow
  <1>3. IsFiniteSet(0 .. s.next_frame_id)
    BY <1>1, FS_Interval
  <1> QED
    BY <1>2, <1>3, FS_Subset, Zenon

\* acknowledge_up_to, for any id that has been assigned or an older one:
\* the frames up to it leave the window, and the checkpoint does not go back.
LEMMA AcknowledgeUpToInv ==
  ASSUME NEW s, stream_inv(s), NEW frame_id \in Int, frame_id <= s.next_frame_id - 1
  PROVE  /\ stream_inv(acknowledge_up_to(s, frame_id))
         /\ acknowledge_up_to(s, frame_id).next_frame_id = s.next_frame_id
         /\ acknowledge_up_to(s, frame_id).checkpoint =
              IF frame_id < s.checkpoint + 1 THEN s.checkpoint ELSE frame_id
         /\ \A f \in Int : is_pending(acknowledge_up_to(s, frame_id), f)
                             <=> is_pending(s, f) /\ frame_id < f
  <1>1. s.checkpoint \in Int /\ s.next_frame_id \in Nat
    BY Zenon DEF stream_inv, Streams
  <1>2. CASE frame_id < s.checkpoint + 1
    BY <1>1, <1>2, PendingInWindow DEF acknowledge_up_to
  <1>3. CASE ~(frame_id < s.checkpoint + 1)
    <2> DEFINE ids == acknowledged_up_to(s, frame_id)
               u == release(s, ids)
               r == [u EXCEPT !.checkpoint = frame_id]
    <2>1. acknowledge_up_to(s, frame_id) = r
      BY <1>3, Zenon DEF acknowledge_up_to
    <2>2. /\ ids \in SUBSET Int
          /\ \A f \in Int : f \in ids <=> s.checkpoint + 1 <= f /\ f <= frame_id /\ is_pending(s, f)
      BY <1>1 DEF acknowledged_up_to
    <2> HIDE DEF ids
    <2>3. IsFiniteSet(ids)
      BY <2>2, PendingFinite, Zenon
    <2>4. /\ stream_inv(u)
          /\ u.next_frame_id = s.next_frame_id
          /\ u.checkpoint = s.checkpoint
          /\ \A f \in Int : is_pending(u, f) <=> is_pending(s, f) /\ f \notin ids
      BY <2>2, <2>3, ReleaseInv, Zenon
    <2> HIDE DEF u
    <2>5. u \in Streams
      BY <2>4, Zenon DEF stream_inv
    <2>6. /\ r \in Streams
          /\ r.checkpoint = frame_id /\ r.next_frame_id = u.next_frame_id /\ r.pending = u.pending
          /\ r.send_queue = u.send_queue /\ r.retransmit_queue = u.retransmit_queue
      BY <2>5, Zenon DEF Streams
    <2> HIDE DEF r
    <2>7. \A f \in Int : is_pending(r, f) <=> is_pending(u, f)
      BY <2>6, Zenon DEF is_pending
    <2>8. \A f \in Int : is_pending(r, f) <=> is_pending(s, f) /\ frame_id < f
      BY <1>1, <1>3, <2>2, <2>4, <2>7, PendingInWindow
    <2>9. in_flight(r) = in_flight(u)
      BY <2>6, Zenon DEF in_flight
    <2>10. window_is_sound(r)
      <3>1. window_is_sound(u) /\ u.pending \in [Slots -> PendingFrames \cup {None}]
        BY <2>4, Zenon DEF stream_inv, Streams
      <3>2. r.checkpoint >= -1
        BY <1>1, <1>3, <2>4, <2>6, <3>1 DEF window_is_sound
      <3>3. in_flight_id_span(r) \in 0 .. MAX_UNACKED_FRAMES
        BY <1>1, <1>3, <2>4, <2>6, <3>1, WindowAssumption DEF window_is_sound, in_flight_id_span
      <3>4. ASSUME NEW i \in in_flight(r)
            PROVE  /\ slot(r.pending[i].frame_id) = i
                   /\ r.checkpoint < r.pending[i].frame_id
                   /\ r.pending[i].frame_id < r.next_frame_id
        <4>1. i \in Slots /\ r.pending[i] # None /\ r.pending[i] \in PendingFrames
          BY <2>6, <3>1, Zenon DEF in_flight
        <4>2. slot(r.pending[i].frame_id) = i /\ r.pending[i].frame_id < r.next_frame_id
          BY <2>6, <2>9, <3>1, Zenon DEF window_is_sound
        <4>3. r.pending[i].frame_id \in Int
          BY <4>1 DEF PendingFrames
        <4>4. is_pending(r, r.pending[i].frame_id)
          BY <4>1, <4>2, Zenon DEF is_pending
        <4> QED
          BY <2>6, <2>8, <4>2, <4>3, <4>4, Zenon
      <3> QED
        BY <3>2, <3>3, <3>4, Zenon DEF window_is_sound
    <2>11. packets_are_own(r)
      BY <2>4, <2>6, <2>9, SMTT(30) DEF stream_inv, packets_are_own
    <2>12. queue_is_in_flight(r, r.send_queue) /\ queue_is_in_flight(r, r.retransmit_queue)
      BY <2>4, <2>6 DEF stream_inv, queue_is_in_flight, is_pending
    <2> QED
      BY <1>3, <2>1, <2>4, <2>6, <2>8, <2>10, <2>11, <2>12, Zenon DEF stream_inv
  <1> QED
    BY <1>2, <1>3, Zenon

\* acknowledge_bitvector, for any checkpoint and any set bits: exactly the
\* pending frames the bits name leave the window.
LEMMA AcknowledgeBitvectorInv ==
  ASSUME NEW s, stream_inv(s), NEW checkpoint \in Int, NEW bits \in SUBSET Nat
  PROVE  /\ stream_inv(acknowledge_bitvector(s, checkpoint, bits))
         /\ acknowledge_bitvector(s, checkpoint, bits).next_frame_id = s.next_frame_id
         /\ acknowledge_bitvector(s, checkpoint, bits).checkpoint = s.checkpoint
         /\ \A f \in Int : is_pending(acknowledge_bitvector(s, checkpoint, bits), f)
              <=> is_pending(s, f) /\ \A k \in bits : f # checkpoint + 2 + k
  <1> DEFINE ids == acknowledged_by_bits(s, checkpoint, bits)
  <1>1. /\ ids \in SUBSET Int
        /\ \A f \in ids : is_pending(s, f)
        /\ \A f \in Int : f \in ids <=> f < s.next_frame_id /\ is_pending(s, f)
                                        /\ \E k \in bits : f = checkpoint + 2 + k
    BY DEF acknowledged_by_bits
  <1> HIDE DEF ids
  <1>2. IsFiniteSet(ids)
    BY <1>1, PendingFinite, Zenon
  <1>3. /\ stream_inv(release(s, ids))
        /\ release(s, ids).next_frame_id = s.next_frame_id
        /\ release(s, ids).checkpoint = s.checkpoint
        /\ \A f \in Int : is_pending(release(s, ids), f) <=> is_pending(s, f) /\ f \notin ids
    BY <1>1, <1>2, ReleaseInv, Zenon
  <1>4. \A f \in Int : is_pending(s, f) => f < s.next_frame_id
    BY PendingInWindow, Zenon
  <1>5. acknowledge_bitvector(s, checkpoint, bits) = release(s, ids)
    BY Zenon DEF acknowledge_bitvector, ids
  <1> QED
    BY <1>1, <1>3, <1>4, <1>5, Zenon

\* The NACKs of one feedback after expansion.
Nacks == [frame_id : Int, packet_id : Nat]

\* handle_nack queues packets of pending frames only.
LEMMA NackedPackets ==
  ASSUME NEW s, stream_inv(s), NEW frame_id \in Int, NEW packet_id \in Nat
  PROVE  /\ nacked_packets(s, frame_id, packet_id) \in Seq(Packets)
         /\ queue_is_in_flight(s, nacked_packets(s, frame_id, packet_id))
  <1>1. CASE ~is_pending(s, frame_id)
    BY <1>1 DEF nacked_packets, queue_is_in_flight
  <1>2. CASE is_pending(s, frame_id)
    <2> DEFINE packets == s.pending[slot(frame_id)].packets
    <2>1. slot(frame_id) \in Slots /\ s.pending[slot(frame_id)] \in PendingFrames
      BY <1>2, SlotType, PendingInWindow, Zenon
    <2>2. packets \in Seq(Packets)
      BY <2>1, Zenon DEF PendingFrames
    <2>3. slot(frame_id) \in in_flight(s)
      BY <1>2, <2>1, Zenon DEF in_flight, is_pending
    <2>4. \A j \in 1 .. Len(packets) : packets[j].frame_id = frame_id
      BY <1>2, <2>3, Zenon DEF stream_inv, packets_are_own, is_pending
    <2>5. \/ nacked_packets(s, frame_id, packet_id) = packets
          \/ nacked_packets(s, frame_id, packet_id) = << >>
          \/ /\ packet_id + 1 \in 1 .. Len(packets)
             /\ nacked_packets(s, frame_id, packet_id) = <<packets[packet_id + 1]>>
      <3>1. Len(packets) \in Nat
        BY <2>2
      <3>2. packet_id < Len(packets) => packet_id + 1 \in 1 .. Len(packets)
        BY <3>1
      <3> QED
        BY <1>2, <3>2, Zenon DEF nacked_packets
    <2> HIDE DEF packets
    <2>6. CASE nacked_packets(s, frame_id, packet_id) = packets
      BY <1>2, <2>2, <2>4, <2>6, Zenon DEF queue_is_in_flight
    <2>7. CASE nacked_packets(s, frame_id, packet_id) = << >>
      BY <2>7 DEF queue_is_in_flight
    <2>8. CASE /\ packet_id + 1 \in 1 .. Len(packets)
               /\ nacked_packets(s, frame_id, packet_id) = <<packets[packet_id + 1]>>
      <3>1. packets[packet_id + 1] \in Packets /\ packets[packet_id + 1].frame_id = frame_id
        BY <2>2, <2>4, <2>8
      <3> QED
        BY <1>2, <2>8, <3>1 DEF queue_is_in_flight
    <2> QED
      BY <2>5, <2>6, <2>7, <2>8, Zenon
  <1> QED
    BY <1>1, <1>2, Zenon

\* handle_nack for the entries of a feedback changes the retransmit queue only,
\* and keeps it sound.
LEMMA HandleNacksInv ==
  ASSUME NEW s, stream_inv(s), NEW nacks \in Seq(Nacks)
  PROVE  /\ stream_inv(handle_nacks(s, nacks))
         /\ handle_nacks(s, nacks).next_frame_id = s.next_frame_id
         /\ handle_nacks(s, nacks).checkpoint = s.checkpoint
         /\ handle_nacks(s, nacks).pending = s.pending
  <1> DEFINE ps == [i \in 1 .. Len(nacks) |->
                      nacked_packets(s, nacks[i].frame_id, nacks[i].packet_id)]
             more == flatten(ps)
             q == s.retransmit_queue
             r == [s EXCEPT !.retransmit_queue = q \o more]
  <1>1. Len(nacks) \in Nat /\ \A i \in 1 .. Len(nacks) : nacks[i] \in Nacks
    OBVIOUS
  <1>2. \A i \in 1 .. Len(nacks) : nacks[i].frame_id \in Int /\ nacks[i].packet_id \in Nat
    BY <1>1, Zenon DEF Nacks
  <1>3. \A i \in 1 .. Len(nacks) :
          /\ nacked_packets(s, nacks[i].frame_id, nacks[i].packet_id) \in Seq(Packets)
          /\ queue_is_in_flight(s, nacked_packets(s, nacks[i].frame_id, nacks[i].packet_id))
    BY <1>2, NackedPackets, Zenon
  <1>4. /\ ps \in Seq(Seq(Packets)) /\ Len(ps) = Len(nacks)
        /\ \A i \in 1 .. Len(ps) : queue_is_in_flight(s, ps[i])
    BY <1>1, <1>3
  <1>5. handle_nacks(s, nacks) = r
    BY Zenon DEF handle_nacks
  <1> HIDE DEF ps
  <1>6. /\ more \in Seq(Packets)
        /\ \A j \in 1 .. Len(more) : \E i \in 1 .. Len(ps) : \E l \in 1 .. Len(ps[i]) : more[j] = ps[i][l]
    BY <1>4, FlattenElements, Zenon
  <1> HIDE DEF more
  <1>7. queue_is_in_flight(s, more)
    BY <1>4, <1>6, Zenon DEF queue_is_in_flight
  <1>8. s \in Streams /\ q \in Seq(Packets) /\ queue_is_in_flight(s, q)
    BY Zenon DEF stream_inv, Streams
  <1> HIDE DEF q
  <1>9. /\ q \o more \in Seq(Packets)
        /\ \A j \in 1 .. Len(q \o more) :
              \/ \E i \in 1 .. Len(q) : (q \o more)[j] = q[i]
              \/ \E i \in 1 .. Len(more) : (q \o more)[j] = more[i]
    BY <1>6, <1>8, ConcatElements
  <1>10. queue_is_in_flight(s, q \o more)
    BY <1>7, <1>8, <1>9, Zenon DEF queue_is_in_flight
  <1>11. /\ r \in Streams
         /\ r.next_frame_id = s.next_frame_id /\ r.checkpoint = s.checkpoint
         /\ r.pending = s.pending /\ r.send_queue = s.send_queue
         /\ r.retransmit_queue = q \o more
    BY <1>8, <1>9, Zenon DEF Streams
  <1> HIDE DEF r
  <1>12. window_is_sound(r) /\ packets_are_own(r)
    BY <1>11 DEF stream_inv, window_is_sound, packets_are_own, in_flight_id_span, in_flight
  <1>13. queue_is_in_flight(r, r.send_queue) /\ queue_is_in_flight(r, r.retransmit_queue)
    BY <1>10, <1>11, Zenon DEF stream_inv, queue_is_in_flight, is_pending
  <1> QED
    BY <1>5, <1>11, <1>12, <1>13, Zenon DEF stream_inv

\* What a CastFeedback may hold, whoever sent it and however old it is.
any_feedback(m) ==
  /\ m.checkpoint \in Nat /\ m.bits \in SUBSET Nat /\ Len(m.nacks) \in Nat
  /\ \A i \in 1 .. Len(m.nacks) : m.nacks[i].frame \in Nat /\ m.nacks[i].packet_id \in Nat

\* One CastFeedback, whatever it holds: the window stays sound, the checkpoint
\* does not go back, and the frames that leave are those at or below the
\* expanded checkpoint and those the bits name.
THEOREM ProcessFeedbackInv ==
  ASSUME NEW s, stream_inv(s), NEW m, any_feedback(m)
  PROVE  /\ stream_inv(process_feedback(s, m))
         /\ process_feedback(s, m).next_frame_id = s.next_frame_id
         /\ process_feedback(s, m).checkpoint =
              IF feedback_checkpoint(s, m) < s.checkpoint + 1
              THEN s.checkpoint ELSE feedback_checkpoint(s, m)
         /\ \A f \in Int : is_pending(process_feedback(s, m), f)
              <=> /\ is_pending(s, f)
                  /\ feedback_checkpoint(s, m) < f
                  /\ \A k \in m.bits : f # feedback_checkpoint(s, m) + 2 + k
  <1> DEFINE c == feedback_checkpoint(s, m)
             a == acknowledge_up_to(s, c)
             b == acknowledge_bitvector(a, c, m.bits)
             nacks == feedback_nacks(s, m)
             r == handle_nacks(b, nacks)
  <1>1. m.checkpoint \in Int /\ m.bits \in SUBSET Nat
    BY DEF any_feedback
  <1>2. s.next_frame_id \in Nat
    BY Zenon DEF stream_inv, Streams
  <1>3. c \in Int /\ c <= s.next_frame_id - 1
    <2>1. s.next_frame_id - 1 \in Int
      BY <1>2
    <2> QED
      BY <1>1, <2>1, ExpandLteBound, Zenon DEF feedback_checkpoint
  <1>4. nacks \in Seq(Nacks)
    <2>1. Len(m.nacks) \in Nat
      BY Zenon DEF any_feedback
    <2>2. ASSUME NEW i \in 1 .. Len(m.nacks)
          PROVE  expand(m.nacks[i].frame, c) \in Int /\ m.nacks[i].packet_id \in Nat
      <3>1. m.nacks[i].frame \in Int /\ m.nacks[i].packet_id \in Nat
        BY DEF any_feedback
      <3> HIDE DEF c
      <3> QED
        BY <1>3, <3>1, ExpandLteBound, Zenon
    <2> HIDE DEF c
    <2>3. nacks = [i \in 1 .. Len(m.nacks) |->
                     [frame_id |-> expand(m.nacks[i].frame, c), packet_id |-> m.nacks[i].packet_id]]
      BY Zenon DEF feedback_nacks, c
    <2> HIDE DEF nacks
    <2> QED
      BY <2>1, <2>2, <2>3 DEF Nacks
  <1>5. process_feedback(s, m) = r
    BY Zenon DEF process_feedback
  <1> HIDE DEF c
  <1>6. /\ stream_inv(a)
        /\ a.next_frame_id = s.next_frame_id
        /\ a.checkpoint = IF c < s.checkpoint + 1 THEN s.checkpoint ELSE c
        /\ \A f \in Int : is_pending(a, f) <=> is_pending(s, f) /\ c < f
    BY <1>3, AcknowledgeUpToInv, Zenon
  <1> HIDE DEF a
  <1>7. /\ stream_inv(b)
        /\ b.next_frame_id = a.next_frame_id
        /\ b.checkpoint = a.checkpoint
        /\ \A f \in Int : is_pending(b, f)
             <=> is_pending(a, f) /\ \A k \in m.bits : f # c + 2 + k
    BY <1>1, <1>3, <1>6, AcknowledgeBitvectorInv
  <1> HIDE DEF b, nacks
  <1>8. /\ stream_inv(r)
        /\ r.next_frame_id = b.next_frame_id
        /\ r.checkpoint = b.checkpoint
        /\ r.pending = b.pending
    BY <1>4, <1>7, HandleNacksInv, Zenon
  <1> HIDE DEF r
  <1>9. \A f \in Int : is_pending(r, f) <=> is_pending(b, f)
    BY <1>8, Zenon DEF is_pending
  <1>10. /\ stream_inv(r)
         /\ r.next_frame_id = s.next_frame_id
         /\ r.checkpoint = IF c < s.checkpoint + 1 THEN s.checkpoint ELSE c
         /\ \A f \in Int : is_pending(r, f)
              <=> /\ is_pending(s, f)
                  /\ c < f
                  /\ \A k \in m.bits : f # c + 2 + k
    BY <1>6, <1>7, <1>8, <1>9, Zenon
  <1> QED
    BY <1>5, <1>10, Zenon DEF c

\* RtpPacketizer::packetize.
LEMMA PacketizeElements ==
  ASSUME NEW frame_id \in Nat, NEW count \in Nat, NEW delay \in Nat \cup {None}
  PROVE  /\ packetize(frame_id, count, delay) \in Seq(Packets)
         /\ \A i \in 1 .. Len(packetize(frame_id, count, delay)) :
              packetize(frame_id, count, delay)[i].frame_id = frame_id
  <1> DEFINE packet(i) == [frame_id |-> frame_id, packet_id |-> i - 1, max_packet_id |-> count - 1,
                           playout_delay |-> IF i = 1 THEN delay ELSE None]
  <1>1. \A i \in 1 .. count : packet(i) \in Packets /\ packet(i).frame_id = frame_id
    BY DEF Packets
  <1>2. packetize(frame_id, count, delay) = [i \in 1 .. count |-> packet(i)]
    BY Zenon DEF packetize
  <1> HIDE DEF packet
  <1>3. [i \in 1 .. count |-> packet(i)] \in Seq(Packets) /\ Len([i \in 1 .. count |-> packet(i)]) = count
    BY <1>1
  <1> QED
    BY <1>1, <1>2, <1>3, Zenon

\* The frames a producer may submit.
AnyFrames == [packets : Nat, dependency : {"KeyFrame", "Delta"}, media_timestamp : Nat,
              duration : Nat]

\* A frame that passes the checks of enqueue_frame fits in the window.
LEMMA EnqueueChecks ==
  ASSUME NEW s, NEW frame \in AnyFrames, enqueue_error(s, frame) = None
  PROVE  ~(in_flight_id_span(s) >= MAX_UNACKED_FRAMES)
  BY NoneAssumption, Zenon DEF enqueue_error, id_span_exhausted, EnqueueErrors

\* Accepting a frame puts it, and only it, in the window: its slot is free.
LEMMA AcceptFrameInv ==
  ASSUME NEW s, stream_inv(s), NEW frame \in AnyFrames, enqueue_error(s, frame) = None
  PROVE  /\ stream_inv(accept_frame(s, frame))
         /\ accept_frame(s, frame).next_frame_id = s.next_frame_id + 1
         /\ accept_frame(s, frame).checkpoint = s.checkpoint
         /\ \A f \in Int : is_pending(accept_frame(s, frame), f)
                             <=> is_pending(s, f) \/ f = s.next_frame_id
  <1> DEFINE id == s.next_frame_id
             count == frame.packets
             delay == s.pending_playout_delay
             packets == packetize(id, count, delay)
             new == [frame_id |-> id, media_timestamp |-> frame.media_timestamp,
                     duration |-> frame.duration, packets |-> packets]
             q == s.send_queue
             window == [s.pending EXCEPT ![slot(id)] = new]
             r == accept_frame(s, frame)
  <1>1. /\ s \in Streams /\ id \in Nat /\ s.checkpoint \in Int
        /\ s.pending \in [Slots -> PendingFrames \cup {None}]
        /\ delay \in Nat \cup {None}
        /\ q \in Seq(Packets)
    BY Zenon DEF stream_inv, Streams
  <1>2. count \in Nat /\ frame.media_timestamp \in Nat /\ frame.duration \in Nat
    BY Zenon DEF AnyFrames
  <1>3. packets \in Seq(Packets) /\ \A i \in 1 .. Len(packets) : packets[i].frame_id = id
    <2>1. id \in Nat /\ count \in Nat /\ delay \in Nat \cup {None}
      BY <1>1, <1>2, Zenon
    <2> HIDE DEF id, count, delay, r
    <2> QED
      BY <2>1, PacketizeElements, Zenon
  <1> HIDE DEF packets
  <1>4. new \in PendingFrames /\ new # None /\ new.frame_id = id /\ new.packets = packets
    BY <1>1, <1>2, <1>3, NoneAssumption DEF PendingFrames
  <1> HIDE DEF new, q
  <1>5. slot(id) \in Slots
    BY <1>1, SlotType
  <1>6. /\ q \o packets \in Seq(Packets)
        /\ \A j \in 1 .. Len(q \o packets) :
              \/ \E i \in 1 .. Len(q) : (q \o packets)[j] = q[i]
              \/ \E i \in 1 .. Len(packets) : (q \o packets)[j] = packets[i]
    <2>1. q \in Seq(Packets) /\ packets \in Seq(Packets)
      BY <1>1, <1>3, Zenon
    <2> HIDE DEF r, id
    <2> QED
      BY <2>1, ConcatElements
  <1>7. r = [s EXCEPT !.send_queue = q \o packets, !.pending = window,
                      !.pending_playout_delay = None,
                      !.last_media_timestamp = frame.media_timestamp,
                      !.next_frame_id = id + 1]
    BY Zenon DEF accept_frame, new, q, packets
  <1>8. /\ r \in Streams
        /\ r.next_frame_id = id + 1 /\ r.checkpoint = s.checkpoint
        /\ r.pending = window
        /\ r.send_queue = q \o packets /\ r.retransmit_queue = s.retransmit_queue
    <2>1. window \in [Slots -> PendingFrames \cup {None}]
      BY <1>1, <1>4, <1>5, Zenon
    <2>2. id + 1 \in Nat /\ frame.media_timestamp \in Nat \cup {None}
      BY <1>1, <1>2
    <2>3. s \in Streams /\ q \o packets \in Seq(Packets)
      BY <1>1, <1>6, Zenon
    <2> HIDE DEF r, id, window
    <2> QED
      BY <1>7, <2>1, <2>2, <2>3, Zenon DEF Streams
  <1> HIDE DEF r
  <1>9. s.pending[slot(id)] = None
    <2>1. SUFFICES ASSUME s.pending[slot(id)] # None PROVE FALSE
      OBVIOUS
    <2>2. slot(id) \in in_flight(s) /\ s.pending[slot(id)] \in PendingFrames
      BY <1>1, <1>5, <2>1, Zenon DEF in_flight
    <2> DEFINE g == s.pending[slot(id)].frame_id
    <2>3. g \in Int /\ slot(g) = slot(id) /\ s.checkpoint < g /\ g < id
      BY <2>2 DEF stream_inv, window_is_sound, PendingFrames
    <2>4. id - g < MAX_UNACKED_FRAMES
      BY <1>1, <2>3, EnqueueChecks, WindowAssumption DEF in_flight_id_span
    <2> HIDE DEF g
    <2>5. -MAX_UNACKED_FRAMES < id - g
      BY <1>1, <2>3, WindowAssumption
    <2> QED
      BY <1>1, <2>3, <2>4, <2>5, SlotInjective
  <1>10. \A f \in Int : is_pending(r, f) <=> is_pending(s, f) \/ f = id
    <2>1. SUFFICES ASSUME NEW f \in Int
                   PROVE  is_pending(r, f) <=> is_pending(s, f) \/ f = id
      OBVIOUS
    <2>2. slot(f) \in Slots
      BY SlotType, Zenon
    <2>3. CASE slot(f) = slot(id)
      BY <1>1, <1>4, <1>5, <1>8, <1>9, <2>3, Zenon DEF is_pending
    <2>4. CASE slot(f) # slot(id)
      BY <1>1, <1>5, <1>8, <2>2, <2>4, Zenon DEF is_pending
    <2> QED
      BY <2>3, <2>4, Zenon
  <1>11. \A i \in in_flight(r) : \/ i = slot(id) /\ r.pending[i] = new
                                 \/ i \in in_flight(s) /\ r.pending[i] = s.pending[i]
    BY <1>1, <1>5, <1>8, Zenon DEF in_flight
  <1>12. window_is_sound(r)
    <2>1. window_is_sound(s)
      BY Zenon DEF stream_inv
    <2>2. r.checkpoint >= -1 /\ in_flight_id_span(r) \in 0 .. MAX_UNACKED_FRAMES
      <3>1. ~(in_flight_id_span(s) >= MAX_UNACKED_FRAMES)
        BY EnqueueChecks, Zenon
      <3>2. s.checkpoint >= -1 /\ in_flight_id_span(s) \in 0 .. MAX_UNACKED_FRAMES
        BY <2>1, Zenon DEF window_is_sound
      <3>3. r.checkpoint >= -1
        BY <1>8, <3>2, Zenon
      <3>4. in_flight_id_span(r) = in_flight_id_span(s) + 1
        BY <1>1, <1>8 DEF in_flight_id_span
      <3> HIDE DEF id
      <3> QED
        BY <3>1, <3>2, <3>3, <3>4, WindowAssumption
    <2>3. ASSUME NEW i \in in_flight(r)
          PROVE  /\ slot(r.pending[i].frame_id) = i
                 /\ r.checkpoint < r.pending[i].frame_id
                 /\ r.pending[i].frame_id < r.next_frame_id
      <3>1. CASE i = slot(id) /\ r.pending[i] = new
        BY <1>1, <1>4, <1>8, <2>1, <3>1, WindowAssumption DEF window_is_sound, in_flight_id_span
      <3>2. CASE i \in in_flight(s) /\ r.pending[i] = s.pending[i]
        <4>1. s.pending[i] \in PendingFrames
          BY <1>1, <3>2, Zenon DEF in_flight
        <4>2. s.pending[i].frame_id \in Int
          BY <4>1 DEF PendingFrames
        <4> QED
          BY <1>1, <1>8, <2>1, <3>2, <4>2 DEF window_is_sound
      <3> QED
        BY <1>11, <3>1, <3>2, Zenon
    <2> QED
      BY <2>2, <2>3, Zenon DEF window_is_sound
  <1>13. packets_are_own(r)
    BY <1>3, <1>4, <1>11 DEF stream_inv, packets_are_own
  <1>14. ASSUME NEW p \in Seq(Packets), queue_is_in_flight(s, p)
         PROVE  queue_is_in_flight(r, p)
    <2>1. \A i \in 1 .. Len(p) : p[i] \in Packets
      OBVIOUS
    <2>2. \A i \in 1 .. Len(p) : p[i].frame_id \in Int
      BY <2>1 DEF Packets
    <2> QED
      BY <1>10, <1>14, <2>2, Zenon DEF queue_is_in_flight
  <1>15. queue_is_in_flight(r, r.retransmit_queue) /\ queue_is_in_flight(r, q)
    BY <1>8, <1>14, <1>1, Zenon DEF stream_inv, Streams, q
  <1>16. queue_is_in_flight(r, packets)
    BY <1>1, <1>3, <1>10 DEF queue_is_in_flight
  <1>17. queue_is_in_flight(r, r.send_queue)
    BY <1>6, <1>8, <1>15, <1>16 DEF queue_is_in_flight
  <1> QED
    BY <1>8, <1>10, <1>12, <1>13, <1>15, <1>17, Zenon DEF stream_inv, r

\* Sending packets takes them from the front of the queues and leaves the
\* window alone.
LEMMA PopPacketsInv ==
  ASSUME NEW s, stream_inv(s), NEW n \in Nat, n <= Len(queued(s))
  PROVE  /\ stream_inv(pop_packets(s, n))
         /\ pop_packets(s, n).next_frame_id = s.next_frame_id
         /\ pop_packets(s, n).checkpoint = s.checkpoint
         /\ pop_packets(s, n).pending = s.pending
  <1> DEFINE q == s.retransmit_queue
             p == s.send_queue
             k == Min({n, Len(q)})
             r == pop_packets(s, n)
  <1>1. s \in Streams /\ q \in Seq(Packets) /\ p \in Seq(Packets)
    BY Zenon DEF stream_inv, Streams
  <1>2. k \in Nat /\ k <= n
    <2>1. n \in Nat /\ Len(q) \in Nat
      BY <1>1
    <2>2. \E x \in {n, Len(q)} : \A y \in {n, Len(q)} : x <= y
      BY <2>1
    <2>3. k \in {n, Len(q)} /\ \A y \in {n, Len(q)} : k <= y
      BY <2>2, Zenon DEF Min
    <2> QED
      BY <2>1, <2>3, Zenon
  <1>3. r = [s EXCEPT !.retransmit_queue = SubSeq(q, k + 1, Len(q)),
                      !.send_queue = SubSeq(p, n - k + 1, Len(p))]
    BY Zenon DEF pop_packets
  <1> HIDE DEF k
  <1>4. ASSUME NEW w \in Seq(Packets), NEW m \in Nat, queue_is_in_flight(s, w)
        PROVE  SubSeq(w, m + 1, Len(w)) \in Seq(Packets) /\ queue_is_in_flight(s, SubSeq(w, m + 1, Len(w)))
    <2> DEFINE x == SubSeq(w, m + 1, Len(w))
               l == m + 1
               e == Len(w)
    <2>1. l \in Int /\ e \in Nat /\ \A i \in l .. e : w[i] \in Packets
      BY <1>4
    <2>2. /\ x \in Seq(Packets)
          /\ Len(x) = IF l <= e THEN e - l + 1 ELSE 0
          /\ \A i \in 1 .. e - l + 1 : x[i] = w[l + i - 1]
      <3> HIDE DEF l, e
      <3> QED
        BY <2>1, SubSeqProperties, SMTT(30) DEF l, e
    <2> HIDE DEF x
    <2>3. \A i \in 1 .. Len(x) : l + i - 1 \in 1 .. Len(w) /\ x[i] = w[l + i - 1]
      BY <2>1, <2>2
    <2>4. queue_is_in_flight(s, x)
      BY <1>4, <2>3, Zenon DEF queue_is_in_flight
    <2> QED
      BY <2>2, <2>4, Zenon DEF x
  <1>5. n - k \in Nat
    BY <1>2
  <1>6. /\ SubSeq(q, k + 1, Len(q)) \in Seq(Packets)
        /\ SubSeq(p, n - k + 1, Len(p)) \in Seq(Packets)
        /\ queue_is_in_flight(s, SubSeq(q, k + 1, Len(q)))
        /\ queue_is_in_flight(s, SubSeq(p, n - k + 1, Len(p)))
    BY <1>1, <1>2, <1>4, <1>5, Zenon DEF stream_inv
  <1>7. /\ r \in Streams
        /\ r.next_frame_id = s.next_frame_id /\ r.checkpoint = s.checkpoint /\ r.pending = s.pending
        /\ r.retransmit_queue = SubSeq(q, k + 1, Len(q))
        /\ r.send_queue = SubSeq(p, n - k + 1, Len(p))
    <2> HIDE DEF r
    <2> QED
      BY <1>1, <1>3, <1>6, Zenon DEF Streams
  <1> HIDE DEF r
  <1>8. window_is_sound(r) /\ packets_are_own(r)
    BY <1>7 DEF stream_inv, window_is_sound, packets_are_own, in_flight_id_span, in_flight
  <1>9. queue_is_in_flight(r, r.send_queue) /\ queue_is_in_flight(r, r.retransmit_queue)
    BY <1>6, <1>7, Zenon DEF queue_is_in_flight, is_pending
  <1> QED
    BY <1>7, <1>8, <1>9, Zenon DEF stream_inv, r
-----------------------------------------------------------------------------
\* Every accepted frame is counted acknowledged or is in flight.
accounted(s) == s.frames_acked + in_flight_count(s) = s.next_frame_id

\* The frames in flight can be counted.
LEMMA InFlightFinite ==
  ASSUME NEW s
  PROVE  IsFiniteSet(in_flight(s)) /\ in_flight_count(s) \in Nat
  <1>1. IsFiniteSet(Slots)
    BY FS_Interval, WindowAssumption DEF Slots
  <1>2. in_flight(s) \in SUBSET Slots
    BY Zenon DEF in_flight
  <1>3. IsFiniteSet(in_flight(s))
    BY <1>1, <1>2, FS_Subset, Zenon
  <1> QED
    BY <1>3, FS_CardinalityType, Zenon DEF in_flight_count

\* Clearing the slots of pending frames moves each of them, once, from the
\* frames in flight to the frames counted acknowledged.
LEMMA ReleaseAccounts ==
  ASSUME NEW s, stream_inv(s), accounted(s), NEW ids \in SUBSET Int, IsFiniteSet(ids),
         \A f \in ids : is_pending(s, f)
  PROVE  accounted(release(s, ids))
  <1> DEFINE freed == {slot(f) : f \in ids}
             at == [f \in ids |-> slot(f)]
             cleared == [i \in Slots |-> IF \E f \in ids : slot(f) = i THEN None ELSE s.pending[i]]
             r == release(s, ids)
  <1>1. s \in Streams /\ s.next_frame_id \in Nat /\ s.frames_acked \in Nat
    BY Zenon DEF stream_inv, Streams
  <1>2. /\ r.pending = cleared
        /\ r.frames_acked = s.frames_acked + Cardinality(ids)
        /\ r.next_frame_id = s.next_frame_id
    BY <1>1, Zenon DEF release, Streams
  <1> HIDE DEF r
  <1>3. in_flight(r) = in_flight(s) \ freed
    BY <1>2, Zenon DEF in_flight
  <1>4. in_flight(s) \cap freed = freed
    BY SlotType, Zenon DEF in_flight, is_pending
  <1>5. at \in Bijection(ids, freed)
    <2>1. \A f, g \in ids : slot(f) = slot(g) => f = g
      BY PendingSlotsDiffer, Zenon
    <2>2. at \in Injection(ids, freed)
      BY <2>1, Zenon DEF Injection, IsInjective
    <2>3. at \in Surjection(ids, freed)
      BY Zenon DEF Surjection
    <2> QED
      BY <2>2, <2>3, Zenon DEF Bijection
  <1> HIDE DEF freed, at
  <1>6. ExistsBijection(ids, freed)
    BY <1>5, Zenon DEF ExistsBijection
  <1>7. Cardinality(freed) = Cardinality(ids)
    BY <1>6, FS_Bijection, Zenon
  <1>8. Cardinality(in_flight(r)) = Cardinality(in_flight(s)) - Cardinality(ids)
    <2>1. IsFiniteSet(in_flight(s))
      BY InFlightFinite, Zenon
    <2>2. Cardinality(in_flight(s) \ freed)
            = Cardinality(in_flight(s)) - Cardinality(in_flight(s) \cap freed)
      BY <2>1, FS_Difference, Zenon
    <2> QED
      BY <1>3, <1>4, <1>7, <2>2, Zenon
  <1>9. Cardinality(ids) \in Nat /\ Cardinality(in_flight(s)) \in Nat
    BY InFlightFinite, FS_CardinalityType, Zenon DEF in_flight_count
  <1>10. s.frames_acked + Cardinality(in_flight(s)) = s.next_frame_id
    BY Zenon DEF accounted, in_flight_count
  <1>11. r.frames_acked + Cardinality(in_flight(r)) = r.next_frame_id
    BY <1>1, <1>2, <1>8, <1>9, <1>10
  <1> QED
    BY <1>11, Zenon DEF accounted, in_flight_count, r

\* A new stream has accepted nothing.
LEMMA NewStreamAccounts == accounted(new_stream)
  <1>1. in_flight(new_stream) = {} /\ new_stream.frames_acked = 0 /\ new_stream.next_frame_id = 0
    BY DEF in_flight, new_stream, FIRST_FRAME_ID
  <1>2. Cardinality({}) = 0
    BY FS_EmptySet, Zenon
  <1> QED
    BY <1>1, <1>2 DEF accounted, in_flight_count

\* An accepted frame takes a slot that held no other.
LEMMA AcceptFrameAccounts ==
  ASSUME NEW s, stream_inv(s), accounted(s), NEW frame \in AnyFrames, enqueue_error(s, frame) = None
  PROVE  accounted(accept_frame(s, frame))
  <1> DEFINE id == s.next_frame_id
             new == [frame_id |-> id, media_timestamp |-> frame.media_timestamp,
                     duration |-> frame.duration,
                     packets |-> packetize(id, frame.packets, s.pending_playout_delay)]
             r == accept_frame(s, frame)
  <1>1. s \in Streams /\ id \in Nat /\ s.frames_acked \in Nat /\ s.checkpoint \in Int
        /\ s.pending \in [Slots -> PendingFrames \cup {None}]
    BY Zenon DEF stream_inv, Streams
  <1>2. slot(id) \in Slots
    BY <1>1, SlotType
  <1>3. /\ r.frames_acked = s.frames_acked
        /\ r.next_frame_id = id + 1
        /\ r.pending = [s.pending EXCEPT ![slot(id)] = new]
    BY <1>1, Zenon DEF accept_frame, Streams
  <1>9. new # None
    <2> DEFINE packets == packetize(id, frame.packets, s.pending_playout_delay)
    <2>1. frame.packets \in Nat /\ frame.media_timestamp \in Nat /\ frame.duration \in Nat
          /\ s.pending_playout_delay \in Nat \cup {None}
      BY <1>1, Zenon DEF AnyFrames, Streams
    <2>2. packets \in Seq(Packets)
      BY <1>1, <2>1, PacketizeElements, Zenon
    <2> HIDE DEF packets
    <2>3. new \in PendingFrames
      BY <1>1, <2>1, <2>2, Zenon DEF PendingFrames, packets
    <2> QED
      BY <2>3, NoneAssumption, Zenon
  <1> HIDE DEF new
  <1>4. slot(id) \notin in_flight(s)
    <2>1. SUFFICES ASSUME slot(id) \in in_flight(s) PROVE FALSE
      OBVIOUS
    <2> DEFINE g == s.pending[slot(id)].frame_id
    <2>2. s.pending[slot(id)] \in PendingFrames
      BY <1>1, <1>2, <2>1, Zenon DEF in_flight
    <2>3. g \in Int
      BY <2>2 DEF PendingFrames
    <2>4. slot(g) = slot(id) /\ s.checkpoint < g /\ g < id
      BY <2>1, Zenon DEF stream_inv, window_is_sound
    <2>5. id - (s.checkpoint + 1) < MAX_UNACKED_FRAMES
      <3>1. ~(id - (s.checkpoint + 1) >= MAX_UNACKED_FRAMES)
        BY EnqueueChecks, Zenon DEF in_flight_id_span
      <3> QED
        BY <1>1, <3>1, WindowAssumption
    <2> HIDE DEF g
    <2>6. -MAX_UNACKED_FRAMES < g - id /\ g - id < MAX_UNACKED_FRAMES
      BY <1>1, <2>3, <2>4, <2>5, WindowAssumption
    <2>7. g = id
      BY <1>1, <2>3, <2>4, <2>6, SlotInjective
    <2> QED
      BY <1>1, <2>4, <2>7
  <1> HIDE DEF r
  <1>5. in_flight(r) = in_flight(s) \cup {slot(id)}
    BY <1>1, <1>2, <1>3, <1>9 DEF in_flight
  <1>6. Cardinality(in_flight(r)) = Cardinality(in_flight(s)) + 1
    BY <1>4, <1>5, InFlightFinite, FS_AddElement, Zenon
  <1>7. Cardinality(in_flight(s)) \in Nat /\ s.frames_acked + Cardinality(in_flight(s)) = id
    BY InFlightFinite, Zenon DEF accounted, in_flight_count
  <1>8. r.frames_acked + Cardinality(in_flight(r)) = r.next_frame_id
    BY <1>1, <1>3, <1>6, <1>7
  <1> QED
    BY <1>8, Zenon DEF accounted, in_flight_count, r

\* Sending packets counts nothing.
LEMMA PopPacketsAccounts ==
  ASSUME NEW s, stream_inv(s), accounted(s), NEW n
  PROVE  accounted(pop_packets(s, n))
  <1>1. s \in Streams
    BY Zenon DEF stream_inv
  <1>2. /\ pop_packets(s, n).pending = s.pending
        /\ pop_packets(s, n).frames_acked = s.frames_acked
        /\ pop_packets(s, n).next_frame_id = s.next_frame_id
    BY <1>1, Zenon DEF pop_packets, Streams
  <1> QED
    BY <1>2, Zenon DEF accounted, in_flight_count, in_flight

\* One CastFeedback, whatever it holds and however often it has come before,
\* counts a frame only as it takes it out of the window.
LEMMA ProcessFeedbackAccounts ==
  ASSUME NEW s, stream_inv(s), accounted(s), NEW m, any_feedback(m)
  PROVE  accounted(process_feedback(s, m))
  <1> DEFINE c == feedback_checkpoint(s, m)
             a == acknowledge_up_to(s, c)
             b == acknowledge_bitvector(a, c, m.bits)
             nacks == feedback_nacks(s, m)
  <1>1. process_feedback(s, m) = handle_nacks(b, nacks)
    BY Zenon DEF process_feedback
  <1>2. c \in Int /\ c <= s.next_frame_id - 1 /\ m.bits \in SUBSET Nat /\ s.checkpoint \in Int
    <2>1. s.next_frame_id - 1 \in Int /\ m.checkpoint \in Int /\ m.bits \in SUBSET Nat
          /\ s.checkpoint \in Int
      BY DEF stream_inv, Streams, any_feedback
    <2> QED
      BY <2>1, ExpandLteBound, Zenon DEF feedback_checkpoint
  <1> HIDE DEF c, nacks
  <1>3. stream_inv(a)
    BY <1>2, AcknowledgeUpToInv, Zenon
  <1>4. accounted(a)
    <2> DEFINE ids == acknowledged_up_to(s, c)
    <2>1. CASE c < s.checkpoint + 1
      BY <2>1, Zenon DEF acknowledge_up_to
    <2>2. CASE ~(c < s.checkpoint + 1)
      <3>1. ids \in SUBSET Int /\ \A f \in ids : is_pending(s, f)
        BY <1>2 DEF acknowledged_up_to
      <3> HIDE DEF ids
      <3>2. IsFiniteSet(ids)
        BY <3>1, PendingFinite, Zenon
      <3> DEFINE u == release(s, ids)
      <3>3. accounted(u) /\ stream_inv(u)
        BY <3>1, <3>2, ReleaseAccounts, ReleaseInv, Zenon
      <3> HIDE DEF u
      <3>4. a = [u EXCEPT !.checkpoint = c]
        BY <2>2, Zenon DEF acknowledge_up_to, u, ids
      <3>5. u \in Streams
        BY <3>3, Zenon DEF stream_inv
      <3>6. a.pending = u.pending /\ a.frames_acked = u.frames_acked /\ a.next_frame_id = u.next_frame_id
        <4> HIDE DEF a
        <4> QED
          BY <3>4, <3>5, Zenon DEF Streams
      <3> QED
        BY <3>3, <3>6, Zenon DEF accounted, in_flight_count, in_flight
    <2> QED
      BY <2>1, <2>2, Zenon
  <1> HIDE DEF a
  <1>5. stream_inv(b) /\ accounted(b)
    <2> DEFINE ids == acknowledged_by_bits(a, c, m.bits)
    <2>1. ids \in SUBSET Int /\ \A f \in ids : is_pending(a, f)
      BY <1>2 DEF acknowledged_by_bits
    <2> HIDE DEF ids
    <2>2. IsFiniteSet(ids)
      BY <1>3, <2>1, PendingFinite, Zenon
    <2>3. stream_inv(release(a, ids)) /\ accounted(release(a, ids))
      BY <1>3, <1>4, <2>1, <2>2, ReleaseAccounts, ReleaseInv, Zenon
    <2> QED
      BY <2>3, Zenon DEF acknowledge_bitvector, ids
  <1> HIDE DEF b
  <1>6. /\ handle_nacks(b, nacks).pending = b.pending
        /\ handle_nacks(b, nacks).frames_acked = b.frames_acked
        /\ handle_nacks(b, nacks).next_frame_id = b.next_frame_id
    <2>1. b \in Streams
      BY <1>5, Zenon DEF stream_inv
    <2> QED
      BY <2>1, Zenon DEF handle_nacks, Streams
  <1> QED
    BY <1>1, <1>5, <1>6, Zenon DEF accounted, in_flight_count, in_flight
=============================================================================
