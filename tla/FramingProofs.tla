---------------------------- MODULE FramingProofs ----------------------------
(* That the framed readers return the messages that were sent, whole and in   *)
(* order, whatever the size of a length, of a byte and of a message, wherever *)
(* reads return and are cancelled.                                            *)
EXTENDS Framing, SequenceTheorems, WellFoundedInduction, TLAPS

-----------------------------------------------------------------------------
(* Functions defined by recursion on a number.                                *)

\* A non-empty set of naturals has a least element.
LEMMA LeastNat ==
  ASSUME NEW T \in SUBSET Nat, T # {}
  PROVE  \E n \in T : \A m \in T : ~(m < n)
  <1>1. PICK x \in T : \A y \in T : ~(<<y, x>> \in OpToRel(<, Nat))
    BY NatLessThanWellFounded, WFMin, Zenon
  <1> WITNESS x \in T
  <1> QED
    BY <1>1, Zenon DEF OpToRel

\* What holds of 0 and of the next number holds of all.
LEMMA Climb ==
  ASSUME NEW n \in Nat, NEW X, 0 \in X, \A i \in 1 .. n : i - 1 \in X => i \in X
  PROVE  \A i \in 0 .. n : i \in X
  <1> DEFINE T == {i \in 0 .. n : i \notin X}
  <1>1. SUFFICES ASSUME T # {} PROVE FALSE
    OBVIOUS
  <1>2. T \in SUBSET Nat
    OBVIOUS
  <1>3. PICK m \in T : \A x \in T : ~(x < m)
    BY <1>1, <1>2, LeastNat, Zenon
  <1>4. m \in 0 .. n /\ m \notin X /\ m # 0
    BY <1>3, Zenon
  <1>5. m \in 1 .. n /\ m - 1 \in 0 .. n /\ m - 1 < m
    BY <1>4
  <1>6. m - 1 \notin T
    BY <1>3, <1>5, Zenon
  <1> QED
    BY <1>4, <1>5, <1>6, Zenon

\* k starts with a and goes on as T says.
Follows(k, a, T, n) ==
  /\ k \in [0 .. n -> Nat]
  /\ k[0] = a
  /\ \A i \in 1 .. n : k[i] = T[<<i, k[i - 1]>>]

\* There is such a k.
LEMMA Recursion ==
  ASSUME NEW n \in Nat, NEW a \in Nat, NEW T \in [(1 .. n) \X Nat -> Nat]
  PROVE  \E k : Follows(k, a, T, n)
  <1> DEFINE X == {m \in 0 .. n : \E k : Follows(k, a, T, m)}
  <1>1. 0 \in X
    <2>1. Follows([i \in 0 .. 0 |-> a], a, T, 0)
      BY DEF Follows
    <2>2. 0 \in 0 .. n
      OBVIOUS
    <2> QED
      BY <2>1, <2>2, Zenon
  <1>2. ASSUME NEW m \in 1 .. n, m - 1 \in X PROVE m \in X
    <2>1. PICK k : Follows(k, a, T, m - 1)
      BY <1>2, Zenon
    <2>2. k \in [0 .. m - 1 -> Nat] /\ k[0] = a /\ \A i \in 1 .. m - 1 : k[i] = T[<<i, k[i - 1]>>]
      BY <2>1, Zenon DEF Follows
    <2> DEFINE v == T[<<m, k[m - 1]>>]
               h == [i \in 0 .. m |-> IF i = m THEN v ELSE k[i]]
    <2>3. v \in Nat
      BY <2>2
    <2> HIDE DEF v
    <2>4. h \in [0 .. m -> Nat] /\ h[0] = a
      BY <2>2, <2>3
    <2>5. ASSUME NEW i \in 1 .. m PROVE h[i] = T[<<i, h[i - 1]>>]
      <3>1. i \in 0 .. m /\ i - 1 \in 0 .. m /\ i - 1 # m /\ (i # m => i \in 1 .. m - 1)
        OBVIOUS
      <3>2. h[i - 1] = k[i - 1]
        BY <3>1, Zenon
      <3> QED
        BY <2>2, <3>1, <3>2, Zenon DEF v
    <2> HIDE DEF h
    <2>6. Follows(h, a, T, m)
      BY <2>4, <2>5, Zenon DEF Follows
    <2>7. m \in 0 .. n
      OBVIOUS
    <2> QED
      BY <2>6, <2>7, Zenon
  <1> HIDE DEF X
  <1>3. \A i \in 0 .. n : i \in X
    BY <1>1, <1>2, Climb, Zenon
  <1>4. n \in 0 .. n
    OBVIOUS
  <1> QED
    BY <1>3, <1>4, Zenon DEF X
-----------------------------------------------------------------------------
(* Lengths as digits.                                                         *)

\* Division leaves a remainder below the divisor.
LEMMA DivMod ==
  ASSUME NEW n \in Nat, NEW b \in Nat \ {0}
  PROVE  n \div b \in Nat /\ n % b \in 0 .. b - 1 /\ n = b * (n \div b) + (n % b)
  BY SMT

\* The digits left after shifting, one step at a time.
LEMMA ShiftedFacts ==
  ASSUME NEW n \in Nat, NEW b \in Nat \ {0}, NEW digits \in Nat
  PROVE  /\ shifted(n, b, digits) \in [0 .. digits -> Nat]
         /\ shifted(n, b, digits)[0] = n
         /\ \A i \in 1 .. digits :
              shifted(n, b, digits)[i] = shifted(n, b, digits)[i - 1] \div b
  <1> DEFINE T == [p \in (1 .. digits) \X Nat |-> p[2] \div b]
             Body(k) == [i \in 0 .. digits |-> IF i = 0 THEN n ELSE k[i - 1] \div b]
  <1>1. T \in [(1 .. digits) \X Nat -> Nat]
    BY DivMod, Zenon
  <1> HIDE DEF T
  <1>2. PICK k : Follows(k, n, T, digits)
    BY <1>1, Recursion, Zenon
  <1>3. /\ k \in [0 .. digits -> Nat] /\ k[0] = n
        /\ \A i \in 1 .. digits : k[i] = T[<<i, k[i - 1]>>]
    BY <1>2, Zenon DEF Follows
  <1>4. \A i \in 1 .. digits : k[i] = k[i - 1] \div b
    <2>1. \A i \in 1 .. digits, x \in Nat : T[<<i, x>>] = x \div b
      BY DEF T
    <2>2. \A i \in 1 .. digits : k[i - 1] \in Nat
      BY <1>3
    <2> QED
      BY <1>3, <2>1, <2>2, Zenon
  <1>5. k = Body(k)
    BY <1>3, <1>4
  <1>6. shifted(n, b, digits) = Body(shifted(n, b, digits))
    BY <1>5, Zenon DEF shifted
  <1> DEFINE rest == shifted(n, b, digits)
  <1> HIDE DEF rest
  <1>7. /\ DOMAIN rest = 0 .. digits /\ rest = [i \in 0 .. digits |-> rest[i]]
        /\ \A i \in 0 .. digits : rest[i] = IF i = 0 THEN n ELSE rest[i - 1] \div b
    BY <1>6, Zenon DEF rest
  <1>8. rest[0] = n /\ \A i \in 1 .. digits : rest[i] = rest[i - 1] \div b
    <2>1. 0 \in 0 .. digits /\ \A i \in 1 .. digits : i \in 0 .. digits /\ i # 0
      OBVIOUS
    <2> QED
      BY <1>7, <2>1, Zenon
  <1> DEFINE X == {i \in 0 .. digits : rest[i] \in Nat}
  <1>9. 0 \in X
    BY <1>8
  <1>10. ASSUME NEW i \in 1 .. digits, i - 1 \in X PROVE i \in X
    <2>1. i \in 0 .. digits
      OBVIOUS
    <2>2. rest[i] \in Nat
      BY <1>8, <1>10, DivMod, Zenon
    <2> QED
      BY <2>1, <2>2, Zenon
  <1> HIDE DEF X
  <1>11. \A i \in 0 .. digits : i \in X
    BY <1>9, <1>10, Climb, Zenon
  <1>12. \A i \in 0 .. digits : rest[i] \in Nat
    BY <1>11, Zenon DEF X
  <1>13. rest \in [0 .. digits -> Nat]
    BY <1>7, <1>12, Zenon
  <1> QED
    BY <1>8, <1>13, Zenon DEF rest

\* The length of the control connection is read as it was written.
LEMMA LengthRoundTrip ==
  ASSUME NEW n \in Lengths, NEW bytes,
         \A i \in 1 .. LENGTH_SIZE : bytes[i].value = to_be_bytes(n)[i]
  PROVE  from_be_bytes(bytes) = n
  <1> DEFINE rest == shifted(n, BYTE, LENGTH_SIZE)
             digit(i) == rest[LENGTH_SIZE - i] % BYTE
  <1>1. /\ n \in Nat /\ LENGTH_SIZE \in Nat /\ BYTE \in Nat \ {0}
        /\ rest[LENGTH_SIZE] = 0
    <2>1. rest[LENGTH_SIZE] = 0
      BY FramedReaderAssumption, Zenon
    <2> HIDE DEF rest
    <2> QED
      BY <2>1, StreamAssumption, FramedReaderAssumption
  <1>2. /\ rest \in [0 .. LENGTH_SIZE -> Nat] /\ rest[0] = n
        /\ \A i \in 1 .. LENGTH_SIZE : rest[i] = rest[i - 1] \div BYTE
    <2>1. n \in Nat /\ LENGTH_SIZE \in Nat /\ BYTE \in Nat \ {0}
      BY <1>1, Zenon
    <2> QED
      BY <2>1, ShiftedFacts, ZenonT(40)
  <1>3. \A i \in 1 .. LENGTH_SIZE : bytes[i].value = digit(i)
    BY Zenon DEF to_be_bytes
  <1> HIDE DEF rest
  <1>4. \A i \in 1 .. LENGTH_SIZE : rest[LENGTH_SIZE - i] \in Nat /\ digit(i) \in Nat
    <2> TAKE i \in 1 .. LENGTH_SIZE
    <2>1. LENGTH_SIZE - i \in 0 .. LENGTH_SIZE
      BY <1>1
    <2>2. rest[LENGTH_SIZE - i] \in Nat
      BY <1>2, <2>1, Zenon
    <2> QED
      BY <1>1, <2>2, DivMod
  <1> DEFINE T == [p \in (1 .. LENGTH_SIZE) \X Nat |-> BYTE * p[2] + bytes[p[1]].value]
             Body(v) == [k \in 0 .. LENGTH_SIZE |-> IF k = 0 THEN 0 ELSE BYTE * v[k - 1] + bytes[k].value]
  <1>5. \A i \in 1 .. LENGTH_SIZE, x \in Nat : T[<<i, x>>] = BYTE * x + bytes[i].value
    OBVIOUS
  <1>6. T \in [(1 .. LENGTH_SIZE) \X Nat -> Nat]
    <2>1. ASSUME NEW q \in (1 .. LENGTH_SIZE) \X Nat PROVE BYTE * q[2] + bytes[q[1]].value \in Nat
      <3>1. q[1] \in 1 .. LENGTH_SIZE /\ q[2] \in Nat
        OBVIOUS
      <3>2. bytes[q[1]].value \in Nat
        BY <1>3, <1>4, <3>1, Zenon
      <3> QED
        BY <1>1, <3>1, <3>2
    <2> QED
      BY <2>1, Zenon
  <1> HIDE DEF T, digit
  <1>7. PICK k : Follows(k, 0, T, LENGTH_SIZE)
    BY <1>1, <1>6, Recursion, SMTT(30)
  <1>8. /\ k \in [0 .. LENGTH_SIZE -> Nat] /\ k[0] = 0
        /\ \A i \in 1 .. LENGTH_SIZE : k[i] = T[<<i, k[i - 1]>>]
    BY <1>7, Zenon DEF Follows
  <1>9. \A i \in 1 .. LENGTH_SIZE : k[i] = BYTE * k[i - 1] + bytes[i].value
    <2>1. \A i \in 1 .. LENGTH_SIZE : k[i - 1] \in Nat
      BY <1>1, <1>8
    <2> QED
      BY <1>5, <1>8, <2>1, Zenon
  <1>10. k = Body(k)
    BY <1>8, <1>9
  <1>11. PICK v : v = Body(v) /\ from_be_bytes(bytes) = v[LENGTH_SIZE]
    BY <1>10, Zenon DEF from_be_bytes
  <1>12. \A i \in 0 .. LENGTH_SIZE : v[i] = IF i = 0 THEN 0 ELSE BYTE * v[i - 1] + bytes[i].value
    BY <1>11, Zenon
  <1> DEFINE X == {i \in 0 .. LENGTH_SIZE : v[i] = rest[LENGTH_SIZE - i]}
  <1>13. 0 \in X
    <2>1. 0 \in 0 .. LENGTH_SIZE /\ LENGTH_SIZE - 0 = LENGTH_SIZE
      BY <1>1
    <2> QED
      BY <1>1, <1>12, <2>1, Zenon
  <1>14. ASSUME NEW i \in 1 .. LENGTH_SIZE, i - 1 \in X PROVE i \in X
    <2>1. i \in 0 .. LENGTH_SIZE /\ i # 0
      BY <1>1
    <2>2. v[i] = BYTE * v[i - 1] + digit(i)
      BY <1>3, <1>12, <2>1, Zenon
    <2> DEFINE j == LENGTH_SIZE - i
    <2>3. LENGTH_SIZE - (i - 1) = j + 1 /\ j + 1 \in 1 .. LENGTH_SIZE /\ (j + 1) - 1 = j
      BY <1>1
    <2>4. v[i - 1] = rest[j + 1]
      BY <1>14, <2>3, Zenon
    <2>5. rest[j + 1] = rest[j] \div BYTE
      BY <1>2, <2>3, Zenon
    <2>6. rest[j] = BYTE * (rest[j] \div BYTE) + (rest[j] % BYTE)
      BY <1>1, <1>4, DivMod, Zenon
    <2>7. v[i] = rest[j]
      BY <2>2, <2>4, <2>5, <2>6, Zenon DEF digit
    <2> QED
      BY <2>1, <2>7, Zenon
  <1> HIDE DEF X
  <1>15. \A i \in 0 .. LENGTH_SIZE : i \in X
    BY <1>1, <1>13, <1>14, Climb, Zenon
  <1>16. LENGTH_SIZE \in 0 .. LENGTH_SIZE /\ LENGTH_SIZE - LENGTH_SIZE = 0
    BY <1>1
  <1> QED
    BY <1>2, <1>11, <1>15, <1>16, Zenon DEF X

\* What a 1 of each group of a varint is worth.
LEMMA WeightFacts ==
  /\ varint!weight \in [0 .. LENGTH_GROUPS -> Nat]
  /\ varint!weight[0] = 1
  /\ \A i \in 1 .. LENGTH_GROUPS : varint!weight[i] = GROUP * varint!weight[i - 1]
  <1>1. GROUP \in Nat /\ LENGTH_GROUPS \in Nat
    BY VarintReaderAssumption
  <1> DEFINE T == [p \in (1 .. LENGTH_GROUPS) \X Nat |-> GROUP * p[2]]
             Body(k) == [i \in 0 .. LENGTH_GROUPS |-> IF i = 0 THEN 1 ELSE GROUP * k[i - 1]]
  <1>2. T \in [(1 .. LENGTH_GROUPS) \X Nat -> Nat]
    BY <1>1
  <1>3. \A i \in 1 .. LENGTH_GROUPS, x \in Nat : T[<<i, x>>] = GROUP * x
    OBVIOUS
  <1> HIDE DEF T
  <1>4. PICK k : Follows(k, 1, T, LENGTH_GROUPS)
    BY <1>1, <1>2, Recursion, Zenon
  <1>5. /\ k \in [0 .. LENGTH_GROUPS -> Nat] /\ k[0] = 1
        /\ \A i \in 1 .. LENGTH_GROUPS : k[i] = T[<<i, k[i - 1]>>]
    BY <1>4, Zenon DEF Follows
  <1>6. \A i \in 1 .. LENGTH_GROUPS : k[i] = GROUP * k[i - 1]
    <2>1. \A i \in 1 .. LENGTH_GROUPS : k[i - 1] \in Nat
      BY <1>1, <1>5
    <2> QED
      BY <1>3, <1>5, <2>1, Zenon
  <1>7. k = Body(k)
    BY <1>5, <1>6
  <1>8. varint!weight = Body(varint!weight)
    BY <1>7, Zenon DEF varint!weight
  <1> DEFINE w == varint!weight
  <1> HIDE DEF w
  <1>9. /\ w = [i \in 0 .. LENGTH_GROUPS |-> w[i]]
        /\ \A i \in 0 .. LENGTH_GROUPS : w[i] = IF i = 0 THEN 1 ELSE GROUP * w[i - 1]
    BY <1>8, Zenon DEF w
  <1>10. w[0] = 1 /\ \A i \in 1 .. LENGTH_GROUPS : w[i] = GROUP * w[i - 1]
    <2>1. 0 \in 0 .. LENGTH_GROUPS /\ \A i \in 1 .. LENGTH_GROUPS : i \in 0 .. LENGTH_GROUPS /\ i # 0
      BY <1>1
    <2> QED
      BY <1>9, <2>1, Zenon
  <1> DEFINE X == {i \in 0 .. LENGTH_GROUPS : w[i] \in Nat}
  <1>11. 0 \in X
    BY <1>1, <1>10
  <1>12. ASSUME NEW i \in 1 .. LENGTH_GROUPS, i - 1 \in X PROVE i \in X
    <2>1. i \in 0 .. LENGTH_GROUPS
      BY <1>1
    <2>2. w[i - 1] \in Nat /\ w[i] = GROUP * w[i - 1]
      BY <1>10, <1>12, Zenon
    <2>3. w[i] \in Nat
      BY <1>1, <2>2
    <2> QED
      BY <2>1, <2>3, Zenon
  <1> HIDE DEF X
  <1>13. \A i \in 0 .. LENGTH_GROUPS : i \in X
    BY <1>1, <1>11, <1>12, Climb, Zenon
  <1>14. w \in [0 .. LENGTH_GROUPS -> Nat]
    BY <1>9, <1>13, Zenon DEF X
  <1> QED
    BY <1>10, <1>14, Zenon DEF w

\* The same of the groups of a length.
LEMMA GroupFacts ==
  ASSUME NEW n \in Lengths
  PROVE  /\ shifted(n, GROUP, LENGTH_GROUPS) \in [0 .. LENGTH_GROUPS -> Nat]
         /\ shifted(n, GROUP, LENGTH_GROUPS)[0] = n
         /\ \A i \in 1 .. LENGTH_GROUPS :
              shifted(n, GROUP, LENGTH_GROUPS)[i] = shifted(n, GROUP, LENGTH_GROUPS)[i - 1] \div GROUP
  <1>1. n \in Nat /\ LENGTH_GROUPS \in Nat /\ GROUP \in Nat \ {0}
    BY StreamAssumption, VarintReaderAssumption
  <1> QED
    BY <1>1, ShiftedFacts, Zenon

\* A varint ends with the group that leaves nothing.
LEMMA VarintFacts ==
  ASSUME NEW n \in Lengths
  PROVE  LET enc  == varint!encode_varint(n)
             rest == shifted(n, GROUP, LENGTH_GROUPS)
         IN  \E size \in 1 .. LENGTH_GROUPS :
               /\ enc \in [1 .. size -> Nat] /\ rest[size] = 0
               /\ \A i \in 1 .. size :
                    enc[i] = (rest[i - 1] % GROUP) + (IF i < size THEN GROUP ELSE 0)
  <1> DEFINE rest == shifted(n, GROUP, LENGTH_GROUPS)
             S == {k \in 1 .. LENGTH_GROUPS : rest[k] = 0}
             byte(i, size) == (rest[i - 1] % GROUP) + (IF i < size THEN GROUP ELSE 0)
  <1>1. rest[LENGTH_GROUPS] = 0
    BY VarintReaderAssumption, Zenon
  <1>2. n \in Nat /\ LENGTH_GROUPS \in Nat /\ GROUP \in Nat \ {0} /\ LENGTH_GROUPS \in 1 .. LENGTH_GROUPS
    <2> HIDE DEF rest
    <2> QED
      BY StreamAssumption, VarintReaderAssumption
  <1>3. rest \in [0 .. LENGTH_GROUPS -> Nat]
    BY <1>2, ShiftedFacts, Zenon
  <1> HIDE DEF rest
  <1>4. S \in SUBSET Nat /\ S # {}
    <2>1. LENGTH_GROUPS \in S
      BY <1>1, <1>2, Zenon
    <2> QED
      BY <2>1
  <1>5. PICK m \in S : \A x \in S : ~(x < m)
    BY <1>4, LeastNat, Zenon
  <1>6. \A x \in S : m <= x
    BY <1>4, <1>5
  <1>7. Min(S) \in S
    <2> HIDE DEF S
    <2> QED
      BY <1>6, Zenon DEF Min
  <1> DEFINE size == Min(S)
  <1>8. varint!encode_varint(n) = [i \in 1 .. size |-> byte(i, size)]
    BY Zenon DEF varint!encode_varint, varint!shifted, varint!Min, shifted, Min, rest
  <1> HIDE DEF size
  <1>9. size \in 1 .. LENGTH_GROUPS /\ rest[size] = 0
    BY <1>7, Zenon DEF size
  <1>10. ASSUME NEW i \in 1 .. size PROVE byte(i, size) \in Nat
    <2>1. i - 1 \in 0 .. LENGTH_GROUPS
      BY <1>2, <1>9
    <2>2. rest[i - 1] \in Nat
      BY <1>3, <2>1, Zenon
    <2> DEFINE r == rest[i - 1] % GROUP
    <2>3. r \in 0 .. GROUP - 1
      BY <1>2, <2>2, DivMod, Zenon
    <2> HIDE DEF r
    <2>4. r + (IF i < size THEN GROUP ELSE 0) \in Nat
      BY <1>2, <2>3
    <2> QED
      BY <2>4, Zenon DEF r
  <1> HIDE DEF byte
  <1>11. /\ varint!encode_varint(n) \in [1 .. size -> Nat]
         /\ \A i \in 1 .. size : varint!encode_varint(n)[i] = byte(i, size)
    BY <1>8, <1>10, Zenon
  <1> QED
    BY <1>9, <1>11, Zenon DEF byte, rest

\* A group more makes the length read so far longer, and the rest shorter.
LEMMA VarintStep ==
  ASSUME NEW n \in Lengths, NEW i \in 1 .. LENGTH_GROUPS, NEW so_far \in Nat,
         n = so_far + varint!weight[i - 1] * shifted(n, GROUP, LENGTH_GROUPS)[i - 1]
  PROVE  LET w == varint!weight
             rest == shifted(n, GROUP, LENGTH_GROUPS)
         IN  /\ w[i - 1] \in Nat /\ w[i] \in Nat /\ rest[i - 1] \in Nat /\ rest[i] \in Nat
             /\ rest[i - 1] % GROUP \in 0 .. GROUP - 1 /\ rest[i - 1] % GROUP <= rest[i - 1]
             /\ n = (so_far + (rest[i - 1] % GROUP) * w[i - 1]) + w[i] * rest[i]
  <1> DEFINE w == varint!weight
             rest == shifted(n, GROUP, LENGTH_GROUPS)
             a == w[i - 1]
             q == rest[i]
             r == rest[i - 1] % GROUP
  <1>1. n \in Nat /\ LENGTH_GROUPS \in Nat /\ GROUP \in Nat \ {0}
    <2> HIDE DEF rest
    <2> QED
      BY StreamAssumption, VarintReaderAssumption
  <1>2. rest \in [0 .. LENGTH_GROUPS -> Nat] /\ rest[i] = rest[i - 1] \div GROUP
    BY GroupFacts, Zenon
  <1>3. w \in [0 .. LENGTH_GROUPS -> Nat] /\ w[i] = GROUP * w[i - 1]
    BY WeightFacts, Zenon
  <1>4. n = so_far + a * rest[i - 1]
    OBVIOUS
  <1> HIDE DEF w, rest
  <1>5. i \in 0 .. LENGTH_GROUPS /\ i - 1 \in 0 .. LENGTH_GROUPS
    BY <1>1
  <1>6. a \in Nat /\ w[i] \in Nat /\ rest[i - 1] \in Nat /\ q \in Nat
    BY <1>2, <1>3, <1>5, Zenon
  <1>7. r \in 0 .. GROUP - 1 /\ rest[i - 1] = GROUP * q + r
    BY <1>1, <1>2, <1>6, DivMod, Zenon
  <1> HIDE DEF a, q, r
  <1>8. r \in Nat /\ r <= rest[i - 1]
    BY <1>1, <1>6, <1>7
  <1>9. a * (GROUP * q + r) = r * a + (GROUP * a) * q
    BY <1>1, <1>6, <1>8
  <1>10. n = (so_far + r * a) + (GROUP * a) * q
    <2> DEFINE u == r * a
               v == (GROUP * a) * q
    <2>1. u \in Nat /\ v \in Nat
      BY <1>1, <1>6, <1>8
    <2> HIDE DEF u, v
    <2>2. n = so_far + (u + v)
      BY <1>4, <1>7, <1>9, Zenon DEF u, v
    <2>3. n = (so_far + u) + v
      BY <2>1, <2>2
    <2> QED
      BY <2>3, Zenon DEF u, v
  <1> QED
    BY <1>3, <1>6, <1>7, <1>8, <1>10, Zenon DEF w, rest, a, q, r
-----------------------------------------------------------------------------
(* Frames on a stream.                                                        *)

\* c says where on the stream w the frames f end, when p bytes of the first are
\* gone.
Cuts(w, f, p, c) ==
  /\ c \in [0 .. Len(f) -> Int]
  /\ c[0] = 0 - p /\ c[Len(f)] = Len(w)
  /\ \A k \in 0 .. Len(f) : c[k] <= Len(w)
  /\ \A k \in 1 .. Len(f) :
       /\ c[k] = c[k - 1] + Len(f[k])
       /\ \A i \in 1 .. Len(f[k]) : c[k - 1] + i > 0 => w[c[k - 1] + i] = f[k][i]

\* The stream w holds the frames f, one after the other, but for the first p
\* bytes, and nothing else.
Laid(w, f, p) == \E c : Cuts(w, f, p, c)

\* Nothing is laid on an empty stream.
LEMMA LaidNothing == Laid(<< >>, << >>, 0)
  <1> DEFINE c == [k \in 0 .. 0 |-> 0]
  <1>1. Len(<< >>) = 0 /\ 1 .. 0 = {} /\ 0 \in 0 .. 0
    OBVIOUS
  <1>2. c \in [0 .. 0 -> Int] /\ c[0] = 0 - 0 /\ c[0] = 0 /\ \A k \in 0 .. 0 : c[k] <= 0
    <2>1. 0 \in Int /\ 0 - 0 = 0 /\ 0 <= 0
      OBVIOUS
    <2> QED
      BY <1>1, <2>1, Zenon
  <1> HIDE DEF c
  <1>3. Cuts(<< >>, << >>, 0, c)
    BY <1>1, <1>2, Zenon DEF Cuts
  <1> QED
    BY <1>3, Zenon DEF Laid

\* Without frames no byte is missing.
LEMMA LaidNone ==
  ASSUME NEW B, NEW w \in Seq(B), NEW p \in Nat, Laid(w, << >>, p)
  PROVE  p = 0 /\ w = << >>
  <1>1. PICK c : Cuts(w, << >>, p, c)
    BY Zenon DEF Laid
  <1>2. 0 - p = Len(w) /\ Len(w) \in Nat
    BY <1>1 DEF Cuts
  <1> QED
    BY <1>2

\* A frame is written behind the others.
LEMMA LaidAppend ==
  ASSUME NEW B, NEW w \in Seq(B), NEW f \in Seq(Seq(B)), NEW p \in Nat, NEW g \in Seq(B),
         Laid(w, f, p)
  PROVE  Laid(w \o g, Append(f, g), p)
  <1>1. PICK c : Cuts(w, f, p, c)
    BY Zenon DEF Laid
  <1> DEFINE n == Len(f)
             all == w \o g
             h == Append(f, g)
             d == [k \in 0 .. n + 1 |-> IF k = n + 1 THEN Len(all) ELSE c[k]]
  <1>2. /\ n \in Nat /\ Len(w) \in Nat /\ Len(g) \in Nat /\ Len(all) = Len(w) + Len(g)
        /\ \A x \in 1 .. Len(w) : all[x] = w[x]
        /\ \A x \in 1 .. Len(g) : all[Len(w) + x] = g[x]
    BY ConcatProperties
  <1>3. /\ Len(h) = n + 1 /\ h[n + 1] = g
        /\ \A k \in 1 .. n : h[k] = f[k] /\ Len(f[k]) \in Nat
    BY AppendProperties
  <1> HIDE DEF all, h, n
  <1>4. /\ c \in [0 .. n -> Int] /\ c[0] = 0 - p /\ c[n] = Len(w)
        /\ \A k \in 0 .. n : c[k] <= Len(w)
        /\ \A k \in 1 .. n :
             /\ c[k] = c[k - 1] + Len(f[k])
             /\ \A i \in 1 .. Len(f[k]) : c[k - 1] + i > 0 => w[c[k - 1] + i] = f[k][i]
    BY <1>1, Zenon DEF Cuts, n
  <1>5. /\ d \in [0 .. n + 1 -> Int] /\ d[0] = 0 - p /\ d[n + 1] = Len(all)
        /\ \A k \in 0 .. n : d[k] = c[k]
    BY <1>2, <1>4
  <1> HIDE DEF d
  <1>6. ASSUME NEW k \in 0 .. n + 1 PROVE d[k] <= Len(all)
    <2>1. CASE k = n + 1
      BY <1>2, <1>5, <2>1
    <2>2. CASE k # n + 1
      <3>1. k \in 0 .. n
        BY <1>2, <2>2
      <3>2. d[k] = c[k] /\ c[k] \in Int /\ c[k] <= Len(w)
        BY <1>4, <1>5, <3>1, Zenon
      <3> QED
        BY <1>2, <3>2
    <2> QED
      BY <2>1, <2>2, Zenon
  <1>7. ASSUME NEW k \in 1 .. n + 1, k # n + 1
        PROVE  /\ d[k] = d[k - 1] + Len(h[k])
               /\ \A i \in 1 .. Len(h[k]) : d[k - 1] + i > 0 => all[d[k - 1] + i] = h[k][i]
    <2>1. k \in 1 .. n /\ k \in 0 .. n /\ k - 1 \in 0 .. n
      BY <1>2, <1>7
    <2>2. d[k] = c[k] /\ d[k - 1] = c[k - 1] /\ h[k] = f[k]
      BY <1>3, <1>5, <2>1, Zenon
    <2>3. c[k] = c[k - 1] + Len(f[k]) /\ c[k] <= Len(w) /\ c[k - 1] \in Int /\ Len(f[k]) \in Nat
      BY <1>3, <1>4, <2>1, Zenon
    <2>4. ASSUME NEW i \in 1 .. Len(f[k]), c[k - 1] + i > 0 PROVE all[c[k - 1] + i] = f[k][i]
      <3>1. c[k - 1] + i \in 1 .. Len(w)
        BY <1>2, <2>3, <2>4, SMTT(30)
      <3> QED
        BY <1>2, <1>4, <2>1, <2>4, <3>1, Zenon
    <2> QED
      BY <2>2, <2>3, <2>4, Zenon
  <1>8. /\ d[n + 1] = d[(n + 1) - 1] + Len(h[n + 1])
        /\ \A i \in 1 .. Len(h[n + 1]) :
             d[(n + 1) - 1] + i > 0 => all[d[(n + 1) - 1] + i] = h[n + 1][i]
    <2>1. (n + 1) - 1 = n /\ n \in 0 .. n
      BY <1>2
    <2>2. d[(n + 1) - 1] = Len(w) /\ h[n + 1] = g
      BY <1>3, <1>4, <1>5, <2>1, Zenon
    <2> QED
      BY <1>2, <1>5, <2>2, Zenon
  <1>9. Cuts(all, h, p, d)
    BY <1>3, <1>5, <1>6, <1>7, <1>8, Zenon DEF Cuts
  <1> QED
    BY <1>9, Zenon DEF Laid, all, h

\* Bytes of the first frame are taken.
LEMMA LaidTake ==
  ASSUME NEW B, NEW w \in Seq(B), NEW f \in Seq(Seq(B)), NEW p \in Nat, NEW count \in 1 .. Len(w),
         f # << >>, p + count <= Len(f[1]), Laid(w, f, p)
  PROVE  /\ Laid(SubSeq(w, count + 1, Len(w)), f, p + count)
         /\ \A i \in 1 .. count : w[i] = f[1][p + i]
  <1>1. PICK c : Cuts(w, f, p, c)
    BY Zenon DEF Laid
  <1> DEFINE n == Len(f)
             v == SubSeq(w, count + 1, Len(w))
             d == [k \in 0 .. n |-> c[k] - count]
  <1>2. /\ n \in Nat \ {0} /\ Len(w) \in Nat /\ Len(v) = Len(w) - count
        /\ \A x \in 1 .. Len(w) - count : v[x] = w[x + count]
        /\ \A k \in 1 .. n : Len(f[k]) \in Nat
    <2>1. n \in Nat \ {0} /\ Len(w) \in Nat /\ \A k \in 1 .. n : Len(f[k]) \in Nat
      OBVIOUS
    <2>2. count + 1 \in 1 .. Len(w) + 1 /\ Len(w) \in count .. Len(w)
      BY <2>1
    <2>3. Len(v) = Len(w) - count
      BY <2>1, <2>2, SubSeqProperties
    <2>4. \A x \in 1 .. Len(w) - count : v[x] = w[x + count]
      BY <2>1, <2>2, SubSeqProperties
    <2> QED
      BY <2>1, <2>3, <2>4, Zenon
  <1> HIDE DEF v, n
  <1>3. /\ c \in [0 .. n -> Int] /\ c[0] = 0 - p /\ c[n] = Len(w)
        /\ \A k \in 0 .. n : c[k] <= Len(w)
        /\ \A k \in 1 .. n :
             /\ c[k] = c[k - 1] + Len(f[k])
             /\ \A i \in 1 .. Len(f[k]) : c[k - 1] + i > 0 => w[c[k - 1] + i] = f[k][i]
    BY <1>1, Zenon DEF Cuts, n
  <1>4. /\ d \in [0 .. n -> Int] /\ d[0] = 0 - (p + count) /\ d[n] = Len(v)
        /\ \A k \in 0 .. n : d[k] = c[k] - count /\ d[k] <= Len(v)
    <2>1. /\ c \in [0 .. n -> Int] /\ c[0] = 0 - p /\ c[n] = Len(w)
          /\ \A k \in 0 .. n : c[k] <= Len(w)
      BY <1>3, Zenon
    <2>2. n \in Nat /\ Len(w) \in Nat /\ Len(v) = Len(w) - count
      BY <1>2
    <2>3. \A k \in 0 .. n : c[k] \in Int /\ c[k] - count \in Int /\ c[k] - count <= Len(v)
      BY <2>1, <2>2, SMTT(30)
    <2>4. 0 \in 0 .. n /\ n \in 0 .. n /\ (0 - p) - count = 0 - (p + count)
      BY <2>2
    <2> QED
      BY <2>1, <2>2, <2>3, <2>4, Zenon
  <1> HIDE DEF d
  <1>5. ASSUME NEW k \in 1 .. n
        PROVE  /\ d[k] = d[k - 1] + Len(f[k])
               /\ \A i \in 1 .. Len(f[k]) : d[k - 1] + i > 0 => v[d[k - 1] + i] = f[k][i]
    <2>1. k \in 0 .. n /\ k - 1 \in 0 .. n
      BY <1>2
    <2>2. /\ d[k] = c[k] - count /\ d[k - 1] = c[k - 1] - count
          /\ c[k] = c[k - 1] + Len(f[k]) /\ c[k] <= Len(w)
          /\ c[k] \in Int /\ c[k - 1] \in Int /\ Len(f[k]) \in Nat
      BY <1>2, <1>3, <1>4, <2>1, Zenon
    <2>3. d[k] = d[k - 1] + Len(f[k])
      BY <2>2, SMTT(30)
    <2>4. ASSUME NEW i \in 1 .. Len(f[k]), d[k - 1] + i > 0 PROVE v[d[k - 1] + i] = f[k][i]
      <3>1. /\ d[k - 1] + i \in 1 .. Len(w) - count
            /\ (d[k - 1] + i) + count = c[k - 1] + i /\ c[k - 1] + i > 0
        <4>1. Len(w) \in Nat /\ count \in Nat /\ i \in Nat /\ i <= Len(f[k])
          BY <1>2, <2>2
        <4> DEFINE l == Len(f[k])
                   x == c[k - 1]
                   y == d[k - 1]
        <4>2. y = x - count /\ x + l <= Len(w) /\ x \in Int /\ l \in Nat /\ i <= l /\ y + i > 0
          BY <2>2, <2>4, <4>1, Zenon
        <4> HIDE DEF l, x, y
        <4>3. y + i \in 1 .. Len(w) - count /\ (y + i) + count = x + i /\ x + i > 0
          BY <4>1, <4>2
        <4> QED
          BY <4>3, Zenon DEF l, x, y
      <3>2. v[d[k - 1] + i] = w[c[k - 1] + i]
        BY <1>2, <3>1, Zenon
      <3> QED
        BY <1>3, <3>1, <3>2, Zenon
    <2> QED
      BY <2>3, <2>4, Zenon
  <1>6. Cuts(v, f, p + count, d)
    BY <1>4, <1>5, Zenon DEF Cuts, n
  <1>7. ASSUME NEW i \in 1 .. count PROVE w[i] = f[1][p + i]
    <2>1. 1 \in 1 .. n /\ 1 - 1 = 0 /\ Len(f[1]) \in Nat
      BY <1>2
    <2>2. p + i \in 1 .. Len(f[1]) /\ (0 - p) + (p + i) = i /\ i > 0
      BY <2>1
    <2>3. c[1 - 1] + (p + i) = i
      BY <1>3, <2>1, <2>2, Zenon
    <2> QED
      BY <1>3, <2>1, <2>2, <2>3, Zenon
  <1> QED
    BY <1>6, <1>7, Zenon DEF Laid, v

\* A frame that is taken is gone.
LEMMA LaidNext ==
  ASSUME NEW B, NEW w \in Seq(B), NEW f \in Seq(Seq(B)), NEW t \in Seq(Seq(B)),
         f # << >>, Laid(w, f, Len(f[1])),
         Len(t) = Len(f) - 1, \A k \in 1 .. Len(t) : t[k] = f[k + 1]
  PROVE  Laid(w, t, 0)
  <1>1. PICK c : Cuts(w, f, Len(f[1]), c)
    BY Zenon DEF Laid
  <1> DEFINE m == Len(t)
             d == [k \in 0 .. m |-> c[k + 1]]
  <1>2. Len(f) = m + 1 /\ m \in Nat /\ Len(w) \in Nat /\ Len(f[1]) \in Nat
    OBVIOUS
  <1> HIDE DEF m
  <1>3. /\ c \in [0 .. m + 1 -> Int] /\ c[0] = 0 - Len(f[1]) /\ c[m + 1] = Len(w)
        /\ \A k \in 0 .. m + 1 : c[k] <= Len(w)
        /\ \A k \in 1 .. m + 1 :
             /\ c[k] = c[k - 1] + Len(f[k])
             /\ \A i \in 1 .. Len(f[k]) : c[k - 1] + i > 0 => w[c[k - 1] + i] = f[k][i]
    BY <1>1, <1>2, Zenon DEF Cuts
  <1>4. c[1] = 0
    BY <1>2, <1>3
  <1>5. /\ d \in [0 .. m -> Int] /\ d[0] = 0 - 0 /\ d[m] = Len(w)
        /\ \A k \in 0 .. m : d[k] = c[k + 1] /\ d[k] <= Len(w)
    BY <1>2, <1>3, <1>4
  <1> HIDE DEF d
  <1>6. ASSUME NEW k \in 1 .. m
        PROVE  /\ d[k] = d[k - 1] + Len(t[k])
               /\ \A i \in 1 .. Len(t[k]) : d[k - 1] + i > 0 => w[d[k - 1] + i] = t[k][i]
    <2>1. /\ k \in 0 .. m /\ k - 1 \in 0 .. m /\ (k - 1) + 1 = k
          /\ k + 1 \in 1 .. m + 1 /\ (k + 1) - 1 = k
      BY <1>2
    <2>2. d[k] = c[k + 1] /\ d[k - 1] = c[k] /\ t[k] = f[k + 1]
      BY <1>5, <2>1, Zenon DEF m
    <2>3. /\ c[k + 1] = c[(k + 1) - 1] + Len(f[k + 1])
          /\ \A i \in 1 .. Len(f[k + 1]) :
               c[(k + 1) - 1] + i > 0 => w[c[(k + 1) - 1] + i] = f[k + 1][i]
      BY <1>3, <2>1, Zenon
    <2>4. c[(k + 1) - 1] = d[k - 1]
      BY <2>1, <2>2, Zenon
    <2> QED
      BY <2>2, <2>3, <2>4, Zenon
  <1>7. Cuts(w, t, 0, d)
    BY <1>5, <1>6, Zenon DEF Cuts, m
  <1> QED
    BY <1>7, Zenon DEF Laid
-----------------------------------------------------------------------------
(* The bytes of a message.                                                    *)

Byte == [value : Nat, of : Nat \X Nat]

\* The bytes of the length n for the reader c, those of message k with the body
\* m, and the messages of s from the d-th on.
PrefixOf(c, n) == IF c = "fixed" THEN to_be_bytes(n) ELSE varint!encode_varint(n)

HeaderOf(c, k, n) == [i \in DOMAIN PrefixOf(c, n) |-> [value |-> PrefixOf(c, n)[i], of |-> <<k, 0>>]]

FrameOf(c, k, m) == HeaderOf(c, k, Len(m)) \o m

UnreadOf(c, s, d) == [k \in 1 .. Len(s) - d |-> FrameOf(c, d + k, s[d + k])]

\* A function on the first numbers is a sequence.
LEMMA FunctionIsSeq ==
  ASSUME NEW S, NEW n \in Nat, NEW f \in [1 .. n -> S]
  PROVE  f \in Seq(S) /\ Len(f) = n
  OBVIOUS

\* A sequence is a prefix of another when it agrees with it.
LEMMA PrefixIff ==
  ASSUME NEW S, NEW s \in Seq(S), NEW t \in Seq(S), Len(t) <= Len(s)
  PROVE  t = SubSeq(s, 1, Len(t)) <=> \A i \in 1 .. Len(t) : t[i] = s[i]
  <1> DEFINE u == SubSeq(s, 1, Len(t))
  <1>1. Len(s) \in Nat /\ Len(t) \in Nat /\ \A i \in 1 .. Len(t) : s[i] \in S
    OBVIOUS
  <1>2. u \in Seq(S) /\ Len(u) = Len(t) /\ \A i \in 1 .. Len(t) : u[i] = s[i]
    BY <1>1
  <1> HIDE DEF u
  <1>3. t = u <=> \A i \in 1 .. Len(t) : t[i] = u[i]
    BY <1>1, <1>2, SMTT(30)
  <1> QED
    BY <1>2, <1>3, Zenon DEF u

\* A length is one byte at least.
LEMMA PrefixFacts ==
  ASSUME NEW c \in {"fixed", "varint"}, NEW n \in Lengths
  PROVE  /\ PrefixOf(c, n) \in Seq(Nat) /\ Len(PrefixOf(c, n)) \in Nat \ {0}
         /\ DOMAIN PrefixOf(c, n) = 1 .. Len(PrefixOf(c, n))
         /\ c = "fixed" => Len(PrefixOf(c, n)) = LENGTH_SIZE /\ PrefixOf(c, n) = to_be_bytes(n)
  <1>1. CASE c = "fixed"
    <2> DEFINE rest == shifted(n, BYTE, LENGTH_SIZE)
               enc == to_be_bytes(n)
    <2>1. n \in Nat /\ LENGTH_SIZE \in Nat \ {0} /\ BYTE \in Nat \ {0}
      BY StreamAssumption, FramedReaderAssumption
    <2>2. rest \in [0 .. LENGTH_SIZE -> Nat]
      BY <2>1, ShiftedFacts, Zenon
    <2>3. enc = [i \in 1 .. LENGTH_SIZE |-> rest[LENGTH_SIZE - i] % BYTE]
      BY Zenon DEF to_be_bytes
    <2> HIDE DEF rest
    <2>4. ASSUME NEW i \in 1 .. LENGTH_SIZE PROVE rest[LENGTH_SIZE - i] % BYTE \in Nat
      <3>1. LENGTH_SIZE - i \in 0 .. LENGTH_SIZE
        BY <2>1
      <3>2. rest[LENGTH_SIZE - i] \in Nat
        BY <2>2, <3>1, Zenon
      <3>3. rest[LENGTH_SIZE - i] % BYTE \in 0 .. BYTE - 1
        BY <2>1, <3>2, DivMod, Zenon
      <3> QED
        BY <2>1, <3>3
    <2>5. enc \in [1 .. LENGTH_SIZE -> Nat]
      BY <2>3, <2>4, Zenon
    <2> HIDE DEF enc
    <2>6. enc \in Seq(Nat) /\ Len(enc) = LENGTH_SIZE /\ DOMAIN enc = 1 .. Len(enc)
      BY <2>1, <2>5
    <2> QED
      BY <1>1, <2>1, <2>6, Zenon DEF PrefixOf, enc
  <1>2. CASE c # "fixed"
    <2> DEFINE enc == varint!encode_varint(n)
    <2>1. PICK size \in 1 .. LENGTH_GROUPS : enc \in [1 .. size -> Nat]
      BY VarintFacts, Zenon
    <2> HIDE DEF enc
    <2>2. size \in Nat \ {0}
      BY VarintReaderAssumption
    <2>3. enc \in Seq(Nat) /\ Len(enc) = size /\ DOMAIN enc = 1 .. Len(enc)
      BY <2>1, <2>2
    <2> QED
      BY <1>2, <2>2, <2>3, Zenon DEF PrefixOf, enc
  <1> QED
    BY <1>1, <1>2, Zenon

\* The bytes of a message: its length, then its body.
LEMMA FrameFacts ==
  ASSUME NEW c \in {"fixed", "varint"}, NEW k \in Nat, NEW m \in Seq(Byte), Len(m) \in Lengths
  PROVE  /\ HeaderOf(c, k, Len(m)) \in Seq(Byte)
         /\ FrameOf(c, k, m) \in Seq(Byte)
         /\ Len(FrameOf(c, k, m)) = Len(PrefixOf(c, Len(m))) + Len(m)
         /\ \A i \in 1 .. Len(PrefixOf(c, Len(m))) : FrameOf(c, k, m)[i].value = PrefixOf(c, Len(m))[i]
         /\ \A i \in 1 .. Len(m) : FrameOf(c, k, m)[Len(PrefixOf(c, Len(m))) + i] = m[i]
  <1> DEFINE enc == PrefixOf(c, Len(m))
             l == Len(enc)
             h == HeaderOf(c, k, Len(m))
  <1>1. enc \in Seq(Nat) /\ l \in Nat /\ DOMAIN enc = 1 .. l
    <2>1. /\ PrefixOf(c, Len(m)) \in Seq(Nat)
          /\ DOMAIN PrefixOf(c, Len(m)) = 1 .. Len(PrefixOf(c, Len(m)))
      BY PrefixFacts, Zenon
    <2> QED
      BY <2>1
  <1>2. h = [i \in 1 .. l |-> [value |-> enc[i], of |-> <<k, 0>>]]
    BY <1>1, Zenon DEF HeaderOf
  <1> HIDE DEF enc
  <1>3. \A i \in 1 .. l : enc[i] \in Nat
    BY <1>1
  <1> HIDE DEF l
  <1>4. h \in [1 .. l -> Byte] /\ \A i \in 1 .. l : h[i].value = enc[i]
    BY <1>2, <1>3 DEF Byte
  <1> HIDE DEF h
  <1>5. h \in Seq(Byte) /\ Len(h) = l
    BY <1>1, <1>4, FunctionIsSeq, Zenon
  <1> DEFINE f == h \o m
  <1>6. /\ f \in Seq(Byte) /\ Len(f) = l + Len(m)
        /\ \A i \in 1 .. l : f[i] = h[i]
        /\ \A i \in 1 .. Len(m) : f[l + i] = m[i]
    <2>1. /\ f \in Seq(Byte) /\ Len(f) = Len(h) + Len(m)
          /\ \A i \in 1 .. Len(h) + Len(m) : f[i] = IF i <= Len(h) THEN h[i] ELSE m[i - Len(h)]
      BY <1>5, ConcatProperties, Zenon
    <2>2. Len(m) \in Nat
      OBVIOUS
    <2> HIDE DEF f
    <2> QED
      BY <1>1, <1>5, <2>1, <2>2
  <1> HIDE DEF f
  <1>7. \A i \in 1 .. l : f[i].value = enc[i]
    BY <1>4, <1>6, Zenon
  <1>8. FrameOf(c, k, m) = f
    BY Zenon DEF FrameOf, f, h
  <1> QED
    BY <1>5, <1>6, <1>7, <1>8, Zenon DEF h, l, enc

\* The messages that follow the d-th.
LEMMA UnreadFacts ==
  ASSUME NEW c \in {"fixed", "varint"}, NEW s \in Seq(Seq(Byte)), NEW d \in 0 .. Len(s),
         \A k \in 1 .. Len(s) : Len(s[k]) \in Lengths
  PROVE  /\ UnreadOf(c, s, d) \in Seq(Seq(Byte))
         /\ Len(UnreadOf(c, s, d)) = Len(s) - d
         /\ \A k \in 1 .. Len(s) - d : UnreadOf(c, s, d)[k] = FrameOf(c, d + k, s[d + k])
  <1> DEFINE n == Len(s) - d
  <1>1. n \in Nat /\ \A k \in 1 .. n : d + k \in Nat /\ d + k \in 1 .. Len(s)
    OBVIOUS
  <1>2. \A k \in 1 .. Len(s) : s[k] \in Seq(Byte)
    OBVIOUS
  <1> HIDE DEF n
  <1>3. \A k \in 1 .. n : FrameOf(c, d + k, s[d + k]) \in Seq(Byte)
    BY <1>1, <1>2, FrameFacts, Zenon
  <1>4. UnreadOf(c, s, d) = [k \in 1 .. n |-> FrameOf(c, d + k, s[d + k])]
    BY Zenon DEF UnreadOf, n
  <1>5. UnreadOf(c, s, d) \in [1 .. n -> Seq(Byte)]
    BY <1>3, <1>4, Zenon
  <1>6. UnreadOf(c, s, d) \in Seq(Seq(Byte)) /\ Len(UnreadOf(c, s, d)) = n
    BY <1>1, <1>5, FunctionIsSeq, Zenon
  <1> QED
    BY <1>4, <1>6, Zenon DEF n

\* A message more is a frame more.
LEMMA UnreadAppend ==
  ASSUME NEW c \in {"fixed", "varint"}, NEW s \in Seq(Seq(Byte)), NEW d \in 0 .. Len(s),
         \A k \in 1 .. Len(s) : Len(s[k]) \in Lengths,
         NEW m \in Seq(Byte), Len(m) \in Lengths
  PROVE  UnreadOf(c, Append(s, m), d) = Append(UnreadOf(c, s, d), FrameOf(c, Len(s) + 1, m))
  <1> DEFINE t == Append(s, m)
             u == UnreadOf(c, s, d)
             f == FrameOf(c, Len(s) + 1, m)
             v == UnreadOf(c, t, d)
             n == Len(s) - d
  <1>1. /\ t \in Seq(Seq(Byte)) /\ Len(t) = Len(s) + 1 /\ t[Len(s) + 1] = m
        /\ \A k \in 1 .. Len(s) : t[k] = s[k]
    BY AppendProperties
  <1>2. Len(s) \in Nat /\ n \in Nat /\ Len(s) = d + n /\ Len(t) = d + n + 1 /\ Len(t) - d = n + 1
    BY <1>1
  <1> HIDE DEF t, n
  <1>3. \A k \in 1 .. Len(t) : Len(t[k]) \in Lengths
    <2> TAKE k \in 1 .. Len(t)
    <2>1. k \in 1 .. Len(s) \/ k = Len(s) + 1
      BY <1>1, <1>2
    <2> QED
      BY <1>1, <2>1, Zenon
  <1>4. /\ u \in Seq(Seq(Byte)) /\ Len(u) = n
        /\ \A k \in 1 .. n : u[k] = FrameOf(c, d + k, s[d + k])
    BY UnreadFacts, Zenon DEF n
  <1>5. d \in 0 .. Len(t)
    BY <1>1, <1>2
  <1>6. /\ v \in Seq(Seq(Byte)) /\ Len(v) = n + 1
        /\ \A k \in 1 .. n + 1 : v[k] = FrameOf(c, d + k, t[d + k])
    <2>1. /\ v \in Seq(Seq(Byte)) /\ Len(v) = Len(t) - d
          /\ \A k \in 1 .. Len(t) - d : v[k] = FrameOf(c, d + k, t[d + k])
      BY <1>1, <1>3, <1>5, UnreadFacts, Zenon
    <2> QED
      BY <1>2, <2>1, Zenon
  <1>7. f \in Seq(Byte)
    <2>1. Len(s) + 1 \in Nat
      BY <1>2
    <2> QED
      BY <2>1, FrameFacts, Zenon
  <1> HIDE DEF u, v
  <1>8. \A k \in 1 .. n : v[k] = u[k]
    <2> TAKE k \in 1 .. n
    <2>1. k \in 1 .. n + 1 /\ d + k \in 1 .. Len(s)
      BY <1>2
    <2> QED
      BY <1>1, <1>4, <1>6, <2>1, Zenon
  <1>9. v[n + 1] = f
    <2>1. n + 1 \in 1 .. n + 1 /\ d + (n + 1) = Len(s) + 1
      BY <1>2
    <2> QED
      BY <1>1, <1>6, <2>1, Zenon
  <1> HIDE DEF f
  <1>10. v = Append(u, f)
    <2> DEFINE a == Append(u, f)
    <2>1. a \in Seq(Seq(Byte)) /\ Len(a) = n + 1 /\ a[n + 1] = f /\ \A k \in 1 .. n : a[k] = u[k]
      BY <1>4, <1>7, AppendProperties
    <2> HIDE DEF a
    <2>2. \A k \in 1 .. n + 1 : v[k] = a[k]
      <3> TAKE k \in 1 .. n + 1
      <3>1. k \in 1 .. n \/ k = n + 1
        BY <1>2
      <3> QED
        BY <1>8, <1>9, <2>1, <3>1, Zenon
    <2> QED
      BY <1>6, <2>1, <2>2, SMTT(30) DEF a
  <1> QED
    BY <1>10, Zenon DEF t, u, v, f

\* Bytes are taken of the first message, which is there when bytes are.
LEMMA TakeCurrent ==
  ASSUME NEW c \in {"fixed", "varint"}, NEW s \in Seq(Seq(Byte)), NEW d \in 0 .. Len(s),
         \A k \in 1 .. Len(s) : Len(s[k]) \in Lengths,
         NEW w \in Seq(Byte), NEW p \in Nat, NEW count \in 1 .. Len(w),
         Laid(w, UnreadOf(c, s, d), p)
  PROVE  /\ d < Len(s)
         /\ SubSeq(w, count + 1, Len(w)) \in Seq(Byte)
         /\ p + count <= Len(PrefixOf(c, Len(s[d + 1]))) + Len(s[d + 1]) =>
              /\ Laid(SubSeq(w, count + 1, Len(w)), UnreadOf(c, s, d), p + count)
              /\ \A i \in 1 .. count : w[i] = FrameOf(c, d + 1, s[d + 1])[p + i]
  <1> DEFINE f == UnreadOf(c, s, d)
             v == SubSeq(w, count + 1, Len(w))
             l == Len(PrefixOf(c, Len(s[d + 1]))) + Len(s[d + 1])
  <1>1. /\ f \in Seq(Seq(Byte)) /\ Len(f) = Len(s) - d
        /\ \A k \in 1 .. Len(s) - d : f[k] = FrameOf(c, d + k, s[d + k])
    BY UnreadFacts, Zenon
  <1>2. Len(s) \in Nat /\ Len(w) \in Nat /\ d \in Nat
    OBVIOUS
  <1>3. v \in Seq(Byte)
    OBVIOUS
  <1> HIDE DEF f
  <1>4. f # << >>
    <2> SUFFICES ASSUME f = << >> PROVE FALSE
      BY Zenon
    <2>1. Laid(w, << >>, p)
      BY Zenon DEF f
    <2>2. w = << >>
      BY <2>1, LaidNone, Zenon
    <2> QED
      BY <2>2
  <1>5. d < Len(s)
    <2>1. f \in Seq(Seq(Byte)) /\ Len(f) = Len(s) - d
      BY <1>1, Zenon
    <2>2. Len(f) # 0
      BY <1>4, <2>1
    <2>3. Len(s) - d # 0
      BY <2>1, <2>2, Zenon
    <2> QED
      BY <1>2, <2>3
  <1>6. d + 1 \in 1 .. Len(s) /\ 1 \in 1 .. Len(s) - d /\ d + 1 \in Nat
    BY <1>2, <1>5
  <1>7. f[1] = FrameOf(c, d + 1, s[d + 1]) /\ Len(f[1]) = l
    <2>1. s[d + 1] \in Seq(Byte)
      BY <1>6
    <2>2. Len(FrameOf(c, d + 1, s[d + 1])) = l
      BY <1>6, <2>1, FrameFacts, ZenonT(40)
    <2> QED
      BY <1>1, <1>6, <2>2, Zenon
  <1>8. ASSUME p + count <= l
        PROVE  Laid(v, f, p + count) /\ \A i \in 1 .. count : w[i] = f[1][p + i]
    <2>1. p + count <= Len(f[1]) /\ Laid(w, f, p)
      BY <1>7, <1>8, Zenon DEF f
    <2> QED
      BY <1>1, <1>4, <2>1, LaidTake, Zenon
  <1> QED
    BY <1>3, <1>5, <1>7, <1>8, Zenon DEF f

\* When all of a message is taken the next one is the first.
LEMMA ReturnCurrent ==
  ASSUME NEW c \in {"fixed", "varint"}, NEW s \in Seq(Seq(Byte)), NEW d \in 0 .. Len(s), d < Len(s),
         \A k \in 1 .. Len(s) : Len(s[k]) \in Lengths, NEW w \in Seq(Byte),
         Laid(w, UnreadOf(c, s, d), Len(PrefixOf(c, Len(s[d + 1]))) + Len(s[d + 1]))
  PROVE  Laid(w, UnreadOf(c, s, d + 1), 0)
  <1> DEFINE f == UnreadOf(c, s, d)
             t == UnreadOf(c, s, d + 1)
             l == Len(PrefixOf(c, Len(s[d + 1]))) + Len(s[d + 1])
  <1>1. /\ Len(s) \in Nat /\ d \in Nat /\ d + 1 \in 0 .. Len(s) /\ d + 1 \in 1 .. Len(s) /\ d + 1 \in Nat
        /\ 1 \in 1 .. Len(s) - d
    OBVIOUS
  <1>2. /\ f \in Seq(Seq(Byte)) /\ Len(f) = Len(s) - d
        /\ \A k \in 1 .. Len(s) - d : f[k] = FrameOf(c, d + k, s[d + k])
    BY UnreadFacts, Zenon
  <1>3. /\ t \in Seq(Seq(Byte)) /\ Len(t) = Len(s) - (d + 1)
        /\ \A k \in 1 .. Len(s) - (d + 1) : t[k] = FrameOf(c, (d + 1) + k, s[(d + 1) + k])
    BY <1>1, UnreadFacts, Zenon
  <1>4. Len(f[1]) = l
    <2>1. s[d + 1] \in Seq(Byte)
      BY <1>1
    <2>2. Len(FrameOf(c, d + 1, s[d + 1])) = l
      BY <1>1, <2>1, FrameFacts, ZenonT(40)
    <2> QED
      BY <1>1, <1>2, <2>2, Zenon
  <1>5. Laid(w, f, Len(f[1]))
    BY <1>4, Zenon
  <1> HIDE DEF f, t
  <1>6. f # << >> /\ Len(t) = Len(f) - 1
    BY <1>1, <1>2, <1>3
  <1>7. \A k \in 1 .. Len(t) : t[k] = f[k + 1]
    <2> TAKE k \in 1 .. Len(t)
    <2>1. k \in 1 .. Len(s) - (d + 1) /\ k + 1 \in 1 .. Len(s) - d /\ (d + 1) + k = d + (k + 1)
      BY <1>1, <1>3
    <2> QED
      BY <1>2, <1>3, <2>1, Zenon
  <1>8. Laid(w, t, 0)
    BY <1>2, <1>3, <1>5, <1>6, <1>7, LaidNext, Zenon
  <1> QED
    BY <1>8, Zenon DEF t
-----------------------------------------------------------------------------
(* The inductive invariant.                                                   *)

\* The messages not returned, and the first of them.
Unread == UnreadOf(coding, sent, Len(delivered))

current == sent[Len(delivered) + 1]

\* The bytes read of the first message that is not returned.
Taken ==
  IF coding = "fixed" THEN Len(len_buf) + Len(body_buf)
  ELSE IF body_expected = 0 THEN length_shift ELSE length_shift + 1 + Len(body)

\* The length is known and acceptable, and buf is the beginning of the body.
BodyInv(buf) ==
  /\ body_expected = Len(current) /\ body_expected \in 1 .. MAX_FRAME_SIZE
  /\ Len(buf) < body_expected
  /\ \A i \in 1 .. Len(buf) : buf[i] = current[i]

\* The reader of the control connection holds the beginning of the length, or the
\* length and the beginning of the body.
FixedInv ==
  /\ len_buf \in Seq(Byte) /\ body_buf \in Seq(Byte) /\ Len(len_buf) <= LENGTH_SIZE
  /\ Len(delivered) < Len(sent) =>
       \A i \in 1 .. Len(len_buf) : len_buf[i].value = to_be_bytes(Len(current))[i]
  /\ IF Len(len_buf) < LENGTH_SIZE THEN body_buf = << >> /\ body_expected = 0
                                   ELSE BodyInv(body_buf)

\* The reader of the Android TV connections holds the low groups of the length, or
\* the length and the beginning of the body.
VarintInv ==
  /\ body \in Seq(Byte) /\ length \in Nat /\ length_shift \in 0 .. LENGTH_GROUPS - 1
  /\ IF body_expected = 0
     THEN /\ body = << >>
          /\ length_shift = 0 => length = 0
          /\ Len(delivered) < Len(sent) =>
               /\ length_shift < Len(varint!encode_varint(Len(current)))
               /\ Len(current) = length + varint!weight[length_shift]
                                   * shifted(Len(current), GROUP, LENGTH_GROUPS)[length_shift]
     ELSE /\ length_shift + 1 = Len(varint!encode_varint(Len(current)))
          /\ BodyInv(body)

ReaderInv == IF coding = "fixed" THEN FixedInv ELSE VarintInv

\* What is on the stream are the messages that were not returned, but for the
\* bytes the reader holds.
FramingInv ==
  /\ coding \in {"fixed", "varint"}
  /\ sent \in Seq(Seq(Byte)) /\ delivered \in Seq(Seq(Byte)) /\ wire \in Seq(Byte)
  /\ \A k \in 1 .. Len(sent) : Len(sent[k]) \in Lengths
  /\ ended \in BOOLEAN /\ reading \in BOOLEAN
  /\ failed \in {"None", "InvalidData", "UnexpectedEof"}
  /\ failed # "None" => ~reading
  /\ MessagesAreWhole
  /\ failed = "None" =>
       /\ Laid(wire, Unread, Taken)
       /\ body_expected \in Nat
       /\ ReaderInv

\* The state of the reader, apart from the stream.
reader_vars == <<len_buf, body_buf, body_expected, coding, length, length_shift, body>>

\* At the start of a message nothing of its length is known.
LEMMA VarintStart ==
  ASSUME NEW n \in Lengths
  PROVE  /\ 0 < Len(varint!encode_varint(n))
         /\ n = 0 + varint!weight[0] * shifted(n, GROUP, LENGTH_GROUPS)[0]
  <1>1. Len(PrefixOf("varint", n)) \in Nat \ {0}
    BY PrefixFacts, Zenon
  <1>2. PrefixOf("varint", n) = varint!encode_varint(n)
    BY DEF PrefixOf
  <1>3. n = 0 + 1 * n
    BY StreamAssumption
  <1>4. varint!weight[0] = 1 /\ shifted(n, GROUP, LENGTH_GROUPS)[0] = n
    BY WeightFacts, GroupFacts, Zenon
  <1>5. 0 < Len(varint!encode_varint(n))
    BY <1>1, <1>2
  <1> QED
    BY <1>3, <1>4, <1>5, Zenon

\* At first nothing is sent.
LEMMA InitInv == FramingInit => FramingInv
  <1> SUFFICES ASSUME FramingInit PROVE FramingInv
    OBVIOUS
  <1>1. /\ coding \in {"fixed", "varint"}
        /\ sent = << >> /\ wire = << >> /\ ended = FALSE
        /\ reading = FALSE /\ delivered = << >> /\ failed = "None"
        /\ len_buf = << >> /\ body_buf = << >> /\ body_expected = 0
        /\ length = 0 /\ length_shift = 0 /\ body = << >>
    BY DEF FramingInit, Init, StreamInit, varint!Init, varint!StreamInit
  <1>2. Len(<< >>) = 0 /\ 1 .. 0 = {} /\ ~(0 < 0) /\ 0 <= 0 /\ 0 \in Nat /\ 0 + 0 = 0
    OBVIOUS
  <1>3. << >> \in Seq(Byte) /\ << >> \in Seq(Seq(Byte)) /\ << >> = SubSeq(<< >>, 1, 0)
    OBVIOUS
  <1>4. Unread = << >>
    <2>1. UnreadOf(coding, << >>, 0) \in Seq(Seq(Byte)) /\ Len(UnreadOf(coding, << >>, 0)) = 0
      <3>1. 0 \in 0 .. Len(<< >>) /\ Len(<< >>) - 0 = 0
        OBVIOUS
      <3>2. \A k \in 1 .. Len(<< >>) : Len(<< >>[k]) \in Lengths
        BY <1>2, Zenon
      <3> QED
        BY <1>1, <1>3, <3>1, <3>2, UnreadFacts, Zenon
    <2>2. UnreadOf(coding, << >>, 0) = << >>
      BY <2>1
    <2> QED
      BY <1>1, <1>2, <2>2, Zenon DEF Unread
  <1>5. Taken = 0
    BY <1>1, <1>2, Zenon DEF Taken
  <1>6. Laid(wire, Unread, Taken)
    BY <1>1, <1>4, <1>5, LaidNothing, Zenon
  <1>7. FixedInv
    <2>1. 0 <= LENGTH_SIZE /\ 0 < LENGTH_SIZE
      BY FramedReaderAssumption
    <2> QED
      BY <1>1, <1>2, <1>3, <2>1, Zenon DEF FixedInv
  <1>8. VarintInv
    <2>1. 0 \in 0 .. LENGTH_GROUPS - 1
      BY VarintReaderAssumption
    <2> QED
      BY <1>1, <1>2, <1>3, <2>1, Zenon DEF VarintInv
  <1>9. MessagesAreWhole
    BY <1>1, <1>2, <1>3, Zenon DEF MessagesAreWhole
  <1> QED
    BY <1>1, <1>2, <1>3, <1>6, <1>7, <1>8, <1>9, Zenon DEF FramingInv, ReaderInv

\* Steps that touch neither the messages nor the reader: the peer closes, the
\* caller calls and cancels, a read finds the end of the stream.
LEMMA IdleInv ==
  ASSUME FramingInv, UNCHANGED <<sent, wire, delivered, reader_vars>>,
         ended' \in BOOLEAN, ended => ended', reading' \in BOOLEAN,
         failed' = failed \/ (failed' = "UnexpectedEof" /\ ended),
         failed' # "None" => ~reading'
  PROVE  FramingInv'
  <1>1. /\ sent' = sent /\ wire' = wire /\ delivered' = delivered
        /\ len_buf' = len_buf /\ body_buf' = body_buf /\ body_expected' = body_expected
        /\ coding' = coding /\ length' = length /\ length_shift' = length_shift /\ body' = body
    BY DEF reader_vars
  <1>2. failed' = "None" => failed = "None"
    OBVIOUS
  <1>3. failed' \in {"None", "InvalidData", "UnexpectedEof"}
    BY Zenon DEF FramingInv
  <1>4. MessagesAreWhole'
    <2>1. MessagesAreWhole
      BY Zenon DEF FramingInv
    <2>2. failed' = "InvalidData" => failed = "InvalidData"
      OBVIOUS
    <2>3. failed' = "UnexpectedEof" => ended'
      <3>1. failed' = "UnexpectedEof" => ended
        BY <2>1, Zenon DEF MessagesAreWhole
      <3> QED
        BY <3>1, Zenon
    <2> QED
      BY <1>1, <2>1, <2>2, <2>3, Zenon DEF MessagesAreWhole
  <1>5. Unread' = Unread /\ Taken' = Taken
    BY <1>1, Zenon DEF Unread, Taken
  <1>6. FixedInv => FixedInv'
    BY <1>1, Zenon DEF FixedInv, BodyInv, current
  <1>7. VarintInv => VarintInv'
    BY <1>1, Zenon DEF VarintInv, BodyInv, current
  <1>8. failed' = "None" =>
          /\ Laid(wire, Unread, Taken) /\ body_expected \in Nat
          /\ ReaderInv
    BY <1>2, Zenon DEF FramingInv
  <1>9. failed' = "None" =>
          /\ Laid(wire', Unread', Taken') /\ body_expected' \in Nat
          /\ ReaderInv'
    BY <1>1, <1>5, <1>6, <1>7, <1>8, Zenon DEF ReaderInv
  <1> QED
    BY <1>1, <1>3, <1>4, <1>9, Zenon DEF FramingInv

\* What is known of the messages in every state.
LEMMA Messages ==
  ASSUME FramingInv
  PROVE  /\ coding \in {"fixed", "varint"}
         /\ sent \in Seq(Seq(Byte)) /\ delivered \in Seq(Seq(Byte)) /\ wire \in Seq(Byte)
         /\ Len(delivered) \in 0 .. Len(sent) /\ Len(delivered) \in Nat /\ Len(sent) \in Nat
         /\ \A k \in 1 .. Len(sent) : Len(sent[k]) \in Lengths /\ sent[k] \in Seq(Byte)
         /\ \A i \in 1 .. Len(delivered) : delivered[i] = sent[i]
         /\ Len(delivered) < Len(sent) =>
              /\ Len(delivered) + 1 \in 1 .. Len(sent)
              /\ current \in Seq(Byte) /\ Len(current) \in Lengths /\ Len(current) \in Nat
  <1>1. /\ coding \in {"fixed", "varint"}
        /\ sent \in Seq(Seq(Byte)) /\ delivered \in Seq(Seq(Byte)) /\ wire \in Seq(Byte)
        /\ \A k \in 1 .. Len(sent) : Len(sent[k]) \in Lengths
        /\ Len(delivered) <= Len(sent) /\ delivered = SubSeq(sent, 1, Len(delivered))
    BY Zenon DEF FramingInv, MessagesAreWhole
  <1>2. \A i \in 1 .. Len(delivered) : delivered[i] = sent[i]
    BY <1>1, PrefixIff, Zenon
  <1>3. Len(delivered) \in Nat /\ Len(sent) \in Nat
    BY <1>1
  <1>4. Len(delivered) \in 0 .. Len(sent)
    BY <1>1, <1>3
  <1>5. \A k \in 1 .. Len(sent) : sent[k] \in Seq(Byte)
    BY <1>1
  <1>6. Len(delivered) < Len(sent) => Len(delivered) + 1 \in 1 .. Len(sent)
    BY <1>3
  <1>7. ASSUME Len(delivered) < Len(sent)
        PROVE  current \in Seq(Byte) /\ Len(current) \in Lengths /\ Len(current) \in Nat
    <2>1. current \in Seq(Byte) /\ Len(current) \in Lengths
      BY <1>1, <1>5, <1>6, <1>7, Zenon DEF current
    <2> QED
      BY <2>1, StreamAssumption
  <1> QED
    BY <1>1, <1>2, <1>3, <1>4, <1>5, <1>6, <1>7, Zenon

\* A number of bytes is taken, none when there is no message.
LEMMA TakenIsNat ==
  ASSUME FramingInv, failed = "None"
  PROVE  Taken \in Nat /\ (Taken = 0 \/ Len(delivered) < Len(sent))
  <1>1. Taken \in Nat
    <2>1. CASE coding = "fixed"
      <3>1. len_buf \in Seq(Byte) /\ body_buf \in Seq(Byte)
        BY <2>1, Zenon DEF FramingInv, ReaderInv, FixedInv
      <3>2. Len(len_buf) + Len(body_buf) \in Nat
        BY <3>1
      <3> QED
        BY <2>1, <3>2, Zenon DEF Taken
    <2>2. CASE coding # "fixed"
      <3>1. body \in Seq(Byte) /\ length_shift \in 0 .. LENGTH_GROUPS - 1
        BY <2>2, Zenon DEF FramingInv, ReaderInv, VarintInv
      <3>2. length_shift \in Nat /\ length_shift + 1 + Len(body) \in Nat
        BY <3>1, VarintReaderAssumption
      <3> QED
        BY <2>2, <3>2, Zenon DEF Taken
    <2> QED
      BY <2>1, <2>2, Zenon
  <1>2. ASSUME ~(Len(delivered) < Len(sent)) PROVE Taken = 0
    <2>1. Unread \in Seq(Seq(Byte)) /\ Len(Unread) = Len(sent) - Len(delivered)
      BY Messages, UnreadFacts, Zenon DEF Unread
    <2>2. Len(delivered) \in 0 .. Len(sent) /\ Len(sent) \in Nat
      BY Messages, Zenon
    <2>3. Len(sent) - Len(delivered) = 0
      BY <1>2, <2>2
    <2>4. Unread = << >>
      BY <2>1, <2>3
    <2>5. Laid(wire, << >>, Taken) /\ wire \in Seq(Byte)
      BY <2>4, Zenon DEF FramingInv
    <2> QED
      BY <1>1, <2>5, LaidNone, Zenon
  <1> QED
    BY <1>1, <1>2, Zenon

\* The peer sends a message.
LEMMA PeerSendsInv ==
  ASSUME FramingInv, NEW n \in Lengths, NEW value \in {0, 1},
         PeerSends(n, value, PrefixOf(coding, n)), UNCHANGED reader_vars
  PROVE  FramingInv'
  <1> DEFINE d == Len(delivered)
             m == Bytes(Len(sent) + 1, n, value)
             h == [i \in DOMAIN PrefixOf(coding, n) |-> [value |-> PrefixOf(coding, n)[i], of |-> <<Len(sent) + 1, 0>>]]
  <1>1. /\ sent' = Append(sent, m) /\ wire' = wire \o h \o m
        /\ ended' = ended /\ reading' = reading /\ delivered' = delivered /\ failed' = failed
    BY DEF PeerSends, caller
  <1>2. /\ len_buf' = len_buf /\ body_buf' = body_buf /\ body_expected' = body_expected
        /\ coding' = coding /\ length' = length /\ length_shift' = length_shift /\ body' = body
    BY DEF reader_vars
  <1>3. n \in Nat /\ Len(sent) + 1 \in Nat /\ Len(sent) \in Nat
    BY Messages, StreamAssumption
  <1>4. m \in Seq(Byte) /\ Len(m) = n
    <2>1. m \in [1 .. n -> Byte]
      BY <1>3 DEF Bytes, Byte
    <2> QED
      BY <1>3, <2>1, FunctionIsSeq, Zenon
  <1>5. h = HeaderOf(coding, Len(sent) + 1, Len(m))
    BY <1>4, Zenon DEF HeaderOf
  <1> HIDE DEF m, h
  <1> DEFINE f == FrameOf(coding, Len(sent) + 1, m)
  <1>6. h \in Seq(Byte) /\ f \in Seq(Byte) /\ f = h \o m
    <2>1. Len(m) \in Lengths
      BY <1>4, Zenon
    <2>2. HeaderOf(coding, Len(sent) + 1, Len(m)) \in Seq(Byte) /\ f \in Seq(Byte)
      BY <1>3, <1>4, <2>1, Messages, FrameFacts, Zenon
    <2>3. f = HeaderOf(coding, Len(sent) + 1, Len(m)) \o m
      BY Zenon DEF FrameOf
    <2> QED
      BY <1>5, <2>2, <2>3, Zenon
  <1> HIDE DEF f
  <1>7. wire' = wire \o f /\ wire' \in Seq(Byte)
    <2>1. wire' = wire \o f
      <3>1. wire \in Seq(Byte)
        BY Messages, Zenon
      <3>2. (wire \o h) \o m = wire \o (h \o m)
        <4>1. h \in Seq(Byte) /\ m \in Seq(Byte)
          BY <1>4, <1>6, Zenon
        <4> QED
          BY <3>1, <4>1, ConcatAssociative, SMTT(30)
      <3>3. wire' = (wire \o h) \o m
        BY <1>1, Zenon
      <3> QED
        BY <1>6, <3>2, <3>3, Zenon
    <2>2. wire \o f \in Seq(Byte)
      BY <1>6, Messages, ConcatProperties, Zenon
    <2> QED
      BY <2>1, <2>2, Zenon
  <1>8. /\ sent' \in Seq(Seq(Byte)) /\ Len(sent') = Len(sent) + 1 /\ sent'[Len(sent) + 1] = m
        /\ \A k \in 1 .. Len(sent) : sent'[k] = sent[k]
    <2>1. sent \in Seq(Seq(Byte))
      BY Messages, Zenon
    <2> DEFINE t == Append(sent, m)
    <2>2. /\ t \in Seq(Seq(Byte)) /\ Len(t) = Len(sent) + 1 /\ t[Len(sent) + 1] = m
          /\ \A k \in 1 .. Len(sent) : t[k] = sent[k]
      <3>1. m \in Seq(Byte)
        BY <1>4, Zenon
      <3> QED
        BY <2>1, <3>1, AppendProperties
    <2>3. sent' = t
      BY <1>1, Zenon
    <2> HIDE DEF t
    <2> QED
      BY <2>2, <2>3, Zenon
  <1>9. \A k \in 1 .. Len(sent') : Len(sent'[k]) \in Lengths
    <2> TAKE k \in 1 .. Len(sent')
    <2>1. k \in 1 .. Len(sent) \/ k = Len(sent) + 1
      BY <1>3, <1>8
    <2>2. CASE k \in 1 .. Len(sent)
      BY <1>8, <2>2, Messages, Zenon
    <2>3. CASE k = Len(sent) + 1
      BY <1>4, <1>8, <2>3, Zenon
    <2> QED
      BY <2>1, <2>2, <2>3, Zenon
  <1>10. d < Len(sent) => current' = current
    <2> SUFFICES ASSUME d < Len(sent) PROVE current' = current
      OBVIOUS
    <2>1. d + 1 \in 1 .. Len(sent)
      BY Messages, Zenon
    <2> QED
      BY <1>1, <1>8, <2>1, Zenon DEF current
  <1>11. d < Len(sent') /\ d \in 0 .. Len(sent') /\ d <= Len(sent')
    <2>1. d \in 0 .. Len(sent) /\ Len(sent) \in Nat
      BY Messages, Zenon
    <2> QED
      BY <1>8, <2>1
  <1>12. ~(d < Len(sent)) => current' = m
    <2>1. d \in 0 .. Len(sent) /\ Len(sent) \in Nat
      BY Messages, Zenon
    <2>2. ~(d < Len(sent)) => d = Len(sent)
      BY <2>1
    <2> QED
      BY <1>1, <1>8, <2>2, Zenon DEF current
  <1>13. MessagesAreWhole'
    <2>1. MessagesAreWhole
      BY Zenon DEF FramingInv
    <2>2. \A i \in 1 .. d : delivered[i] = sent'[i]
      <3>1. d \in 0 .. Len(sent) /\ Len(sent) \in Nat
        BY Messages, Zenon
      <3>2. \A i \in 1 .. d : i \in 1 .. Len(sent)
        BY <3>1
      <3> QED
        BY <1>8, <3>2, Messages, Zenon
    <2>3. delivered = SubSeq(sent', 1, d)
      BY <1>8, <1>11, <2>2, Messages, PrefixIff, Zenon
    <2>4. failed = "InvalidData" => Len(current') \notin 1 .. MAX_FRAME_SIZE \/ ~decodes(current')
      BY <1>10, <2>1, Zenon DEF MessagesAreWhole, current
    <2> QED
      BY <1>1, <1>11, <2>1, <2>3, <2>4, Zenon DEF MessagesAreWhole, current
  <1>14. ASSUME failed = "None" PROVE Laid(wire', Unread', Taken')
    <2>1. Laid(wire, Unread, Taken)
      BY <1>14, Zenon DEF FramingInv
    <2>2. Unread \in Seq(Seq(Byte))
      BY Messages, UnreadFacts, Zenon DEF Unread
    <2>3. Unread' = Append(Unread, f)
      <3>1. Len(m) \in Lengths
        BY <1>4, Zenon
      <3> QED
        BY <1>1, <1>2, <1>4, <3>1, Messages, UnreadAppend, Zenon DEF Unread, f
    <2>4. Taken' = Taken
      BY <1>2, Zenon DEF Taken
    <2>5. Taken \in Nat
      BY <1>14, TakenIsNat, Zenon
    <2>6. Laid(wire \o f, Append(Unread, f), Taken)
      BY <1>6, <2>1, <2>2, <2>5, Messages, LaidAppend, Zenon
    <2> QED
      BY <1>7, <2>3, <2>4, <2>6, Zenon
  <1>15. ASSUME failed = "None", coding = "fixed" PROVE FixedInv'
    <2>1. FixedInv
      BY <1>15, Zenon DEF FramingInv, ReaderInv
    <2>2. CASE d < Len(sent)
      BY <1>1, <1>2, <1>10, <1>11, <2>1, <2>2, Zenon DEF FixedInv, BodyInv
    <2>3. CASE ~(d < Len(sent))
      <3>1. Len(len_buf) + Len(body_buf) = 0
        BY <1>15, <2>3, TakenIsNat, Zenon DEF Taken
      <3>2. Len(len_buf) \in Nat /\ Len(body_buf) \in Nat
        BY <2>1 DEF FixedInv
      <3>3. Len(len_buf) = 0 /\ 1 .. Len(len_buf) = {} /\ Len(len_buf) < LENGTH_SIZE
        BY <3>1, <3>2, FramedReaderAssumption
      <3> QED
        BY <1>1, <1>2, <2>1, <3>3, Zenon DEF FixedInv
    <2> QED
      BY <2>2, <2>3, Zenon
  <1>16. ASSUME failed = "None", coding # "fixed" PROVE VarintInv'
    <2>1. VarintInv
      BY <1>16, Zenon DEF FramingInv, ReaderInv
    <2>2. CASE d < Len(sent)
      BY <1>1, <1>2, <1>10, <1>11, <2>1, <2>2, Zenon DEF VarintInv, BodyInv
    <2>3. CASE ~(d < Len(sent))
      <3>1. Taken = 0
        BY <1>16, <2>3, TakenIsNat, Zenon
      <3>2. body \in Seq(Byte) /\ length_shift \in 0 .. LENGTH_GROUPS - 1
        BY <2>1, Zenon DEF VarintInv
      <3>3. length_shift + 1 + Len(body) # 0
        BY <3>2, VarintReaderAssumption
      <3>4. body_expected = 0 /\ length_shift = 0
        BY <1>16, <3>1, <3>3, Zenon DEF Taken
      <3>5. length = 0 /\ body = << >>
        BY <2>1, <3>4, Zenon DEF VarintInv
      <3>6. current' = m /\ Len(m) \in Lengths
        BY <1>4, <1>12, <2>3, Zenon
      <3>7. /\ 0 < Len(varint!encode_varint(Len(m)))
            /\ Len(m) = 0 + varint!weight[0] * shifted(Len(m), GROUP, LENGTH_GROUPS)[0]
        BY <3>6, VarintStart, Zenon
      <3> QED
        BY <1>2, <2>1, <3>4, <3>5, <3>6, <3>7, Zenon DEF VarintInv
    <2> QED
      BY <2>2, <2>3, Zenon
  <1>17. failed = "None" => body_expected \in Nat
    BY Zenon DEF FramingInv
  <1>18. /\ delivered \in Seq(Seq(Byte)) /\ coding \in {"fixed", "varint"}
         /\ ended \in BOOLEAN /\ reading \in BOOLEAN
         /\ failed \in {"None", "InvalidData", "UnexpectedEof"}
         /\ failed # "None" => ~reading
    BY Zenon DEF FramingInv
  <1> QED
    BY <1>1, <1>2, <1>7, <1>8, <1>9, <1>13, <1>14, <1>15, <1>16, <1>17, <1>18, Zenon DEF FramingInv, ReaderInv

\* A read that gives a message up: the message must be one that is not accepted.
LEMMA FailInv ==
  ASSUME FramingInv, UNCHANGED <<sent, delivered, ended, coding>>, wire' \in Seq(Byte),
         reading' = FALSE, failed' = "InvalidData",
         Len(delivered) < Len(sent),
         Len(current) \notin 1 .. MAX_FRAME_SIZE \/ ~decodes(current)
  PROVE  FramingInv'
  <1>1. sent' = sent /\ delivered' = delivered /\ ended' = ended /\ coding' = coding
    OBVIOUS
  <1>2. failed' # "UnexpectedEof" /\ failed' # "None"
    OBVIOUS
  <1>3. MessagesAreWhole'
    BY <1>1, <1>2, Zenon DEF FramingInv, MessagesAreWhole, current
  <1> QED
    BY <1>1, <1>2, <1>3, Zenon DEF FramingInv

\* A read that takes bytes and goes on.
LEMMA ReadInv ==
  ASSUME FramingInv, UNCHANGED <<sent, delivered, ended, coding, reading, failed>>, wire' \in Seq(Byte),
         Laid(wire', Unread', Taken'), body_expected' \in Nat,
         ReaderInv'
  PROVE  FramingInv'
  <1>1. /\ sent' = sent /\ delivered' = delivered /\ ended' = ended /\ coding' = coding
        /\ reading' = reading /\ failed' = failed
    OBVIOUS
  <1>2. /\ coding \in {"fixed", "varint"}
        /\ sent \in Seq(Seq(Byte)) /\ delivered \in Seq(Seq(Byte))
        /\ \A k \in 1 .. Len(sent) : Len(sent[k]) \in Lengths
        /\ ended \in BOOLEAN /\ reading \in BOOLEAN
        /\ failed \in {"None", "InvalidData", "UnexpectedEof"}
        /\ failed # "None" => ~reading
        /\ MessagesAreWhole
    BY Zenon DEF FramingInv
  <1>3. MessagesAreWhole'
    <2>1. MessagesAreWhole
      BY <1>2, Zenon
    <2> QED
      BY <1>1, <2>1 DEF MessagesAreWhole
  <1> QED
    BY <1>1, <1>2, <1>3 DEF FramingInv

\* A read that returns the message.
LEMMA ReturnInv ==
  ASSUME FramingInv, failed = "None", UNCHANGED <<sent, ended, coding>>, wire' \in Seq(Byte),
         Len(delivered) < Len(sent), Return(current), body_expected' = 0,
         Laid(wire', Unread, Len(PrefixOf(coding, Len(current))) + Len(current)),
         IF coding = "fixed" THEN len_buf' = << >> /\ body_buf' = << >>
                             ELSE length' = 0 /\ length_shift' = 0 /\ body' = << >>
  PROVE  FramingInv'
  <1> DEFINE d == Len(delivered)
  <1>1. /\ sent' = sent /\ ended' = ended /\ coding' = coding
        /\ delivered' = Append(delivered, current) /\ reading' = FALSE /\ failed' = "None"
    BY DEF Return
  <1>2. d + 1 \in 1 .. Len(sent) /\ d \in 0 .. Len(sent) /\ current \in Seq(Byte)
    BY Messages, Zenon
  <1>3. /\ delivered' \in Seq(Seq(Byte)) /\ Len(delivered') = d + 1 /\ delivered'[d + 1] = current
        /\ \A k \in 1 .. d : delivered'[k] = delivered[k]
    <2>1. delivered \in Seq(Seq(Byte))
      BY Messages, Zenon
    <2> DEFINE t == Append(delivered, current)
    <2>2. /\ t \in Seq(Seq(Byte)) /\ Len(t) = d + 1 /\ t[d + 1] = current
          /\ \A k \in 1 .. d : t[k] = delivered[k]
      <3>1. current \in Seq(Byte)
        BY <1>2, Zenon
      <3> QED
        BY <2>1, <3>1, AppendProperties
    <2>3. delivered' = t
      BY <1>1, Zenon
    <2> HIDE DEF t
    <2> QED
      BY <2>2, <2>3, Zenon
  <1>4. MessagesAreWhole'
    <2>1. Len(sent) \in Nat /\ d \in Nat
      BY Messages, Zenon
    <2>2. \A i \in 1 .. d + 1 : delivered'[i] = sent[i]
      <3> TAKE i \in 1 .. d + 1
      <3>1. i \in 1 .. d \/ i = d + 1
        BY <2>1
      <3>2. CASE i \in 1 .. d
        BY <1>3, <3>2, Messages, Zenon
      <3>3. CASE i = d + 1
        BY <1>3, <3>3, Zenon DEF current
      <3> QED
        BY <3>1, <3>2, <3>3, Zenon
    <2>3. d + 1 <= Len(sent)
      BY <1>2, <2>1
    <2>4. delivered' = SubSeq(sent, 1, d + 1)
      <3>1. Len(delivered') <= Len(sent) /\ \A i \in 1 .. Len(delivered') : delivered'[i] = sent[i]
        BY <1>3, <2>2, <2>3, Zenon
      <3>2. sent \in Seq(Seq(Byte))
        BY Messages, Zenon
      <3>3. delivered' = SubSeq(sent, 1, Len(delivered'))
        BY <1>3, <3>1, <3>2, PrefixIff, Zenon
      <3> QED
        BY <1>3, <3>3, Zenon
    <2>5. failed' # "InvalidData" /\ failed' # "UnexpectedEof"
      BY <1>1
    <2> QED
      BY <1>1, <1>3, <2>3, <2>4, <2>5, Zenon DEF MessagesAreWhole
  <1>5. Laid(wire', Unread', 0)
    <2>1. Laid(wire', UnreadOf(coding, sent, d + 1), 0)
      BY <1>2, Messages, ReturnCurrent, Zenon DEF Unread, current
    <2> QED
      BY <1>1, <1>3, <2>1, Zenon DEF Unread
  <1>6. 0 + 0 = 0 /\ Len(<< >>) = 0 /\ 1 .. 0 = {} /\ 0 \in Nat /\ << >> \in Seq(Byte)
    OBVIOUS
  <1>7. Taken' = 0
    BY <1>1, <1>6, Zenon DEF Taken
  <1>8. ASSUME coding = "fixed" PROVE FixedInv'
    <2>1. 0 <= LENGTH_SIZE /\ 0 < LENGTH_SIZE
      BY FramedReaderAssumption
    <2> QED
      BY <1>6, <1>8, <2>1, Zenon DEF FixedInv
  <1>9. ASSUME coding # "fixed" PROVE VarintInv'
    <2>1. 0 \in 0 .. LENGTH_GROUPS - 1
      BY VarintReaderAssumption
    <2>2. ASSUME Len(delivered') < Len(sent')
          PROVE  /\ 0 < Len(varint!encode_varint(Len(current')))
                 /\ Len(current') = 0 + varint!weight[0] * shifted(Len(current'), GROUP, LENGTH_GROUPS)[0]
      <3>1. d + 1 < Len(sent) /\ d \in Nat /\ Len(sent) \in Nat
        BY <1>1, <1>3, <2>2, Messages, Zenon
      <3>2. (d + 1) + 1 \in 1 .. Len(sent)
        BY <3>1
      <3>3. Len(current') \in Lengths
        BY <1>1, <1>3, <3>2, Messages, Zenon DEF current
      <3> QED
        BY <3>3, VarintStart, Zenon
    <2> QED
      BY <1>6, <1>9, <2>1, <2>2, Zenon DEF VarintInv
  <1>10. ended \in BOOLEAN /\ coding \in {"fixed", "varint"} /\ sent \in Seq(Seq(Byte))
    BY Zenon DEF FramingInv
  <1> QED
    BY <1>1, <1>3, <1>4, <1>5, <1>6, <1>7, <1>8, <1>9, <1>10, Messages, Zenon DEF FramingInv, ReaderInv

\* What a read adds to a buffer.
LEMMA FillFacts ==
  ASSUME NEW buf \in Seq(Byte), NEW w \in Seq(Byte), NEW count \in 1 .. Len(w)
  PROVE  LET filled == buf \o SubSeq(w, 1, count)
         IN  /\ filled \in Seq(Byte) /\ Len(filled) = Len(buf) + count
             /\ \A i \in 1 .. Len(buf) : filled[i] = buf[i]
             /\ \A i \in 1 .. count : filled[Len(buf) + i] = w[i]
  <1> DEFINE v == SubSeq(w, 1, count)
             filled == buf \o v
  <1>1. v \in Seq(Byte) /\ Len(v) = count /\ \A i \in 1 .. count : v[i] = w[i]
    OBVIOUS
  <1> HIDE DEF v
  <1>2. Len(buf) \in Nat /\ count \in Nat
    OBVIOUS
  <1>3. /\ filled \in Seq(Byte) /\ Len(filled) = Len(buf) + Len(v)
        /\ \A i \in 1 .. Len(buf) + Len(v) : filled[i] = IF i <= Len(buf) THEN buf[i] ELSE v[i - Len(buf)]
    BY <1>1, ConcatProperties, Zenon
  <1> HIDE DEF filled
  <1>4. \A i \in 1 .. Len(buf) : filled[i] = buf[i]
    BY <1>1, <1>2, <1>3
  <1>5. ASSUME NEW i \in 1 .. count PROVE filled[Len(buf) + i] = v[i]
    <2>1. /\ Len(buf) + i \in 1 .. Len(buf) + Len(v) /\ ~(Len(buf) + i <= Len(buf))
          /\ (Len(buf) + i) - Len(buf) = i
      BY <1>1, <1>2
    <2> QED
      BY <1>3, <2>1, Zenon
  <1> QED
    BY <1>1, <1>3, <1>4, <1>5, Zenon DEF filled, v

Codings == {"fixed", "varint"}

\* A buffer is the beginning of a message; bytes continue a frame.
Begins(buf, m) == \A i \in 1 .. Len(buf) : buf[i] = m[i]
Continues(w, count, frame, at) == \A i \in 1 .. count : w[i] = frame[at + i]

\* A read of a body goes on with it.
LEMMA FillBody ==
  ASSUME NEW c \in Codings, NEW k \in Nat, NEW m \in Seq(Byte), Len(m) \in Lengths,
         NEW buf \in Seq(Byte), NEW w \in Seq(Byte), NEW count \in 1 .. Len(w),
         Len(buf) + count <= Len(m), Begins(buf, m),
         Continues(w, count, FrameOf(c, k, m), Len(PrefixOf(c, Len(m))) + Len(buf))
  PROVE  LET filled == buf \o SubSeq(w, 1, count)
         IN  Begins(filled, m)
  <1> DEFINE filled == buf \o SubSeq(w, 1, count)
             l == Len(PrefixOf(c, Len(m)))
  <1>0. c \in {"fixed", "varint"}
    BY DEF Codings
  <1>1. /\ filled \in Seq(Byte) /\ Len(filled) = Len(buf) + count
        /\ \A i \in 1 .. Len(buf) : filled[i] = buf[i]
        /\ \A i \in 1 .. count : filled[Len(buf) + i] = w[i]
    BY FillFacts, Zenon
  <1> HIDE DEF filled
  <1>2. l \in Nat /\ Len(buf) \in Nat /\ Len(m) \in Nat
    <2>1. l \in Nat \ {0}
      BY <1>0, PrefixFacts, Zenon
    <2> HIDE DEF l
    <2> QED
      BY <2>1
  <1> HIDE DEF l
  <1>3. ASSUME NEW i \in 1 .. count PROVE filled[Len(buf) + i] = m[Len(buf) + i]
    <2>1. Len(buf) + i \in 1 .. Len(m) /\ (l + Len(buf)) + i = l + (Len(buf) + i)
      BY <1>2
    <2>2. \A j \in 1 .. Len(m) : FrameOf(c, k, m)[l + j] = m[j]
      BY <1>0, FrameFacts, Zenon DEF l
    <2>3. w[i] = FrameOf(c, k, m)[(l + Len(buf)) + i]
      BY Zenon DEF l, Continues
    <2> QED
      BY <1>1, <2>1, <2>2, <2>3, Zenon
  <1>4. ASSUME NEW i \in 1 .. Len(filled) PROVE filled[i] = m[i]
    <2>1. CASE i \in 1 .. Len(buf)
      BY <1>1, <2>1, Zenon DEF Begins
    <2>2. CASE i \notin 1 .. Len(buf)
      <3>1. i - Len(buf) \in 1 .. count /\ Len(buf) + (i - Len(buf)) = i
        BY <1>1, <1>2, <2>2
      <3>2. filled[Len(buf) + (i - Len(buf))] = m[Len(buf) + (i - Len(buf))]
        BY <1>3, <3>1, Zenon
      <3> QED
        BY <3>1, <3>2, Zenon
    <2> QED
      BY <2>1, <2>2, Zenon
  <1> QED
    BY <1>4, Zenon DEF filled, Begins

\* Bytes are read of the first message that is not returned.
LEMMA TakeNow ==
  ASSUME FramingInv, failed = "None", NEW count \in 1 .. Len(wire)
  PROVE  LET d == Len(delivered)
             w == SubSeq(wire, count + 1, Len(wire))
             n == Len(current)
         IN  /\ d < Len(sent) /\ w \in Seq(Byte) /\ n \in Lengths /\ n \in Nat
             /\ Taken + count <= Len(PrefixOf(coding, n)) + n =>
                   /\ Laid(w, Unread, Taken + count)
                   /\ \A i \in 1 .. count : wire[i] = FrameOf(coding, d + 1, current)[Taken + i]
             /\ \A i \in 1 .. Len(PrefixOf(coding, n)) :
                   FrameOf(coding, d + 1, current)[i].value = PrefixOf(coding, n)[i]
  <1> DEFINE d == Len(delivered)
             w == SubSeq(wire, count + 1, Len(wire))
             n == Len(current)
  <1>1. /\ coding \in {"fixed", "varint"} /\ sent \in Seq(Seq(Byte)) /\ d \in 0 .. Len(sent)
        /\ \A k \in 1 .. Len(sent) : Len(sent[k]) \in Lengths
        /\ wire \in Seq(Byte)
    BY Messages, Zenon
  <1>2. Taken \in Nat /\ Laid(wire, UnreadOf(coding, sent, d), Taken)
    BY TakenIsNat, Zenon DEF FramingInv, Unread
  <1>3. /\ d < Len(sent) /\ w \in Seq(Byte)
        /\ Taken + count <= Len(PrefixOf(coding, n)) + n =>
              /\ Laid(w, UnreadOf(coding, sent, d), Taken + count)
              /\ \A i \in 1 .. count : wire[i] = FrameOf(coding, d + 1, current)[Taken + i]
    BY <1>1, <1>2, TakeCurrent, Zenon DEF current
  <1>4. n \in Lengths /\ n \in Nat /\ current \in Seq(Byte) /\ d + 1 \in Nat
    <2>1. d \in Nat
      BY Messages, Zenon
    <2>2. d + 1 \in Nat
      BY <2>1
    <2> QED
      BY <1>3, <2>2, Messages, Zenon
  <1>5. \A i \in 1 .. Len(PrefixOf(coding, n)) :
          FrameOf(coding, d + 1, current)[i].value = PrefixOf(coding, n)[i]
    BY <1>1, <1>4, FrameFacts, Zenon
  <1> QED
    BY <1>3, <1>4, <1>5, Zenon DEF Unread

\* The control connection reads bytes of a length.
LEMMA FixedLengthInv ==
  ASSUME FramingInv, coding = "fixed", UNCHANGED <<coding, length, length_shift, body>>,
         NEW count \in 1 .. Len(wire), ReadLength(count)
  PROVE  FramingInv'
  <1> DEFINE d == Len(delivered)
             filled == len_buf \o SubSeq(wire, 1, count)
             w == SubSeq(wire, count + 1, Len(wire))
             n == Len(current)
  <1>1. /\ reading /\ count <= LENGTH_SIZE - Len(len_buf) /\ count <= Len(wire)
        /\ wire' = w /\ sent' = sent /\ ended' = ended
        /\ len_buf' = filled /\ body_buf' = body_buf /\ coding' = coding
        /\ Len(filled) < LENGTH_SIZE =>
             body_expected' = body_expected /\ UNCHANGED caller
        /\ ~(Len(filled) < LENGTH_SIZE) =>
             /\ body_expected' = from_be_bytes(filled)
             /\ from_be_bytes(filled) \in 1 .. MAX_FRAME_SIZE => UNCHANGED caller
             /\ from_be_bytes(filled) \notin 1 .. MAX_FRAME_SIZE => Fail("InvalidData")
    BY Zenon DEF ReadLength, Take
  <1>2. failed = "None" /\ FixedInv /\ body_expected \in Nat /\ Laid(wire, Unread, Taken)
    BY <1>1, Zenon DEF FramingInv, ReaderInv
  <1>3. len_buf \in Seq(Byte) /\ LENGTH_SIZE \in Nat /\ Len(len_buf) \in Nat /\ Len(len_buf) < LENGTH_SIZE
    <2>1. len_buf \in Seq(Byte)
      BY <1>2, Zenon DEF FixedInv
    <2>2. count <= LENGTH_SIZE - Len(len_buf)
      BY <1>1, Zenon
    <2> QED
      BY <2>1, <2>2, FramedReaderAssumption
  <1>4. body_buf = << >> /\ body_expected = 0
    BY <1>2, <1>3, Zenon DEF FixedInv
  <1>5. Taken = Len(len_buf)
    <2>1. Len(<< >>) = 0 /\ Len(len_buf) + 0 = Len(len_buf)
      BY <1>3
    <2> QED
      BY <1>4, <2>1, Zenon DEF Taken
  <1>6. /\ d < Len(sent) /\ w \in Seq(Byte) /\ n \in Lengths /\ n \in Nat
        /\ Len(len_buf) + count <= Len(PrefixOf(coding, n)) + n =>
              /\ Laid(w, Unread, Len(len_buf) + count)
              /\ \A i \in 1 .. count : wire[i] = FrameOf(coding, d + 1, current)[Len(len_buf) + i]
        /\ \A i \in 1 .. Len(PrefixOf(coding, n)) :
              FrameOf(coding, d + 1, current)[i].value = PrefixOf(coding, n)[i]
    BY <1>2, <1>5, TakeNow, Zenon
  <1>7. Len(PrefixOf(coding, n)) = LENGTH_SIZE /\ PrefixOf(coding, n) = to_be_bytes(n)
    BY <1>6, Messages, PrefixFacts, Zenon
  <1>8. /\ filled \in Seq(Byte) /\ Len(filled) = Len(len_buf) + count
        /\ \A i \in 1 .. Len(len_buf) : filled[i] = len_buf[i]
        /\ \A i \in 1 .. count : filled[Len(len_buf) + i] = wire[i]
    BY <1>3, Messages, FillFacts, Zenon
  <1> HIDE DEF filled, w, n
  <1>9. count \in Nat /\ Len(len_buf) + count <= LENGTH_SIZE /\ Len(len_buf) + count <= LENGTH_SIZE + n
    <2>1. count <= LENGTH_SIZE - Len(len_buf) /\ n \in Nat
      BY <1>1, <1>6, Zenon
    <2> QED
      BY <1>3, <2>1
  <1>10. /\ Laid(w, Unread, Len(filled))
         /\ \A i \in 1 .. count : wire[i] = FrameOf(coding, d + 1, current)[Len(len_buf) + i]
    BY <1>6, <1>7, <1>8, <1>9, Zenon
  <1>11. ASSUME NEW i \in 1 .. Len(filled) PROVE filled[i].value = to_be_bytes(n)[i]
    <2>1. CASE i \in 1 .. Len(len_buf)
      BY <1>2, <1>6, <1>8, <2>1, Zenon DEF FixedInv, n
    <2>2. CASE i \notin 1 .. Len(len_buf)
      <3> DEFINE j == i - Len(len_buf)
      <3>1. j \in 1 .. count /\ Len(len_buf) + j = i /\ i \in 1 .. LENGTH_SIZE
        BY <1>3, <1>8, <1>9, <2>2
      <3> HIDE DEF j
      <3>2. filled[i] = FrameOf(coding, d + 1, current)[i]
        BY <1>8, <1>10, <3>1, Zenon
      <3>3. FrameOf(coding, d + 1, current)[i].value = PrefixOf(coding, n)[i]
        BY <1>6, <1>7, <3>1, Zenon
      <3> QED
        BY <1>7, <3>2, <3>3, Zenon
    <2> QED
      BY <2>1, <2>2, Zenon
  <1>12. Len(filled) \in Nat /\ Len(filled) <= LENGTH_SIZE
    BY <1>3, <1>8, <1>9
  <1>13. ASSUME delivered' = delivered
         PROVE  /\ current' = current /\ Unread' = Unread /\ Taken' = Len(filled)
                /\ Len(delivered') < Len(sent')
    <2>1. current' = current /\ Unread' = Unread /\ Len(delivered') < Len(sent')
      BY <1>1, <1>6, <1>13, Zenon DEF current, Unread
    <2>2. Len(<< >>) = 0 /\ Len(filled) + 0 = Len(filled)
      BY <1>12
    <2>3. Taken' = Len(filled)
      BY <1>1, <1>4, <2>2, Zenon DEF Taken
    <2> QED
      BY <2>1, <2>3, Zenon
  <1>14. << >> \in Seq(Byte) /\ Len(<< >>) = 0 /\ 1 .. 0 = {} /\ 0 \in Nat
    OBVIOUS
  <1>15. CASE Len(filled) < LENGTH_SIZE
    <2>1. reading' = reading /\ delivered' = delivered /\ failed' = failed
      BY <1>1, <1>15 DEF caller
    <2>2. body_expected' = 0
      BY <1>1, <1>4, <1>15, Zenon
    <2>3. FixedInv'
      BY <1>1, <1>4, <1>8, <1>11, <1>12, <1>13, <1>14, <1>15, <2>1, <2>2, Zenon DEF FixedInv, n
    <2>4. Laid(wire', Unread', Taken') /\ wire' \in Seq(Byte)
      BY <1>1, <1>6, <1>10, <1>13, <2>1, Zenon DEF w
    <2>5. ReaderInv'
      BY <1>1, <2>3, Zenon DEF ReaderInv
    <2>6. UNCHANGED <<sent, delivered, ended, coding, reading, failed>>
      BY <1>1, <2>1
    <2>7. body_expected' \in Nat
      BY <1>14, <2>2, Zenon
    <2> QED
      BY <2>4, <2>5, <2>6, <2>7, ReadInv, Zenon
  <1>16. CASE ~(Len(filled) < LENGTH_SIZE)
    <2>1. Len(filled) = LENGTH_SIZE
      BY <1>3, <1>12, <1>16
    <2>2. from_be_bytes(filled) = n
      BY <1>6, <1>11, <2>1, LengthRoundTrip, Zenon
    <2>3. CASE n \in 1 .. MAX_FRAME_SIZE
      <3>1. body_expected' = n /\ reading' = reading /\ delivered' = delivered /\ failed' = failed
        BY <1>1, <1>16, <2>2, <2>3 DEF caller
      <3>2. 0 < n
        BY <2>3
      <3>3. BodyInv(body_buf)'
        BY <1>1, <1>4, <1>13, <1>14, <2>3, <3>1, <3>2, Zenon DEF BodyInv, n
      <3>4. FixedInv'
        BY <1>1, <1>4, <1>8, <1>11, <1>12, <1>13, <1>14, <1>16, <3>1, <3>3, Zenon DEF FixedInv, n
      <3>5. Laid(wire', Unread', Taken') /\ wire' \in Seq(Byte)
        BY <1>1, <1>6, <1>10, <1>13, <3>1, Zenon DEF w
      <3>6. ReaderInv'
        BY <1>1, <3>4, Zenon DEF ReaderInv
      <3>7. UNCHANGED <<sent, delivered, ended, coding, reading, failed>>
        BY <1>1, <3>1
      <3>8. body_expected' \in Nat
        BY <1>6, <3>1, Zenon
      <3> QED
        BY <3>5, <3>6, <3>7, <3>8, ReadInv, Zenon
    <2>4. CASE n \notin 1 .. MAX_FRAME_SIZE
      <3>1. failed' = "InvalidData" /\ reading' = FALSE /\ delivered' = delivered
        BY <1>1, <1>16, <2>2, <2>4 DEF Fail
      <3>2. UNCHANGED <<sent, delivered, ended, coding>> /\ wire' \in Seq(Byte)
        BY <1>1, <1>6, <3>1
      <3> QED
        BY <1>6, <2>4, <3>1, <3>2, FailInv, Zenon DEF n
    <2> QED
      BY <2>3, <2>4, Zenon
  <1> QED
    BY <1>15, <1>16, Zenon

\* The reader holds the prefix and buf.
Holds(buf) == Taken = Len(PrefixOf(coding, Len(current))) + Len(buf)

\* What a read of the body adds, for either reader: buf is what it holds.
LEMMA BodyStep ==
  ASSUME FramingInv, failed = "None", NEW count \in 1 .. Len(wire),
         NEW buf \in Seq(Byte), BodyInv(buf), count <= body_expected - Len(buf),
         Holds(buf)
  PROVE  LET filled == buf \o SubSeq(wire, 1, count)
             w == SubSeq(wire, count + 1, Len(wire))
         IN  /\ Len(delivered) < Len(sent) /\ w \in Seq(Byte) /\ filled \in Seq(Byte)
             /\ Len(filled) = Len(buf) + count /\ Len(filled) <= body_expected
             /\ \A i \in 1 .. Len(filled) : filled[i] = current[i]
             /\ Len(filled) = body_expected => filled = current
             /\ Laid(w, Unread, Len(PrefixOf(coding, Len(current))) + Len(filled))
  <1> DEFINE d == Len(delivered)
             filled == buf \o SubSeq(wire, 1, count)
             w == SubSeq(wire, count + 1, Len(wire))
             n == Len(current)
             l == Len(PrefixOf(coding, n))
  <1>1. /\ d < Len(sent) /\ w \in Seq(Byte) /\ n \in Lengths /\ n \in Nat
        /\ Taken + count <= l + n =>
              /\ Laid(w, Unread, Taken + count)
              /\ \A i \in 1 .. count : wire[i] = FrameOf(coding, d + 1, current)[Taken + i]
    BY TakeNow, Zenon
  <1>2. /\ filled \in Seq(Byte) /\ Len(filled) = Len(buf) + count
    BY Messages, FillFacts, Zenon
  <1>3. l \in Nat /\ Len(buf) \in Nat /\ count \in Nat
    <2>1. l \in Nat \ {0}
      BY <1>1, Messages, PrefixFacts, Zenon
    <2> HIDE DEF l
    <2> QED
      BY <2>1
  <1>4. body_expected = n /\ \A i \in 1 .. Len(buf) : buf[i] = current[i]
    BY Zenon DEF BodyInv
  <1>5. Taken = l + Len(buf)
    BY Zenon DEF Holds
  <1>6. current \in Seq(Byte) /\ d + 1 \in Nat
    <2>1. d \in Nat
      BY Messages, Zenon
    <2>2. d + 1 \in Nat
      BY <2>1
    <2> QED
      BY <1>1, <2>2, Messages, Zenon
  <1>7. Len(buf) + count <= n /\ (l + Len(buf)) + count <= l + n /\ (l + Len(buf)) + count = l + (Len(buf) + count)
    <2>1. count <= n - Len(buf)
      BY <1>4, Zenon
    <2> HIDE DEF n, l
    <2> QED
      BY <1>1, <1>3, <2>1
  <1>8. /\ Laid(w, Unread, l + Len(filled))
        /\ \A i \in 1 .. count : wire[i] = FrameOf(coding, d + 1, current)[(l + Len(buf)) + i]
    <2> HIDE DEF filled, w, n, l
    <2>1. Taken + count <= l + n
      BY <1>5, <1>7, Zenon
    <2>2. Laid(w, Unread, Taken + count)
      BY <1>1, <2>1, Zenon
    <2>3. Taken + count = l + Len(filled)
      BY <1>2, <1>5, <1>7, Zenon
    <2> QED
      BY <1>1, <1>5, <2>1, <2>2, <2>3, Zenon
  <1>9. (\A i \in 1 .. Len(filled) : filled[i] = current[i]) /\ (Len(filled) = n => filled = current)
    <2>1. coding \in Codings /\ wire \in Seq(Byte)
      BY Messages, Zenon DEF Codings
    <2>2. current \in Seq(Byte) /\ Len(current) \in Lengths /\ d + 1 \in Nat /\ Len(buf) + count <= Len(current)
      BY <1>1, <1>6, <1>7, Zenon
    <2>3. Begins(buf, current)
      BY <1>4, Zenon DEF Begins
    <2>4. Continues(wire, count, FrameOf(coding, d + 1, current), Len(PrefixOf(coding, Len(current))) + Len(buf))
      BY <1>8, Zenon DEF Continues
    <2> HIDE DEF d
    <2>5. Begins(filled, current)
      BY <2>1, <2>2, <2>3, <2>4, FillBody, Zenon
    <2> HIDE DEF filled
    <2>6. \A i \in 1 .. Len(filled) : filled[i] = current[i]
      BY <2>5, Zenon DEF Begins
    <2> QED
      BY <1>2, <2>2, <2>6, SeqEqual, Zenon
  <1> HIDE DEF filled, w, n, l
  <1>10. Len(filled) <= body_expected
    BY <1>2, <1>4, <1>7, Zenon
  <1> QED
    BY <1>1, <1>2, <1>4, <1>8, <1>9, <1>10, Zenon DEF filled, w, n, l

\* The control connection reads bytes of a body.
LEMMA FixedBodyInv ==
  ASSUME FramingInv, coding = "fixed", UNCHANGED <<coding, length, length_shift, body>>,
         NEW count \in 1 .. Len(wire), ReadBody(count)
  PROVE  FramingInv'
  <1> DEFINE filled == body_buf \o SubSeq(wire, 1, count)
             w == SubSeq(wire, count + 1, Len(wire))
             n == Len(current)
  <1>1. /\ body_expected > 0 /\ reading /\ count <= body_expected - Len(body_buf)
        /\ wire' = w /\ sent' = sent /\ ended' = ended /\ coding' = coding
        /\ Len(filled) = body_expected /\ decodes(filled) =>
             Return(filled) /\ len_buf' = << >> /\ body_buf' = << >> /\ body_expected' = 0
        /\ ~(Len(filled) = body_expected /\ decodes(filled)) =>
             /\ body_buf' = filled /\ len_buf' = len_buf /\ body_expected' = body_expected
             /\ Len(filled) < body_expected => UNCHANGED caller
             /\ ~(Len(filled) < body_expected) => Fail("InvalidData")
    BY DEF ReadBody, Take
  <1>2. failed = "None" /\ FixedInv /\ body_expected \in Nat
    BY <1>1, Zenon DEF FramingInv, ReaderInv
  <1>3. len_buf \in Seq(Byte) /\ body_buf \in Seq(Byte) /\ Len(len_buf) <= LENGTH_SIZE
    BY <1>2, Zenon DEF FixedInv
  <1>4. ~(Len(len_buf) < LENGTH_SIZE) /\ BodyInv(body_buf)
    <2>1. body_expected # 0
      BY <1>1, <1>2
    <2> QED
      BY <1>2, <2>1, Zenon DEF FixedInv
  <1>5. Len(len_buf) = LENGTH_SIZE /\ LENGTH_SIZE \in Nat
    BY <1>3, <1>4, FramedReaderAssumption
  <1>6. Len(delivered) < Len(sent) /\ n \in Lengths
    BY <1>2, TakeNow, Zenon
  <1>7. Len(PrefixOf(coding, n)) = LENGTH_SIZE
    BY <1>6, Messages, PrefixFacts, Zenon
  <1>8. Taken = Len(PrefixOf(coding, n)) + Len(body_buf)
    BY <1>5, <1>7, Zenon DEF Taken
  <1>9. /\ w \in Seq(Byte) /\ filled \in Seq(Byte)
        /\ Len(filled) = Len(body_buf) + count /\ Len(filled) <= body_expected
        /\ \A i \in 1 .. Len(filled) : filled[i] = current[i]
        /\ Len(filled) = body_expected => filled = current
        /\ Laid(w, Unread, Len(PrefixOf(coding, n)) + Len(filled))
    BY <1>1, <1>2, <1>3, <1>4, <1>8, BodyStep, Zenon DEF Holds
  <1>10. body_expected = n /\ body_expected \in 1 .. MAX_FRAME_SIZE
    BY <1>4, Zenon DEF BodyInv
  <1> HIDE DEF filled, w, n
  <1>11. CASE Len(filled) = body_expected /\ decodes(filled)
    <2>1. Return(current) /\ len_buf' = << >> /\ body_buf' = << >> /\ body_expected' = 0
      BY <1>1, <1>9, <1>11, Zenon
    <2>2. Laid(wire', Unread, Len(PrefixOf(coding, Len(current))) + Len(current)) /\ wire' \in Seq(Byte)
      BY <1>1, <1>9, <1>10, <1>11, Zenon DEF n
    <2>3. UNCHANGED <<sent, ended, coding>>
      BY <1>1
    <2> QED
      BY <1>2, <1>6, <2>1, <2>2, <2>3, ReturnInv, Zenon
  <1>12. CASE Len(filled) < body_expected
    <2>1. Len(filled) # body_expected
      BY <1>2, <1>12
    <2>2. /\ body_buf' = filled /\ len_buf' = len_buf /\ body_expected' = body_expected
          /\ reading' = reading /\ delivered' = delivered /\ failed' = failed
      BY <1>1, <1>12, <2>1, Zenon DEF caller
    <2>3. current' = current /\ Unread' = Unread
      BY <1>1, <2>2, Zenon DEF current, Unread
    <2>4. Taken' = Len(PrefixOf(coding, n)) + Len(filled)
      BY <1>1, <1>5, <1>7, <2>2, Zenon DEF Taken
    <2>5. BodyInv(body_buf)'
      BY <1>9, <1>10, <1>12, <2>2, <2>3, Zenon DEF BodyInv, n
    <2>6. FixedInv'
      BY <1>1, <1>2, <1>4, <1>9, <2>2, <2>3, <2>5, Zenon DEF FixedInv
    <2>7. ReaderInv'
      BY <1>1, <2>6, Zenon DEF ReaderInv
    <2>8. Laid(wire', Unread', Taken') /\ wire' \in Seq(Byte)
      BY <1>1, <1>9, <2>3, <2>4, Zenon
    <2>9. UNCHANGED <<sent, delivered, ended, coding, reading, failed>> /\ body_expected' \in Nat
      BY <1>1, <1>2, <2>2
    <2> QED
      BY <2>7, <2>8, <2>9, ReadInv, Zenon
  <1>13. CASE ~(Len(filled) < body_expected) /\ ~(Len(filled) = body_expected /\ decodes(filled))
    <2>1. Len(filled) = body_expected
      <3>1. Len(filled) \in Nat
        BY <1>9
      <3> QED
        BY <1>2, <1>9, <1>13, <3>1
    <2>2. ~decodes(current)
      BY <1>9, <1>13, <2>1, Zenon
    <2>3. failed' = "InvalidData" /\ reading' = FALSE /\ delivered' = delivered
      BY <1>1, <1>13 DEF Fail
    <2>4. UNCHANGED <<sent, delivered, ended, coding>> /\ wire' \in Seq(Byte)
      BY <1>1, <1>9, <2>3
    <2> QED
      BY <1>6, <2>2, <2>3, <2>4, FailInv, Zenon
  <1> QED
    BY <1>11, <1>12, <1>13, Zenon

\* The Android TV connections read bytes of a body.
LEMMA VarintBodyInv ==
  ASSUME FramingInv, coding = "varint", UNCHANGED <<coding, len_buf, body_buf>>,
         NEW count \in 1 .. Len(wire), varint!ReadBody(count)
  PROVE  FramingInv'
  <1> DEFINE filled == body \o SubSeq(wire, 1, count)
             w == SubSeq(wire, count + 1, Len(wire))
             n == Len(current)
  <1>1. /\ body_expected > 0 /\ reading /\ count <= body_expected - Len(body)
        /\ wire' = w /\ sent' = sent /\ ended' = ended /\ coding' = coding
        /\ Len(filled) < body_expected =>
             /\ body' = filled /\ length' = length /\ length_shift' = length_shift
             /\ body_expected' = body_expected
             /\ reading' = reading /\ delivered' = delivered /\ failed' = failed
        /\ ~(Len(filled) < body_expected) =>
             /\ Return(filled) /\ length' = 0 /\ length_shift' = 0 /\ body' = << >> /\ body_expected' = 0
    BY Zenon DEF varint!ReadBody, varint!Take, varint!Return, varint!caller, Return
  <1>2. failed = "None" /\ VarintInv /\ body_expected \in Nat /\ body_expected # 0
    <2>1. failed = "None" /\ VarintInv /\ body_expected \in Nat
      BY <1>1 DEF FramingInv, ReaderInv
    <2> QED
      BY <1>1, <2>1
  <1>3. /\ body \in Seq(Byte) /\ length \in Nat /\ length_shift \in 0 .. LENGTH_GROUPS - 1
        /\ length_shift + 1 = Len(varint!encode_varint(n)) /\ BodyInv(body)
    BY <1>2, Zenon DEF VarintInv
  <1>4. PrefixOf(coding, n) = varint!encode_varint(n) /\ coding # "fixed"
    BY DEF PrefixOf
  <1>5. Taken = Len(PrefixOf(coding, n)) + Len(body)
    BY <1>2, <1>3, <1>4, Zenon DEF Taken
  <1>6. /\ Len(delivered) < Len(sent) /\ w \in Seq(Byte) /\ filled \in Seq(Byte)
        /\ Len(filled) = Len(body) + count /\ Len(filled) <= body_expected
        /\ \A i \in 1 .. Len(filled) : filled[i] = current[i]
        /\ Len(filled) = body_expected => filled = current
        /\ Laid(w, Unread, Len(PrefixOf(coding, n)) + Len(filled))
    BY <1>1, <1>2, <1>3, <1>5, BodyStep, Zenon DEF Holds
  <1>7. body_expected = n /\ body_expected \in 1 .. MAX_FRAME_SIZE
    BY <1>3, Zenon DEF BodyInv
  <1> HIDE DEF filled, w, n
  <1>8. CASE Len(filled) < body_expected
    <2>1. current' = current /\ Unread' = Unread
      BY <1>1, <1>8, Zenon DEF current, Unread
    <2>2. Taken' = Len(PrefixOf(coding, n)) + Len(filled)
      BY <1>1, <1>2, <1>3, <1>4, <1>8, Zenon DEF Taken
    <2>3. BodyInv(body)'
      BY <1>1, <1>6, <1>7, <1>8, <2>1, Zenon DEF BodyInv, n
    <2>4. VarintInv'
      BY <1>1, <1>2, <1>3, <1>6, <1>8, <2>1, <2>3, Zenon DEF VarintInv, n
    <2>5. ReaderInv'
      BY <1>1, <1>4, <2>4, Zenon DEF ReaderInv
    <2>6. Laid(wire', Unread', Taken') /\ wire' \in Seq(Byte)
      BY <1>1, <1>6, <2>1, <2>2, Zenon
    <2>7. UNCHANGED <<sent, delivered, ended, coding, reading, failed>> /\ body_expected' \in Nat
      BY <1>1, <1>2, <1>8
    <2> QED
      BY <2>5, <2>6, <2>7, ReadInv, Zenon
  <1>9. CASE ~(Len(filled) < body_expected)
    <2>1. Len(filled) = body_expected
      <3>1. Len(filled) \in Nat
        BY <1>6
      <3> QED
        BY <1>2, <1>6, <1>9, <3>1
    <2>2. Return(current) /\ length' = 0 /\ length_shift' = 0 /\ body' = << >> /\ body_expected' = 0
      BY <1>1, <1>6, <1>9, <2>1, Zenon
    <2>3. Laid(wire', Unread, Len(PrefixOf(coding, Len(current))) + Len(current)) /\ wire' \in Seq(Byte)
      BY <1>1, <1>6, <1>7, <2>1, Zenon DEF n
    <2>4. UNCHANGED <<sent, ended, coding>>
      BY <1>1
    <2> QED
      BY <1>2, <1>4, <1>6, <2>2, <2>3, <2>4, ReturnInv, Zenon
  <1> QED
    BY <1>8, <1>9, Zenon

\* A digit survives the continuation bit.
LEMMA DigitMod ==
  ASSUME NEW g \in Nat \ {0}, NEW r \in 0 .. g - 1
  PROVE  r % g = r /\ (r + g) % g = r
  <1>1. r \div g \in Nat /\ r % g \in 0 .. g - 1 /\ r = g * (r \div g) + (r % g)
    <2>1. r \in Nat
      OBVIOUS
    <2> QED
      BY <2>1, DivMod, Zenon
  <1>2. (r + g) \div g \in Nat /\ (r + g) % g \in 0 .. g - 1 /\ r + g = g * ((r + g) \div g) + ((r + g) % g)
    <2>1. r + g \in Nat
      OBVIOUS
    <2> QED
      BY <2>1, DivMod, Zenon
  <1>3. ASSUME NEW q \in Nat PROVE q = 0 \/ q = 1 \/ g * q >= 2 * g
    OBVIOUS
  <1>4. g * 0 = 0 /\ g * 1 = g
    OBVIOUS
  <1>5. ASSUME NEW q \in Nat, NEW m \in 0 .. g - 1, r = g * q + m PROVE m = r
    BY <1>3, <1>4, <1>5
  <1>6. ASSUME NEW q \in Nat, NEW m \in 0 .. g - 1, r + g = g * q + m PROVE m = r
    BY <1>3, <1>4, <1>6
  <1> QED
    BY <1>1, <1>2, <1>5, <1>6, Zenon

\* What read_frame makes of the next byte of a length.
LEMMA VarintByte ==
  ASSUME NEW n \in Lengths, NEW shift \in 0 .. LENGTH_GROUPS - 1, NEW so_far \in Nat,
         shift < Len(varint!encode_varint(n)),
         n = so_far + varint!weight[shift] * shifted(n, GROUP, LENGTH_GROUPS)[shift]
  PROVE  LET enc == varint!encode_varint(n)
             value == enc[shift + 1]
             joined == so_far + (value % GROUP) * varint!weight[shift]
         IN  /\ Len(enc) \in 1 .. LENGTH_GROUPS /\ value \in Nat /\ joined \in Nat
             /\ value >= GROUP => /\ shift + 1 < Len(enc)
                                  /\ n = joined + varint!weight[shift + 1]
                                              * shifted(n, GROUP, LENGTH_GROUPS)[shift + 1]
             /\ ~(value >= GROUP) => shift + 1 = Len(enc) /\ joined = n
             /\ shift = LENGTH_GROUPS - 1 /\ value > 1 => n > MAX_FRAME_SIZE
  <1> DEFINE enc == varint!encode_varint(n)
             rest == shifted(n, GROUP, LENGTH_GROUPS)
             wt == varint!weight
             i == shift + 1
             r == rest[shift] % GROUP
  <1>1. PICK size \in 1 .. LENGTH_GROUPS :
           /\ enc \in [1 .. size -> Nat] /\ rest[size] = 0
           /\ \A k \in 1 .. size : enc[k] = (rest[k - 1] % GROUP) + (IF k < size THEN GROUP ELSE 0)
    BY VarintFacts, Zenon
  <1>2. GROUP \in Nat \ {0} /\ LENGTH_GROUPS \in Nat \ {0} /\ n \in Nat
    <2> HIDE DEF rest, wt, enc
    <2> QED
      BY StreamAssumption, VarintReaderAssumption
  <1>3. i \in 1 .. LENGTH_GROUPS /\ i - 1 = shift /\ size \in Nat /\ shift \in Nat
    BY <1>2
  <1>4. n = so_far + wt[i - 1] * rest[i - 1]
    BY <1>3, Zenon
  <1>5. /\ wt[i - 1] \in Nat /\ wt[i] \in Nat /\ rest[i - 1] \in Nat /\ rest[i] \in Nat
        /\ rest[i - 1] % GROUP \in 0 .. GROUP - 1 /\ rest[i - 1] % GROUP <= rest[i - 1]
        /\ n = (so_far + (rest[i - 1] % GROUP) * wt[i - 1]) + wt[i] * rest[i]
    <2> HIDE DEF i
    <2> QED
      BY <1>3, <1>4, VarintStep, Zenon
  <1>6. /\ wt[shift] \in Nat /\ wt[i] \in Nat /\ rest[shift] \in Nat /\ rest[i] \in Nat
        /\ r \in 0 .. GROUP - 1 /\ r <= rest[shift]
        /\ n = (so_far + r * wt[shift]) + wt[i] * rest[i]
    BY <1>3, <1>5, Zenon
  <1>7. Len(enc) = size
    <2> HIDE DEF enc
    <2> QED
      BY <1>1, <1>3
  <1>8. i <= size
    <2>1. shift < size
      BY <1>7, Zenon
    <2> QED
      BY <1>3, <2>1
  <1>9. enc[i] = r + (IF i < size THEN GROUP ELSE 0)
    <2>1. i \in 1 .. size
      BY <1>3, <1>8
    <2> HIDE DEF i, enc
    <2>2. enc[i] = (rest[i - 1] % GROUP) + (IF i < size THEN GROUP ELSE 0)
      BY <1>1, <2>1, Zenon
    <2> QED
      BY <1>3, <2>2
  <1>10. n = so_far + wt[shift] * rest[shift]
    OBVIOUS
  <1> HIDE DEF enc, rest, wt, r
  <1>11. r % GROUP = r /\ (r + GROUP) % GROUP = r
    BY <1>2, <1>6, DigitMod, Zenon
  <1>12. r \in Nat /\ r * wt[shift] \in Nat /\ so_far + r * wt[shift] \in Nat
    <2>1. ASSUME NEW a \in Nat, NEW b \in Nat PROVE a * b \in Nat /\ so_far + a * b \in Nat
      OBVIOUS
    <2>2. \A a \in 0 .. GROUP - 1 : a \in Nat
      BY <1>2
    <2> QED
      BY <1>6, <2>1, <2>2, Zenon
  <1>13. enc[i] \in Nat /\ enc[i] % GROUP = r /\ (enc[i] >= GROUP <=> i < size) /\ (~(i < size) => enc[i] = r)
    <2>1. CASE i < size
      <3>1. enc[i] = r + GROUP
        BY <1>9, <2>1
      <3>2. r + GROUP \in Nat /\ r + GROUP >= GROUP
        BY <1>2, <1>12
      <3> QED
        BY <1>11, <2>1, <3>1, <3>2, Zenon
    <2>2. CASE ~(i < size)
      <3>1. enc[i] = r + 0
        BY <1>9, <2>2
      <3>2. r + 0 = r /\ ~(r >= GROUP)
        BY <1>2, <1>6
      <3>3. enc[i] = r
        BY <3>1, <3>2, Zenon
      <3> QED
        BY <1>11, <1>12, <2>2, <3>2, <3>3, Zenon
    <2> QED
      BY <2>1, <2>2, Zenon
  <1>14. ASSUME ~(i < size) PROVE i = size /\ so_far + r * wt[shift] = n
    <2>1. i = size
      BY <1>3, <1>8, <1>14
    <2>2. rest[i] = 0
      BY <1>1, <2>1, Zenon
    <2>3. wt[i] * 0 = 0
      BY <1>6
    <2>4. n = (so_far + r * wt[shift]) + 0
      <3>1. n = (so_far + r * wt[shift]) + wt[i] * rest[i]
        BY <1>6, Zenon
      <3> HIDE DEF i
      <3> QED
        BY <2>2, <2>3, <3>1
    <2> QED
      BY <1>12, <2>1, <2>4
  <1>15. ASSUME shift = LENGTH_GROUPS - 1, enc[i] > 1 PROVE n > MAX_FRAME_SIZE
    <2>1. ~(i < size)
      BY <1>2, <1>3, <1>15
    <2>2. enc[i] = r
      BY <1>13, <2>1, Zenon
    <2>3. rest[shift] >= 2
      <3>1. r > 1
        BY <1>15, <2>2, Zenon
      <3>2. ASSUME NEW a \in Nat, NEW b \in Nat, a > 1, a <= b PROVE b >= 2
        BY <3>2
      <3> QED
        BY <1>6, <1>12, <3>1, <3>2, Zenon
    <2>4. MAX_FRAME_SIZE < 2 * wt[shift]
      BY <1>15, VarintReaderAssumption, Zenon DEF wt
    <2>5. ASSUME NEW a \in Nat, NEW b \in Nat, b >= 2 PROVE a * b >= 2 * a
      BY <2>5
    <2>6. wt[shift] * rest[shift] >= 2 * wt[shift]
      BY <1>6, <2>3, <2>5, Zenon
    <2>7. ASSUME NEW a \in Nat, NEW p \in Nat, p >= 2 * a, n = so_far + p, MAX_FRAME_SIZE < 2 * a PROVE n > MAX_FRAME_SIZE
      BY <1>2, <2>7, StreamAssumption
    <2>8. wt[shift] * rest[shift] \in Nat
      BY <1>6, SMTT(30)
    <2> QED
      BY <1>6, <1>10, <2>4, <2>6, <2>7, <2>8, Zenon
  <1>16. so_far + (enc[i] % GROUP) * wt[shift] = so_far + r * wt[shift]
    BY <1>13, Zenon
  <1> QED
    <2>1. Len(enc) \in 1 .. LENGTH_GROUPS
      BY <1>7, Zenon
    <2>2. enc[i] >= GROUP => i < Len(enc) /\ n = (so_far + (enc[i] % GROUP) * wt[shift]) + wt[i] * rest[i]
      BY <1>6, <1>7, <1>13, <1>16, Zenon
    <2>3. ~(enc[i] >= GROUP) => i = Len(enc) /\ so_far + (enc[i] % GROUP) * wt[shift] = n
      BY <1>7, <1>13, <1>14, <1>16, Zenon
    <2>4. so_far + (enc[i] % GROUP) * wt[shift] \in Nat
      BY <1>12, <1>16, Zenon
    <2> QED
      BY <1>13, <1>15, <2>1, <2>2, <2>3, <2>4, Zenon DEF enc, wt, rest

\* The Android TV connections read a byte of a length.
LEMMA VarintLengthInv ==
  ASSUME FramingInv, coding = "varint", UNCHANGED <<coding, len_buf, body_buf>>, varint!ReadLength
  PROVE  FramingInv'
  <1> DEFINE d == Len(delivered)
             w == SubSeq(wire, 1 + 1, Len(wire))
             n == Len(current)
             enc == varint!encode_varint(n)
             value == wire[1].value
             joined == length + (value % GROUP) * varint!weight[length_shift]
             full == length_shift = LENGTH_GROUPS - 1 /\ value > 1
  <1>1. /\ body_expected = 0 /\ wire # << >> /\ reading
        /\ wire' = w /\ sent' = sent /\ ended' = ended /\ coding' = coding /\ body' = body
        /\ full => Fail("InvalidData")
        /\ ~full /\ value >= GROUP =>
             /\ length' = joined /\ length_shift' = length_shift + 1 /\ body_expected' = body_expected
             /\ reading' = reading /\ delivered' = delivered /\ failed' = failed
        /\ ~full /\ ~(value >= GROUP) =>
             /\ length' = joined /\ length_shift' = length_shift /\ body_expected' = joined
             /\ joined \in 1 .. MAX_FRAME_SIZE => reading' = reading /\ delivered' = delivered /\ failed' = failed
             /\ joined \notin 1 .. MAX_FRAME_SIZE => Fail("InvalidData")
    BY Zenon DEF varint!ReadLength, varint!Take, varint!Fail, varint!caller, Fail
  <1>2. failed = "None" /\ VarintInv
    BY <1>1 DEF FramingInv, ReaderInv
  <1>3. /\ body = << >> /\ length \in Nat /\ length_shift \in 0 .. LENGTH_GROUPS - 1
        /\ d < Len(sent) =>
             /\ length_shift < Len(enc)
             /\ n = length + varint!weight[length_shift] * shifted(n, GROUP, LENGTH_GROUPS)[length_shift]
    BY <1>1, <1>2, Zenon DEF VarintInv
  <1>4. PrefixOf(coding, n) = enc /\ coding # "fixed"
    BY DEF PrefixOf
  <1>5. Taken = length_shift
    BY <1>1, <1>4, Zenon DEF Taken
  <1>6. 1 \in 1 .. Len(wire) /\ 1 \in 1 .. 1
    <2>1. wire \in Seq(Byte) /\ wire # << >>
      BY <1>1, Messages, Zenon
    <2> QED
      BY <2>1
  <1>7. /\ d < Len(sent) /\ w \in Seq(Byte) /\ n \in Lengths /\ n \in Nat
        /\ length_shift + 1 <= Len(PrefixOf(coding, n)) + n =>
              /\ Laid(w, Unread, length_shift + 1)
              /\ \A i \in 1 .. 1 : wire[i] = FrameOf(coding, d + 1, current)[length_shift + i]
        /\ \A i \in 1 .. Len(PrefixOf(coding, n)) :
              FrameOf(coding, d + 1, current)[i].value = PrefixOf(coding, n)[i]
    BY <1>2, <1>5, <1>6, TakeNow, Zenon
  <1>8. /\ Len(enc) \in 1 .. LENGTH_GROUPS
        /\ enc[length_shift + 1] \in Nat
        /\ length + (enc[length_shift + 1] % GROUP) * varint!weight[length_shift] \in Nat
        /\ enc[length_shift + 1] >= GROUP =>
             /\ length_shift + 1 < Len(enc)
             /\ n = (length + (enc[length_shift + 1] % GROUP) * varint!weight[length_shift])
                      + varint!weight[length_shift + 1] * shifted(n, GROUP, LENGTH_GROUPS)[length_shift + 1]
        /\ ~(enc[length_shift + 1] >= GROUP) =>
             /\ length_shift + 1 = Len(enc)
             /\ length + (enc[length_shift + 1] % GROUP) * varint!weight[length_shift] = n
        /\ length_shift = LENGTH_GROUPS - 1 /\ enc[length_shift + 1] > 1 => n > MAX_FRAME_SIZE
    <2>1. length_shift < Len(varint!encode_varint(n))
      BY <1>3, <1>7, Zenon
    <2>2. n = length + varint!weight[length_shift] * shifted(n, GROUP, LENGTH_GROUPS)[length_shift]
      BY <1>3, <1>7, Zenon
    <2>3. n \in Lengths /\ length \in Nat /\ length_shift \in 0 .. LENGTH_GROUPS - 1
      BY <1>3, <1>7, Zenon
    <2> HIDE DEF n
    <2> QED
      BY <2>1, <2>2, <2>3, VarintByte, Zenon
  <1> HIDE DEF w, n, enc
  <1>9. /\ length_shift \in Nat /\ LENGTH_GROUPS \in Nat /\ Len(enc) \in Nat
        /\ length_shift + 1 \in 1 .. Len(enc) /\ length_shift + 1 <= Len(enc) + n
    <2>1. length_shift < Len(enc) /\ Len(enc) \in 1 .. LENGTH_GROUPS /\ n \in Nat
      BY <1>3, <1>7, <1>8, Zenon
    <2>2. length_shift \in 0 .. LENGTH_GROUPS - 1
      BY <1>3, Zenon
    <2> QED
      BY <2>1, <2>2, VarintReaderAssumption
  <1>10. Laid(w, Unread, length_shift + 1) /\ value = enc[length_shift + 1]
    <2>1. /\ Laid(w, Unread, length_shift + 1)
          /\ wire[1] = FrameOf(coding, d + 1, current)[length_shift + 1]
      BY <1>4, <1>6, <1>7, <1>9, Zenon
    <2>2. FrameOf(coding, d + 1, current)[length_shift + 1].value = enc[length_shift + 1]
      BY <1>4, <1>7, <1>9, Zenon
    <2> QED
      BY <2>1, <2>2, Zenon
  <1>11. /\ joined \in Nat
         /\ value >= GROUP =>
             /\ length_shift + 1 < Len(enc)
             /\ n = joined + varint!weight[length_shift + 1] * shifted(n, GROUP, LENGTH_GROUPS)[length_shift + 1]
         /\ ~(value >= GROUP) => length_shift + 1 = Len(enc) /\ joined = n
         /\ full => n > MAX_FRAME_SIZE
    BY <1>8, <1>10, Zenon
  <1> HIDE DEF value, joined, full
  <1>12. CASE full
    <2>1. failed' = "InvalidData" /\ reading' = FALSE /\ delivered' = delivered
      BY <1>1, <1>12 DEF Fail
    <2>2. UNCHANGED <<sent, delivered, ended, coding>> /\ wire' \in Seq(Byte)
      BY <1>1, <1>7, <2>1
    <2>3. n \notin 1 .. MAX_FRAME_SIZE
      <3>1. n > MAX_FRAME_SIZE /\ n \in Nat
        BY <1>7, <1>11, <1>12, Zenon
      <3> QED
        BY <3>1, StreamAssumption
    <2> QED
      BY <1>7, <2>1, <2>2, <2>3, FailInv, Zenon DEF n
  <1>13. CASE ~full /\ value >= GROUP
    <2>1. /\ length' = joined /\ length_shift' = length_shift + 1 /\ body_expected' = 0
          /\ reading' = reading /\ delivered' = delivered /\ failed' = failed
      BY <1>1, <1>13, Zenon
    <2>2. current' = current /\ Unread' = Unread
      BY <1>1, <2>1, Zenon DEF current, Unread
    <2>3. Taken' = length_shift + 1
      BY <1>1, <1>4, <2>1, Zenon DEF Taken
    <2>4. length_shift + 1 \in 0 .. LENGTH_GROUPS - 1 /\ length_shift + 1 # 0
      <3>1. length_shift + 1 < Len(enc) /\ Len(enc) \in 1 .. LENGTH_GROUPS
        BY <1>8, <1>11, <1>13, Zenon
      <3> QED
        BY <1>9, <3>1
    <2>5. << >> \in Seq(Byte)
      OBVIOUS
    <2>6. /\ body' = << >> /\ length' \in Nat /\ length_shift' \in 0 .. LENGTH_GROUPS - 1 /\ length_shift' # 0
      BY <1>1, <1>3, <1>11, <2>1, <2>4, Zenon
    <2>7. /\ length_shift' < Len(varint!encode_varint(Len(current')))
          /\ Len(current') = length' + varint!weight[length_shift']
                               * shifted(Len(current'), GROUP, LENGTH_GROUPS)[length_shift']
      BY <1>11, <1>13, <2>1, <2>2, Zenon DEF n, enc
    <2>8. VarintInv'
      BY <2>1, <2>5, <2>6, <2>7 DEF VarintInv
    <2>9. ReaderInv'
      BY <1>1, <1>4, <2>8, Zenon DEF ReaderInv
    <2>10. Laid(wire', Unread', Taken') /\ wire' \in Seq(Byte)
      BY <1>1, <1>7, <1>10, <2>2, <2>3, Zenon
    <2>11. UNCHANGED <<sent, delivered, ended, coding, reading, failed>> /\ body_expected' \in Nat
      BY <1>1, <2>1
    <2> QED
      BY <2>9, <2>10, <2>11, ReadInv, Zenon
  <1>14. CASE ~full /\ ~(value >= GROUP)
    <2>1. joined = n /\ length_shift + 1 = Len(enc)
      BY <1>11, <1>14, Zenon
    <2>2. length' = n /\ length_shift' = length_shift /\ body_expected' = n
      BY <1>1, <1>14, <2>1, Zenon
    <2>3. CASE n \in 1 .. MAX_FRAME_SIZE
      <3>1. reading' = reading /\ delivered' = delivered /\ failed' = failed
        BY <1>1, <1>14, <2>1, <2>3, Zenon
      <3>2. current' = current /\ Unread' = Unread
        BY <1>1, <3>1, Zenon DEF current, Unread
      <3>3. n # 0 /\ n > 0 /\ Len(<< >>) = 0 /\ << >> \in Seq(Byte) /\ (\A i \in 1 .. 0 : FALSE)
            /\ (length_shift + 1) + 0 = length_shift + 1 /\ 0 < n
        BY <1>9, <2>3
      <3>4. body' = << >>
        BY <1>1, <1>3, Zenon
      <3>5. Taken' = length_shift + 1
        <4>1. body_expected' # 0
          BY <2>2, <3>3, Zenon
        <4>2. Taken' = length_shift' + 1 + Len(body')
          BY <1>1, <1>4, <4>1, Zenon DEF Taken
        <4> QED
          BY <2>2, <3>3, <3>4, <4>2, Zenon
      <3>6. BodyInv(body)'
        <4>1. body_expected' = Len(current') /\ body_expected' \in 1 .. MAX_FRAME_SIZE
          BY <2>2, <2>3, <3>2, Zenon DEF n
        <4>2. Len(body') = 0 /\ Len(body') < body_expected'
          BY <2>2, <3>3, <3>4, Zenon
        <4>3. \A i \in 1 .. Len(body') : FALSE
          BY <3>3, <4>2, Zenon
        <4> QED
          BY <4>1, <4>2, <4>3, Zenon DEF BodyInv
      <3>7. VarintInv'
        <4>1. body' \in Seq(Byte) /\ length' \in Nat /\ length_shift' \in 0 .. LENGTH_GROUPS - 1 /\ body_expected' # 0
          BY <1>3, <1>7, <2>2, <3>3, <3>4, Zenon
        <4>2. length_shift' + 1 = Len(varint!encode_varint(Len(current')))
          BY <2>1, <2>2, <3>2, Zenon DEF n, enc
        <4> QED
          BY <3>6, <4>1, <4>2, Zenon DEF VarintInv
      <3>8. ReaderInv'
        BY <1>1, <1>4, <3>7, Zenon DEF ReaderInv
      <3>9. Laid(wire', Unread', Taken') /\ wire' \in Seq(Byte)
        BY <1>1, <1>7, <1>10, <3>2, <3>5, Zenon
      <3>10. body_expected' \in Nat
        BY <1>7, <2>2, Zenon
      <3>11. UNCHANGED <<sent, delivered, ended, coding, reading, failed>>
        BY <1>1, <3>1
      <3> QED
        BY <3>8, <3>9, <3>10, <3>11, ReadInv, Zenon
    <2>4. CASE n \notin 1 .. MAX_FRAME_SIZE
      <3>1. Fail("InvalidData")
        BY <1>1, <1>14, <2>1, <2>4, Zenon
      <3>2. failed' = "InvalidData" /\ reading' = FALSE /\ delivered' = delivered
        BY <3>1 DEF Fail
      <3>3. UNCHANGED <<sent, delivered, ended, coding>> /\ wire' \in Seq(Byte)
        BY <1>1, <1>7, <3>2
      <3> QED
        BY <1>7, <2>4, <3>2, <3>3, FailInv, Zenon DEF n
    <2> QED
      BY <2>3, <2>4, Zenon
  <1> QED
    BY <1>12, <1>13, <1>14, Zenon

\* A step of either connection that is not a read of bytes.
LEMMA QuietInv ==
  ASSUME FramingInv, UNCHANGED reader_vars, PeerCloses \/ Call \/ Cancel \/ ReadEof
  PROVE  FramingInv'
  <1>1. /\ sent' = sent /\ wire' = wire /\ delivered' = delivered
        /\ ended' \in BOOLEAN /\ (ended => ended') /\ reading' \in BOOLEAN
        /\ failed' = failed \/ (failed' = "UnexpectedEof" /\ ended)
        /\ failed' # "None" => ~reading'
    <2>1. ended \in BOOLEAN /\ reading \in BOOLEAN /\ (failed # "None" => ~reading)
      BY Zenon DEF FramingInv
    <2>2. CASE PeerCloses
      BY <2>1, <2>2 DEF PeerCloses, caller
    <2>3. CASE Call
      BY <2>1, <2>3 DEF Call, stream
    <2>4. CASE Cancel
      BY <2>1, <2>4 DEF Cancel, stream
    <2>5. CASE ReadEof
      BY <2>1, <2>5 DEF ReadEof, Fail, stream
    <2> QED
      BY <2>2, <2>3, <2>4, <2>5, Zenon
  <1>2. UNCHANGED <<sent, wire, delivered, reader_vars>>
    BY <1>1
  <1> QED
    BY <1>1, <1>2, IdleInv, Zenon

\* FramingInv holds from the start and every step of both readers keeps it: the
\* bytes on the stream are the messages not returned, less those the reader holds,
\* and the reader holds the beginning of the very next one, wherever reads returned
\* and were cancelled.
THEOREM FramingInductive == FramingSafety => []FramingInv
  <1>1. FramingInit => FramingInv
    BY InitInv, Zenon
  <1>2. FramingInv /\ [FramingNext]_framing_vars => FramingInv'
    <2> SUFFICES ASSUME FramingInv, [FramingNext]_framing_vars PROVE FramingInv'
      OBVIOUS
    <2>1. CASE Fixed(Next)
      <3>1. coding = "fixed" /\ Next /\ UNCHANGED <<coding, length, length_shift, body>>
        BY <2>1, Zenon DEF Fixed
      <3>2. UNCHANGED reader => UNCHANGED reader_vars
        BY <3>1 DEF reader, reader_vars
      <3>3. \A n \in Lengths : PrefixOf(coding, n) = to_be_bytes(n)
        BY <3>1 DEF PrefixOf
      <3>4. ASSUME NEW n \in Lengths, NEW value \in {0, 1}, PeerSends(n, value, to_be_bytes(n)), UNCHANGED reader
            PROVE  FramingInv'
        <4>1. PeerSends(n, value, PrefixOf(coding, n))
          BY <3>3, <3>4
        <4> QED
          BY <3>2, <3>4, <4>1, PeerSendsInv
      <3>5. ASSUME PeerCloses \/ Call \/ Cancel \/ ReadEof, UNCHANGED reader PROVE FramingInv'
        BY <3>2, <3>5, QuietInv, Zenon
      <3>6. ASSUME NEW count \in 1 .. Len(wire), ReadLength(count) PROVE FramingInv'
        BY <3>1, <3>6, FixedLengthInv
      <3>7. ASSUME NEW count \in 1 .. Len(wire), ReadBody(count) PROVE FramingInv'
        BY <3>1, <3>7, FixedBodyInv
      <3> QED
        BY <3>1, <3>4, <3>5, <3>6, <3>7, Zenon DEF Next, read_message, Read
    <2>2. CASE Varint(varint!Next)
      <3>1. coding = "varint" /\ varint!Next /\ UNCHANGED <<coding, len_buf, body_buf>>
        BY <2>2, Zenon DEF Varint
      <3>2. varint!reader' = varint!reader => UNCHANGED reader_vars
        BY <3>1 DEF varint!reader, reader_vars
      <3>3. \A n \in Lengths : PrefixOf(coding, n) = varint!encode_varint(n)
        BY <3>1 DEF PrefixOf
      <3>4. ASSUME NEW n \in Lengths, varint!PeerSends(n, 1, varint!encode_varint(n)), varint!reader' = varint!reader
            PROVE  FramingInv'
        <4>1. PeerSends(n, 1, PrefixOf(coding, n))
          BY <3>3, <3>4 DEF varint!PeerSends, PeerSends, varint!Bytes, Bytes, varint!caller, caller
        <4>2. 1 \in {0, 1}
          OBVIOUS
        <4> QED
          BY <3>2, <3>4, <4>1, <4>2, PeerSendsInv
      <3>5. ASSUME varint!PeerCloses \/ varint!Call \/ varint!Cancel \/ varint!ReadEof, varint!reader' = varint!reader
            PROVE  FramingInv'
        <4>1. PeerCloses \/ Call \/ Cancel \/ ReadEof
          BY <3>5 DEF varint!PeerCloses, varint!Call, varint!Cancel, varint!ReadEof, varint!Fail,
                      varint!stream, varint!caller, PeerCloses, Call, Cancel, ReadEof, Fail, stream, caller
        <4> QED
          BY <3>2, <3>5, <4>1, QuietInv, Zenon
      <3>6. ASSUME varint!ReadLength PROVE FramingInv'
        BY <3>1, <3>6, VarintLengthInv
      <3>7. ASSUME NEW count \in 1 .. Len(wire), varint!ReadBody(count) PROVE FramingInv'
        BY <3>1, <3>7, VarintBodyInv
      <3> QED
        BY <3>1, <3>4, <3>5, <3>6, <3>7, Zenon DEF varint!Next, varint!read_frame, varint!Read
    <2>3. CASE UNCHANGED framing_vars
      <3>1. /\ UNCHANGED <<sent, wire, delivered, reader_vars>> /\ ended' = ended /\ reading' = reading
            /\ failed' = failed
        BY <2>3 DEF framing_vars, vars, stream, caller, reader, reader_vars
      <3>2. ended \in BOOLEAN /\ reading \in BOOLEAN /\ (failed # "None" => ~reading)
        BY Zenon DEF FramingInv
      <3> QED
        BY <3>1, <3>2, IdleInv
    <2> QED
      BY <2>1, <2>2, <2>3, Zenon DEF FramingNext
  <1> QED
    BY <1>1, <1>2, PTL DEF FramingSafety

\* For every set of lengths and both codings: messages are returned in order, whole
\* and as they were sent, and a read fails only with cause, wherever the select!
\* that polls read_message or read_frame drops the read.
THEOREM MessagesSafe == FramingSafety => []MessagesAreWhole
  <1>1. FramingInv => MessagesAreWhole
    BY Zenon DEF FramingInv
  <1> QED
    BY <1>1, FramingInductive, PTL
=============================================================================
